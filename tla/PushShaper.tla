----------------------------- MODULE PushShaper -----------------------------
(***************************************************************************)
(* The queue between the senders and a relay (pkg/relay/sender.go):        *)
(* Enqueue and EnqueueWait append under the mutex and then signal a        *)
(* channel that holds one token; Run takes batches, after a random delay   *)
(* or when a batch is full, and pushes them one by one; when it is closed  *)
(* it fails what is queued.  The mutex is released between reading the     *)
(* length of the queue and taking the batch, and between checking the      *)
(* caller's context and pushing.  Each caller makes one request.           *)
(***************************************************************************)
EXTENDS Integers, Sequences, FiniteSets, FiniteSetsExt

CONSTANTS Callers,
          Async,      \* the callers that use Enqueue and do not wait
          QueueMax, BatchMax

ASSUME SendOptionsNormalized ==
  /\ Async \subseteq Callers
  /\ QueueMax \in Nat \ {0} /\ BatchMax \in Nat \ {0}

VARIABLES queue,    \* the requests that wait, each named by its caller
          wake,     \* there is a token in the wake channel
          pc,       \* where Run is
          batch,    \* the requests Run has dequeued and not finished
          closed,   \* the context of Run is cancelled
          caller,   \* where each caller is
          result,   \* what is in the result channel of each caller
          ctxDone,  \* the callers whose context is cancelled
          sent,     \* the requests the relay has stored, in order
          order     \* the requests that were queued, in order

vars == <<queue, wake, pc, batch, closed, caller, result, ctxDone, sent, order>>

Waiting == {"signal", "waiting"}

-----------------------------------------------------------------------------
(* The callers. *)

Init ==
  /\ queue = <<>> /\ wake = FALSE /\ pc = "top" /\ batch = <<>>
  /\ closed = FALSE /\ caller = [c \in Callers |-> "idle"]
  /\ result = [c \in Callers |-> "none"] /\ ctxDone = {}
  /\ sent = <<>> /\ order = <<>>

Full == Len(queue) >= QueueMax

Enqueue(c) ==
  /\ caller[c] = "idle" /\ ~Full
  /\ queue' = Append(queue, c) /\ order' = Append(order, c)
  /\ caller' = [caller EXCEPT ![c] = "signal"]
  /\ UNCHANGED <<wake, pc, batch, closed, result, ctxDone, sent>>

Refuse(c) ==
  /\ caller[c] = "idle" /\ Full
  /\ caller' = [caller EXCEPT ![c] = "full"]
  /\ UNCHANGED <<queue, wake, pc, batch, closed, result, ctxDone, sent, order>>

\* One token is enough: a signal that finds one is dropped.
Signal(c) ==
  /\ caller[c] = "signal"
  /\ wake' = TRUE
  /\ caller' = [caller EXCEPT ![c] = IF c \in Async THEN "left" ELSE "waiting"]
  /\ UNCHANGED <<queue, pc, batch, closed, result, ctxDone, sent, order>>

CancelCaller(c) ==
  /\ c \notin Async \cup ctxDone /\ caller[c] \in Waiting
  /\ ctxDone' = ctxDone \cup {c}
  /\ UNCHANGED <<queue, wake, pc, batch, closed, caller, result, sent, order>>

Answered(c) ==
  /\ caller[c] = "waiting" /\ result[c] # "none"
  /\ caller' = [caller EXCEPT ![c] = result[c]]
  /\ UNCHANGED <<queue, wake, pc, batch, closed, result, ctxDone, sent, order>>

GivesUp(c) ==
  /\ caller[c] = "waiting" /\ c \in ctxDone
  /\ caller' = [caller EXCEPT ![c] = "cancelled"]
  /\ UNCHANGED <<queue, wake, pc, batch, closed, result, ctxDone, sent, order>>

-----------------------------------------------------------------------------
(* Run. *)

Goto(step) ==
  /\ pc' = step
  /\ UNCHANGED <<queue, batch, closed, caller, result, ctxDone, sent, order>>

\* The top of the loop: the length of the queue decides what comes next.
Top ==
  /\ pc = "top" /\ UNCHANGED wake
  /\ \/ closed /\ Goto("fail")
     \/ ~closed /\ queue = <<>> /\ Goto("idle")
     \/ ~closed /\ queue # <<>> /\ Len(queue) < BatchMax /\ Goto("timed")

FlushDue_Full == pc = "top" /\ ~closed /\ Len(queue) >= BatchMax /\ Goto("dequeue") /\ UNCHANGED wake

\* The batch is full or nextFlushAt has passed.
FlushDue == pc = "top" /\ ~closed /\ queue # <<>> /\ Goto("dequeue") /\ UNCHANGED wake

\* The two waits.  When several cases of the select are ready, any is taken.
Woken ==
  /\ pc \in {"idle", "timed"} /\ wake
  /\ wake' = FALSE /\ Goto("top")

Cancelled ==
  /\ pc \in {"idle", "timed"} /\ closed
  /\ Goto("fail") /\ UNCHANGED wake

Timer == pc = "timed" /\ Goto("top") /\ UNCHANGED wake

dequeue_OffByOne ==
  /\ pc = "dequeue" /\ pc' = "push"
  /\ LET max == Min({BatchMax, Len(queue)})
     IN  /\ batch' = SubSeq(queue, 1, max)
         /\ queue' = SubSeq(queue, max, Len(queue))
  /\ UNCHANGED <<wake, closed, caller, result, ctxDone, sent, order>>

dequeue ==
  /\ pc = "dequeue" /\ pc' = "push"
  /\ LET max == Min({BatchMax, Len(queue)})
     IN  /\ batch' = SubSeq(queue, 1, max)
         /\ queue' = SubSeq(queue, max + 1, Len(queue))
  /\ UNCHANGED <<wake, closed, caller, result, ctxDone, sent, order>>

Answer(C, res) ==
  [c \in Callers |-> IF c \in C \ Async THEN res ELSE result[c]]

\* The caller of the next request has gone away: it is not pushed.
SkipItem ==
  /\ pc = "push" /\ batch # <<>> /\ Head(batch) \in ctxDone
  /\ result' = Answer({Head(batch)}, "err")
  /\ batch' = Tail(batch)
  /\ UNCHANGED <<queue, wake, pc, closed, caller, ctxDone, sent, order>>

StartPush ==
  /\ pc = "push" /\ batch # <<>> /\ Head(batch) \notin ctxDone
  /\ pc' = "pushing"
  /\ UNCHANGED <<queue, wake, batch, closed, caller, result, ctxDone, sent, order>>

\* Relay.Push returns.  An error may hide that the relay stored the message.
PushReturns ==
  /\ pc = "pushing" /\ pc' = "push"
  /\ \E stored \in BOOLEAN, ok \in BOOLEAN :
       /\ ok => stored
       /\ sent' = IF stored THEN Append(sent, Head(batch)) ELSE sent
       /\ result' = Answer({Head(batch)}, IF ok THEN "ok" ELSE "err")
  /\ batch' = Tail(batch)
  /\ UNCHANGED <<queue, wake, closed, caller, ctxDone, order>>

BatchDone == pc = "push" /\ batch = <<>> /\ Goto("top") /\ UNCHANGED wake

failPending_Drop ==
  /\ pc = "fail" /\ pc' = "stopped" /\ queue' = <<>>
  /\ UNCHANGED <<wake, batch, closed, caller, result, ctxDone, sent, order>>

\* The deferred failPending: requests of Enqueue vanish without a word.
failPending ==
  /\ pc = "fail" /\ pc' = "stopped"
  /\ result' = Answer(Range(queue), "err")
  /\ queue' = <<>>
  /\ UNCHANGED <<wake, batch, closed, caller, ctxDone, sent, order>>

Close ==
  /\ ~closed /\ closed' = TRUE
  /\ UNCHANGED <<queue, wake, pc, batch, caller, result, ctxDone, sent, order>>

Run == \/ Top \/ FlushDue \/ Woken \/ Cancelled \/ Timer \/ dequeue \/ SkipItem
       \/ StartPush \/ PushReturns \/ BatchDone \/ failPending

Call(c) == Enqueue(c) \/ Refuse(c)

Returns(c) == Signal(c) \/ Answered(c) \/ GivesUp(c)

Next ==
  \/ Run \/ Close
  \/ \E c \in Callers : Call(c) \/ Returns(c) \/ CancelCaller(c)

\* The goroutine of Run and the callers that have started keep running, and
\* nextFlushAt, which is not moved while the queue is not empty, passes.
Spec ==
  /\ Init /\ [][Next]_vars
  /\ WF_vars(Run) /\ SF_vars(FlushDue)
  /\ \A c \in Callers : WF_vars(Returns(c))

-----------------------------------------------------------------------------
(* Properties. *)

Steps == {"top", "idle", "timed", "dequeue", "push", "pushing", "fail", "stopped"}

\* The state is well typed, and the queue never exceeds QueueMax.
TypeOK ==
  /\ queue \in Seq(Callers) /\ Len(queue) <= QueueMax
  /\ batch \in Seq(Callers) /\ Len(batch) <= BatchMax
  /\ wake \in BOOLEAN /\ closed \in BOOLEAN /\ pc \in Steps
  /\ caller \in [Callers -> Waiting \cup {"idle", "full", "left", "ok", "err",
                                          "cancelled"}]
  /\ result \in [Callers -> {"none", "ok", "err"}] /\ ctxDone \subseteq Callers

\* The requests are stored at most once and in the order they were queued,
\* across batches, failures and callers that went away.
SentInOrder ==
  /\ IsInjective(sent)
  /\ \A i, j \in DOMAIN sent, k, l \in DOMAIN order :
       i < j /\ sent[i] = order[k] /\ sent[j] = order[l] => k < l

\* A caller of EnqueueWait that still waits has its request in the queue or in
\* the batch, or its answer in the channel: no answer is lost on any path.
NoAnswerLost ==
  \A c \in Callers \ Async :
    caller[c] \in Waiting =>
      c \in Range(queue) \cup Range(batch) \/ result[c] # "none"

\* A caller that is told of success has its message in the relay.
OkMeansSent ==
  \A c \in Callers : caller[c] = "ok" => c \in Range(sent)

\* Run never sleeps on an empty wake channel while something is queued, except
\* while the caller that queued it is about to signal: one token is enough for
\* any number of callers.
NoLostWakeup ==
  pc = "idle" /\ queue # <<>> =>
    wake \/ \E c \in Callers : caller[c] = "signal"

\* At no step of Run or of a caller is a request, an answer or a signal lost.
NothingDropped == TypeOK /\ NoAnswerLost /\ OkMeansSent /\ NoLostWakeup

\* A request that is queued before the final failPending ends: its caller is
\* answered or gives up.  (One that is queued after it would wait for ever.)
EveryWaitEnds ==
  \A c \in Callers \ Async :
    caller[c] \in Waiting /\ pc # "stopped" ~> caller[c] \notin Waiting
=============================================================================
