------------------------------ MODULE Failover ------------------------------
(***************************************************************************)
(* The failover engine (pkg/proxycore/failover.go) over one sing-box       *)
(* controller (pkg/sbctl/controller.go), as cmd/inside runs it: Switch     *)
(* tries the candidates in order, and each try validates, engages the kill *)
(* switch, reloads the core, checks its health and releases the kill       *)
(* switch.  Switch holds no lock across these steps, so calls of several   *)
(* goroutines interleave; a caller's context may end at any step, which    *)
(* makes Engage, Release and Stop fail; the process may die at any time.   *)
(***************************************************************************)
EXTENDS Integers, FiniteSets, FiniteSetsExt

CONSTANTS N,           \* the number of candidates; they are tried from 1 to N
          Switchers,   \* the goroutines that call Switch
          MaxCalls,    \* bound on the calls of Switch
          MaxFailures, \* failures are counted up to this bound
          Cancels,     \* whether contexts may end
          MaxDeaths    \* bound on deaths of the process

\* Switch returns at once without candidates; failures are counted up to some bound.
ASSUME ValidOptions == N \in Nat \ {0} /\ MaxFailures \in Nat

None == 0

VARIABLES state,     \* Engine.state
          activeID,  \* Engine.activeID
          failures,  \* Engine.failures
          engaged,   \* the kill switch
          pc, cand,  \* per goroutine, the step of Switch and the candidate
          ctxDone,   \* the goroutines whose context has ended
          handle,    \* the controller holds a process
          alive,     \* that process runs
          config,    \* the configuration that process was last told to run
          healthy,   \* the candidate whose health was checked since
          overlap,   \* whether calls of Switch may overlap
          calls, deaths

core == <<handle, alive, config, healthy>>
once == <<overlap, deaths>>
vars == <<state, activeID, failures, engaged, pc, cand, ctxDone,
          handle, alive, config, healthy, overlap, calls, deaths>>

States == {"idle", "isolated", "validating", "starting", "running", "beacon"}

-----------------------------------------------------------------------------
Init ==
  /\ state = "idle" /\ activeID = None /\ failures = [c \in 1..N |-> 0]
  /\ engaged = FALSE
  /\ pc = [s \in Switchers |-> "out"] /\ cand = [s \in Switchers |-> None]
  /\ ctxDone = {}
  /\ handle = FALSE /\ alive = FALSE /\ config = None /\ healthy = None
  /\ overlap \in BOOLEAN /\ calls = 0 /\ deaths = 0

Goto(s, step) == pc' = [pc EXCEPT ![s] = step]

\* The loop moves on to the next candidate, or past the last one.
TryNext_Forever(s) ==
  /\ cand' = [cand EXCEPT ![s] = IF @ = N THEN 1 ELSE @ + 1]
  /\ Goto(s, "backoff")

TryNext(s) ==
  /\ cand' = [cand EXCEPT ![s] = @ + 1]
  /\ Goto(s, IF cand[s] = N THEN "last" ELSE "backoff")

recordFailure(c) ==
  failures' = [failures EXCEPT ![c] = Min({@ + 1, MaxFailures})]

clearFailure(c) == failures' = [failures EXCEPT ![c] = 0]

Switch(s) ==
  /\ pc[s] = "out" /\ calls < MaxCalls /\ calls' = calls + 1
  /\ overlap \/ \A t \in Switchers : pc[t] = "out"
  /\ Goto(s, "backoff") /\ cand' = [cand EXCEPT ![s] = 1]
  /\ ctxDone' = ctxDone \ {s}
  /\ UNCHANGED <<state, activeID, failures, engaged, once>> /\ UNCHANGED core

Cancel(s) ==
  /\ Cancels /\ pc[s] # "out" /\ s \notin ctxDone
  /\ ctxDone' = ctxDone \cup {s}
  /\ UNCHANGED <<state, activeID, failures, engaged, pc, cand, calls, once>>
  /\ UNCHANGED core

\* The wait before a candidate that failed before ends with the context.
BackoffCancelled(s) ==
  /\ pc[s] = "backoff" /\ failures[cand[s]] > 0 /\ s \in ctxDone
  /\ Goto(s, "out")
  /\ UNCHANGED <<state, activeID, failures, engaged, cand, ctxDone, calls, once>>
  /\ UNCHANGED core

BackoffOver(s) ==
  /\ pc[s] = "backoff" /\ (failures[cand[s]] = 0 \/ s \notin ctxDone)
  /\ state' = "validating" /\ Goto(s, "validate")
  /\ UNCHANGED <<activeID, failures, engaged, cand, ctxDone, calls, once>>
  /\ UNCHANGED core

\* validateCandidate: the check, its timeout and the end of the context.
ValidateFails(s) ==
  /\ pc[s] = "validate" /\ recordFailure(cand[s]) /\ TryNext(s)
  /\ UNCHANGED <<state, activeID, engaged, ctxDone, calls, once>>
  /\ UNCHANGED core

ValidateOK(s) ==
  /\ pc[s] = "validate" /\ s \notin ctxDone
  /\ state' = "isolated" /\ Goto(s, "engage")
  /\ UNCHANGED <<activeID, failures, engaged, cand, ctxDone, calls, once>>
  /\ UNCHANGED core

Engage_Dropped(s) ==
  /\ pc[s] = "engage" /\ s \notin ctxDone
  /\ state' = "starting" /\ Goto(s, "reload")
  /\ UNCHANGED <<activeID, failures, engaged, cand, ctxDone, calls, once>>
  /\ UNCHANGED core

Engage(s) ==
  /\ pc[s] = "engage" /\ s \notin ctxDone
  /\ engaged' = TRUE /\ state' = "starting" /\ Goto(s, "reload")
  /\ UNCHANGED <<activeID, failures, cand, ctxDone, calls, once>>
  /\ UNCHANGED core

EngageFails(s) ==
  /\ pc[s] = "engage" /\ s \in ctxDone /\ Goto(s, "out")
  /\ UNCHANGED <<state, activeID, failures, engaged, cand, ctxDone, calls, once>>
  /\ UNCHANGED core

\* ApplyAndReload: a controller that holds a process only signals it, whether
\* or not that process still runs; otherwise it starts one.
ReloadOK(s) ==
  /\ pc[s] = "reload" /\ s \notin ctxDone
  /\ handle' = TRUE /\ healthy' = None
  /\ alive' = (handle => alive)
  /\ config' = IF handle /\ ~alive THEN config ELSE cand[s]
  /\ Goto(s, "health")
  /\ UNCHANGED <<state, activeID, failures, engaged, cand, ctxDone, calls, once>>

\* The file, its check or the start fails, or the context has ended.
ReloadFails(s) ==
  /\ pc[s] = "reload" /\ Goto(s, "stop")
  /\ UNCHANGED <<state, activeID, failures, engaged, cand, ctxDone, calls, once>>
  /\ UNCHANGED core

HealthOK(s) ==
  /\ pc[s] = "health" /\ healthy' = cand[s] /\ Goto(s, "release")
  /\ UNCHANGED <<state, activeID, failures, engaged, cand, ctxDone, calls, once>>
  /\ UNCHANGED <<handle, alive, config>>

HealthFails_Ignored(s) ==
  /\ pc[s] = "health" /\ Goto(s, "release")
  /\ UNCHANGED <<state, activeID, failures, engaged, cand, ctxDone, calls, once>>
  /\ UNCHANGED core

HealthFails(s) ==
  /\ pc[s] = "health" /\ Goto(s, "stop")
  /\ UNCHANGED <<state, activeID, failures, engaged, cand, ctxDone, calls, once>>
  /\ UNCHANGED core

\* Core.Stop does nothing once the context has ended.
CoreStop(s) ==
  IF s \in ctxDone
  THEN UNCHANGED core
  ELSE handle' = FALSE /\ alive' = FALSE /\ config' = None /\ healthy' = None

Stop(s) ==
  /\ pc[s] = "stop" /\ CoreStop(s)
  /\ recordFailure(cand[s]) /\ TryNext(s)
  /\ UNCHANGED <<state, activeID, engaged, ctxDone, calls, once>>

Release(s) ==
  /\ pc[s] = "release" /\ s \notin ctxDone
  /\ engaged' = FALSE /\ Goto(s, "activate")
  /\ UNCHANGED <<state, activeID, failures, cand, ctxDone, calls, once>>
  /\ UNCHANGED core

ReleaseFails(s) ==
  /\ pc[s] = "release" /\ s \in ctxDone /\ Goto(s, "out") /\ CoreStop(s)
  /\ UNCHANGED <<state, activeID, failures, engaged, cand, ctxDone, calls, once>>

Activate(s) ==
  /\ pc[s] = "activate" /\ Goto(s, "out")
  /\ clearFailure(cand[s])
  /\ activeID' = cand[s] /\ state' = "running"
  /\ UNCHANGED <<engaged, cand, ctxDone, calls, once>> /\ UNCHANGED core

\* All candidates have failed.  The error of Engage is not looked at.
LastEngage_Skipped(s) ==
  /\ pc[s] = "last" /\ Goto(s, "beacon")
  /\ UNCHANGED <<state, activeID, failures, engaged, cand, ctxDone, calls, once>>
  /\ UNCHANGED core

LastEngage(s) ==
  /\ pc[s] = "last" /\ Goto(s, "beacon")
  /\ engaged' = (engaged \/ s \notin ctxDone)
  /\ UNCHANGED <<state, activeID, failures, cand, ctxDone, calls, once>>
  /\ UNCHANGED core

Beacon(s) ==
  /\ pc[s] = "beacon" /\ Goto(s, "out") /\ state' = "beacon"
  /\ UNCHANGED <<activeID, failures, engaged, cand, ctxDone, calls, once>>
  /\ UNCHANGED core

\* The sing-box process dies; the controller keeps its handle.
ProcessDies ==
  /\ handle /\ alive /\ deaths < MaxDeaths
  /\ alive' = FALSE /\ deaths' = deaths + 1
  /\ UNCHANGED <<state, activeID, failures, engaged, pc, cand, ctxDone,
                 handle, config, healthy, overlap, calls>>

Step(s) ==
  \/ BackoffCancelled(s) \/ BackoffOver(s) \/ ValidateFails(s) \/ ValidateOK(s)
  \/ Engage(s) \/ EngageFails(s) \/ ReloadOK(s) \/ ReloadFails(s)
  \/ HealthOK(s) \/ HealthFails(s) \/ Stop(s) \/ Release(s) \/ ReleaseFails(s)
  \/ Activate(s) \/ LastEngage(s) \/ Beacon(s)

Next ==
  \/ \E s \in Switchers : Switch(s) \/ Cancel(s) \/ Step(s)
  \/ ProcessDies

\* Every step of a Switch that has begun returns: the core honours its context.
Spec == Init /\ [][Next]_vars /\ \A s \in Switchers : WF_vars(Step(s))

-----------------------------------------------------------------------------
(* Properties. *)

\* The state is well typed.
TypeOK ==
  /\ state \in States /\ activeID \in 0..N
  /\ failures \in [1..N -> 0..MaxFailures] /\ engaged \in BOOLEAN
  /\ cand \in [Switchers -> 0..N + 1] /\ ctxDone \subseteq Switchers
  /\ handle \in BOOLEAN /\ alive \in BOOLEAN
  /\ config \in 0..N /\ healthy \in 0..N
  /\ \A s \in Switchers :
       pc[s] \in {"validate", "engage", "reload", "health", "stop", "release"}
         => cand[s] \in 1..N

\* Switch engages the kill switch before it reloads the core, and it stays
\* engaged until the health of the new core is known, as long as calls do not
\* overlap.
ReloadIsolated ==
  /\ TypeOK
  /\ ~overlap => \A s \in Switchers : pc[s] \in {"reload", "health", "stop"} => engaged

\* Whenever the kill switch is released after a first success, the core was
\* last reloaded for the candidate that is active, or about to be, and passed
\* its health check since; failed and cancelled attempts in between, of any
\* number of candidates, never leave the traffic to anything else.  Calls of
\* several goroutines that overlap can.
ReleasedIsHealthy ==
  LET serving == IF \E s \in Switchers : pc[s] = "activate"
                 THEN cand[CHOOSE s \in Switchers : pc[s] = "activate"]
                 ELSE activeID
  IN  ~overlap /\ ~engaged /\ serving # None => healthy = serving /\ handle

\* Both: the kill switch is engaged around every reload, and released for
\* nothing but a core that passed its health check for the active candidate.
KillSwitchHolds == ReloadIsolated /\ ReleasedIsHealthy

\* When calls of Switch, overlapping or not, have all returned with none of
\* their contexts ended and none of them selected a candidate, the engine is in
\* beacon with the kill switch engaged, in whatever order their steps were taken.
SettlesClosed ==
  (\A s \in Switchers : pc[s] = "out") /\ ctxDone = {} /\ calls > 0 /\ activeID = None
    => state = "beacon" /\ engaged

\* Every Switch returns, through any number of failures and cancellations.
SwitchReturns ==
  \A s \in Switchers : pc[s] # "out" ~> pc[s] = "out"
=============================================================================
