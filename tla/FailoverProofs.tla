--------------------------- MODULE FailoverProofs ---------------------------
(***************************************************************************)
(* Proofs about the failover engine, for any number of candidates, callers *)
(* and calls.  The properties are not inductive: that a released kill      *)
(* switch means a healthy core needs to know what each step of Switch has  *)
(* established, and that at most one call is under way when calls do not   *)
(* overlap; that beacon is closed needs to know what a call about to enter *)
(* it has engaged, and that only a call that selects a candidate released. *)
(***************************************************************************)
EXTENDS Failover, TLAPS

\* The steps of Switch, and "out" of it.
Places == {"out", "backoff", "validate", "engage", "reload", "health", "stop",
           "release", "activate", "last", "beacon"}

\* Where a call works on a candidate.
Trying == Places \ {"out", "last", "beacon"}

\* Types, Boolean and other: what a call works on exists.
Flags ==
  /\ engaged \in BOOLEAN /\ handle \in BOOLEAN /\ alive \in BOOLEAN
  /\ overlap \in BOOLEAN

Counts ==
  /\ state \in States /\ activeID \in 0..N
  /\ failures \in [1..N -> 0..MaxFailures]
  /\ cand \in [Switchers -> 0..N + 1] /\ ctxDone \subseteq Switchers
  /\ config \in 0..N /\ healthy \in 0..N
  /\ pc \in [Switchers -> Places] /\ calls \in Nat
  /\ \A s \in Switchers : pc[s] \in Trying => cand[s] \in 1..N

\* One call of Switch at a time.
Alone == \A s, t \in Switchers : pc[s] # "out" /\ pc[t] # "out" => s = t

\* What the steps of a call have established.
Established(s) ==
  /\ pc[s] \in {"reload", "health", "stop", "release"} => engaged
  /\ pc[s] = "health" => handle
  /\ pc[s] \in {"release", "activate"} => healthy = cand[s] /\ handle

\* Between calls and within them, traffic is let through to the active candidate.
Serving ==
  (~engaged /\ activeID # None /\ \A s \in Switchers : pc[s] # "activate")
    => healthy = activeID /\ handle

\* What holds when calls do not overlap.
InTurn == ~overlap => Alone /\ (\A s \in Switchers : Established(s)) /\ Serving

\* Nobody has selected a candidate, or is about to.
NoneSelected == activeID = None /\ \A s \in Switchers : pc[s] # "activate"

\* A call about to enter beacon has engaged the kill switch, unless its context
\* ended or a candidate was selected.
BeaconEngaged ==
  \A s \in Switchers : pc[s] = "beacon" /\ s \notin ctxDone /\ NoneSelected => engaged

Closing == BeaconEngaged /\ SettlesClosed

\* The inductive invariant.
IInv == Flags /\ Counts /\ InTurn /\ Closing

-----------------------------------------------------------------------------
(* Types *)

\* Counting a failure stays within the bound (recordFailure).
LEMMA FailureCounted ==
  ASSUME NEW n \in 0..MaxFailures
  PROVE  Min({n + 1, MaxFailures}) \in 0..MaxFailures
<1> USE ValidOptions
<1> DEFINE S == {n + 1, MaxFailures}
<1>1. \E x \in S : \A y \in S : x =< y
  <2>1. CASE n + 1 =< MaxFailures BY <2>1
  <2>2. CASE MaxFailures =< n + 1 BY <2>2
  <2> QED BY <2>1, <2>2
<1>2. Min(S) \in S /\ \A y \in S : Min(S) =< y BY <1>1 DEF Min
<1> QED BY <1>2

\* A new engine (NewEngine) is well typed.
LEMMA InitTyped ==
  ASSUME Init
  PROVE  Flags /\ Counts
<1> USE DEF Init
<1>1. Flags BY DEF Flags
<1>2. Counts BY ValidOptions DEF Counts, Places, Trying, States, None
<1> QED BY <1>1, <1>2

\* Every step keeps the flags Boolean.
LEMMA NextFlags ==
  ASSUME Flags, [Next]_vars
  PROVE  Flags'
<1> USE DEF Flags, core, once
<1>1. ASSUME NEW s \in Switchers, Switch(s) \/ Cancel(s) PROVE Flags'
  BY <1>1 DEF Switch, Cancel
<1>2. ASSUME NEW s \in Switchers, Step(s) PROVE Flags'
  <2>1. CASE BackoffCancelled(s) \/ BackoffOver(s) \/ ValidateFails(s) \/ ValidateOK(s)
    BY <2>1 DEF BackoffCancelled, BackoffOver, ValidateFails, ValidateOK
  <2>2. CASE Engage(s) \/ EngageFails(s) BY <2>2 DEF Engage, EngageFails
  <2>3. CASE ReloadOK(s)
    <3>1. (handle => alive) \in BOOLEAN OBVIOUS
    <3> QED BY <2>3, <3>1 DEF ReloadOK
  <2>4. CASE ReloadFails(s) \/ HealthOK(s) \/ HealthFails(s)
    BY <2>4 DEF ReloadFails, HealthOK, HealthFails
  <2>5. CASE Stop(s) BY <2>5 DEF Stop, CoreStop
  <2>6. CASE Release(s) BY <2>6 DEF Release
  <2>7. CASE ReleaseFails(s) BY <2>7 DEF ReleaseFails, CoreStop
  <2>8. CASE Activate(s) \/ Beacon(s) BY <2>8 DEF Activate, Beacon
  <2>9. CASE LastEngage(s)
    <3>1. (engaged \/ s \notin ctxDone) \in BOOLEAN OBVIOUS
    <3> QED BY <2>9, <3>1 DEF LastEngage
  <2> QED BY <1>2, <2>1, <2>2, <2>3, <2>4, <2>5, <2>6, <2>7, <2>8, <2>9 DEF Step
<1>3. CASE ProcessDies BY <1>3 DEF ProcessDies
<1>4. CASE UNCHANGED vars BY <1>4 DEF vars
<1> QED BY <1>1, <1>2, <1>3, <1>4 DEF Next

\* When a candidate fails, its failure is counted and the loop of Switch moves on to
\* a candidate, or past the last one.
LEMMA CandidateFails ==
  ASSUME Counts, NEW s \in Switchers, pc[s] \in Trying,
         recordFailure(cand[s]), TryNext(s)
  PROVE  /\ failures' \in [1..N -> 0..MaxFailures]
         /\ cand' \in [Switchers -> 0..N + 1]
         /\ pc' \in [Switchers -> Places]
         /\ \A t \in Switchers : pc'[t] \in Trying => cand'[t] \in 1..N
<1> USE ValidOptions DEF Counts
<1>1. cand[s] \in 1..N OBVIOUS
<1>2. failures' \in [1..N -> 0..MaxFailures]
  <2> DEFINE n == Min({failures[cand[s]] + 1, MaxFailures})
  <2>1. n \in 0..MaxFailures BY <1>1, FailureCounted
  <2>2. failures' = [failures EXCEPT ![cand[s]] = n] BY DEF recordFailure
  <2> HIDE DEF n
  <2> QED BY <2>1, <2>2
<1>3. cand' \in [Switchers -> 0..N + 1] BY <1>1 DEF TryNext
<1>4. pc' \in [Switchers -> Places] BY DEF TryNext, Goto, Places
<1>5. ASSUME NEW t \in Switchers, pc'[t] \in Trying PROVE cand'[t] \in 1..N
  BY <1>1, <1>5 DEF TryNext, Goto, Trying, Places
<1> QED BY <1>2, <1>3, <1>4, <1>5

\* Every step keeps the rest well typed; in particular a call works on a candidate
\* that exists (the range loop of Switch).
LEMMA NextCounts ==
  ASSUME Counts, [Next]_vars
  PROVE  Counts'
<1> USE DEF Counts, Places, Trying, States, None, Goto, core, once
<1> N \in Nat \ {0} /\ MaxFailures \in Nat BY ValidOptions
<1>1. ASSUME NEW s \in Switchers, Switch(s) PROVE Counts'
  BY <1>1 DEF Switch
<1>2. ASSUME NEW s \in Switchers, Cancel(s) PROVE Counts'
  BY <1>2 DEF Cancel
<1>3. ASSUME NEW s \in Switchers, Step(s) PROVE Counts'
  <2>1. CASE BackoffCancelled(s) BY <2>1 DEF BackoffCancelled
  <2>2. CASE BackoffOver(s) BY <2>2 DEF BackoffOver
  <2>3. CASE ValidateFails(s)
    <3> HIDE DEF Counts
    <3>1. pc[s] \in Trying /\ recordFailure(cand[s]) /\ TryNext(s) BY <2>3 DEF ValidateFails
    <3>2. /\ failures' \in [1..N -> 0..MaxFailures]
          /\ cand' \in [Switchers -> 0..N + 1]
          /\ pc' \in [Switchers -> Places]
          /\ \A t \in Switchers : pc'[t] \in Trying => cand'[t] \in 1..N
      BY <3>1, CandidateFails
    <3> QED BY <2>3, <3>2 DEF Counts, ValidateFails
  <2>4. CASE ValidateOK(s) BY <2>4 DEF ValidateOK
  <2>5. CASE Engage(s) BY <2>5 DEF Engage
  <2>6. CASE EngageFails(s) BY <2>6 DEF EngageFails
  <2>7. CASE ReloadOK(s) BY <2>7 DEF ReloadOK
  <2>8. CASE ReloadFails(s) BY <2>8 DEF ReloadFails
  <2>9. CASE HealthOK(s) BY <2>9 DEF HealthOK
  <2>10. CASE HealthFails(s) BY <2>10 DEF HealthFails
  <2>11. CASE Stop(s)
    <3> HIDE DEF Counts
    <3>1. pc[s] \in Trying /\ recordFailure(cand[s]) /\ TryNext(s) BY <2>11 DEF Stop
    <3>2. /\ failures' \in [1..N -> 0..MaxFailures]
          /\ cand' \in [Switchers -> 0..N + 1]
          /\ pc' \in [Switchers -> Places]
          /\ \A t \in Switchers : pc'[t] \in Trying => cand'[t] \in 1..N
      BY <3>1, CandidateFails
    <3>3. config' \in 0..N /\ healthy' \in 0..N BY <2>11 DEF Counts, Stop, CoreStop
    <3> QED BY <2>11, <3>2, <3>3 DEF Counts, Stop
  <2>12. CASE Release(s) BY <2>12 DEF Release
  <2>13. CASE ReleaseFails(s) BY <2>13 DEF ReleaseFails, CoreStop
  <2>14. CASE Activate(s) BY <2>14 DEF Activate, clearFailure
  <2>15. CASE LastEngage(s) BY <2>15 DEF LastEngage
  <2>16. CASE Beacon(s) BY <2>16 DEF Beacon
  <2> HIDE DEF Counts
  <2> QED BY <1>3, <2>1, <2>2, <2>3, <2>4, <2>5, <2>6, <2>7, <2>8, <2>9, <2>10, <2>11,
             <2>12, <2>13, <2>14, <2>15, <2>16 DEF Step
<1>4. CASE ProcessDies BY <1>4 DEF ProcessDies
<1>5. CASE UNCHANGED vars BY <1>5 DEF vars
<1> HIDE DEF Counts
<1> QED BY <1>1, <1>2, <1>3, <1>4, <1>5 DEF Next
-----------------------------------------------------------------------------
(* Calls that do not overlap *)

\* A step of a call of Switch that is alone keeps it alone, and establishes what the
\* step after it relies on.
LEMMA StepInTurn ==
  ASSUME Flags, Counts, InTurn, ~overlap, NEW s \in Switchers, Step(s)
  PROVE  Alone' /\ (\A t \in Switchers : Established(t)') /\ Serving'
<1>1. pc \in [Switchers -> Places] /\ cand \in [Switchers -> 0..N + 1] BY DEF Counts
<1>2. Alone /\ Established(s) /\ Serving BY DEF InTurn
<1>3. pc[s] # "out"
  BY DEF Step, BackoffCancelled, BackoffOver, ValidateFails, ValidateOK, Engage,
         EngageFails, ReloadOK, ReloadFails, HealthOK, HealthFails, Stop, Release,
         ReleaseFails, Activate, LastEngage, Beacon
<1>4. \A t \in Switchers \ {s} : pc[t] = "out" BY <1>2, <1>3 DEF Alone
<1>5. \A t \in Switchers \ {s} : pc'[t] = "out"
  BY <1>1, <1>4 DEF Step, BackoffCancelled, BackoffOver, ValidateFails, ValidateOK, Engage,
         EngageFails, ReloadOK, ReloadFails, HealthOK, HealthFails, Stop, Release,
         ReleaseFails, Activate, LastEngage, Beacon, Goto, TryNext
<1>6. Alone' BY <1>5 DEF Alone
<1>7. \A t \in Switchers \ {s} : Established(t)' BY <1>5 DEF Established
<1>8. Established(s)' /\ Serving'
  <2> USE <1>1, <1>2, <1>4, <1>5 DEF Established, Serving, Goto, core
  <2>1. CASE BackoffCancelled(s) BY <2>1 DEF BackoffCancelled
  <2>2. CASE BackoffOver(s) BY <2>2 DEF BackoffOver
  <2>3. CASE ValidateFails(s) BY <2>3 DEF ValidateFails, TryNext
  <2>4. CASE ValidateOK(s) BY <2>4 DEF ValidateOK
  <2>5. CASE Engage(s) BY <2>5 DEF Engage
  <2>6. CASE EngageFails(s) BY <2>6 DEF EngageFails
  <2>7. CASE ReloadOK(s) BY <2>7 DEF ReloadOK
  <2>8. CASE ReloadFails(s) BY <2>8 DEF ReloadFails
  <2>9. CASE HealthOK(s) BY <2>9 DEF HealthOK
  <2>10. CASE HealthFails(s) BY <2>10 DEF HealthFails
  <2>11. CASE Stop(s) BY <2>11 DEF Stop, CoreStop, TryNext
  <2>12. CASE Release(s) BY <2>12 DEF Release
  <2>13. CASE ReleaseFails(s) BY <2>13 DEF ReleaseFails, CoreStop
  <2>14. CASE Activate(s) BY <2>14 DEF Activate
  <2>15. CASE LastEngage(s) BY <2>15 DEF LastEngage
  <2>16. CASE Beacon(s) BY <2>16 DEF Beacon
  <2> QED BY <2>1, <2>2, <2>3, <2>4, <2>5, <2>6, <2>7, <2>8, <2>9, <2>10, <2>11,
             <2>12, <2>13, <2>14, <2>15, <2>16 DEF Step
<1> QED BY <1>6, <1>7, <1>8

\* Calls that do not overlap stay so, and keep what they have established.
LEMMA NextInTurn ==
  ASSUME Flags, Counts, InTurn, [Next]_vars
  PROVE  InTurn'
<1>1. overlap' = overlap
  BY DEF Next, vars, Switch, Cancel, ProcessDies, once, Step, BackoffCancelled, BackoffOver,
         ValidateFails, ValidateOK, Engage, EngageFails, ReloadOK, ReloadFails, HealthOK,
         HealthFails, Stop, Release, ReleaseFails, Activate, LastEngage, Beacon
<1> SUFFICES ASSUME ~overlap
             PROVE  Alone' /\ (\A t \in Switchers : Established(t)') /\ Serving'
  BY <1>1 DEF InTurn
<1>2. Alone /\ (\A t \in Switchers : Established(t)) /\ Serving BY DEF InTurn
<1> pc \in [Switchers -> Places] BY DEF Counts
<1>3. ASSUME NEW s \in Switchers, Switch(s) PROVE
        Alone' /\ (\A t \in Switchers : Established(t)') /\ Serving'
  BY <1>2, <1>3 DEF Switch, Goto, core, Alone, Established, Serving
<1>4. ASSUME NEW s \in Switchers, Cancel(s) PROVE
        Alone' /\ (\A t \in Switchers : Established(t)') /\ Serving'
  BY <1>2, <1>4 DEF Cancel, core, Alone, Established, Serving
<1>5. ASSUME NEW s \in Switchers, Step(s) PROVE
        Alone' /\ (\A t \in Switchers : Established(t)') /\ Serving'
  BY <1>5, StepInTurn
<1>6. CASE ProcessDies
  BY <1>2, <1>6 DEF ProcessDies, Alone, Established, Serving
<1>7. CASE UNCHANGED vars
  BY <1>2, <1>7 DEF vars, Alone, Established, Serving
<1> QED BY <1>3, <1>4, <1>5, <1>6, <1>7 DEF Next

-----------------------------------------------------------------------------
(* Calls that may overlap *)

\* A step of Switch after which no candidate is selected: none was before, the kill
\* switch was not released by it, a call enters the last stretch only with the kill
\* switch engaged or its context ended, and returns only from there or cancelled.
LEMMA StepClosing ==
  ASSUME Flags, Counts, Closing, NEW s \in Switchers, Step(s), NoneSelected'
  PROVE  /\ NoneSelected
         /\ engaged => engaged'
         /\ ctxDone' = ctxDone
         /\ \A t \in Switchers : pc'[t] = "beacon" /\ pc[t] # "beacon" /\ t \notin ctxDone
                                 => engaged'
         /\ pc'[s] = "out" => s \in ctxDone \/ (pc[s] = "beacon" /\ state' = "beacon")
<1>1. pc \in [Switchers -> Places] /\ cand \in [Switchers -> 0..N + 1] BY DEF Counts
<1>2. pc[s] = "activate" => cand[s] # None BY ValidOptions DEF Counts, Trying, Places, None
<1> QED
  <2> USE <1>1, <1>2 DEF NoneSelected, Goto
  <2>1. CASE BackoffCancelled(s) BY <2>1 DEF BackoffCancelled
  <2>2. CASE BackoffOver(s) BY <2>2 DEF BackoffOver
  <2>3. CASE ValidateFails(s) BY <2>3 DEF ValidateFails, TryNext
  <2>4. CASE ValidateOK(s) BY <2>4 DEF ValidateOK
  <2>5. CASE Engage(s) BY <2>5 DEF Engage
  <2>6. CASE EngageFails(s) BY <2>6 DEF EngageFails
  <2>7. CASE ReloadOK(s) BY <2>7 DEF ReloadOK
  <2>8. CASE ReloadFails(s) BY <2>8 DEF ReloadFails
  <2>9. CASE HealthOK(s) BY <2>9 DEF HealthOK
  <2>10. CASE HealthFails(s) BY <2>10 DEF HealthFails
  <2>11. CASE Stop(s) BY <2>11 DEF Stop, CoreStop, TryNext
  <2>12. CASE Release(s) BY <2>12 DEF Release
  <2>13. CASE ReleaseFails(s) BY <2>13 DEF ReleaseFails, CoreStop
  <2>14. CASE Activate(s) BY <2>14 DEF Activate
  <2>15. CASE LastEngage(s) BY <2>15 DEF LastEngage
  <2>16. CASE Beacon(s) BY <2>16 DEF Beacon
  <2> QED BY <2>1, <2>2, <2>3, <2>4, <2>5, <2>6, <2>7, <2>8, <2>9, <2>10, <2>11,
             <2>12, <2>13, <2>14, <2>15, <2>16 DEF Step

\* Every step, of calls that overlap or not, keeps calls that end in beacon closed.
LEMMA NextClosing ==
  ASSUME Flags, Counts, Closing, [Next]_vars
  PROVE  Closing'
<1>1. pc \in [Switchers -> Places] BY DEF Counts
<1>2. BeaconEngaged /\ SettlesClosed BY DEF Closing
<1>3. ASSUME NEW s \in Switchers, Step(s) PROVE Closing'
  <2>1. BeaconEngaged' BY <1>2, <1>3, StepClosing DEF BeaconEngaged
  <2>2. SettlesClosed'
    <3> SUFFICES ASSUME \A t \in Switchers : pc'[t] = "out", ctxDone' = {}, activeID' = None
                 PROVE  state' = "beacon" /\ engaged'
      BY DEF SettlesClosed
    <3>1. NoneSelected' BY DEF NoneSelected
    <3>2. pc[s] = "beacon" /\ state' = "beacon" /\ s \notin ctxDone
      BY <1>3, <3>1, StepClosing
    <3>3. engaged BY <1>2, <1>3, <3>1, <3>2, StepClosing DEF BeaconEngaged
    <3> QED BY <1>3, <3>1, <3>2, <3>3, StepClosing
  <2> QED BY <2>1, <2>2 DEF Closing
<1>4. ASSUME NEW s \in Switchers, Switch(s) PROVE Closing'
  BY <1>1, <1>2, <1>4 DEF Switch, Goto, Closing, BeaconEngaged, NoneSelected, SettlesClosed
<1>5. ASSUME NEW s \in Switchers, Cancel(s) PROVE Closing'
  BY <1>1, <1>2, <1>5 DEF Cancel, Closing, BeaconEngaged, NoneSelected, SettlesClosed
<1>6. CASE ProcessDies
  BY <1>2, <1>6 DEF ProcessDies, Closing, BeaconEngaged, NoneSelected, SettlesClosed
<1>7. CASE UNCHANGED vars
  BY <1>2, <1>7 DEF vars, Closing, BeaconEngaged, NoneSelected, SettlesClosed
<1> QED BY <1>3, <1>4, <1>5, <1>6, <1>7 DEF Next

-----------------------------------------------------------------------------
(* The theorems *)

\* IInv is an inductive invariant of the engine.
LEMMA Inductive == Spec => []IInv
<1>1. Init => IInv
  <2> SUFFICES ASSUME Init PROVE IInv OBVIOUS
  <2>1. Flags /\ Counts BY InitTyped
  <2>2. InTurn
    BY DEF Init, InTurn, Alone, Established, Serving
  <2>3. Closing
    BY DEF Init, Closing, BeaconEngaged, SettlesClosed
  <2> QED BY <2>1, <2>2, <2>3 DEF IInv
<1>2. IInv /\ [Next]_vars => IInv'
  BY NextFlags, NextCounts, NextInTurn, NextClosing DEF IInv
<1> QED BY <1>1, <1>2, PTL DEF Spec

\* For any number of candidates, callers, calls, cancellations and deaths of the
\* process: calls of Switch that do not overlap engage the kill switch around every
\* reload, and release it for nothing but a core that passed its health check for
\* the candidate that is active, or about to be.
THEOREM KillSwitchSafe == Spec => []KillSwitchHolds
<1>1. IInv => KillSwitchHolds
  <2> SUFFICES ASSUME IInv PROVE KillSwitchHolds OBVIOUS
  <2>1. TypeOK
    <3>1. Flags /\ Counts BY DEF IInv
    <3>2. engaged \in BOOLEAN /\ handle \in BOOLEAN /\ alive \in BOOLEAN BY <3>1 DEF Flags
    <3> QED BY <3>1, <3>2 DEF Counts, TypeOK, Trying, Places
  <2>2. ReloadIsolated BY <2>1 DEF IInv, InTurn, Established, ReloadIsolated
  <2>3. ReleasedIsHealthy
    <3> DEFINE some == CHOOSE s \in Switchers : pc[s] = "activate"
    <3>1. CASE \E s \in Switchers : pc[s] = "activate"
      <4>1. some \in Switchers /\ pc[some] = "activate" BY <3>1
      <4>2. ~overlap => healthy = cand[some] /\ handle BY <4>1 DEF IInv, InTurn, Established
      <4> QED BY <3>1, <4>2 DEF ReleasedIsHealthy
    <3>2. CASE \A s \in Switchers : pc[s] # "activate"
      BY <3>2 DEF IInv, InTurn, Serving, ReleasedIsHealthy
    <3> QED BY <3>1, <3>2
  <2> QED BY <2>2, <2>3 DEF KillSwitchHolds
<1> QED BY <1>1, Inductive, PTL

\* For any number of candidates, callers and calls that overlap in any way: when all
\* have returned, none cancelled and none with a candidate selected, the engine is
\* in beacon with the kill switch engaged.
THEOREM SettlesClosedSafe == Spec => []SettlesClosed
<1>1. IInv => SettlesClosed BY DEF IInv, Closing
<1> QED BY <1>1, Inductive, PTL
=============================================================================
