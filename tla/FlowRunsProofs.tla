--------------------------- MODULE FlowRunsProofs ---------------------------
(***************************************************************************)
(* Theorems about FlowRuns for every number of runs and every set of        *)
(* bindings and settings.                                                   *)
(*                                                                         *)
(* The inductive invariant adds to the properties: only started runs have   *)
(* anything (Registered), a result settles only for a run that is over or   *)
(* stopped (SettledEnded), holders are open runs (HoldersOpen), and a run   *)
(* that waits for pending changes under an exclusive scope holds it         *)
(* (SettlingHolds).                                                         *)
(***************************************************************************)
EXTENDS FlowRuns, TLAPS

Registered ==
  \A r \in Runs : IF phase[r] = "idle" THEN result[r] = "none" ELSE binding[r] \in Bindings
SettledEnded == \A r \in Runs : result[r] # "none" => Over(r) \/ Stopped(r)
HoldersOpen == active \subseteq Open /\ tickets \subseteq Open /\ \A q \in Runs : heldBy[q] \subseteq Open
SettlingHolds ==
  \A r \in Runs :
    phase[r] = "settling" /\ result[r] = "none" => S(r).exclusive = "none" \/ r \in active

IInv == TypeOK /\ Registered /\ SettledEnded /\ HoldersOpen /\ SettlingHolds /\ ScopesExclusive

\* Overlapping is symmetric, as the code's comparison of two scopes is.
LEMMA OverlapsSymmetric == ASSUME NEW s, NEW t, Overlaps(s, t) PROVE Overlaps(t, s)
  BY DEF Overlaps

LEMMA InitInv == Init => IInv
<1> SUFFICES ASSUME Init PROVE IInv
  OBVIOUS
<1>1. TypeOK
  BY DEF Init, TypeOK, Phases
<1>2. Registered /\ SettledEnded /\ SettlingHolds
  BY DEF Init, Registered, SettledEnded, SettlingHolds, Over, Outcomes
<1>3. HoldersOpen /\ ScopesExclusive
  BY DEF Init, HoldersOpen, ScopesExclusive
<1> QED
  BY <1>1, <1>2, <1>3 DEF IInv

\* Only the phase of one run changes, and it was not idle: nothing is disturbed
\* unless the run had ended or now waits for pending changes.
LEMMA PhaseStep ==
  ASSUME IInv, NEW r \in Runs, NEW p \in Phases \ {"idle", "settling"},
         phase[r] # "idle", ~Over(r),
         phase' = [phase EXCEPT ![r] = p],
         UNCHANGED <<binding, result, stop, ready, active, tickets, allowed>>,
         heldBy' \in [Runs -> SUBSET Runs],
         \A q \in Runs : heldBy'[q] \subseteq Open
  PROVE  IInv'
<1> USE DEF IInv
<1>1. TypeOK'
  BY DEF TypeOK
<1>2. Registered'
  BY DEF Registered, TypeOK
<1>3. SettledEnded'
  BY DEF SettledEnded, TypeOK, Over, Stopped
<1>4. Open' = Open
  BY DEF Open, TypeOK
<1>5. HoldersOpen'
  BY <1>4 DEF HoldersOpen
<1>6. SettlingHolds'
  BY DEF SettlingHolds, S, TypeOK
<1>7. ScopesExclusive'
  BY DEF ScopesExclusive, S
<1> QED
  BY <1>1, <1>2, <1>3, <1>5, <1>6, <1>7

\* A run that is neither settled nor kept out may have its scope.
LEMMA EnterStep ==
  ASSUME IInv, NEW r \in Runs, r \in Open, ~Over(r), r \in active \/ Blockers(r) = {},
         Enter(r)
  PROVE  IInv'
<1> USE DEF IInv
<1>1. /\ phase' = [phase EXCEPT ![r] = IF Changes(r) = {} THEN "executing" ELSE "settling"]
      /\ UNCHANGED <<binding, result, stop, allowed, heldBy>>
  BY DEF Enter
<1>2. phase[r] # "idle" /\ result[r] = "none"
  BY DEF Open
<1>3. TypeOK'
  BY <1>1 DEF TypeOK, Enter, Phases, Running
<1>4. Registered'
  BY <1>1, <1>2 DEF Registered, TypeOK
<1>5. SettledEnded'
  BY <1>1, <1>2 DEF SettledEnded, TypeOK, Over, Stopped
<1>6. Open' = Open
  BY <1>1, <1>2 DEF Open, TypeOK
<1>7. HoldersOpen'
  BY <1>1, <1>6 DEF HoldersOpen, Enter
<1>8. SettlingHolds'
  <2>1. S(r).exclusive # "none" => r \in active'
    BY DEF Enter
  <2>2. active \subseteq active'
    BY DEF Enter
  <2> QED
    BY <1>1, <2>1, <2>2 DEF SettlingHolds, S, TypeOK
<1>9. ScopesExclusive'
  <2>1. active' \subseteq active \union {r}
    BY DEF Enter
  <2>2. ASSUME NEW h \in active, h # r, Overlaps(S(h), S(r)) PROVE h \in allowed[r] \/ r \in allowed[h]
    <3>1. CASE r \in active
      BY <2>2, <3>1 DEF ScopesExclusive
    <3>2. CASE Blockers(r) = {}
      BY <2>2, <3>2 DEF Blockers, Conflicts
    <3> QED
      BY <3>1, <3>2
  <2>3. ASSUME NEW h \in active', NEW k \in active', h # k, Overlaps(S(h), S(k))
        PROVE  h \in allowed[k] \/ k \in allowed[h]
    <3>1. CASE k = r
      BY <2>1, <2>2, <2>3, <3>1
    <3>2. CASE h = r
      BY <2>1, <2>2, <2>3, <3>2, OverlapsSymmetric
    <3>3. CASE h # r /\ k # r
      BY <2>1, <2>3, <3>3 DEF ScopesExclusive
    <3> QED
      BY <3>1, <3>2, <3>3
  <2> QED
    BY <1>1, <2>3 DEF ScopesExclusive, S
<1> QED
  BY <1>3, <1>4, <1>5, <1>7, <1>8, <1>9

\* Only abort flags change, and none is taken back.
LEMMA StopStep ==
  ASSUME IInv, stop' \in [Runs -> {"no", "abort", "timeout"}],
         \A q \in Runs : Stopped(q) => stop'[q] # "no",
         UNCHANGED <<binding, phase, result, ready, active, tickets, allowed, heldBy>>
  PROVE  IInv'
<1> USE DEF IInv
<1>1. TypeOK'
  BY DEF TypeOK
<1>2. Registered' /\ SettledEnded'
  BY DEF Registered, SettledEnded, Over, Stopped
<1>3. Open' = Open
  BY DEF Open
<1>4. HoldersOpen' /\ SettlingHolds' /\ ScopesExclusive'
  BY <1>3 DEF HoldersOpen, SettlingHolds, ScopesExclusive, S
<1> QED
  BY <1>1, <1>2, <1>4

LEMMA AbortedStops ==
  ASSUME TypeOK, NEW runs
  PROVE  /\ Aborted(runs) \in [Runs -> {"no", "abort", "timeout"}]
         /\ \A q \in Runs : Stopped(q) => Aborted(runs)[q] # "no"
  BY DEF Aborted, Stopped, TypeOK

\* The first continuation of a run.
LEMMA GoStep == ASSUME IInv, NEW r \in Runs, Go(r) PROVE IInv'
<1> USE DEF IInv
<1>1. phase[r] = "scheduled" /\ ~Over(r)
  BY DEF Go, MayGo, Over, Outcomes
<1>2. ASSUME NEW p \in {"abandoned", "refused", "waiting"}, End(r, p) PROVE IInv'
  BY <1>1, <1>2, PhaseStep DEF End, Phases, Outcomes, HoldersOpen, TypeOK
<1>3. ASSUME ~Stopped(r), r \in active \/ ~MustWait(r), Enter(r) PROVE IInv'
  <2>1. r \in Open
    BY <1>1, <1>3 DEF SettledEnded, Open
  <2>2. r \in active \/ Blockers(r) = {}
    BY <1>3 DEF MustWait
  <2> QED
    BY <1>1, <1>3, <2>1, <2>2, EnterStep
<1> QED
  BY <1>2, <1>3 DEF Go

LEMMA WakeStep == ASSUME IInv, NEW r \in Runs, Wake(r) PROVE IInv'
<1> USE DEF IInv
<1>1. phase[r] = "waiting" /\ ~Over(r)
  BY DEF Wake, MayWake, Over, Outcomes
<1>2. CASE Stopped(r)
  <2>1. End(r, "abandoned")
    BY <1>2 DEF Wake
  <2> QED
    BY <1>1, <2>1, PhaseStep DEF End, Phases, Outcomes, HoldersOpen, TypeOK
<1>3. CASE ~Stopped(r)
  <2>1. r \in Open
    BY <1>1, <1>3 DEF SettledEnded, Open
  <2>2. Enter(r) /\ Blockers(r) = {}
    BY <1>3 DEF Wake, MayWake, MustWait
  <2> QED
    BY <1>1, <2>1, <2>2, EnterStep
<1> QED
  BY <1>2, <1>3

\* The steps that only move the phase of a run.
LEMMA MoveStep ==
  ASSUME IInv, NEW r \in Runs, Start(r) \/ StopRunning(r) \/ Finish(r) PROVE IInv'
<1> USE DEF IInv
<1>1. phase[r] # "idle" /\ ~Over(r)
  BY DEF Start, MayStart, StopRunning, MayStop, Finish, Running, Over, Outcomes
<1>2. PICK p \in {"abandoned", "executing", "done"} : End(r, p)
  BY DEF Start, StopRunning, Finish
<1> QED
  BY <1>1, <1>2, PhaseStep DEF End, Phases, Running, Outcomes, HoldersOpen, TypeOK

LEMMA ReturnStep == ASSUME IInv, NEW r \in Runs, Return(r) PROVE IInv'
<1> USE DEF IInv
<1>1. /\ UNCHANGED <<binding, phase, stop, ready, allowed>>
      /\ active' = active \ {r} /\ tickets' = tickets \ {r}
      /\ heldBy' = [q \in Runs |-> heldBy[q] \ {r}]
  BY DEF Return
<1>2. Over(r) \/ Stopped(r)
  BY DEF Return, MayReturn
<1>3. result' \in [Runs -> Outcomes \union {"none", "unknown"}]
  <2>1. Over(r) => phase[r] \in Outcomes
    BY DEF Over
  <2> QED
    BY <2>1 DEF Return, TypeOK, Outcomes
<1>4. \A q \in Runs : q # r => result'[q] = result[q]
  BY DEF Return, TypeOK
<1>5. TypeOK'
  BY <1>1, <1>3 DEF TypeOK
<1>6. Registered'
  <2>1. phase[r] # "idle"
    BY DEF Return, MayReturn, Open
  <2> QED
    BY <1>1, <1>4, <2>1 DEF Registered
<1>7. SettledEnded'
  BY <1>1, <1>2, <1>4 DEF SettledEnded, Over, Stopped
<1>8. Open \ {r} \subseteq Open'
  BY <1>1, <1>4 DEF Open
<1>9. HoldersOpen'
  BY <1>1, <1>8 DEF HoldersOpen
<1>10. result'[r] # "none"
  <2>1. ~Over(r) \/ phase[r] # "none"
    BY DEF Over, Outcomes
  <2> QED
    BY <2>1 DEF Return, TypeOK
<1>11. SettlingHolds'
  BY <1>1, <1>4, <1>10 DEF SettlingHolds, S
<1>12. ScopesExclusive'
  BY <1>1 DEF ScopesExclusive, S
<1> QED
  BY <1>5, <1>6, <1>7, <1>9, <1>11, <1>12

LEMMA AcceptStep == ASSUME IInv, NEW r \in Runs, NEW b \in Bindings, Accept(r, b) PROVE IInv'
<1> USE DEF IInv
<1> DEFINE s == Settings[b]
<1>1. /\ phase[r] = "idle"
      /\ binding' = [binding EXCEPT ![r] = b]
      /\ phase' = [phase EXCEPT ![r] = "scheduled"]
      /\ ready' = [ready EXCEPT ![r] = ~s.debounced]
      /\ stop' = IF s.concurrency = "latest_wins" THEN Aborted(Jobs(b)) ELSE stop
      /\ UNCHANGED <<result, heldBy>>
  BY DEF Accept
<1>2. /\ tickets' \in {tickets, tickets \union {r}}
      /\ active' \in {active, active \union {r}}
      /\ active' # active => Conflicts(s) = {}
  BY DEF Accept
<1>3. allowed' = [allowed EXCEPT ![r] =
                    {q \in Open : s.settles /\ S(q).tracked /\ S(q).form = s.form}]
  BY DEF Accept
<1>4. result[r] = "none" /\ r \notin Open
  BY <1>1 DEF Registered, Open
<1>5. r \notin active
  BY <1>4 DEF HoldersOpen
<1>6. TypeOK'
  <2>1. s.debounced \in BOOLEAN
    BY FlowRunsAssumption
  <2>2. ready' \in [Runs -> BOOLEAN]
    BY <1>1, <2>1 DEF TypeOK
  <2>3. stop' \in [Runs -> {"no", "abort", "timeout"}]
    BY <1>1, AbortedStops DEF TypeOK
  <2>4. allowed' \in [Runs -> SUBSET Runs]
    BY <1>3 DEF TypeOK, Open
  <2> QED
    BY <1>1, <1>2, <2>2, <2>3, <2>4 DEF TypeOK, Phases
<1>7. Registered'
  BY <1>1, <1>4 DEF Registered, TypeOK
<1>8. SettledEnded'
  <2>1. \A q \in Runs : Stopped(q) => stop'[q] # "no"
    BY <1>1, AbortedStops DEF Stopped
  <2> QED
    BY <1>1, <1>4, <2>1 DEF SettledEnded, Over, Stopped, TypeOK, Outcomes
<1>9. Open' = Open \union {r}
  BY <1>1, <1>4 DEF Open, TypeOK
<1>10. HoldersOpen'
  BY <1>1, <1>2, <1>9 DEF HoldersOpen
<1>11. SettlingHolds'
  BY <1>1, <1>2 DEF SettlingHolds, S, TypeOK
<1>12. ScopesExclusive'
  <2>1. S(r)' = s /\ \A h \in active : S(h)' = S(h)
    BY <1>1, <1>5 DEF S, TypeOK
  <2>2. \A h \in active : allowed'[h] = allowed[h]
    BY <1>3, <1>5 DEF TypeOK
  <2>3. CASE active' = active
    BY <2>1, <2>2, <2>3 DEF ScopesExclusive
  <2>4. CASE active' = active \union {r} /\ Conflicts(s) = {}
    <3>1. \A h \in active : ~Overlaps(S(h), s) /\ ~Overlaps(s, S(h))
      BY <2>4, OverlapsSymmetric DEF Conflicts
    <3>2. \A h, k \in active : h # k /\ Overlaps(S(h), S(k)) => h \in allowed[k] \/ k \in allowed[h]
      BY DEF ScopesExclusive
    <3> HIDE DEF s
    <3>3. ASSUME NEW h \in active', NEW k \in active', h # k, Overlaps(S(h)', S(k)')
          PROVE  h \in allowed'[k] \/ k \in allowed'[h]
      <4>1. h \in active /\ k \in active
        BY <2>1, <2>4, <3>1, <3>3
      <4> QED
        BY <2>1, <2>2, <3>2, <3>3, <4>1
    <3> QED
      BY <3>3 DEF ScopesExclusive, Overlaps
  <2> QED
    BY <1>2, <2>3, <2>4
<1> QED
  BY <1>6, <1>7, <1>8, <1>10, <1>11, <1>12

LEMMA DebounceStep == ASSUME IInv, NEW r \in Runs, DebounceEnds(r) PROVE IInv'
<1> USE DEF IInv
<1>1. /\ ready' = [ready EXCEPT ![r] = TRUE]
      /\ UNCHANGED <<binding, phase, result, stop, active, tickets, allowed, heldBy>>
  BY DEF DebounceEnds
<1>2. TypeOK'
  BY <1>1 DEF TypeOK
<1>3. Open' = Open
  BY <1>1 DEF Open
<1>4. Registered' /\ SettledEnded' /\ HoldersOpen' /\ SettlingHolds' /\ ScopesExclusive'
  BY <1>1, <1>3 DEF Registered, SettledEnded, HoldersOpen, SettlingHolds, ScopesExclusive,
                    S, Over, Stopped
<1> QED
  BY <1>2, <1>4

LEMMA DeadlineStep == ASSUME IInv, NEW r \in Runs, SettleDeadline(r) PROVE IInv'
<1> USE DEF IInv
<1>1. /\ phase[r] = "settling" /\ phase' = [phase EXCEPT ![r] = "refused"]
      /\ stop' = Aborted(Changes(r))
      /\ UNCHANGED <<binding, result, ready, active, tickets, allowed, heldBy>>
  BY DEF SettleDeadline
<1>2. /\ stop' \in [Runs -> {"no", "abort", "timeout"}]
      /\ \A q \in Runs : Stopped(q) => stop'[q] # "no"
  BY <1>1, AbortedStops
<1>3. TypeOK'
  BY <1>1, <1>2 DEF TypeOK, Phases, Outcomes
<1>4. Registered' /\ SettledEnded' /\ SettlingHolds'
  BY <1>1, <1>2 DEF Registered, SettledEnded, SettlingHolds, S, Over, Outcomes, Stopped, TypeOK
<1>5. Open' = Open
  BY <1>1 DEF Open, TypeOK
<1>6. HoldersOpen' /\ ScopesExclusive'
  BY <1>1, <1>5 DEF HoldersOpen, ScopesExclusive, S
<1> QED
  BY <1>3, <1>4, <1>6

\* A question: only the phase of its run and the clocks change, and its run is
\* open, since the page was quiet.
LEMMA AskStep == ASSUME IInv, NEW r \in Runs, Ask(r) \/ Answer(r) PROVE IInv'
<1> USE DEF IInv
<1>1. phase[r] \in Running /\ Quiet
  BY DEF Ask, Answer, Running
<1>2. ~Over(r) /\ phase[r] # "idle"
  BY <1>1 DEF Running, Over, Outcomes
<1>3. r \in Open
  BY <1>1, <1>2 DEF Quiet, MayStop, SettledEnded, Open
<1>4. /\ heldBy' \in [Runs -> SUBSET Runs]
      /\ \A q \in Runs : heldBy'[q] \subseteq Open
  BY <1>3 DEF Ask, Answer, HoldersOpen, TypeOK
<1>5. PICK p \in {"asking", "answered"} : phase' = [phase EXCEPT ![r] = p]
  BY DEF Ask, Answer
<1>6. UNCHANGED <<binding, result, stop, ready, active, tickets, allowed>>
  BY DEF Ask, Answer
<1> QED
  BY <1>2, <1>4, <1>5, <1>6, PhaseStep DEF Phases, Running

LEMMA TimeoutStep == ASSUME IInv, NEW r \in Runs, Timeout(r) PROVE IInv'
  BY StopStep DEF Timeout, IInv, TypeOK, Stopped

LEMMA AbortStep == ASSUME IInv, NEW runs, Abort(runs) PROVE IInv'
  BY StopStep, AbortedStops DEF Abort, IInv

LEMMA NextInv == IInv /\ [Next]_vars => IInv'
<1> SUFFICES ASSUME IInv, [Next]_vars PROVE IInv'
  OBVIOUS
<1>1. CASE UNCHANGED vars
  BY <1>1 DEF vars, IInv, TypeOK, Registered, SettledEnded, HoldersOpen, SettlingHolds,
              ScopesExclusive, S, Over, Stopped, Open
<1>2. ASSUME NEW r \in Runs, Go(r) \/ Wake(r) \/ Return(r) PROVE IInv'
  BY <1>2, GoStep, WakeStep, ReturnStep
<1>3. ASSUME NEW r \in Runs, Start(r) \/ StopRunning(r) \/ Finish(r) PROVE IInv'
  BY <1>3, MoveStep
<1>4. ASSUME NEW r \in Runs, NEW b \in Bindings, Accept(r, b) PROVE IInv'
  BY <1>4, AcceptStep
<1>5. ASSUME NEW r \in Runs, DebounceEnds(r) \/ SettleDeadline(r) PROVE IInv'
  BY <1>5, DebounceStep, DeadlineStep
<1>6. ASSUME NEW r \in Runs, Ask(r) \/ Answer(r) PROVE IInv'
  BY <1>6, AskStep
<1>7. ASSUME NEW r \in Runs, Timeout(r) \/ Cancel(r) PROVE IInv'
  BY <1>7, TimeoutStep, AbortStep DEF Cancel
<1>8. CASE Dispose
  BY <1>8, AbortStep DEF Dispose
<1> QED
  BY <1>1, <1>2, <1>3, <1>4, <1>5, <1>6, <1>7, <1>8 DEF Next

THEOREM Invariance == Spec => []IInv
  BY InitInv, NextInv, PTL DEF Spec

-----------------------------------------------------------------------------
(* The properties.                                                          *)

\* Every variable of the page's runtime keeps its type.
THEOREM TypeCorrect == Spec => []TypeOK
<1>1. IInv => TypeOK
  BY DEF IInv
<1> QED
  BY <1>1, Invariance, PTL

\* Overlapping scopes are held together only by a run and its pending changes.
THEOREM ScopesAreExclusive == Spec => []ScopesExclusive
<1>1. IInv => ScopesExclusive
  BY DEF IInv
<1> QED
  BY <1>1, Invariance, PTL

\* A run whose result has settled is in nobody's way.
THEOREM SettledRunsLeaveNothing == Spec => []SettledLeavesNothing
<1>1. IInv => SettledLeavesNothing
  BY DEF IInv, HoldersOpen, SettledLeavesNothing, Open
<1> QED
  BY <1>1, Invariance, PTL

\* Only the continuations of a run itself start it.
LEMMA WhoStarts ==
  ASSUME TypeOK, [Next]_vars, NEW r \in Runs,
         phase[r] \notin Running, phase'[r] \in Running
  PROVE  /\ phase'[r] = "executing" /\ ~Stopped(r)
         /\ \/ Enter(r) /\ (r \in active \/ Blockers(r) = {}) /\ phase[r] \in {"scheduled", "waiting"}
            \/ phase[r] = "settling" /\ Changes(r) = {}
<1> USE DEF Running
<1> DEFINE G == /\ phase'[r] = "executing" /\ ~Stopped(r)
                /\ \/ Enter(r) /\ (r \in active \/ Blockers(r) = {}) /\ phase[r] \in {"scheduled", "waiting"}
                   \/ phase[r] = "settling" /\ Changes(r) = {}
<1>1. ASSUME NEW q \in Runs, NEW p, p \notin Running, phase' = [phase EXCEPT ![q] = p] PROVE FALSE
  BY <1>1 DEF TypeOK
<1>2. ASSUME NEW q \in Runs, NEW p, phase' = [phase EXCEPT ![q] = p] PROVE q = r /\ phase'[r] = p
  BY <1>2 DEF TypeOK
<1>3. ASSUME NEW q \in Runs, Go(q) PROVE G
  <2>1. CASE Enter(q)
    <3>1. q = r /\ phase'[r] = "executing"
      BY <2>1, <1>2 DEF Enter
    <3>2. ~Stopped(r) /\ (r \in active \/ ~MustWait(r)) /\ phase[r] = "scheduled"
      <4>1. phase'[r] \notin {"abandoned", "refused", "waiting"}
        BY <3>1
      <4>2. \A o \in {"abandoned", "refused", "waiting"} : ~End(r, o)
        BY <4>1 DEF End, TypeOK
      <4> QED
        BY <1>3, <3>1, <4>2 DEF Go, MayGo
    <3> QED
      BY <2>1, <3>1, <3>2 DEF MustWait
  <2>2. ASSUME NEW o \in {"abandoned", "refused", "waiting"}, End(q, o) PROVE FALSE
    BY <2>2, <1>1 DEF End
  <2> QED
    BY <1>3, <2>1, <2>2 DEF Go
<1>4. ASSUME NEW q \in Runs, Wake(q) PROVE G
  <2>1. CASE Stopped(q)
    BY <1>4, <2>1, <1>1 DEF Wake, End
  <2>2. CASE ~Stopped(q)
    <3>1. Enter(q) /\ ~MustWait(q) /\ phase[q] = "waiting"
      BY <1>4, <2>2 DEF Wake, MayWake
    <3>2. q = r /\ phase'[r] = "executing"
      BY <3>1, <1>2 DEF Enter
    <3> QED
      BY <2>2, <3>1, <3>2 DEF MustWait
  <2> QED
    BY <2>1, <2>2
<1>5. ASSUME NEW q \in Runs, Start(q) PROVE G
  <2>1. CASE Stopped(q)
    BY <1>5, <2>1, <1>1 DEF Start, End
  <2>2. CASE ~Stopped(q)
    <3>1. phase[q] = "settling" /\ Changes(q) = {} /\ phase' = [phase EXCEPT ![q] = "executing"]
      BY <1>5, <2>2 DEF Start, MayStart, End
    <3> QED
      BY <2>2, <3>1, <1>2
  <2> QED
    BY <2>1, <2>2
<1>6. ASSUME NEW q \in Runs, StopRunning(q) \/ Finish(q) \/ SettleDeadline(q) PROVE FALSE
  BY <1>6, <1>1 DEF StopRunning, Finish, SettleDeadline, End
<1>7. ASSUME NEW q \in Runs, NEW b \in Bindings, Accept(q, b) PROVE FALSE
  BY <1>7, <1>1 DEF Accept
<1>8. ASSUME NEW q \in Runs, Ask(q) \/ Answer(q) PROVE FALSE
  BY <1>8, <1>2 DEF Ask, Answer
<1>9. ASSUME phase' = phase PROVE FALSE
  BY <1>9
<1>10. ASSUME NEW q \in Runs, Return(q) \/ DebounceEnds(q) \/ Timeout(q) \/ Cancel(q) PROVE FALSE
  BY <1>10, <1>9 DEF Return, DebounceEnds, Timeout, Cancel, Abort
<1>11. CASE Dispose
  BY <1>9, <1>11 DEF Dispose, Abort
<1>12. CASE UNCHANGED vars
  BY <1>9, <1>12 DEF vars
<1>13. G
  BY <1>3, <1>4, <1>5, <1>6, <1>7, <1>8, <1>10, <1>11, <1>12 DEF Next
<1> QED
  BY <1>13

\* A run that has asked does not go back to before its question.
LEMMA NeverBack ==
  ASSUME TypeOK, [Next]_vars, NEW r \in Runs, phase[r] \in {"asking", "answered"}
  PROVE  phase'[r] # "executing"
<1>1. ASSUME NEW q \in Runs, NEW p, phase[q] \notin {"asking", "answered"} \/ p # "executing",
             phase' = [phase EXCEPT ![q] = p]
      PROVE  phase'[r] # "executing"
  BY <1>1 DEF TypeOK
<1>2. ASSUME phase' = phase PROVE phase'[r] # "executing"
  BY <1>2
<1>3. ASSUME NEW q \in Runs, phase[q] \notin {"asking", "answered"}, Enter(q) PROVE phase'[r] # "executing"
  BY <1>1, <1>3 DEF Enter
<1>4. ASSUME NEW q \in Runs, NEW p, End(q, p), phase[q] \notin {"asking", "answered"} \/ p # "executing"
      PROVE  phase'[r] # "executing"
  BY <1>1, <1>4 DEF End
<1>5. ASSUME NEW q \in Runs, Go(q) \/ Wake(q) \/ Start(q) PROVE phase'[r] # "executing"
  <2>1. phase[q] \notin {"asking", "answered"}
    BY <1>5 DEF Go, MayGo, Wake, MayWake, Start, MayStart
  <2>2. Enter(q) \/ \E p \in Phases : End(q, p)
    BY <1>5 DEF Go, Wake, Start, Phases, Outcomes, Running
  <2> QED
    BY <1>3, <1>4, <2>1, <2>2
<1>6. ASSUME NEW q \in Runs, StopRunning(q) \/ Finish(q) PROVE phase'[r] # "executing"
  BY <1>4, <1>6 DEF StopRunning, Finish
<1>7. ASSUME NEW q \in Runs, SettleDeadline(q) \/ Ask(q) \/ Answer(q) PROVE phase'[r] # "executing"
  BY <1>1, <1>7 DEF SettleDeadline, Ask, Answer
<1>8. ASSUME NEW q \in Runs, NEW b \in Bindings, Accept(q, b) PROVE phase'[r] # "executing"
  BY <1>1, <1>8 DEF Accept
<1>9. ASSUME NEW q \in Runs, Return(q) \/ DebounceEnds(q) \/ Timeout(q) \/ Cancel(q)
      PROVE  phase'[r] # "executing"
  BY <1>2, <1>9 DEF Return, DebounceEnds, Timeout, Cancel, Abort
<1>10. CASE Dispose
  BY <1>2, <1>10 DEF Dispose, Abort
<1>11. CASE UNCHANGED vars
  BY <1>2, <1>11 DEF vars
<1> QED
  BY <1>5, <1>6, <1>7, <1>8, <1>9, <1>10, <1>11 DEF Next

\* A run starts inside the scope of another only as its pending change, or after
\* waiting for pending changes without a scope of its own.
THEOREM NothingStartsInside == Spec => NothingElseStarts
<1> DEFINE Alone(r) ==
      phase[r] # "executing" /\ phase'[r] = "executing" =>
        \/ \A h \in Blockers(r) : h = r
        \/ phase[r] = "settling" /\ S(r).exclusive = "none"
<1>1. ASSUME IInv, [Next]_vars, NEW r \in Runs, phase[r] # "executing", phase'[r] = "executing"
      PROVE  \/ \A h \in Blockers(r) : h = r
             \/ phase[r] = "settling" /\ S(r).exclusive = "none"
  <2>1. phase[r] \notin Running
    BY <1>1, NeverBack DEF IInv, Running
  <2>2. r \in active => \A h \in Blockers(r) : h # r => h \in allowed[r] \intersect active
    BY <1>1, OverlapsSymmetric DEF IInv, ScopesExclusive, Blockers, Conflicts, HoldersOpen, Open
  <2>3. r \in active /\ Changes(r) = {} => \A h \in Blockers(r) : h = r
    BY <1>1, <2>2 DEF Changes, IInv, HoldersOpen
  <2>4. TypeOK
    BY <1>1 DEF IInv
  <2>5. /\ ~Stopped(r)
        /\ \/ Enter(r) /\ (r \in active \/ Blockers(r) = {})
           \/ phase[r] = "settling" /\ Changes(r) = {}
    BY <1>1, <2>1, <2>4, WhoStarts DEF Running
  <2>6. CASE Enter(r) /\ (r \in active \/ Blockers(r) = {})
    <3>1. Changes(r) = {}
      BY <1>1, <2>4, <2>6 DEF Enter, TypeOK
    <3> QED
      BY <2>3, <2>6, <3>1
  <2>7. CASE phase[r] = "settling" /\ Changes(r) = {}
    <3>1. result[r] = "none"
      BY <1>1, <2>5, <2>7 DEF IInv, SettledEnded, Over, Outcomes
    <3>2. S(r).exclusive = "none" \/ r \in active
      BY <1>1, <2>7, <3>1 DEF IInv, SettlingHolds
    <3> QED
      BY <2>3, <2>7, <3>2
  <2> QED
    BY <2>5, <2>6, <2>7
<1>2. IInv /\ [Next]_vars => [\A r \in Runs : Alone(r)]_vars
  BY <1>1
<1> QED
  BY <1>2, Invariance, PTL DEF Spec, NothingElseStarts

\* A run whose caller was told that it is over never starts.
THEOREM NothingStartsLate == Spec => NoLateStart
<1> DEFINE Late(r) == result[r] # "none" /\ phase[r] \notin Running => phase'[r] \notin Running
<1>1. ASSUME IInv, [Next]_vars, NEW r \in Runs, result[r] # "none",
             phase[r] \notin Running, phase'[r] \in Running
      PROVE  FALSE
  <2>1. TypeOK /\ (Over(r) \/ Stopped(r))
    BY <1>1 DEF IInv, SettledEnded
  <2>2. ~Stopped(r) /\ phase[r] \in {"scheduled", "waiting", "settling"}
    BY <1>1, <2>1, WhoStarts
  <2> QED
    BY <2>1, <2>2 DEF Over, Outcomes
<1>2. IInv /\ [Next]_vars => [\A r \in Runs : Late(r)]_vars
  BY <1>1
<1> QED
  BY <1>2, Invariance, PTL DEF Spec, NoLateStart
=============================================================================
