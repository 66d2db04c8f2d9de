----------------------------- MODULE DurableRuns -----------------------------
(***************************************************************************)
(* What the back-end runs promise to those who ask for them, with no        *)
(* executors, claims, leases, ledger or faults: a run that was recorded     *)
(* starts once and ends once; its tasks take effect one after the other     *)
(* and none of them twice; and nobody is told of a success, nor is one      *)
(* recorded, before every task whose refusal the flow does not handle has   *)
(* taken effect.  An effect may still take place after the end of its run.  *)
(***************************************************************************)
EXTENDS Naturals

CONSTANTS Runs, Tasks, Refusable

VARIABLES
  state,    \* of each run
  effects,  \* how often each of its tasks took effect
  told      \* the final states of which its callers were told

vars == <<state, effects, told>>

FinalStates == {"succeeded", "refused", "failed"}

Init ==
  /\ state = [r \in Runs |-> "absent"]
  /\ effects = [r \in Runs |-> [t \in Tasks |-> 0]]
  /\ told = [r \in Runs |-> {}]

\* All that the flow insists on before task t has taken effect.
DoneBefore(r, t) == \A s \in Tasks \ Refusable : s < t => effects[r][s] = 1

Complete(r) == \A s \in Tasks \ Refusable : effects[r][s] = 1

Record(r) ==
  /\ state[r] = "absent"
  /\ state' = [state EXCEPT ![r] = "pending"]
  /\ UNCHANGED <<effects, told>>

Start(r) ==
  /\ state[r] = "pending"
  /\ state' = [state EXCEPT ![r] = "running"]
  /\ UNCHANGED <<effects, told>>

Perform(r, t) ==
  /\ state[r] \in {"running"} \union FinalStates
  /\ effects[r][t] = 0
  /\ DoneBefore(r, t)
  /\ effects' = [effects EXCEPT ![r][t] = 1]
  /\ UNCHANGED <<state, told>>

\* Whoever waits is told; it may be that nobody does.
End(r, s) ==
  /\ state[r] = "running"
  /\ s = "succeeded" => Complete(r)
  /\ state' = [state EXCEPT ![r] = s]
  /\ told' \in {told, [told EXCEPT ![r] = @ \union {s}]}
  /\ UNCHANGED effects

\* A caller is told the recorded state, or what has become of its own attempt,
\* which can be another one.
Report(r, s) ==
  /\ state[r] \in FinalStates
  /\ s = "succeeded" => Complete(r)
  /\ told' = [told EXCEPT ![r] = @ \union {s}]
  /\ UNCHANGED <<state, effects>>

Next ==
  \E r \in Runs :
    \/ Record(r)
    \/ Start(r)
    \/ \E t \in Tasks : Perform(r, t)
    \/ \E s \in FinalStates : End(r, s) \/ Report(r, s)

Spec == Init /\ [][Next]_vars
==============================================================================
