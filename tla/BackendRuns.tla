----------------------------- MODULE BackendRuns -----------------------------
(***************************************************************************)
(* Back-end flow runs.  A Run on back end task and every after-save        *)
(* subscriber of a record event become one row of                          *)
(* vortex_platform.backend_runs, keyed by origin, source and flow.  An     *)
(* executor claims the row for two minutes, runs the flow's protected      *)
(* tasks one by one and records the final state.  Each task claims its     *)
(* effect in vortex_platform.flow_effect_ledger first, so that several     *)
(* executors of one run share one ledger.                                  *)
(*                                                                         *)
(* An executor is one call chain of the adapter: an awaited or scheduled   *)
(* request, the delivery of one occurrence to the flow-subscribers         *)
(* consumer, or a recovery sweep.  It may stop between any two of its      *)
(* database calls.  A run stays claimable for as long as it is not final;  *)
(* rows are deleted 90 days after they finished, when no delivery or       *)
(* retry of their source is left, and that is beyond this model.           *)
(***************************************************************************)
EXTENDS Integers, Sequences, FiniteSets

CONSTANTS
  Subscribers,  \* the runs of one occurrence's subscribers, in subscriber order
  Requested,    \* runs asked for by Run on back end tasks
  TaskCount,    \* protected tasks of a flow
  Refusable,    \* the tasks whose refusal their flow branches on
  Executors,
  MaxFaults     \* bound on crashes and failing calls

SubscriberRuns == {Subscribers[i] : i \in 1 .. Len(Subscribers)}
Runs == SubscriberRuns \union Requested
Tasks == 1 .. TaskCount

ASSUME BackendRunsAssumption ==
  /\ Subscribers \in Seq(SubscriberRuns)
  /\ IsFiniteSet(Runs)
  /\ TaskCount \in Nat
  /\ Refusable \subseteq Tasks
  /\ MaxFaults \in Nat

VARIABLES
  rows,       \* vortex_platform.backend_runs
  ledger,     \* vortex_platform.flow_effect_ledger
  executor,   \* local state of each executor
  delivered,  \* how the flow-subscribers consumer completed the occurrence
  applied,    \* history: how often each task's effect was committed
  answers,    \* history: the final states that awaiting callers were given
  faults      \* crashes and failing calls so far

vars == <<rows, ledger, executor, delivered, applied, answers, faults>>

FinalStates == {"succeeded", "refused", "failed"}

\* "absent": no row.  live: claimed_until lies in the future.
RunRow == [state : {"absent", "pending", "running"} \union FinalStates,
           live  : BOOLEAN]

\* The outcome of a protected task; "failed" stands for uncertain as well, which
\* ends a run in the same way.
TaskOutcomes == {"committed", "refused", "failed"}

\* "none": no ledger row; "started": claimed; else completed with an outcome.
LedgerStates == {"none", "started"} \union TaskOutcomes

\* Not acknowledged yet; acknowledged after running the subscribers; or after the
\* account's scope could not be opened, which leaves one refusal row.
Deliveries == {"open", "ran", "refused"}

-----------------------------------------------------------------------------
(***************************************************************************)
(* Where an executor is: recording its request, claiming the run at the    *)
(* head of its queue, at a task ("working" before its effect is claimed,   *)
(* "applying" it, "recording" its outcome) or "finishing" the run.         *)
(***************************************************************************)
Stages == {"idle", "requesting", "claiming", "working", "applying",
           "recording", "finishing"}
Callers == {"await", "start", "delivery", "sweep"}

ExecutorState ==
  [stage   : Stages,
   caller  : Callers,
   queue   : Seq(Runs),
   task    : 1 .. TaskCount + 1,
   outcome : TaskOutcomes,  \* of the task in "recording"
   result  : FinalStates,   \* of the run in "finishing"
   missed  : BOOLEAN]       \* a delivery's subscriber could not be run

Idle == [stage |-> "idle", caller |-> "sweep", queue |-> <<>>, task |-> 1,
         outcome |-> "failed", result |-> "failed", missed |-> FALSE]

Current(e) == Head(executor[e].queue)

Init ==
  /\ rows = [r \in Runs |-> [state |-> "absent", live |-> FALSE]]
  /\ ledger = [r \in Runs |-> [t \in Tasks |-> "none"]]
  /\ executor = [e \in Executors |-> Idle]
  /\ delivered = "open"
  /\ applied = [r \in Runs |-> [t \in Tasks |-> 0]]
  /\ answers = [r \in Runs |-> {}]
  /\ faults = 0

-----------------------------------------------------------------------------
\* Mutant: an abandoned run is not claimed again.
ClaimablePending(row) == row.state = "pending"

\* claim_backend_run: pending, or claimed by an executor whose two minutes are
\* over.
Claimable(row) ==
  \/ row.state = "pending"
  \/ row.state = "running" /\ ~row.live

\* Mutant: a missed subscriber does not keep the delivery from completing.
SettledAnyway(state) ==
  IF state.caller = "delivery" /\ delivered = "open" THEN {"open", "ran"}
  ELSE {delivered}

\* A delivery that ran every subscriber completes the occurrence; its
\* acknowledgement may still come too late.  One that missed a subscriber throws
\* and is retried.
Settled(state) ==
  IF state.caller = "delivery" /\ ~state.missed /\ delivered = "open"
  THEN {"open", "ran"} ELSE {delivered}

\* Executor e, left in state, is done with the run at the head of its queue.
GoOn(e, state) ==
  IF Len(state.queue) <= 1
  THEN /\ executor' = [executor EXCEPT ![e] = Idle]
       /\ delivered' \in Settled(state)
  ELSE /\ executor' = [executor EXCEPT ![e] =
            [Idle EXCEPT !.caller = state.caller, !.missed = state.missed,
                         !.queue = Tail(state.queue),
                         !.stage = IF state.caller = "sweep"
                                   THEN "claiming" ELSE "requesting"]]
       /\ UNCHANGED delivered

\* A call of runClaimed or of the request throws: a delivery takes note and goes
\* on, everything else is over.
Throw(e) ==
  IF executor[e].caller = "delivery"
  THEN GoOn(e, [executor[e] EXCEPT !.missed = TRUE])
  ELSE /\ executor' = [executor EXCEPT ![e] = Idle]
       /\ UNCHANGED delivered

Fault == faults < MaxFaults /\ faults' = faults + 1

-----------------------------------------------------------------------------
\* A Run on back end task hands its child to the adapter; a repeat of the task
\* (a retried click) hands it over again.
StartRequest(e, r, caller) ==
  /\ executor[e].stage = "idle"
  /\ executor' = [executor EXCEPT ![e] =
       [Idle EXCEPT !.stage = "requesting", !.caller = caller, !.queue = <<r>>]]
  /\ UNCHANGED <<rows, ledger, delivered, applied, answers, faults>>

\* The consumer is handed the occurrence: at least once, by several dispatchers
\* at a time when a lease lapses, and never again once it is acknowledged.
StartDelivery(e) ==
  /\ executor[e].stage = "idle"
  /\ delivered = "open"
  /\ Subscribers # <<>>
  /\ executor' = [executor EXCEPT ![e] =
       [Idle EXCEPT !.stage = "requesting", !.caller = "delivery",
                    !.queue = Subscribers]]
  /\ UNCHANGED <<rows, ledger, delivered, applied, answers, faults>>

\* The account that made the change is gone or may not act: the consumer records
\* that once, and completes the occurrence without having listed a subscriber.
RefuseDelivery ==
  /\ delivered = "open"
  /\ Subscribers # <<>>
  /\ delivered' = "refused"
  /\ UNCHANGED <<rows, ledger, executor, applied, answers, faults>>

\* The sweep lists waiting runs, oldest first (which is a choice here, and so is
\* how many its limit admits), and then runs them one by one.
Waiting == {r \in Runs : Claimable(rows[r])}

StartSweep(e) ==
  /\ executor[e].stage = "idle"
  /\ \E n \in 1 .. Cardinality(Waiting) : \E list \in [1 .. n -> Waiting] :
       /\ \A i, j \in 1 .. n : list[i] = list[j] => i = j
       /\ executor' = [executor EXCEPT ![e] =
            [Idle EXCEPT !.stage = "claiming", !.queue = list]]
  /\ UNCHANGED <<rows, ledger, delivered, applied, answers, faults>>

(***************************************************************************)
(* request_backend_run inserts a pending row unless the key has one, and   *)
(* returns the row's state.  A caller of run with a final state is         *)
(* answered from the row; a delivery goes on to runRecorded in any case.   *)
(***************************************************************************)
RecordRequest(e) ==
  LET r == Current(e) IN
  /\ executor[e].stage = "requesting"
  /\ rows' = IF rows[r].state = "absent"
             THEN [rows EXCEPT ![r].state = "pending"] ELSE rows
  /\ IF rows[r].state \in FinalStates /\ executor[e].caller # "delivery"
     THEN /\ GoOn(e, executor[e])
          /\ answers' = IF executor[e].caller = "await"
                        THEN [answers EXCEPT ![r] = @ \union {rows[r].state}]
                        ELSE answers
     ELSE /\ executor' = [executor EXCEPT ![e].stage = "claiming"]
          /\ UNCHANGED <<delivered, answers>>
  /\ UNCHANGED <<ledger, applied, faults>>

\* runClaimed: a run that cannot be claimed is left to its executor ("unavailable"
\* for an awaiting caller).
ClaimRun(e) ==
  LET r == Current(e) IN
  /\ executor[e].stage = "claiming"
  /\ IF Claimable(rows[r])
     THEN /\ rows' = [rows EXCEPT ![r] = [state |-> "running", live |-> TRUE]]
          /\ executor' = [executor EXCEPT ![e].stage = "working",
                                          ![e].task = 1]
          /\ UNCHANGED delivered
     ELSE /\ GoOn(e, executor[e])
          /\ UNCHANGED rows
  /\ UNCHANGED <<ledger, applied, answers, faults>>

-----------------------------------------------------------------------------
\* Mutant: the last task's outcome is taken for the run's final state.
ResumedAtLast(state, outcome) ==
  IF state.task < TaskCount /\ outcome = "committed"
  THEN [state EXCEPT !.stage = "working", !.task = @ + 1, !.outcome = "failed"]
  ELSE [state EXCEPT !.stage = "finishing", !.result = outcome]

\* The interpreter resumes a run with a task's outcome: the next task, or the
\* final state of the run.
Resumed(state, outcome) ==
  IF outcome = "committed" \/ (outcome = "refused" /\ state.task \in Refusable)
  THEN [state EXCEPT !.stage = "working", !.task = @ + 1, !.outcome = "failed"]
  ELSE [state EXCEPT !.stage = "finishing", !.result = outcome]

Resume(e, outcome) ==
  executor' = [executor EXCEPT ![e] = Resumed(@, outcome)]

\* Planning a task reads the current records under the account's current
\* permissions and may refuse it before anything is claimed; the replay of a
\* recorded outcome may be refused in the same way.
RefuseTask(e) ==
  /\ executor[e].stage = "working"
  /\ executor[e].task <= TaskCount
  /\ Resume(e, "refused")
  /\ UNCHANGED <<rows, ledger, delivered, applied, answers, faults>>

\* The account, the flow or the record of the run is unavailable: it is refused
\* before its first task.
RefuseRun(e) ==
  /\ executor[e].stage = "working"
  /\ executor[e].task = 1
  /\ executor' = [executor EXCEPT ![e].stage = "finishing",
                                  ![e].result = "refused"]
  /\ UNCHANGED <<rows, ledger, delivered, applied, answers, faults>>

\* Mutant: a started effect is claimed again, as if its executor were gone.
BeginEffectAgain(e) ==
  LET r == Current(e)
      t == executor[e].task IN
  /\ executor[e].stage = "working"
  /\ t <= TaskCount
  /\ IF ledger[r][t] \in {"none", "started"}
     THEN /\ ledger' = [ledger EXCEPT ![r][t] = "started"]
          /\ executor' = [executor EXCEPT ![e].stage = "applying"]
     ELSE Resume(e, ledger[r][t]) /\ UNCHANGED ledger
  /\ UNCHANGED <<rows, delivered, applied, answers, faults>>

\* Mutant: a started effect is taken for a committed one.
BeginEffectAssumed(e) ==
  LET r == Current(e)
      t == executor[e].task IN
  /\ executor[e].stage = "working"
  /\ t <= TaskCount
  /\ IF ledger[r][t] = "none"
     THEN /\ ledger' = [ledger EXCEPT ![r][t] = "started"]
          /\ executor' = [executor EXCEPT ![e].stage = "applying"]
     ELSE /\ Resume(e, IF ledger[r][t] = "started" THEN "committed" ELSE ledger[r][t])
          /\ UNCHANGED ledger
  /\ UNCHANGED <<rows, delivered, applied, answers, faults>>

(***************************************************************************)
(* begin_flow_effect: the first executor of the task claims its effect.    *)
(* A later one is given the recorded outcome, or, while there is none,     *)
(* ends the run: whether the effect happens is not known to it.            *)
(***************************************************************************)
BeginEffect(e) ==
  LET r == Current(e)
      t == executor[e].task IN
  /\ executor[e].stage = "working"
  /\ t <= TaskCount
  /\ CASE ledger[r][t] = "none" ->
            /\ ledger' = [ledger EXCEPT ![r][t] = "started"]
            /\ executor' = [executor EXCEPT ![e].stage = "applying"]
       [] ledger[r][t] = "started" ->
            Resume(e, "failed") /\ UNCHANGED ledger
       [] OTHER ->
            Resume(e, ledger[r][t]) /\ UNCHANGED ledger
  /\ UNCHANGED <<rows, delivered, applied, answers, faults>>

\* The protected path runs in a transaction of its own: it commits the effect,
\* or refuses or fails and leaves nothing behind.
ApplyEffect(e) ==
  LET r == Current(e)
      t == executor[e].task IN
  /\ executor[e].stage = "applying"
  /\ \E outcome \in TaskOutcomes :
       /\ applied' = IF outcome = "committed"
                     THEN [applied EXCEPT ![r][t] = @ + 1] ELSE applied
       /\ executor' = [executor EXCEPT ![e].stage = "recording",
                                       ![e].outcome = outcome]
  /\ UNCHANGED <<rows, ledger, delivered, answers, faults>>

\* complete_flow_effect.
CompleteEffect(e) ==
  LET r == Current(e)
      t == executor[e].task IN
  /\ executor[e].stage = "recording"
  /\ ledger' = IF ledger[r][t] = "started"
               THEN [ledger EXCEPT ![r][t] = executor[e].outcome] ELSE ledger
  /\ Resume(e, executor[e].outcome)
  /\ UNCHANGED <<rows, delivered, applied, answers, faults>>

\* After the last task the run has succeeded, unless the flow ends in a failure
\* that it declares, its outputs cannot be worked out, or the back end cannot take
\* its next step.
EndTasks(e) ==
  /\ executor[e].stage = "working"
  /\ executor[e].task = TaskCount + 1
  /\ \E result \in FinalStates :
       executor' = [executor EXCEPT ![e].stage = "finishing",
                                    ![e].result = result]
  /\ UNCHANGED <<rows, ledger, delivered, applied, answers, faults>>

\* Mutant: finishing does not ask whether the run is still running.
FinishAnyState(e) ==
  LET r == Current(e) IN
  /\ executor[e].stage = "finishing"
  /\ rows' = [rows EXCEPT ![r] = [state |-> executor[e].result, live |-> FALSE]]
  /\ answers' = IF executor[e].caller = "await"
                THEN [answers EXCEPT ![r] = @ \union {executor[e].result}]
                ELSE answers
  /\ GoOn(e, executor[e])
  /\ UNCHANGED <<ledger, applied, faults>>

\* finish_backend_run asks only that the run is running, not for whom; its
\* answer whether it was is not looked at.
Finish(e) ==
  LET r == Current(e) IN
  /\ executor[e].stage = "finishing"
  /\ rows' = IF rows[r].state = "running"
             THEN [rows EXCEPT ![r] = [state |-> executor[e].result,
                                       live |-> FALSE]]
             ELSE rows
  /\ answers' = IF executor[e].caller = "await"
                THEN [answers EXCEPT ![r] = @ \union {executor[e].result}]
                ELSE answers
  /\ GoOn(e, executor[e])
  /\ UNCHANGED <<ledger, applied, faults>>

-----------------------------------------------------------------------------
\* The run's row once the executor's call has committed.
AfterCall(state, row) ==
  CASE state.stage = "requesting" /\ row.state = "absent" ->
         [row EXCEPT !.state = "pending"]
    [] state.stage = "claiming" /\ Claimable(row) ->
         [state |-> "running", live |-> TRUE]
    [] state.stage = "finishing" /\ row.state = "running" ->
         [state |-> state.result, live |-> FALSE]
    [] OTHER -> row

\* A request, claim or finish call fails: it did not commit, or it did and its
\* answer is lost.
FailCall(e) ==
  /\ Fault
  /\ executor[e].stage \in {"requesting", "claiming", "finishing"}
  /\ rows' \in {rows, [rows EXCEPT ![Current(e)] = AfterCall(executor[e], @)]}
  /\ Throw(e)
  /\ UNCHANGED <<ledger, applied, answers>>

\* A ledger call or the effect itself fails: an effect that was not claimed did
\* not run; one whose answer is lost may have committed and its claim stays
\* open; one whose completion is lost goes on with the outcome.  (A ledger call
\* that commits and loses its answer comes to the same as one that is answered
\* and followed by a failing effect, or by nothing.)
FailEffect(e) ==
  LET r == Current(e)
      t == executor[e].task IN
  /\ Fault
  /\ \/ /\ executor[e].stage = "working" /\ t <= TaskCount
        /\ Resume(e, "failed")
        /\ UNCHANGED applied
     \/ /\ executor[e].stage = "applying"
        /\ \E n \in {0, 1} : applied' = [applied EXCEPT ![r][t] = @ + n]
        /\ Resume(e, "failed")
     \/ /\ executor[e].stage = "recording"
        /\ Resume(e, executor[e].outcome)
        /\ UNCHANGED applied
  /\ UNCHANGED <<rows, ledger, delivered, answers>>

Crash(e) ==
  /\ Fault
  /\ executor[e].stage # "idle"
  /\ executor' = [executor EXCEPT ![e] = Idle]
  /\ UNCHANGED <<rows, ledger, delivered, applied, answers>>

\* Two minutes pass since a claim, whether its executor is gone, slow or
\* suspended.
LapseClaim(r) ==
  /\ rows[r].state = "running"
  /\ rows[r].live
  /\ rows' = [rows EXCEPT ![r].live = FALSE]
  /\ UNCHANGED <<ledger, executor, delivered, applied, answers, faults>>

-----------------------------------------------------------------------------
Work(e) ==
  \/ RecordRequest(e)
  \/ ClaimRun(e)
  \/ BeginEffect(e)
  \/ ApplyEffect(e)
  \/ CompleteEffect(e)
  \/ EndTasks(e)
  \/ Finish(e)

Next ==
  \/ \E e \in Executors :
       \/ \E r \in Requested, caller \in {"await", "start"} :
            StartRequest(e, r, caller)
       \/ StartDelivery(e)
       \/ StartSweep(e)
       \/ Work(e)
       \/ RefuseRun(e)
       \/ RefuseTask(e)
       \/ FailCall(e)
       \/ FailEffect(e)
       \/ Crash(e)
  \/ RefuseDelivery
  \/ \E r \in Runs : LapseClaim(r)

Spec == Init /\ [][Next]_vars

(***************************************************************************)
(* A running executor goes on, a claim ends after two minutes, and the     *)
(* recovery tick sweeps for ever, oldest run first: no waiting run is      *)
(* passed over by every sweep.  Requests, deliveries, refusals, faults are *)
(* not fair.                                                               *)
(***************************************************************************)
SweepOf(r) ==
  \E e \in Executors :
    StartSweep(e) /\ r \in {executor'[e].queue[i] : i \in 1 .. Len(executor'[e].queue)}

Fairness ==
  /\ \A e \in Executors : WF_vars(Work(e))
  /\ \A r \in Runs : WF_vars(LapseClaim(r)) /\ SF_vars(SweepOf(r))

FairSpec == Spec /\ Fairness

-----------------------------------------------------------------------------
\* Every variable has its type.
TypeOK ==
  /\ rows \in [Runs -> RunRow]
  /\ ledger \in [Runs -> [Tasks -> LedgerStates]]
  /\ executor \in [Executors -> ExecutorState]
  /\ delivered \in Deliveries
  /\ applied \in [Runs -> [Tasks -> Nat]]
  /\ answers \in [Runs -> SUBSET FinalStates]
  /\ faults \in 0 .. MaxFaults

\* No task's effect is committed twice, however often its run is requested,
\* delivered, swept, abandoned and run again.
EffectsAtMostOnce == \A r \in Runs, t \in Tasks : applied[r][t] <= 1

\* A run that is recorded, or reported to its caller, as succeeded has committed
\* the effect of every task whose refusal its flow does not handle, though other
\* executors may have committed some of them.
SucceededMeansDone ==
  \A r \in Runs :
    rows[r].state = "succeeded" \/ "succeeded" \in answers[r]
      => \A t \in Tasks \ Refusable : applied[r][t] = 1

\* Effects happen in task order across all executors of a run.
EffectsInTaskOrder ==
  \A r \in Runs : \A t \in Tasks, s \in Tasks \ Refusable :
    s < t /\ applied[r][t] > 0 => applied[r][s] = 1

\* The occurrence is acknowledged as run only when every subscriber has its row,
\* so that the sweep finishes what the delivery could not.
DeliveredMeansRecorded ==
  delivered = "ran" => \A r \in SubscriberRuns : rows[r].state # "absent"

\* A final state is never replaced: not by a stale executor, a repeated request
\* or a sweep that listed the run before it finished.
FinalForGood ==
  [][\A r \in Runs : rows[r].state \in FinalStates => rows'[r] = rows[r]]_vars

\* Every run that was recorded ends, though its executors crash.
RecordedRunsEnd ==
  \A r \in Runs :
    rows[r].state \in {"pending", "running"} ~> rows[r].state \in FinalStates

\* A subscriber starts only when every subscriber before it has ended.
SubscribersInOrder ==
  [][\A i, j \in 1 .. Len(Subscribers) :
       /\ i < j
       /\ rows[Subscribers[j]].state = "pending"
       /\ rows'[Subscribers[j]].state = "running"
       => rows[Subscribers[i]].state \in FinalStates]_vars

\* Whoever waited for a run was told the state that a repeat is told.
AnswersAgree == \A r \in Runs : answers[r] \subseteq {rows[r].state}

\* The promise of DurableRuns: the executors of a run are not seen.
Promise == INSTANCE DurableRuns WITH
  state <- [r \in Runs |-> rows[r].state],
  effects <- applied,
  told <- answers

\* However many executors work on a run, are cut off and are taken over from, it
\* does what DurableRuns promises.
ImplementsPromise == Promise!Spec
==============================================================================
