-------------------------- MODULE BackendRunsProofs --------------------------
(***************************************************************************)
(* Safety of BackendRuns for every number of runs, subscribers, tasks,     *)
(* executors and faults.                                                   *)
(***************************************************************************)
EXTENDS BackendRuns, SequenceTheorems, TLAPS

\* An executor that is not idle has a run at the head of its queue, and one
\* inside a task is at a task of the flow.
WellFormed(state) ==
  /\ state \in ExecutorState
  /\ state.stage # "idle" => state.queue # <<>>
  /\ state.stage \in {"applying", "recording"} => state.task <= TaskCount

\* The typing invariant.
TypeInv == TypeOK /\ \A e \in Executors : WellFormed(executor[e])

LEMMA IdleWellFormed == WellFormed(Idle)
<1>1. <<>> \in Seq(Runs)
  BY EmptySeq
<1>2. 1 \in 1 .. TaskCount + 1
  BY BackendRunsAssumption
<1> QED
  BY <1>1, <1>2
  DEF WellFormed, Idle, ExecutorState, Stages, Callers, TaskOutcomes, FinalStates

LEMMA CurrentIsRun ==
  ASSUME TypeInv, NEW e \in Executors, executor[e].stage # "idle"
  PROVE  Current(e) \in Runs
<1>1. executor[e].queue \in Seq(Runs) /\ executor[e].queue # <<>>
  BY DEF TypeInv, WellFormed, ExecutorState
<1> QED
  BY <1>1, HeadTailProperties DEF Current

\* A waiting executor's state: it is to request or to claim the head of a queue.
WaitingState(stage, caller, missed, queue) ==
  [Idle EXCEPT !.stage = stage, !.caller = caller, !.missed = missed,
               !.queue = queue]

LEMMA WaitingWellFormed ==
  ASSUME NEW queue \in Seq(Runs), queue # <<>>, NEW caller \in Callers,
         NEW missed \in BOOLEAN, NEW stage \in {"requesting", "claiming"}
  PROVE  WellFormed(WaitingState(stage, caller, missed, queue))
<1>1. 1 \in 1 .. TaskCount + 1
  BY BackendRunsAssumption
<1> QED
  BY <1>1
  DEF WellFormed, WaitingState, Idle, ExecutorState, Stages, Callers, TaskOutcomes,
      FinalStates

LEMMA TailOfLonger ==
  ASSUME NEW S, NEW queue \in Seq(S), queue # <<>>, ~(Len(queue) <= 1)
  PROVE  Tail(queue) \in Seq(S) /\ Tail(queue) # <<>>
<1>1. Tail(queue) \in Seq(S) /\ Len(Tail(queue)) = Len(queue) - 1
  BY HeadTailProperties
<1>2. Len(queue) \in Nat
  BY LenProperties
<1>3. Len(Tail(queue)) # 0
  BY <1>1, <1>2
<1>4. Len(<<>>) = 0
  BY EmptySeq
<1> QED
  BY <1>1, <1>3, <1>4

\* What an executor is left with when it is done with the head of its queue: it
\* is idle, or waits for the next run.
Moved(s) == s.stage \in {"idle", "requesting", "claiming"}

LEMMA GoOnMoves ==
  ASSUME TypeInv, NEW e \in Executors, NEW state, WellFormed(state), GoOn(e, state)
  PROVE  /\ \E s : /\ WellFormed(s) /\ Moved(s)
                   /\ executor' = [executor EXCEPT ![e] = s]
         /\ delivered' \in Deliveries
<1>1. CASE Len(state.queue) <= 1
  <2>1. executor' = [executor EXCEPT ![e] = Idle] /\ delivered' \in Settled(state)
    BY <1>1 DEF GoOn
  <2>2. delivered' \in Deliveries
    BY <2>1 DEF Settled, TypeInv, TypeOK, Deliveries
  <2>3. Moved(Idle)
    BY DEF Moved, Idle
  <2> QED
    BY <2>1, <2>2, <2>3, IdleWellFormed
<1>2. CASE ~(Len(state.queue) <= 1)
  <2> DEFINE stage == IF state.caller = "sweep" THEN "claiming" ELSE "requesting"
             s == WaitingState(stage, state.caller, state.missed,
                               Tail(state.queue))
  <2>1. executor' = [executor EXCEPT ![e] =
          [Idle EXCEPT !.caller = state.caller, !.missed = state.missed,
                       !.queue = Tail(state.queue),
                       !.stage = stage]]
        /\ UNCHANGED delivered
    BY <1>2 DEF GoOn
  <2>2. /\ state.queue \in Seq(Runs) /\ state.queue # <<>>
        /\ state.caller \in Callers /\ state.missed \in BOOLEAN
    BY <1>2, EmptySeq DEF WellFormed, ExecutorState
  <2>3. Tail(state.queue) \in Seq(Runs) /\ Tail(state.queue) # <<>>
    BY <1>2, <2>2, TailOfLonger
  <2>4. stage \in {"requesting", "claiming"}
    OBVIOUS
  <2>5. WellFormed(s)
    <3> HIDE DEF stage
    <3> QED BY <2>2, <2>3, <2>4, WaitingWellFormed
  <2>6. executor' = [executor EXCEPT ![e] = s]
    BY <2>1 DEF Idle, WaitingState
  <2>7. Moved(s)
    BY DEF Moved, Idle, WaitingState
  <2>8. delivered' \in Deliveries
    BY <2>1 DEF TypeInv, TypeOK
  <2> HIDE DEF s
  <2> QED
    BY <2>5, <2>6, <2>7, <2>8
<1> QED
  BY <1>1, <1>2

LEMMA ThrowMoves ==
  ASSUME TypeInv, NEW e \in Executors, Throw(e)
  PROVE  /\ \E s : /\ WellFormed(s) /\ Moved(s)
                   /\ executor' = [executor EXCEPT ![e] = s]
         /\ delivered' \in Deliveries
<1>1. CASE executor[e].caller = "delivery"
  <2> DEFINE state == [executor[e] EXCEPT !.missed = TRUE]
  <2>1. WellFormed(executor[e])
    BY DEF TypeInv
  <2>2. WellFormed(state)
    BY <2>1 DEF WellFormed, ExecutorState
  <2>3. GoOn(e, state)
    BY <1>1 DEF Throw
  <2> HIDE DEF state
  <2> QED
    BY <2>2, <2>3, GoOnMoves
<1>2. CASE executor[e].caller # "delivery"
  <2>1. executor' = [executor EXCEPT ![e] = Idle] /\ UNCHANGED delivered
    BY <1>2 DEF Throw
  <2>2. Moved(Idle)
    BY DEF Moved, Idle
  <2> QED
    BY <2>1, <2>2, IdleWellFormed DEF TypeInv, TypeOK
<1> QED
  BY <1>1, <1>2

LEMMA ResumedWellFormed ==
  ASSUME NEW state, WellFormed(state), state.queue # <<>>,
         state.task <= TaskCount, NEW outcome \in TaskOutcomes
  PROVE  /\ WellFormed(Resumed(state, outcome))
         /\ Resumed(state, outcome).queue = state.queue
         /\ \/ /\ Resumed(state, outcome).stage = "working"
               /\ Resumed(state, outcome).task = state.task + 1
               /\ outcome = "committed" \/ state.task \in Refusable
            \/ /\ Resumed(state, outcome).stage = "finishing"
               /\ Resumed(state, outcome).result # "succeeded"
<1> USE DEF WellFormed, ExecutorState, TaskOutcomes, FinalStates, Stages
<1>1. state.task + 1 \in 1 .. TaskCount + 1
  BY BackendRunsAssumption
<1>2. CASE outcome = "committed" \/ (outcome = "refused" /\ state.task \in Refusable)
  BY <1>1, <1>2 DEF Resumed
<1>3. CASE ~(outcome = "committed" \/ (outcome = "refused" /\ state.task \in Refusable))
  BY <1>3 DEF Resumed
<1> QED
  BY <1>2, <1>3

-----------------------------------------------------------------------------
\* The types of everything but what executors do.
StoreTyped ==
  /\ rows \in [Runs -> RunRow]
  /\ ledger \in [Runs -> [Tasks -> LedgerStates]]
  /\ delivered \in Deliveries
  /\ applied \in [Runs -> [Tasks -> Nat]]
  /\ answers \in [Runs -> SUBSET FinalStates]
  /\ faults \in 0 .. MaxFaults

LEMMA TypeInvSplit ==
  TypeInv <=> /\ StoreTyped
              /\ executor \in [Executors -> ExecutorState]
              /\ \A e \in Executors : WellFormed(executor[e])
  BY DEF TypeInv, TypeOK, StoreTyped

\* An executor's move keeps the typing invariant.
LEMMA MoveTyped ==
  ASSUME TypeInv, StoreTyped', NEW e \in Executors, NEW s, WellFormed(s),
         executor' = [executor EXCEPT ![e] = s]
  PROVE  TypeInv'
<1>1. executor' \in [Executors -> ExecutorState]
  BY DEF TypeInv, TypeOK, WellFormed
<1>2. \A f \in Executors : WellFormed(executor'[f])
  BY DEF TypeInv, TypeOK
<1> QED
  BY <1>1, <1>2 DEF TypeInv, TypeOK, StoreTyped

LEMMA FaultTyped ==
  ASSUME TypeInv, Fault
  PROVE  faults' \in 0 .. MaxFaults
  BY BackendRunsAssumption DEF TypeInv, TypeOK, Fault

LEMMA StartRequestTyped ==
  ASSUME TypeInv, NEW e \in Executors, NEW r \in Requested,
         NEW caller \in {"await", "start"}, StartRequest(e, r, caller)
  PROVE  TypeInv'
<1> DEFINE s == [Idle EXCEPT !.stage = "requesting", !.caller = caller,
                             !.queue = <<r>>]
<1>1. executor' = [executor EXCEPT ![e] = s]
  BY DEF StartRequest
<1>2. 1 \in 1 .. TaskCount + 1
  BY BackendRunsAssumption
<1>3. <<r>> \in Seq(Runs) /\ <<r>> # <<>>
  BY DEF Runs
<1>4. WellFormed(s)
  BY <1>2, <1>3
  DEF WellFormed, Idle, ExecutorState, Stages, Callers, TaskOutcomes, FinalStates
<1>5. StoreTyped'
  BY DEF StartRequest, TypeInv, TypeOK, StoreTyped
<1> HIDE DEF s
<1> QED
  BY <1>1, <1>4, <1>5, MoveTyped

LEMMA StartDeliveryTyped ==
  ASSUME TypeInv, NEW e \in Executors, StartDelivery(e)
  PROVE  TypeInv'
<1> DEFINE s == [Idle EXCEPT !.stage = "requesting", !.caller = "delivery",
                             !.queue = Subscribers]
<1>1. executor' = [executor EXCEPT ![e] = s]
  BY DEF StartDelivery
<1>2. 1 \in 1 .. TaskCount + 1
  BY BackendRunsAssumption
<1>3. Subscribers \in Seq(Runs) /\ Subscribers # <<>>
  BY BackendRunsAssumption, SeqMonotonic DEF StartDelivery, Runs
<1>4. WellFormed(s)
  BY <1>2, <1>3
  DEF WellFormed, Idle, ExecutorState, Stages, Callers, TaskOutcomes, FinalStates
<1>5. StoreTyped'
  BY DEF StartDelivery, TypeInv, TypeOK, StoreTyped
<1> HIDE DEF s
<1> QED
  BY <1>1, <1>4, <1>5, MoveTyped

LEMMA StartSweepTyped ==
  ASSUME TypeInv, NEW e \in Executors, StartSweep(e)
  PROVE  TypeInv'
<1>1. PICK n \in 1 .. Cardinality(Waiting) : \E list \in [1 .. n -> Waiting] :
        executor' = [executor EXCEPT ![e] =
          [Idle EXCEPT !.stage = "claiming", !.queue = list]]
  BY DEF StartSweep
<1>2. PICK list \in [1 .. n -> Waiting] :
        executor' = [executor EXCEPT ![e] =
          [Idle EXCEPT !.stage = "claiming", !.queue = list]]
  BY <1>1
<1>3. n \in Nat /\ n > 0
  <2> DEFINE m == Cardinality(Waiting)
  <2>1. n \in 1 .. m
    OBVIOUS
  <2> HIDE DEF m
  <2> QED BY <2>1
<1>4. list \in Seq(Waiting) /\ Len(list) = n
  BY <1>3
<1>5. list \in Seq(Runs) /\ list # <<>>
  <2>1. list \in Seq(Runs)
    BY <1>4, SeqMonotonic DEF Waiting
  <2>2. Len(<<>>) = 0
    BY EmptySeq
  <2> QED
    BY <1>3, <1>4, <2>1, <2>2
<1> DEFINE s == [Idle EXCEPT !.stage = "claiming", !.queue = list]
<1>6. 1 \in 1 .. TaskCount + 1
  BY BackendRunsAssumption
<1>7. WellFormed(s)
  BY <1>5, <1>6
  DEF WellFormed, Idle, ExecutorState, Stages, Callers, TaskOutcomes, FinalStates
<1>8. StoreTyped'
  BY DEF StartSweep, TypeInv, TypeOK, StoreTyped
<1>9. executor' = [executor EXCEPT ![e] = s]
  BY <1>2
<1> HIDE DEF s
<1> QED
  BY <1>7, <1>8, <1>9, MoveTyped

LEMMA AnswersTyped ==
  ASSUME TypeInv, NEW r \in Runs, NEW state \in FinalStates,
         \/ UNCHANGED answers
         \/ answers' = [answers EXCEPT ![r] = @ \union {state}]
  PROVE  answers' \in [Runs -> SUBSET FinalStates]
<1>1. answers \in [Runs -> SUBSET FinalStates]
  BY DEF TypeInv, TypeOK
<1>2. answers[r] \union {state} \in SUBSET FinalStates
  BY <1>1
<1> QED
  BY <1>1, <1>2

LEMMA RecordRequestTyped ==
  ASSUME TypeInv, NEW e \in Executors, RecordRequest(e)
  PROVE  TypeInv'
<1>1. Current(e) \in Runs
  BY CurrentIsRun DEF RecordRequest
<1>2. rows' \in [Runs -> RunRow]
  <2>1. rows \in [Runs -> RunRow]
    BY DEF TypeInv, TypeOK
  <2>2. [rows[Current(e)] EXCEPT !.state = "pending"] \in RunRow
    BY <1>1, <2>1 DEF RunRow
  <2>3. UNCHANGED rows \/ rows' = [rows EXCEPT ![Current(e)].state = "pending"]
    BY DEF RecordRequest
  <2> QED
    BY <1>1, <2>1, <2>2, <2>3
<1>3. UNCHANGED <<ledger, applied, faults>>
  BY DEF RecordRequest
<1>4. CASE rows[Current(e)].state \in FinalStates /\ executor[e].caller # "delivery"
  <2>1. GoOn(e, executor[e]) /\ WellFormed(executor[e])
    BY <1>4 DEF RecordRequest, TypeInv
  <2>2. answers' \in [Runs -> SUBSET FinalStates]
    <3>1. \/ UNCHANGED answers
          \/ answers' = [answers EXCEPT ![Current(e)] =
                           @ \union {rows[Current(e)].state}]
      BY <1>4 DEF RecordRequest
    <3> QED
      BY <1>1, <1>4, <3>1, AnswersTyped DEF TypeInv, TypeOK
  <2>3. PICK s : WellFormed(s) /\ executor' = [executor EXCEPT ![e] = s]
    BY <2>1, GoOnMoves
  <2>4. StoreTyped'
    BY <1>2, <1>3, <2>1, <2>2, GoOnMoves DEF TypeInv, TypeOK, StoreTyped
  <2> QED
    BY <2>3, <2>4, MoveTyped
<1>5. CASE ~(rows[Current(e)].state \in FinalStates /\ executor[e].caller # "delivery")
  <2> DEFINE s == [executor[e] EXCEPT !.stage = "claiming"]
  <2>1. executor' = [executor EXCEPT ![e] = s] /\ UNCHANGED <<delivered, answers>>
    BY <1>5 DEF RecordRequest, TypeInv, TypeOK
  <2>2. WellFormed(s)
    BY DEF RecordRequest, TypeInv, WellFormed, ExecutorState, Stages
  <2>3. StoreTyped'
    BY <1>2, <1>3, <2>1 DEF TypeInv, TypeOK, StoreTyped
  <2> HIDE DEF s
  <2> QED
    BY <2>1, <2>2, <2>3, MoveTyped
<1> QED
  BY <1>4, <1>5

LEMMA ClaimRunTyped ==
  ASSUME TypeInv, NEW e \in Executors, ClaimRun(e)
  PROVE  TypeInv'
<1>1. Current(e) \in Runs
  BY CurrentIsRun DEF ClaimRun
<1>2. UNCHANGED <<ledger, applied, answers, faults>>
  BY DEF ClaimRun
<1>3. CASE Claimable(rows[Current(e)])
  <2> DEFINE s == [executor[e] EXCEPT !.stage = "working", !.task = 1]
  <2>1. executor' = [executor EXCEPT ![e] = s] /\ UNCHANGED delivered
    BY <1>3 DEF ClaimRun, TypeInv, TypeOK
  <2>2. rows' = [rows EXCEPT ![Current(e)] = [state |-> "running", live |-> TRUE]]
    BY <1>3 DEF ClaimRun
  <2>3. rows' \in [Runs -> RunRow]
    BY <1>1, <2>2 DEF TypeInv, TypeOK, RunRow
  <2>4. 1 \in 1 .. TaskCount + 1
    BY BackendRunsAssumption
  <2>5. WellFormed(s)
    BY <2>4 DEF ClaimRun, TypeInv, WellFormed, ExecutorState, Stages
  <2>6. StoreTyped'
    BY <1>2, <2>1, <2>3 DEF TypeInv, TypeOK, StoreTyped
  <2> HIDE DEF s
  <2> QED
    BY <2>1, <2>5, <2>6, MoveTyped
<1>4. CASE ~Claimable(rows[Current(e)])
  <2>1. GoOn(e, executor[e]) /\ WellFormed(executor[e]) /\ UNCHANGED rows
    BY <1>4 DEF ClaimRun, TypeInv
  <2>2. PICK s : WellFormed(s) /\ executor' = [executor EXCEPT ![e] = s]
    BY <2>1, GoOnMoves
  <2>3. StoreTyped'
    BY <1>2, <2>1, GoOnMoves DEF TypeInv, TypeOK, StoreTyped
  <2> QED
    BY <2>2, <2>3, MoveTyped
<1> QED
  BY <1>3, <1>4

\* An executor inside a run that resumes it with an outcome.
LEMMA ResumeMoves ==
  ASSUME TypeInv, NEW e \in Executors, NEW outcome \in TaskOutcomes,
         executor[e].stage # "idle", executor[e].task <= TaskCount,
         Resume(e, outcome)
  PROVE  /\ executor' = [executor EXCEPT ![e] = Resumed(executor[e], outcome)]
         /\ WellFormed(Resumed(executor[e], outcome))
<1>1. WellFormed(executor[e]) /\ executor[e].queue # <<>>
  BY DEF TypeInv, WellFormed
<1>2. executor' = [executor EXCEPT ![e] = Resumed(executor[e], outcome)]
  BY DEF Resume
<1> QED
  BY <1>1, <1>2, ResumedWellFormed

LEMMA RefuseTaskTyped ==
  ASSUME TypeInv, NEW e \in Executors, RefuseTask(e)
  PROVE  TypeInv'
<1>1. /\ executor' = [executor EXCEPT ![e] = Resumed(executor[e], "refused")]
      /\ WellFormed(Resumed(executor[e], "refused"))
  BY ResumeMoves DEF RefuseTask, TaskOutcomes
<1>2. StoreTyped'
  BY DEF RefuseTask, TypeInv, TypeOK, StoreTyped
<1> QED
  BY <1>1, <1>2, MoveTyped

LEMMA RefuseRunTyped ==
  ASSUME TypeInv, NEW e \in Executors, RefuseRun(e)
  PROVE  TypeInv'
<1> DEFINE s == [executor[e] EXCEPT !.stage = "finishing", !.result = "refused"]
<1>1. executor' = [executor EXCEPT ![e] = s]
  BY DEF RefuseRun, TypeInv, TypeOK
<1>2. WellFormed(s)
  BY DEF RefuseRun, TypeInv, WellFormed, ExecutorState, Stages, FinalStates
<1>3. StoreTyped'
  BY DEF RefuseRun, TypeInv, TypeOK, StoreTyped
<1> HIDE DEF s
<1> QED
  BY <1>1, <1>2, <1>3, MoveTyped

LEMMA EndTasksTyped ==
  ASSUME TypeInv, NEW e \in Executors, EndTasks(e)
  PROVE  TypeInv'
<1>0. PICK result \in FinalStates :
        executor' = [executor EXCEPT ![e].stage = "finishing", ![e].result = result]
  BY DEF EndTasks
<1> DEFINE s == [executor[e] EXCEPT !.stage = "finishing", !.result = result]
<1>1. executor' = [executor EXCEPT ![e] = s]
  BY <1>0 DEF TypeInv, TypeOK
<1>2. WellFormed(s)
  BY DEF EndTasks, TypeInv, WellFormed, ExecutorState, Stages, FinalStates
<1>3. StoreTyped'
  BY DEF EndTasks, TypeInv, TypeOK, StoreTyped
<1> HIDE DEF s
<1> QED
  BY <1>1, <1>2, <1>3, MoveTyped

\* The executor's run and task are within their sets while it is at a task.
LEMMA AtTask ==
  ASSUME TypeInv, NEW e \in Executors, executor[e].task <= TaskCount
  PROVE  executor[e].task \in Tasks
  BY BackendRunsAssumption DEF TypeInv, WellFormed, ExecutorState, Tasks

LEMMA BeginEffectTyped ==
  ASSUME TypeInv, NEW e \in Executors, BeginEffect(e)
  PROVE  TypeInv'
<1> DEFINE r == Current(e)
           t == executor[e].task
<1>1. r \in Runs /\ t \in Tasks
  BY CurrentIsRun, AtTask DEF BeginEffect
<1>2. ledger[r][t] \in LedgerStates
  BY <1>1 DEF TypeInv, TypeOK
<1>3. UNCHANGED <<rows, delivered, applied, answers, faults>>
  BY DEF BeginEffect
<1>4. CASE ledger[r][t] = "none"
  <2> DEFINE s == [executor[e] EXCEPT !.stage = "applying"]
  <2>1. /\ ledger' = [ledger EXCEPT ![r][t] = "started"]
        /\ executor' = [executor EXCEPT ![e] = s]
    BY <1>4 DEF BeginEffect, TypeInv, TypeOK
  <2>2. ledger' \in [Runs -> [Tasks -> LedgerStates]]
    BY <1>1, <2>1 DEF TypeInv, TypeOK, LedgerStates
  <2>3. WellFormed(s)
    BY DEF BeginEffect, TypeInv, WellFormed, ExecutorState, Stages
  <2>4. StoreTyped'
    BY <1>3, <2>2 DEF TypeInv, TypeOK, StoreTyped
  <2> HIDE DEF s
  <2> QED
    BY <2>1, <2>3, <2>4, MoveTyped
<1>5. CASE ledger[r][t] # "none"
  <2>1. PICK outcome \in TaskOutcomes : Resume(e, outcome) /\ UNCHANGED ledger
    <3>1. CASE ledger[r][t] = "started"
      BY <1>5, <3>1 DEF BeginEffect, TaskOutcomes
    <3>2. CASE ledger[r][t] # "started"
      BY <1>2, <1>5, <3>2 DEF BeginEffect, LedgerStates
    <3> QED
      BY <3>1, <3>2
  <2>2. /\ executor' = [executor EXCEPT ![e] = Resumed(executor[e], outcome)]
        /\ WellFormed(Resumed(executor[e], outcome))
    BY <2>1, ResumeMoves DEF BeginEffect
  <2>3. StoreTyped'
    BY <1>3, <2>1 DEF TypeInv, TypeOK, StoreTyped
  <2> QED
    BY <2>2, <2>3, MoveTyped
<1> QED
  BY <1>4, <1>5

LEMMA ApplyEffectTyped ==
  ASSUME TypeInv, NEW e \in Executors, ApplyEffect(e)
  PROVE  TypeInv'
<1> DEFINE r == Current(e)
           t == executor[e].task
<1>1. r \in Runs /\ t \in Tasks
  BY CurrentIsRun, AtTask DEF ApplyEffect, TypeInv, WellFormed
<1>2. PICK outcome \in TaskOutcomes :
        /\ applied' = IF outcome = "committed"
                      THEN [applied EXCEPT ![r][t] = @ + 1] ELSE applied
        /\ executor' = [executor EXCEPT ![e].stage = "recording",
                                        ![e].outcome = outcome]
  BY DEF ApplyEffect
<1> DEFINE s == [executor[e] EXCEPT !.stage = "recording", !.outcome = outcome]
<1>3. executor' = [executor EXCEPT ![e] = s]
  BY <1>2 DEF TypeInv, TypeOK
<1>4. WellFormed(s)
  BY DEF ApplyEffect, TypeInv, WellFormed, ExecutorState, Stages
<1>5. applied' \in [Runs -> [Tasks -> Nat]]
  BY <1>1, <1>2 DEF TypeInv, TypeOK
<1>6. UNCHANGED <<rows, ledger, delivered, answers, faults>>
  BY DEF ApplyEffect
<1>7. StoreTyped'
  BY <1>5, <1>6 DEF TypeInv, TypeOK, StoreTyped
<1> HIDE DEF s
<1> QED
  BY <1>3, <1>4, <1>7, MoveTyped

LEMMA CompleteEffectTyped ==
  ASSUME TypeInv, NEW e \in Executors, CompleteEffect(e)
  PROVE  TypeInv'
<1> DEFINE r == Current(e)
           t == executor[e].task
           outcome == executor[e].outcome
<1>1. executor[e].task <= TaskCount /\ outcome \in TaskOutcomes
  BY DEF CompleteEffect, TypeInv, WellFormed, ExecutorState
<1>2. r \in Runs /\ t \in Tasks
  BY <1>1, CurrentIsRun, AtTask DEF CompleteEffect
<1>3. ledger' \in [Runs -> [Tasks -> LedgerStates]]
  BY <1>1, <1>2 DEF CompleteEffect, TypeInv, TypeOK, LedgerStates
<1>4. UNCHANGED <<rows, delivered, applied, answers, faults>>
  BY DEF CompleteEffect
<1>5. StoreTyped'
  BY <1>3, <1>4 DEF TypeInv, TypeOK, StoreTyped
<1>6. /\ executor' = [executor EXCEPT ![e] = Resumed(executor[e], outcome)]
      /\ WellFormed(Resumed(executor[e], outcome))
  BY <1>1, ResumeMoves DEF CompleteEffect
<1> QED
  BY <1>5, <1>6, MoveTyped

LEMMA FinishTyped ==
  ASSUME TypeInv, NEW e \in Executors, Finish(e)
  PROVE  TypeInv'
<1>1. Current(e) \in Runs /\ executor[e].result \in FinalStates
  BY CurrentIsRun DEF Finish, TypeInv, WellFormed, ExecutorState
<1>2. rows' \in [Runs -> RunRow]
  BY <1>1 DEF Finish, TypeInv, TypeOK, RunRow
<1>3. answers' \in [Runs -> SUBSET FinalStates]
  BY <1>1, AnswersTyped DEF Finish
<1>4. GoOn(e, executor[e]) /\ WellFormed(executor[e])
  BY DEF Finish, TypeInv
<1>5. PICK s : WellFormed(s) /\ executor' = [executor EXCEPT ![e] = s]
  BY <1>4, GoOnMoves
<1>6. StoreTyped'
  BY <1>2, <1>3, <1>4, GoOnMoves DEF Finish, TypeInv, TypeOK, StoreTyped
<1> QED
  BY <1>5, <1>6, MoveTyped

\* What a committed call makes of a row.
LEMMA AfterCallTyped ==
  ASSUME TypeInv, NEW e \in Executors, NEW row \in RunRow
  PROVE  /\ AfterCall(executor[e], row) \in RunRow
         /\ \/ AfterCall(executor[e], row) = row
            \/ row.state = "absent" /\ AfterCall(executor[e], row).state = "pending"
            \/ /\ row.state \in {"pending", "running"}
               /\ AfterCall(executor[e], row).state = "running"
            \/ /\ row.state = "running" /\ executor[e].stage = "finishing"
               /\ AfterCall(executor[e], row).state = executor[e].result
<1> DEFINE state == executor[e]
           after == AfterCall(state, row)
<1>1. state.result \in FinalStates
  BY DEF TypeInv, WellFormed, ExecutorState
<1> HIDE DEF state
<1>2. CASE state.stage = "requesting" /\ row.state = "absent"
  <2>1. after = [row EXCEPT !.state = "pending"]
    BY <1>2 DEF AfterCall
  <2> QED
    BY <1>2, <2>1 DEF RunRow, state
<1>3. CASE state.stage = "claiming" /\ Claimable(row)
  <2>1. after = [state |-> "running", live |-> TRUE]
    BY <1>3 DEF AfterCall
  <2> QED
    BY <1>3, <2>1 DEF RunRow, Claimable, state
<1>4. CASE state.stage = "finishing" /\ row.state = "running"
  <2>1. after = [state |-> state.result, live |-> FALSE]
    BY <1>4 DEF AfterCall
  <2> QED
    BY <1>1, <1>4, <2>1 DEF RunRow, state
<1>5. CASE /\ ~(state.stage = "requesting" /\ row.state = "absent")
           /\ ~(state.stage = "claiming" /\ Claimable(row))
           /\ ~(state.stage = "finishing" /\ row.state = "running")
  <2>1. after = row
    BY <1>5 DEF AfterCall
  <2> QED
    BY <2>1 DEF state
<1> QED
  BY <1>2, <1>3, <1>4, <1>5

LEMMA FailCallTyped ==
  ASSUME TypeInv, NEW e \in Executors, FailCall(e)
  PROVE  TypeInv'
<1>1. Throw(e) /\ Fault /\ UNCHANGED <<ledger, applied, answers>>
  BY DEF FailCall
<1>2. PICK s : WellFormed(s) /\ executor' = [executor EXCEPT ![e] = s]
  BY <1>1, ThrowMoves
<1>3. rows' \in [Runs -> RunRow]
  <2>1. Current(e) \in Runs
    BY CurrentIsRun DEF FailCall
  <2>2. AfterCall(executor[e], rows[Current(e)]) \in RunRow
    BY <2>1, AfterCallTyped DEF TypeInv, TypeOK
  <2> QED
    BY <2>1, <2>2 DEF FailCall, TypeInv, TypeOK
<1>4. StoreTyped'
  BY <1>1, <1>3, ThrowMoves, FaultTyped DEF TypeInv, TypeOK, StoreTyped
<1> QED
  BY <1>2, <1>4, MoveTyped

\* A failing effect leaves the executor resumed with an outcome; its effect may
\* have been committed when it was being applied.
LEMMA FailEffectMoves ==
  ASSUME TypeInv, NEW e \in Executors, FailEffect(e)
  PROVE  /\ executor[e].stage \in {"working", "applying", "recording"}
         /\ executor[e].task <= TaskCount
         /\ \E outcome \in TaskOutcomes :
              /\ Resume(e, outcome)
              /\ outcome = "committed" => /\ executor[e].stage = "recording"
                                          /\ executor[e].outcome = "committed"
         /\ \/ UNCHANGED applied
            \/ /\ executor[e].stage = "applying"
               /\ \E n \in {0, 1} :
                    applied' = [applied EXCEPT ![Current(e)][executor[e].task] = @ + n]
<1>1. "failed" \in TaskOutcomes /\ "failed" # "committed"
  BY DEF TaskOutcomes
<1>2. CASE executor[e].stage = "working" /\ executor[e].task <= TaskCount
           /\ Resume(e, "failed") /\ UNCHANGED applied
  BY <1>1, <1>2
<1>3. CASE /\ executor[e].stage = "applying"
           /\ \E n \in {0, 1} :
                applied' = [applied EXCEPT ![Current(e)][executor[e].task] = @ + n]
           /\ Resume(e, "failed")
  <2>1. executor[e].task <= TaskCount
    BY <1>3 DEF TypeInv, WellFormed
  <2> QED
    BY <1>1, <1>3, <2>1
<1>4. CASE executor[e].stage = "recording" /\ Resume(e, executor[e].outcome)
           /\ UNCHANGED applied
  <2>1. executor[e].task <= TaskCount /\ executor[e].outcome \in TaskOutcomes
    BY <1>4 DEF TypeInv, WellFormed, ExecutorState
  <2> QED
    BY <1>4, <2>1
<1> QED
  BY <1>2, <1>3, <1>4 DEF FailEffect

LEMMA FailEffectTyped ==
  ASSUME TypeInv, NEW e \in Executors, FailEffect(e)
  PROVE  TypeInv'
<1>1. Fault /\ UNCHANGED <<rows, ledger, delivered, answers>>
  BY DEF FailEffect
<1>2. PICK outcome \in TaskOutcomes : Resume(e, outcome)
  BY FailEffectMoves
<1>3. executor[e].stage # "idle" /\ executor[e].task <= TaskCount
  BY FailEffectMoves
<1>4. /\ executor' = [executor EXCEPT ![e] = Resumed(executor[e], outcome)]
      /\ WellFormed(Resumed(executor[e], outcome))
  BY <1>2, <1>3, ResumeMoves
<1>5. Current(e) \in Runs /\ executor[e].task \in Tasks
  BY <1>3, CurrentIsRun, AtTask
<1>6. applied' \in [Runs -> [Tasks -> Nat]]
  <2>1. CASE UNCHANGED applied
    BY <2>1 DEF TypeInv, TypeOK
  <2>2. CASE \E n \in {0, 1} :
               applied' = [applied EXCEPT ![Current(e)][executor[e].task] = @ + n]
    BY <1>5, <2>2 DEF TypeInv, TypeOK
  <2> QED
    BY <2>1, <2>2, FailEffectMoves
<1>7. StoreTyped'
  BY <1>1, <1>6, FaultTyped DEF TypeInv, TypeOK, StoreTyped
<1> QED
  BY <1>4, <1>7, MoveTyped

LEMMA CrashTyped ==
  ASSUME TypeInv, NEW e \in Executors, Crash(e)
  PROVE  TypeInv'
<1>1. StoreTyped'
  BY FaultTyped DEF Crash, TypeInv, TypeOK, StoreTyped
<1>2. executor' = [executor EXCEPT ![e] = Idle]
  BY DEF Crash
<1> QED
  BY <1>1, <1>2, IdleWellFormed, MoveTyped

LEMMA LapseClaimTyped ==
  ASSUME TypeInv, NEW r \in Runs, LapseClaim(r)
  PROVE  TypeInv'
<1>1. rows' \in [Runs -> RunRow]
  BY DEF LapseClaim, TypeInv, TypeOK, RunRow
<1> QED
  BY <1>1 DEF LapseClaim, TypeInv, TypeOK

LEMMA RefuseDeliveryTyped ==
  ASSUME TypeInv, RefuseDelivery
  PROVE  TypeInv'
<1>1. delivered' \in Deliveries
  BY DEF RefuseDelivery, Deliveries
<1> QED
  BY <1>1 DEF RefuseDelivery, TypeInv, TypeOK

LEMMA TypeInvStep ==
  ASSUME TypeInv, [Next]_vars
  PROVE  TypeInv'
<1>1. ASSUME NEW e \in Executors, NEW r \in Requested,
             NEW caller \in {"await", "start"}, StartRequest(e, r, caller)
      PROVE  TypeInv'
  BY <1>1, StartRequestTyped
<1>2. ASSUME NEW e \in Executors, Work(e) PROVE TypeInv'
  BY <1>2, RecordRequestTyped, ClaimRunTyped, BeginEffectTyped,
     ApplyEffectTyped, CompleteEffectTyped, EndTasksTyped, FinishTyped
  DEF Work
<1>3. ASSUME NEW e \in Executors,
             \/ StartDelivery(e) \/ StartSweep(e) \/ RefuseRun(e)
             \/ RefuseTask(e) \/ FailCall(e) \/ FailEffect(e) \/ Crash(e)
      PROVE  TypeInv'
  BY <1>3, StartDeliveryTyped, StartSweepTyped, RefuseRunTyped,
     RefuseTaskTyped, FailCallTyped, FailEffectTyped, CrashTyped
<1>4. CASE RefuseDelivery
  BY <1>4, RefuseDeliveryTyped
<1>5. ASSUME NEW r \in Runs, LapseClaim(r) PROVE TypeInv'
  BY <1>5, LapseClaimTyped
<1>6. CASE UNCHANGED vars
  BY <1>6 DEF vars, TypeInv, TypeOK
<1> QED
  BY <1>1, <1>2, <1>3, <1>4, <1>5, <1>6 DEF Next

\* Everything has its type, and no executor is at a task its flow does not have
\* or without a run to work on.
THEOREM Typing == Spec => []TypeInv
<1>1. Init => TypeInv
  <2> SUFFICES ASSUME Init PROVE TypeInv
    OBVIOUS
  <2>1. StoreTyped
    BY BackendRunsAssumption
    DEF Init, StoreTyped, RunRow, LedgerStates, Deliveries
  <2>2. executor = [e \in Executors |-> Idle]
    BY DEF Init
  <2>3. Idle \in ExecutorState
    BY IdleWellFormed DEF WellFormed
  <2>4. executor \in [Executors -> ExecutorState]
    BY <2>2, <2>3
  <2>5. \A e \in Executors : WellFormed(executor[e])
    BY <2>2, IdleWellFormed
  <2> QED
    BY <2>1, <2>4, <2>5, TypeInvSplit
<1>2. TypeInv /\ [Next]_vars => TypeInv'
  BY TypeInvStep
<1> QED
  BY <1>1, <1>2, PTL DEF Spec

\* The type invariant that the runs check.
THEOREM TypeCorrect == Spec => []TypeOK
  BY Typing, PTL DEF TypeInv

-----------------------------------------------------------------------------
(***************************************************************************)
(* What a step does to the ledger and the effects.  Most steps touch       *)
(* neither and move at most one executor, and none of those moves brings   *)
(* an executor to an effect.                                               *)
(***************************************************************************)
QuietMove(e, s) ==
  \/ Moved(s)
  \/ s.stage = "working" /\ s.task = 1
  \/ /\ s.stage = "working" /\ s.queue = executor[e].queue
     /\ s.task = executor[e].task + 1
     /\ executor[e].stage \in {"working", "recording"}
     /\ executor[e].task <= TaskCount
     /\ \/ executor[e].task \in Refusable
        \/ ledger[Current(e)][executor[e].task] = "committed"
        \/ executor[e].stage = "recording" /\ executor[e].outcome = "committed"
  \/ s.stage = "finishing" /\ s.result # "succeeded"
  \/ /\ s.stage = "finishing" /\ s.queue = executor[e].queue
     /\ executor[e].stage = "working" /\ executor[e].task = TaskCount + 1

Quiet ==
  /\ UNCHANGED <<ledger, applied>>
  /\ \/ UNCHANGED executor
     \/ \E e \in Executors : \E s :
          /\ executor' = [executor EXCEPT ![e] = s]
          /\ WellFormed(s)
          /\ QuietMove(e, s)

\* The steps that are not quiet.
ClaimsEffect(e) ==
  /\ executor[e].stage = "working"
  /\ executor[e].task <= TaskCount
  /\ ledger[Current(e)][executor[e].task] = "none"
  /\ ledger' = [ledger EXCEPT ![Current(e)][executor[e].task] = "started"]
  /\ executor' = [executor EXCEPT ![e].stage = "applying"]
  /\ UNCHANGED applied

LosesEffect(e) ==
  /\ executor[e].stage = "applying"
  /\ \E n \in {0, 1} :
       applied' = [applied EXCEPT ![Current(e)][executor[e].task] = @ + n]
  /\ Resume(e, "failed")
  /\ UNCHANGED ledger

EffectStep ==
  \/ Quiet
  \/ \E e \in Executors :
       ClaimsEffect(e) \/ ApplyEffect(e) \/ CompleteEffect(e) \/ LosesEffect(e)

LEMMA ResumedIsQuiet ==
  ASSUME TypeInv, NEW e \in Executors, NEW outcome \in TaskOutcomes,
         executor[e].stage # "idle", executor[e].task <= TaskCount,
         Resume(e, outcome), UNCHANGED <<ledger, applied>>,
         outcome = "committed" =>
           \/ ledger[Current(e)][executor[e].task] = "committed"
           \/ executor[e].stage = "recording" /\ executor[e].outcome = "committed",
         outcome # "failed" => executor[e].stage \in {"working", "recording"}
  PROVE  Quiet
<1> DEFINE s == Resumed(executor[e], outcome)
<1>1. executor' = [executor EXCEPT ![e] = s] /\ WellFormed(s)
  BY ResumeMoves
<1>2. WellFormed(executor[e]) /\ executor[e].queue # <<>>
  BY DEF TypeInv, WellFormed
<1>3. s.queue = executor[e].queue
  BY <1>2, ResumedWellFormed
<1>4. \/ s.stage = "working" /\ s.task = executor[e].task + 1
         /\ (outcome = "committed" \/ (outcome = "refused" /\ executor[e].task \in Refusable))
      \/ s.stage = "finishing" /\ s.result # "succeeded"
  <2>1. CASE outcome = "committed" \/ (outcome = "refused" /\ executor[e].task \in Refusable)
    BY <1>2, <2>1 DEF Resumed, WellFormed, ExecutorState
  <2>2. CASE ~(outcome = "committed" \/ (outcome = "refused" /\ executor[e].task \in Refusable))
    BY <1>2, <2>2 DEF Resumed, WellFormed, ExecutorState, TaskOutcomes
  <2> QED
    BY <2>1, <2>2
<1> HIDE DEF s
<1>5. QuietMove(e, s)
  BY <1>3, <1>4 DEF QuietMove
<1> QED
  BY <1>1, <1>5 DEF Quiet

LEMMA EffectSteps ==
  ASSUME TypeInv, [Next]_vars
  PROVE  EffectStep
<1> USE DEF EffectStep
<1>1. ASSUME NEW e \in Executors, NEW r \in Requested,
             NEW caller \in {"await", "start"}, StartRequest(e, r, caller)
      PROVE  Quiet
  <2>1. TypeInv'
    BY <1>1, StartRequestTyped
  <2> DEFINE s == [Idle EXCEPT !.stage = "requesting", !.caller = caller,
                               !.queue = <<r>>]
  <2>2. executor' = [executor EXCEPT ![e] = s] /\ UNCHANGED <<ledger, applied>>
    BY <1>1 DEF StartRequest
  <2>3. Moved(s)
    BY DEF Moved, Idle
  <2> HIDE DEF s
  <2>4. WellFormed(s)
    BY <2>1, <2>2 DEF TypeInv, TypeOK
  <2> QED
    BY <2>2, <2>3, <2>4 DEF Quiet, QuietMove
<1>2. ASSUME NEW e \in Executors, StartDelivery(e) PROVE Quiet
  <2>1. TypeInv'
    BY <1>2, StartDeliveryTyped
  <2> DEFINE s == [Idle EXCEPT !.stage = "requesting", !.caller = "delivery",
                               !.queue = Subscribers]
  <2>2. executor' = [executor EXCEPT ![e] = s] /\ UNCHANGED <<ledger, applied>>
    BY <1>2 DEF StartDelivery
  <2>3. Moved(s)
    BY DEF Moved, Idle
  <2> HIDE DEF s
  <2>4. WellFormed(s)
    BY <2>1, <2>2 DEF TypeInv, TypeOK
  <2> QED
    BY <2>2, <2>3, <2>4 DEF Quiet, QuietMove
<1>3. ASSUME NEW e \in Executors, StartSweep(e) PROVE Quiet
  <2>1. TypeInv'
    BY <1>3, StartSweepTyped
  <2>2. PICK n \in 1 .. Cardinality(Waiting) : \E list \in [1 .. n -> Waiting] :
          executor' = [executor EXCEPT ![e] =
            [Idle EXCEPT !.stage = "claiming", !.queue = list]]
    BY <1>3 DEF StartSweep
  <2>3. PICK list \in [1 .. n -> Waiting] :
          executor' = [executor EXCEPT ![e] =
            [Idle EXCEPT !.stage = "claiming", !.queue = list]]
    BY <2>2
  <2> DEFINE s == [Idle EXCEPT !.stage = "claiming", !.queue = list]
  <2>4. executor' = [executor EXCEPT ![e] = s] /\ UNCHANGED <<ledger, applied>>
    BY <1>3, <2>3 DEF StartSweep
  <2>5. Moved(s)
    BY DEF Moved, Idle
  <2> HIDE DEF s
  <2>6. WellFormed(s)
    BY <2>1, <2>4 DEF TypeInv, TypeOK
  <2> QED
    BY <2>4, <2>5, <2>6 DEF Quiet, QuietMove
<1>4. ASSUME NEW e \in Executors, RecordRequest(e) PROVE Quiet
  <2>1. CASE GoOn(e, executor[e])
    <3>1. PICK s : WellFormed(s) /\ Moved(s) /\ executor' = [executor EXCEPT ![e] = s]
      BY <2>1, GoOnMoves DEF TypeInv
    <3> QED
      BY <1>4, <3>1 DEF Quiet, QuietMove, RecordRequest
  <2>2. CASE executor' = [executor EXCEPT ![e].stage = "claiming"]
    <3> DEFINE s == [executor[e] EXCEPT !.stage = "claiming"]
    <3>1. executor' = [executor EXCEPT ![e] = s]
      BY <2>2 DEF TypeInv, TypeOK
    <3>2. TypeInv'
      BY <1>4, RecordRequestTyped
    <3>3. Moved(s)
      BY DEF Moved, TypeInv, TypeOK, ExecutorState
    <3> HIDE DEF s
    <3>4. WellFormed(s)
      BY <3>1, <3>2 DEF TypeInv, TypeOK
    <3> QED
      BY <1>4, <3>1, <3>3, <3>4 DEF Quiet, QuietMove, RecordRequest
  <2> QED
    BY <1>4, <2>1, <2>2 DEF RecordRequest
<1>5. ASSUME NEW e \in Executors, ClaimRun(e) PROVE Quiet
  <2>1. CASE GoOn(e, executor[e])
    <3>1. PICK s : WellFormed(s) /\ Moved(s) /\ executor' = [executor EXCEPT ![e] = s]
      BY <2>1, GoOnMoves DEF TypeInv
    <3> QED
      BY <1>5, <3>1 DEF Quiet, QuietMove, ClaimRun
  <2>2. CASE executor' = [executor EXCEPT ![e].stage = "working", ![e].task = 1]
    <3> DEFINE s == [executor[e] EXCEPT !.stage = "working", !.task = 1]
    <3>1. executor' = [executor EXCEPT ![e] = s]
      BY <2>2 DEF TypeInv, TypeOK
    <3>2. TypeInv'
      BY <1>5, ClaimRunTyped
    <3>3. s.stage = "working" /\ s.task = 1
      BY DEF TypeInv, TypeOK, ExecutorState
    <3> HIDE DEF s
    <3>4. WellFormed(s)
      BY <3>1, <3>2 DEF TypeInv, TypeOK
    <3> QED
      BY <1>5, <3>1, <3>3, <3>4 DEF Quiet, QuietMove, ClaimRun
  <2> QED
    BY <1>5, <2>1, <2>2 DEF ClaimRun
<1>6. ASSUME NEW e \in Executors, RefuseRun(e) PROVE Quiet
  <2> DEFINE s == [executor[e] EXCEPT !.stage = "finishing", !.result = "refused"]
  <2>1. executor' = [executor EXCEPT ![e] = s] /\ UNCHANGED <<ledger, applied>>
    BY <1>6 DEF RefuseRun, TypeInv, TypeOK
  <2>2. TypeInv'
    BY <1>6, RefuseRunTyped
  <2>3. s.stage = "finishing" /\ s.result # "succeeded"
    BY DEF TypeInv, TypeOK, ExecutorState
  <2> HIDE DEF s
  <2>4. WellFormed(s)
    BY <2>1, <2>2 DEF TypeInv, TypeOK
  <2> QED
    BY <2>1, <2>3, <2>4 DEF Quiet, QuietMove
<1>7. ASSUME NEW e \in Executors, EndTasks(e) PROVE Quiet
  <2>0. PICK result \in FinalStates :
          executor' = [executor EXCEPT ![e].stage = "finishing", ![e].result = result]
    BY <1>7 DEF EndTasks
  <2> DEFINE s == [executor[e] EXCEPT !.stage = "finishing", !.result = result]
  <2>1. executor' = [executor EXCEPT ![e] = s] /\ UNCHANGED <<ledger, applied>>
    BY <1>7, <2>0 DEF EndTasks, TypeInv, TypeOK
  <2>2. TypeInv'
    BY <1>7, EndTasksTyped
  <2>3. s.stage = "finishing" /\ s.queue = executor[e].queue
    BY DEF TypeInv, TypeOK, ExecutorState
  <2>4. executor[e].stage = "working" /\ executor[e].task = TaskCount + 1
    BY <1>7 DEF EndTasks
  <2> HIDE DEF s
  <2>5. WellFormed(s)
    BY <2>1, <2>2 DEF TypeInv, TypeOK
  <2> QED
    BY <2>1, <2>3, <2>4, <2>5 DEF Quiet, QuietMove
<1>8. ASSUME NEW e \in Executors, RefuseTask(e) PROVE Quiet
  <2>1. /\ executor[e].stage = "working" /\ executor[e].task <= TaskCount
        /\ Resume(e, "refused") /\ UNCHANGED <<ledger, applied>>
    BY <1>8 DEF RefuseTask
  <2>2. "refused" \in TaskOutcomes /\ "refused" # "committed"
    BY DEF TaskOutcomes
  <2> QED
    BY <2>1, <2>2, ResumedIsQuiet
<1>9. ASSUME NEW e \in Executors, BeginEffect(e) PROVE Quiet \/ ClaimsEffect(e)
  <2> DEFINE r == Current(e)
             t == executor[e].task
  <2>1. executor[e].stage = "working" /\ t <= TaskCount /\ UNCHANGED applied
    BY <1>9 DEF BeginEffect
  <2>2. r \in Runs /\ t \in Tasks
    BY <2>1, CurrentIsRun, AtTask
  <2>3. ledger[r][t] \in LedgerStates
    BY <2>2 DEF TypeInv, TypeOK
  <2>4. CASE ledger[r][t] = "none"
    BY <1>9, <2>1, <2>4 DEF BeginEffect, ClaimsEffect
  <2>5. CASE ledger[r][t] = "started"
    <3>1. Resume(e, "failed") /\ UNCHANGED ledger
      BY <1>9, <2>5 DEF BeginEffect
    <3>2. "failed" \in TaskOutcomes /\ "failed" # "committed"
      BY DEF TaskOutcomes
    <3> QED
      BY <2>1, <3>1, <3>2, ResumedIsQuiet
  <2>6. CASE ledger[r][t] \in TaskOutcomes
    <3>1. ledger[r][t] # "none" /\ ledger[r][t] # "started"
      BY <2>6 DEF TaskOutcomes
    <3>2. Resume(e, ledger[r][t]) /\ UNCHANGED ledger
      BY <1>9, <3>1 DEF BeginEffect
    <3> QED
      BY <2>1, <2>6, <3>2, ResumedIsQuiet
  <2> QED
    BY <2>3, <2>4, <2>5, <2>6 DEF LedgerStates
<1>10. ASSUME NEW e \in Executors, Finish(e) PROVE Quiet
  <2>1. PICK s : WellFormed(s) /\ Moved(s) /\ executor' = [executor EXCEPT ![e] = s]
    BY <1>10, GoOnMoves DEF Finish, TypeInv
  <2> QED
    BY <1>10, <2>1 DEF Quiet, QuietMove, Finish
<1>11. ASSUME NEW e \in Executors, FailCall(e) PROVE Quiet
  <2>1. PICK s : WellFormed(s) /\ Moved(s) /\ executor' = [executor EXCEPT ![e] = s]
    BY <1>11, ThrowMoves DEF FailCall
  <2> QED
    BY <1>11, <2>1 DEF Quiet, QuietMove, FailCall
<1>12. ASSUME NEW e \in Executors, FailEffect(e) PROVE Quiet \/ LosesEffect(e)
  <2>1. UNCHANGED ledger
    BY <1>12 DEF FailEffect
  <2>2. "failed" \in TaskOutcomes /\ "failed" # "committed"
    BY DEF TaskOutcomes
  <2>3. CASE executor[e].stage = "working" /\ executor[e].task <= TaskCount
             /\ Resume(e, "failed") /\ UNCHANGED applied
    BY <2>1, <2>2, <2>3, ResumedIsQuiet
  <2>4. CASE LosesEffect(e)
    BY <2>4
  <2>5. CASE executor[e].stage = "recording" /\ Resume(e, executor[e].outcome)
             /\ UNCHANGED applied
    <3>1. executor[e].task <= TaskCount /\ executor[e].outcome \in TaskOutcomes
      BY <2>5 DEF TypeInv, WellFormed, ExecutorState
    <3> QED
      BY <2>1, <2>5, <3>1, ResumedIsQuiet
  <2> QED
    BY <1>12, <2>1, <2>3, <2>4, <2>5 DEF FailEffect, LosesEffect
<1>13. ASSUME NEW e \in Executors, Crash(e) PROVE Quiet
  <2>1. Moved(Idle)
    BY DEF Moved, Idle
  <2> QED
    BY <1>13, <2>1, IdleWellFormed DEF Crash, Quiet, QuietMove
<1>14. CASE \/ RefuseDelivery
            \/ \E r \in Runs : LapseClaim(r)
            \/ UNCHANGED vars
  BY <1>14 DEF RefuseDelivery, LapseClaim, vars, Quiet
<1> QED
  BY <1>1, <1>2, <1>3, <1>4, <1>5, <1>6, <1>7, <1>8, <1>9, <1>10, <1>11,
     <1>12, <1>13, <1>14 DEF Next, Work

-----------------------------------------------------------------------------
(***************************************************************************)
(* The effects invariant: an effect is committed only by the executor that *)
(* claimed it, which is one at most, and only while its claim is open.     *)
(***************************************************************************)
AtEffect(e) == executor[e].stage \in {"applying", "recording"}

LedgerInv ==
  \A r \in Runs, t \in Tasks :
    /\ applied[r][t] <= 1
    /\ ledger[r][t] = "none" => applied[r][t] = 0
    /\ ledger[r][t] = "committed" => applied[r][t] = 1

ClaimInv ==
  \A e \in Executors :
    AtEffect(e) =>
      LET r == Current(e)
          t == executor[e].task IN
      /\ ledger[r][t] = "started"
      /\ executor[e].stage = "applying" => applied[r][t] = 0
      /\ executor[e].stage = "recording" /\ executor[e].outcome = "committed"
           => applied[r][t] = 1

OneClaim ==
  \A e, f \in Executors :
    AtEffect(e) /\ AtEffect(f) /\ Current(e) = Current(f)
      /\ executor[e].task = executor[f].task => e = f

EffectInv == LedgerInv /\ ClaimInv /\ OneClaim

LEMMA QuietNotAtEffect ==
  ASSUME NEW e \in Executors, NEW s, QuietMove(e, s)
  PROVE  s.stage \notin {"applying", "recording"}
  BY DEF QuietMove, Moved

LEMMA QuietKeepsEffects ==
  ASSUME TypeInv, EffectInv, Quiet
  PROVE  EffectInv'
<1>1. LedgerInv'
  BY DEF Quiet, EffectInv, LedgerInv
<1>2. CASE UNCHANGED executor
  BY <1>1, <1>2 DEF Quiet, EffectInv, ClaimInv, OneClaim, AtEffect, Current
<1>3. CASE \E e \in Executors : \E s :
             executor' = [executor EXCEPT ![e] = s] /\ QuietMove(e, s)
  <2>a. PICK e \in Executors : \E s :
          executor' = [executor EXCEPT ![e] = s] /\ QuietMove(e, s)
    BY <1>3
  <2>1. PICK s : executor' = [executor EXCEPT ![e] = s] /\ QuietMove(e, s)
    BY <2>a
  <2>2. /\ ~AtEffect(e)'
        /\ \A f \in Executors : f # e => executor'[f] = executor[f]
    BY <2>1, QuietNotAtEffect DEF AtEffect, TypeInv, TypeOK
  <2>3. \A f \in Executors : AtEffect(f)' => f # e /\ executor'[f] = executor[f]
    BY <2>2
  <2>4. ClaimInv'
    BY <2>3 DEF Quiet, EffectInv, ClaimInv, AtEffect, Current
  <2>5. OneClaim'
    BY <2>3 DEF EffectInv, OneClaim, AtEffect, Current
  <2> QED
    BY <1>1, <2>4, <2>5 DEF EffectInv
<1> QED
  BY <1>2, <1>3 DEF Quiet

\* What one ledger entry or one effect changes to, everything else unchanged.
LEMMA LedgerAt ==
  ASSUME TypeInv, NEW r \in Runs, NEW t \in Tasks, NEW value,
         ledger' = [ledger EXCEPT ![r][t] = value]
  PROVE  /\ ledger'[r][t] = value
         /\ \A q \in Runs, u \in Tasks :
              q # r \/ u # t => ledger'[q][u] = ledger[q][u]
  BY DEF TypeInv, TypeOK

LEMMA AppliedAt ==
  ASSUME TypeInv, NEW r \in Runs, NEW t \in Tasks, NEW n,
         applied' = [applied EXCEPT ![r][t] = @ + n]
  PROVE  /\ applied'[r][t] = applied[r][t] + n
         /\ \A q \in Runs, u \in Tasks :
              q # r \/ u # t => applied'[q][u] = applied[q][u]
  BY DEF TypeInv, TypeOK

LEMMA AtEffectTask ==
  ASSUME TypeInv, NEW e \in Executors, AtEffect(e)
  PROVE  Current(e) \in Runs /\ executor[e].task \in Tasks
  BY CurrentIsRun, AtTask DEF AtEffect, TypeInv, WellFormed

LEMMA ClaimsEffectKeepsEffects ==
  ASSUME TypeInv, EffectInv, NEW e \in Executors, ClaimsEffect(e)
  PROVE  EffectInv'
<1> DEFINE r == Current(e)
           t == executor[e].task
<1>1. r \in Runs /\ t \in Tasks
  BY CurrentIsRun, AtTask DEF ClaimsEffect
<1>2. /\ ledger[r][t] = "none" /\ UNCHANGED applied
      /\ ledger' = [ledger EXCEPT ![r][t] = "started"]
      /\ executor' = [executor EXCEPT ![e].stage = "applying"]
  BY DEF ClaimsEffect
<1>3. /\ executor'[e] = [executor[e] EXCEPT !.stage = "applying"]
      /\ \A f \in Executors : f # e => executor'[f] = executor[f]
  BY <1>2 DEF TypeInv, TypeOK
<1>4. /\ executor'[e].stage = "applying" /\ executor'[e].task = t
      /\ Current(e)' = r
  BY <1>3 DEF TypeInv, TypeOK, ExecutorState, Current
<1> HIDE DEF r, t
<1>5. /\ ledger'[r][t] = "started"
      /\ \A q \in Runs, u \in Tasks :
           q # r \/ u # t => ledger'[q][u] = ledger[q][u]
  BY <1>1, <1>2 DEF TypeInv, TypeOK
<1>6. applied[r][t] = 0
  BY <1>1, <1>2 DEF EffectInv, LedgerInv
<1>7. LedgerInv'
  BY <1>1, <1>2, <1>5 DEF EffectInv, LedgerInv
\* Whoever else is at an effect is at another one: that one's claim is open.
<1>8. \A f \in Executors : f # e /\ AtEffect(f)' =>
        /\ AtEffect(f) /\ executor'[f] = executor[f] /\ Current(f)' = Current(f)
        /\ Current(f) # r \/ executor[f].task # t
  <2> SUFFICES ASSUME NEW f \in Executors, f # e, AtEffect(f)'
               PROVE  /\ AtEffect(f) /\ executor'[f] = executor[f]
                      /\ Current(f)' = Current(f)
                      /\ Current(f) # r \/ executor[f].task # t
    OBVIOUS
  <2>1. executor'[f] = executor[f] /\ AtEffect(f) /\ Current(f)' = Current(f)
    BY <1>3 DEF AtEffect, Current
  <2>2. ledger[Current(f)][executor[f].task] = "started"
    BY <2>1 DEF EffectInv, ClaimInv
  <2> QED
    BY <1>2, <2>1, <2>2
<1>9. ClaimInv'
  <2> SUFFICES ASSUME NEW f \in Executors, AtEffect(f)'
               PROVE  /\ ledger'[Current(f)'][executor'[f].task] = "started"
                      /\ executor'[f].stage = "applying" =>
                           applied'[Current(f)'][executor'[f].task] = 0
                      /\ executor'[f].stage = "recording"
                           /\ executor'[f].outcome = "committed" =>
                           applied'[Current(f)'][executor'[f].task] = 1
    BY DEF ClaimInv
  <2>1. CASE f = e
    BY <1>2, <1>4, <1>5, <1>6, <2>1
  <2>2. CASE f # e
    <3>1. /\ AtEffect(f) /\ executor'[f] = executor[f] /\ Current(f)' = Current(f)
          /\ Current(f) # r \/ executor[f].task # t
      BY <1>8, <2>2
    <3>2. Current(f) \in Runs /\ executor[f].task \in Tasks
      BY <3>1, AtEffectTask
    <3>3. ledger'[Current(f)][executor[f].task] = ledger[Current(f)][executor[f].task]
      BY <1>5, <3>1, <3>2
    <3> QED
      BY <1>2, <3>1, <3>3 DEF EffectInv, ClaimInv
  <2> QED
    BY <2>1, <2>2
<1>10. OneClaim'
  <2> SUFFICES ASSUME NEW f \in Executors, NEW g \in Executors,
                      AtEffect(f)', AtEffect(g)', Current(f)' = Current(g)',
                      executor'[f].task = executor'[g].task
               PROVE  f = g
    BY DEF OneClaim
  <2>1. CASE f = e \/ g = e
    BY <1>4, <1>8, <2>1
  <2>2. CASE f # e /\ g # e
    BY <1>8, <2>2 DEF EffectInv, OneClaim
  <2> QED
    BY <2>1, <2>2
<1> QED
  BY <1>7, <1>9, <1>10 DEF EffectInv

\* An executor leaves its effect, or moves from applying it to recording it, and
\* nobody else moves: claims stay exclusive and everybody else's claim is another.
LEMMA OthersClaims ==
  ASSUME TypeInv, EffectInv, NEW e \in Executors, AtEffect(e), NEW s,
         executor' = [executor EXCEPT ![e] = s],
         s.queue = executor[e].queue,
         s.stage \in {"applying", "recording"} => s.task = executor[e].task
  PROVE  /\ OneClaim'
         /\ \A f \in Executors : f # e /\ AtEffect(f)' =>
              /\ AtEffect(f) /\ executor'[f] = executor[f]
              /\ Current(f)' = Current(f)
              /\ Current(f) \in Runs /\ executor[f].task \in Tasks
              /\ Current(f) # Current(e) \/ executor[f].task # executor[e].task
<1>1. executor'[e] = s /\ \A f \in Executors : f # e => executor'[f] = executor[f]
  BY DEF TypeInv, TypeOK
<1>2. Current(e)' = Current(e)
  BY <1>1 DEF Current
<1>3. \A f \in Executors : f # e /\ AtEffect(f)' =>
        AtEffect(f) /\ executor'[f] = executor[f] /\ Current(f)' = Current(f)
  BY <1>1 DEF AtEffect, Current
<1>4. OneClaim'
  BY <1>1, <1>2, <1>3 DEF EffectInv, OneClaim, AtEffect
<1>5. \A f \in Executors : f # e /\ AtEffect(f)' =>
        Current(f) # Current(e) \/ executor[f].task # executor[e].task
  BY <1>3 DEF EffectInv, OneClaim
<1>6. \A f \in Executors : f # e /\ AtEffect(f)' =>
        Current(f) \in Runs /\ executor[f].task \in Tasks
  BY <1>3, AtEffectTask
<1> QED
  BY <1>3, <1>4, <1>5, <1>6

LEMMA ApplyEffectKeepsEffects ==
  ASSUME TypeInv, EffectInv, NEW e \in Executors, ApplyEffect(e)
  PROVE  EffectInv'
<1> DEFINE r == Current(e)
           t == executor[e].task
<1>1. executor[e].stage = "applying" /\ AtEffect(e) /\ UNCHANGED ledger
  BY DEF ApplyEffect, AtEffect
<1>2. r \in Runs /\ t \in Tasks
  BY <1>1, AtEffectTask
<1>3. PICK outcome \in TaskOutcomes :
        /\ applied' = IF outcome = "committed"
                      THEN [applied EXCEPT ![r][t] = @ + 1] ELSE applied
        /\ executor' = [executor EXCEPT ![e].stage = "recording",
                                        ![e].outcome = outcome]
  BY DEF ApplyEffect
<1>4. ledger[r][t] = "started" /\ applied[r][t] = 0
  BY <1>1 DEF EffectInv, ClaimInv
<1> DEFINE s == [executor[e] EXCEPT !.stage = "recording", !.outcome = outcome]
<1>5. /\ executor' = [executor EXCEPT ![e] = s]
      /\ s.queue = executor[e].queue /\ s.task = t
      /\ s.stage = "recording" /\ s.outcome = outcome
  BY <1>3 DEF TypeInv, TypeOK, ExecutorState
<1> HIDE DEF s
<1>6. /\ OneClaim'
      /\ \A f \in Executors : f # e /\ AtEffect(f)' =>
           /\ AtEffect(f) /\ executor'[f] = executor[f] /\ Current(f)' = Current(f)
           /\ Current(f) \in Runs /\ executor[f].task \in Tasks
           /\ Current(f) # r \/ executor[f].task # t
  BY <1>1, <1>5, OthersClaims
<1>7. executor'[e] = s /\ Current(e)' = r
  BY <1>5 DEF TypeInv, TypeOK, Current
<1>8. /\ applied'[r][t] = IF outcome = "committed" THEN 1 ELSE 0
      /\ \A q \in Runs, u \in Tasks :
           q # r \/ u # t => applied'[q][u] = applied[q][u]
  <2> HIDE DEF r, t
  <2>1. CASE outcome = "committed"
    <3>1. applied' = [applied EXCEPT ![r][t] = @ + 1]
      BY <1>3, <2>1
    <3>2. /\ applied'[r][t] = applied[r][t] + 1
          /\ \A q \in Runs, u \in Tasks :
               q # r \/ u # t => applied'[q][u] = applied[q][u]
      BY <1>2, <3>1, AppliedAt
    <3> QED
      BY <1>4, <2>1, <3>2
  <2>2. CASE outcome # "committed"
    BY <1>3, <1>4, <2>2
  <2> QED
    BY <2>1, <2>2
<1> HIDE DEF r, t
<1>9. LedgerInv'
  <2> SUFFICES ASSUME NEW q \in Runs, NEW u \in Tasks
               PROVE  /\ applied'[q][u] <= 1
                      /\ ledger[q][u] = "none" => applied'[q][u] = 0
                      /\ ledger[q][u] = "committed" => applied'[q][u] = 1
    BY <1>1 DEF LedgerInv
  <2>1. CASE q = r /\ u = t
    BY <1>4, <1>8, <2>1
  <2>2. CASE q # r \/ u # t
    BY <1>8, <2>2 DEF EffectInv, LedgerInv
  <2> QED
    BY <2>1, <2>2
<1>10. ClaimInv'
  <2> SUFFICES ASSUME NEW f \in Executors, AtEffect(f)'
               PROVE  /\ ledger'[Current(f)'][executor'[f].task] = "started"
                      /\ executor'[f].stage = "applying" =>
                           applied'[Current(f)'][executor'[f].task] = 0
                      /\ executor'[f].stage = "recording"
                           /\ executor'[f].outcome = "committed" =>
                           applied'[Current(f)'][executor'[f].task] = 1
    BY DEF ClaimInv
  <2>1. CASE f = e
    BY <1>1, <1>4, <1>5, <1>7, <1>8, <2>1
  <2>2. CASE f # e
    <3>1. /\ AtEffect(f) /\ executor'[f] = executor[f] /\ Current(f)' = Current(f)
          /\ Current(f) \in Runs /\ executor[f].task \in Tasks
          /\ Current(f) # r \/ executor[f].task # t
      BY <1>6, <2>2
    <3>2. applied'[Current(f)][executor[f].task] = applied[Current(f)][executor[f].task]
      BY <1>8, <3>1
    <3> QED
      BY <1>1, <3>1, <3>2 DEF EffectInv, ClaimInv
  <2> QED
    BY <2>1, <2>2
<1> QED
  BY <1>6, <1>9, <1>10 DEF EffectInv

LEMMA CompleteEffectKeepsEffects ==
  ASSUME TypeInv, EffectInv, NEW e \in Executors, CompleteEffect(e)
  PROVE  EffectInv'
<1> DEFINE r == Current(e)
           t == executor[e].task
           outcome == executor[e].outcome
           s == Resumed(executor[e], outcome)
<1>1. executor[e].stage = "recording" /\ AtEffect(e) /\ UNCHANGED applied
  BY DEF CompleteEffect, AtEffect
<1>2. r \in Runs /\ t \in Tasks
  BY <1>1, AtEffectTask
<1>3. /\ ledger[r][t] = "started"
      /\ outcome = "committed" => applied[r][t] = 1
  BY <1>1 DEF EffectInv, ClaimInv
<1>4. ledger' = [ledger EXCEPT ![r][t] = outcome]
  BY <1>3 DEF CompleteEffect
<1>5. WellFormed(executor[e]) /\ t <= TaskCount /\ outcome \in TaskOutcomes
  BY <1>1 DEF TypeInv, WellFormed, ExecutorState
<1>6. /\ executor' = [executor EXCEPT ![e] = s]
      /\ s.queue = executor[e].queue
      /\ s.stage \notin {"applying", "recording"}
  <2>1. executor' = [executor EXCEPT ![e] = s]
    BY DEF CompleteEffect, Resume
  <2>2. executor[e].queue # <<>>
    BY <1>1, <1>5 DEF WellFormed
  <2> QED
    BY <1>5, <2>1, <2>2, ResumedWellFormed
<1> HIDE DEF s
<1>7. /\ OneClaim'
      /\ \A f \in Executors : f # e /\ AtEffect(f)' =>
           /\ AtEffect(f) /\ executor'[f] = executor[f] /\ Current(f)' = Current(f)
           /\ Current(f) \in Runs /\ executor[f].task \in Tasks
           /\ Current(f) # r \/ executor[f].task # t
  BY <1>1, <1>6, OthersClaims
<1>8. ~AtEffect(e)'
  BY <1>6 DEF AtEffect, TypeInv, TypeOK
<1>9. /\ ledger'[r][t] = outcome
      /\ \A q \in Runs, u \in Tasks :
           q # r \/ u # t => ledger'[q][u] = ledger[q][u]
  <2> HIDE DEF r, t, outcome
  <2> QED
    BY <1>2, <1>4 DEF TypeInv, TypeOK
<1>10. outcome # "none"
  BY <1>5 DEF TaskOutcomes
<1> HIDE DEF r, t, outcome
<1>11. LedgerInv'
  <2> SUFFICES ASSUME NEW q \in Runs, NEW u \in Tasks
               PROVE  /\ applied[q][u] <= 1
                      /\ ledger'[q][u] = "none" => applied[q][u] = 0
                      /\ ledger'[q][u] = "committed" => applied[q][u] = 1
    BY <1>1 DEF LedgerInv
  <2>1. applied[q][u] <= 1
    BY DEF EffectInv, LedgerInv
  <2>2. CASE q = r /\ u = t
    BY <1>3, <1>9, <1>10, <2>1, <2>2
  <2>3. CASE q # r \/ u # t
    BY <1>9, <2>3 DEF EffectInv, LedgerInv
  <2> QED
    BY <2>2, <2>3
<1>12. ClaimInv'
  <2> SUFFICES ASSUME NEW f \in Executors, AtEffect(f)'
               PROVE  /\ ledger'[Current(f)'][executor'[f].task] = "started"
                      /\ executor'[f].stage = "applying" =>
                           applied'[Current(f)'][executor'[f].task] = 0
                      /\ executor'[f].stage = "recording"
                           /\ executor'[f].outcome = "committed" =>
                           applied'[Current(f)'][executor'[f].task] = 1
    BY DEF ClaimInv
  <2>1. f # e
    BY <1>8
  <2>2. /\ AtEffect(f) /\ executor'[f] = executor[f] /\ Current(f)' = Current(f)
        /\ Current(f) \in Runs /\ executor[f].task \in Tasks
        /\ Current(f) # r \/ executor[f].task # t
    BY <1>7, <2>1
  <2>3. ledger'[Current(f)][executor[f].task] = ledger[Current(f)][executor[f].task]
    BY <1>9, <2>2
  <2> QED
    BY <1>1, <2>2, <2>3 DEF EffectInv, ClaimInv
<1> QED
  BY <1>7, <1>11, <1>12 DEF EffectInv

LEMMA LosesEffectKeepsEffects ==
  ASSUME TypeInv, EffectInv, NEW e \in Executors, LosesEffect(e)
  PROVE  EffectInv'
<1> DEFINE r == Current(e)
           t == executor[e].task
           s == Resumed(executor[e], "failed")
<1>1. executor[e].stage = "applying" /\ AtEffect(e) /\ UNCHANGED ledger
  BY DEF LosesEffect, AtEffect
<1>2. r \in Runs /\ t \in Tasks
  BY <1>1, AtEffectTask
<1>3. ledger[r][t] = "started" /\ applied[r][t] = 0
  BY <1>1 DEF EffectInv, ClaimInv
<1>4. PICK n \in {0, 1} : applied' = [applied EXCEPT ![r][t] = @ + n]
  BY DEF LosesEffect
<1>5. WellFormed(executor[e]) /\ t <= TaskCount /\ "failed" \in TaskOutcomes
  BY <1>1 DEF TypeInv, WellFormed, TaskOutcomes
<1>6. /\ executor' = [executor EXCEPT ![e] = s]
      /\ s.queue = executor[e].queue
      /\ s.stage \notin {"applying", "recording"}
  <2>1. executor' = [executor EXCEPT ![e] = s]
    BY DEF LosesEffect, Resume
  <2>2. executor[e].queue # <<>>
    BY <1>1, <1>5 DEF WellFormed
  <2> QED
    BY <1>5, <2>1, <2>2, ResumedWellFormed
<1> HIDE DEF s
<1>7. /\ OneClaim'
      /\ \A f \in Executors : f # e /\ AtEffect(f)' =>
           /\ AtEffect(f) /\ executor'[f] = executor[f] /\ Current(f)' = Current(f)
           /\ Current(f) \in Runs /\ executor[f].task \in Tasks
           /\ Current(f) # r \/ executor[f].task # t
  BY <1>1, <1>6, OthersClaims
<1>8. ~AtEffect(e)'
  BY <1>6 DEF AtEffect, TypeInv, TypeOK
<1>9. /\ applied'[r][t] = n
      /\ \A q \in Runs, u \in Tasks :
           q # r \/ u # t => applied'[q][u] = applied[q][u]
  <2> HIDE DEF r, t
  <2>1. /\ applied'[r][t] = applied[r][t] + n
        /\ \A q \in Runs, u \in Tasks :
             q # r \/ u # t => applied'[q][u] = applied[q][u]
    BY <1>2, <1>4, AppliedAt
  <2> QED
    BY <1>3, <2>1
<1> HIDE DEF r, t
<1>10. LedgerInv'
  <2> SUFFICES ASSUME NEW q \in Runs, NEW u \in Tasks
               PROVE  /\ applied'[q][u] <= 1
                      /\ ledger[q][u] = "none" => applied'[q][u] = 0
                      /\ ledger[q][u] = "committed" => applied'[q][u] = 1
    BY <1>1 DEF LedgerInv
  <2>1. CASE q = r /\ u = t
    BY <1>3, <1>9, <2>1
  <2>2. CASE q # r \/ u # t
    BY <1>9, <2>2 DEF EffectInv, LedgerInv
  <2> QED
    BY <2>1, <2>2
<1>11. ClaimInv'
  <2> SUFFICES ASSUME NEW f \in Executors, AtEffect(f)'
               PROVE  /\ ledger'[Current(f)'][executor'[f].task] = "started"
                      /\ executor'[f].stage = "applying" =>
                           applied'[Current(f)'][executor'[f].task] = 0
                      /\ executor'[f].stage = "recording"
                           /\ executor'[f].outcome = "committed" =>
                           applied'[Current(f)'][executor'[f].task] = 1
    BY DEF ClaimInv
  <2>1. f # e
    BY <1>8
  <2>2. /\ AtEffect(f) /\ executor'[f] = executor[f] /\ Current(f)' = Current(f)
        /\ Current(f) \in Runs /\ executor[f].task \in Tasks
        /\ Current(f) # r \/ executor[f].task # t
    BY <1>7, <2>1
  <2>3. applied'[Current(f)][executor[f].task] = applied[Current(f)][executor[f].task]
    BY <1>9, <2>2
  <2> QED
    BY <1>1, <2>2, <2>3 DEF EffectInv, ClaimInv
<1> QED
  BY <1>7, <1>10, <1>11 DEF EffectInv

LEMMA EffectInvStep ==
  ASSUME TypeInv, EffectInv, [Next]_vars
  PROVE  EffectInv'
<1>1. EffectStep
  BY EffectSteps
<1> QED
  BY <1>1, QuietKeepsEffects, ClaimsEffectKeepsEffects, ApplyEffectKeepsEffects,
     CompleteEffectKeepsEffects, LosesEffectKeepsEffects DEF EffectStep

LEMMA EffectInvInit == Init => EffectInv
<1> SUFFICES ASSUME Init PROVE EffectInv
  OBVIOUS
<1>1. \A r \in Runs, t \in Tasks : ledger[r][t] = "none" /\ applied[r][t] = 0
  BY DEF Init
<1>2. \A e \in Executors : ~AtEffect(e)
  BY DEF Init, Idle, AtEffect
<1> QED
  BY <1>1, <1>2 DEF EffectInv, LedgerInv, ClaimInv, OneClaim

\* The effects invariant holds throughout.
THEOREM EffectsClaimed == Spec => [](TypeInv /\ EffectInv)
<1>1. TypeInv /\ EffectInv /\ [Next]_vars => EffectInv'
  BY EffectInvStep
<1> QED
  BY <1>1, EffectInvInit, Typing, PTL DEF Spec

\* No task's effect is committed twice, by any number of executors, requests,
\* deliveries, sweeps and faults.
THEOREM EffectsHappenOnce == Spec => []EffectsAtMostOnce
<1>1. EffectInv => EffectsAtMostOnce
  BY DEF EffectInv, LedgerInv, EffectsAtMostOnce
<1> QED
  BY <1>1, EffectsClaimed, PTL

-----------------------------------------------------------------------------
(***************************************************************************)
(* The runs invariant: an executor that reached a task, or the end, has    *)
(* seen the effect of every earlier task whose refusal is not handled.     *)
(***************************************************************************)
Done(r, t) == \A s \in Tasks \ Refusable : s < t => applied[r][s] = 1

InRun(e) == executor[e].stage \in {"working", "applying", "recording"}

ReachedInv ==
  \A e \in Executors :
    /\ InRun(e) => Done(Current(e), executor[e].task)
    /\ executor[e].stage = "finishing" /\ executor[e].result = "succeeded"
         => Done(Current(e), TaskCount + 1)

SucceededInv ==
  \A r \in Runs :
    rows[r].state = "succeeded" \/ "succeeded" \in answers[r]
      => Done(r, TaskCount + 1)

OrderInv == \A r \in Runs, t \in Tasks : applied[r][t] > 0 => Done(r, t)

RunInv == ReachedInv /\ SucceededInv /\ OrderInv

\* Only the executor applying an effect commits it, and nothing undoes it.
LEMMA AppliedChange ==
  ASSUME TypeInv, EffectInv, [Next]_vars, NEW r \in Runs, NEW t \in Tasks
  PROVE  \/ applied'[r][t] = applied[r][t]
         \/ /\ applied[r][t] = 0
            /\ \E e \in Executors : /\ executor[e].stage = "applying"
                                    /\ Current(e) = r /\ executor[e].task = t
<1>1. ASSUME NEW e \in Executors, executor[e].stage = "applying", NEW n,
             applied' = [applied EXCEPT ![Current(e)][executor[e].task] = @ + n]
      PROVE  \/ applied'[r][t] = applied[r][t]
             \/ applied[r][t] = 0 /\ Current(e) = r /\ executor[e].task = t
  <2>1. Current(e) \in Runs /\ executor[e].task \in Tasks
    BY <1>1, AtEffectTask DEF AtEffect
  <2>2. applied[Current(e)][executor[e].task] = 0
    BY <1>1 DEF EffectInv, ClaimInv, AtEffect
  <2>3. CASE Current(e) = r /\ executor[e].task = t
    BY <2>2, <2>3
  <2>4. CASE Current(e) # r \/ executor[e].task # t
    BY <1>1, <2>1, <2>4 DEF TypeInv, TypeOK
  <2> QED
    BY <2>3, <2>4
<1>2. CASE Quiet \/ \E e \in Executors : ClaimsEffect(e) \/ CompleteEffect(e)
  BY <1>2 DEF Quiet, ClaimsEffect, CompleteEffect
<1>3. ASSUME NEW e \in Executors, ApplyEffect(e)
      PROVE  \/ applied'[r][t] = applied[r][t]
             \/ /\ applied[r][t] = 0 /\ executor[e].stage = "applying"
                /\ Current(e) = r /\ executor[e].task = t
  <2>1. executor[e].stage = "applying"
    BY <1>3 DEF ApplyEffect
  <2>2. \/ applied' = [applied EXCEPT ![Current(e)][executor[e].task] = @ + 1]
        \/ UNCHANGED applied
    BY <1>3 DEF ApplyEffect
  <2> QED
    BY <1>1, <2>1, <2>2
<1>4. ASSUME NEW e \in Executors, LosesEffect(e)
      PROVE  \/ applied'[r][t] = applied[r][t]
             \/ /\ applied[r][t] = 0 /\ executor[e].stage = "applying"
                /\ Current(e) = r /\ executor[e].task = t
  <2>1. executor[e].stage = "applying"
    BY <1>4 DEF LosesEffect
  <2>2. PICK n \in {0, 1} :
          applied' = [applied EXCEPT ![Current(e)][executor[e].task] = @ + n]
    BY <1>4 DEF LosesEffect
  <2> QED
    BY <1>1, <2>1, <2>2
<1> QED
  BY <1>2, <1>3, <1>4, EffectSteps DEF EffectStep

LEMMA DoneKept ==
  ASSUME TypeInv, EffectInv, [Next]_vars, NEW r \in Runs, NEW t, Done(r, t)
  PROVE  \A s \in Tasks \ Refusable : s < t => applied'[r][s] = 1
<1> SUFFICES ASSUME NEW s \in Tasks \ Refusable, s < t
             PROVE  applied'[r][s] = 1
  OBVIOUS
<1>1. applied[r][s] = 1
  BY DEF Done
<1>2. s \in Tasks
  OBVIOUS
<1> QED
  BY <1>1, <1>2, AppliedChange

\* What a step does to one executor.
LEMMA ExecutorChange ==
  ASSUME TypeInv, [Next]_vars, NEW f \in Executors
  PROVE  \/ executor'[f] = executor[f]
         \/ QuietMove(f, executor'[f])
         \/ /\ executor[f].stage \in {"working", "applying"}
            /\ executor'[f].stage \in {"applying", "recording"}
            /\ executor'[f].queue = executor[f].queue
            /\ executor'[f].task = executor[f].task
<1>1. CASE Quiet
  <2>1. CASE UNCHANGED executor
    BY <2>1
  <2>2. ASSUME NEW e \in Executors, NEW s, QuietMove(e, s),
               executor' = [executor EXCEPT ![e] = s]
        PROVE  executor'[f] = executor[f] \/ QuietMove(f, executor'[f])
    <3>1. CASE e = f
      <4>1. executor'[f] = s
        BY <2>2, <3>1 DEF TypeInv, TypeOK
      <4> QED
        BY <2>2, <3>1, <4>1
    <3>2. CASE e # f
      BY <2>2, <3>2 DEF TypeInv, TypeOK
    <3> QED
      BY <3>1, <3>2
  <2> QED
    BY <1>1, <2>1, <2>2 DEF Quiet
<1>2. ASSUME NEW e \in Executors, ClaimsEffect(e) \/ ApplyEffect(e)
      PROVE  \/ executor'[f] = executor[f]
             \/ /\ executor[f].stage \in {"working", "applying"}
                /\ executor'[f].stage \in {"applying", "recording"}
                /\ executor'[f].queue = executor[f].queue
                /\ executor'[f].task = executor[f].task
  BY <1>2 DEF ClaimsEffect, ApplyEffect, TypeInv, TypeOK, ExecutorState
<1>3. ASSUME NEW e \in Executors, CompleteEffect(e) \/ LosesEffect(e)
      PROVE  executor'[f] = executor[f] \/ QuietMove(f, executor'[f])
  <2>1. PICK outcome \in TaskOutcomes :
          /\ Resume(e, outcome)
          /\ outcome = "failed" \/ (executor[e].stage = "recording"
                                      /\ outcome = executor[e].outcome)
    BY <1>3 DEF CompleteEffect, LosesEffect, TaskOutcomes, TypeInv, WellFormed,
                ExecutorState
  <2>2. /\ executor[e].stage \in {"applying", "recording"}
        /\ executor[e].task <= TaskCount
        /\ WellFormed(executor[e]) /\ executor[e].queue # <<>>
    BY <1>3 DEF CompleteEffect, LosesEffect, TypeInv, WellFormed
  <2> DEFINE s == Resumed(executor[e], outcome)
  <2>3. executor' = [executor EXCEPT ![e] = s]
    BY <2>1 DEF Resume
  <2>4. /\ s.queue = executor[e].queue
        /\ \/ s.stage = "working" /\ s.task = executor[e].task + 1
              /\ (outcome = "committed" \/ executor[e].task \in Refusable)
           \/ s.stage = "finishing" /\ s.result # "succeeded"
    BY <2>2, ResumedWellFormed
  <2>5. s.stage = "working" => outcome # "failed"
    BY <2>2 DEF Resumed, WellFormed, ExecutorState
  <2> HIDE DEF s
  <2>6. QuietMove(e, s)
    BY <2>1, <2>2, <2>4, <2>5 DEF QuietMove
  <2>7. CASE e = f
    <3>1. executor'[f] = s
      BY <2>3, <2>7 DEF TypeInv, TypeOK
    <3> QED
      BY <2>6, <2>7, <3>1
  <2>8. CASE e # f
    BY <2>3, <2>8 DEF TypeInv, TypeOK
  <2> QED
    BY <2>7, <2>8
<1> QED
  BY <1>1, <1>2, <1>3, EffectSteps DEF EffectStep

\* What a step does to a run's row and answers.
LEMMA RowChange ==
  ASSUME TypeInv, [Next]_vars, NEW r \in Runs
  PROVE  /\ \/ rows'[r] = rows[r]
            \/ rows[r].state = "absent" /\ rows'[r].state = "pending"
            \/ rows[r].state \in {"pending", "running"}
               /\ rows'[r].state = "running"
            \/ /\ rows[r].state = "running"
               /\ \E e \in Executors :
                    /\ executor[e].stage = "finishing" /\ Current(e) = r
                    /\ rows'[r].state = executor[e].result
         /\ \/ answers'[r] = answers[r]
            \/ answers'[r] = answers[r] \union {rows[r].state}
            \/ \E e \in Executors :
                 /\ executor[e].stage = "finishing" /\ Current(e) = r
                 /\ answers'[r] = answers[r] \union {executor[e].result}
<1> DEFINE RowGoal ==
             \/ rows'[r] = rows[r]
             \/ rows[r].state = "absent" /\ rows'[r].state = "pending"
             \/ rows[r].state \in {"pending", "running"}
                /\ rows'[r].state = "running"
             \/ /\ rows[r].state = "running"
                /\ \E e \in Executors :
                     /\ executor[e].stage = "finishing" /\ Current(e) = r
                     /\ rows'[r].state = executor[e].result
           AnswerGoal ==
             \/ answers'[r] = answers[r]
             \/ answers'[r] = answers[r] \union {rows[r].state}
             \/ \E e \in Executors :
                  /\ executor[e].stage = "finishing" /\ Current(e) = r
                  /\ answers'[r] = answers[r] \union {executor[e].result}
<1>1. ASSUME NEW e \in Executors, RecordRequest(e) PROVE RowGoal /\ AnswerGoal
  <2>1. RowGoal
    BY <1>1 DEF RecordRequest, TypeInv, TypeOK, RunRow
  <2>2. \/ UNCHANGED answers
        \/ answers' = [answers EXCEPT ![Current(e)] =
                         @ \union {rows[Current(e)].state}]
    BY <1>1 DEF RecordRequest
  <2>3. AnswerGoal
    BY <2>2 DEF TypeInv, TypeOK
  <2> QED
    BY <2>1, <2>3
<1>2. ASSUME NEW e \in Executors, ClaimRun(e) PROVE RowGoal /\ AnswerGoal
  BY <1>2 DEF ClaimRun, Claimable, TypeInv, TypeOK, RunRow
<1>3. ASSUME NEW e \in Executors, Finish(e) PROVE RowGoal /\ AnswerGoal
  <2>1. executor[e].stage = "finishing"
    BY <1>3 DEF Finish
  <2>2. RowGoal
    BY <1>3, <2>1 DEF Finish, TypeInv, TypeOK, RunRow
  <2>3. \/ UNCHANGED answers
        \/ answers' = [answers EXCEPT ![Current(e)] = @ \union {executor[e].result}]
    BY <1>3 DEF Finish
  <2>4. AnswerGoal
    BY <2>1, <2>3 DEF TypeInv, TypeOK
  <2> QED
    BY <2>2, <2>4
<1>4. ASSUME NEW q \in Runs, LapseClaim(q) PROVE RowGoal /\ AnswerGoal
  BY <1>4 DEF LapseClaim, TypeInv, TypeOK, RunRow
<1>5. CASE UNCHANGED <<rows, answers>>
  BY <1>5
<1>7. ASSUME NEW e \in Executors, FailCall(e) PROVE RowGoal /\ AnswerGoal
  <2>1. UNCHANGED answers /\ Current(e) \in Runs /\ rows[r] \in RunRow
    BY <1>7, CurrentIsRun DEF FailCall, TypeInv, TypeOK
  <2>2. \/ rows'[r] = rows[r]
        \/ Current(e) = r /\ rows'[r] = AfterCall(executor[e], rows[r])
    BY <1>7 DEF FailCall, TypeInv, TypeOK
  <2>3. RowGoal
    BY <2>1, <2>2, AfterCallTyped
  <2> QED
    BY <2>1, <2>3
<1>6. \/ UNCHANGED <<rows, answers>>
      \/ \E e \in Executors :
           RecordRequest(e) \/ ClaimRun(e) \/ Finish(e) \/ FailCall(e)
      \/ \E q \in Runs : LapseClaim(q)
  BY DEF Next, vars, StartRequest, StartDelivery, StartSweep, Work, BeginEffect,
         ApplyEffect, CompleteEffect, EndTasks, RefuseRun, RefuseTask, FailEffect,
         Crash, RefuseDelivery
<1> QED
  BY <1>1, <1>2, <1>3, <1>4, <1>5, <1>6, <1>7

\* An executor's current run stays the head of an unchanged queue.
LEMMA ReachedStep ==
  ASSUME TypeInv, EffectInv, ReachedInv, [Next]_vars
  PROVE  ReachedInv'
<1> SUFFICES ASSUME NEW f \in Executors
             PROVE  /\ InRun(f)' => Done(Current(f), executor[f].task)'
                    /\ executor'[f].stage = "finishing"
                         /\ executor'[f].result = "succeeded"
                         => Done(Current(f), TaskCount + 1)'
  BY DEF ReachedInv
<1>1. TypeInv'
  BY TypeInvStep
<1>2. CASE executor'[f] = executor[f]
  <2>1. Current(f)' = Current(f)
    BY <1>2 DEF Current
  <2>2. executor[f].stage # "idle" => Current(f) \in Runs
    BY CurrentIsRun
  <2>3. InRun(f)' => Done(Current(f), executor[f].task)'
    BY <1>2, <2>1, <2>2, DoneKept DEF InRun, ReachedInv, Done
  <2>4. executor'[f].stage = "finishing" /\ executor'[f].result = "succeeded"
          => Done(Current(f), TaskCount + 1)'
    BY <1>2, <2>1, <2>2, DoneKept DEF ReachedInv, Done
  <2> QED
    BY <2>3, <2>4
<1>3. CASE /\ executor[f].stage \in {"working", "applying"}
           /\ executor'[f].stage \in {"applying", "recording"}
           /\ executor'[f].queue = executor[f].queue
           /\ executor'[f].task = executor[f].task
  <2>1. Current(f)' = Current(f) /\ Current(f) \in Runs
    BY <1>3, CurrentIsRun DEF Current
  <2>2. Done(Current(f), executor[f].task)
    BY <1>3 DEF ReachedInv, InRun
  <2>3. Done(Current(f), executor[f].task)'
    BY <1>3, <2>1, <2>2, DoneKept DEF Done
  <2> QED
    BY <1>3, <2>3
<1>4. CASE Moved(executor'[f])
  BY <1>4 DEF Moved, InRun
<1>5. CASE executor'[f].stage = "working" /\ executor'[f].task = 1
  BY <1>5, BackendRunsAssumption DEF InRun, Done, Tasks
<1>6. CASE executor'[f].stage = "finishing" /\ executor'[f].result # "succeeded"
  BY <1>6 DEF InRun
<1>7. CASE /\ executor'[f].stage = "working"
           /\ executor'[f].queue = executor[f].queue
           /\ executor'[f].task = executor[f].task + 1
           /\ executor[f].stage \in {"working", "recording"}
           /\ executor[f].task <= TaskCount
           /\ \/ executor[f].task \in Refusable
              \/ ledger[Current(f)][executor[f].task] = "committed"
              \/ executor[f].stage = "recording" /\ executor[f].outcome = "committed"
  <2> DEFINE r == Current(f)
             t == executor[f].task
  <2>1. Current(f)' = r /\ r \in Runs /\ t \in Tasks
    BY <1>7, CurrentIsRun, AtTask DEF Current
  <2>2. Done(r, t)
    BY <1>7 DEF ReachedInv, InRun
  <2>3. t \in Refusable \/ applied[r][t] = 1
    <3>1. CASE ledger[r][t] = "committed"
      BY <2>1, <3>1 DEF EffectInv, LedgerInv
    <3>2. CASE executor[f].stage = "recording" /\ executor[f].outcome = "committed"
      BY <3>2 DEF EffectInv, ClaimInv, AtEffect
    <3> QED
      BY <1>7, <3>1, <3>2
  <2>4. Done(r, t + 1)
    <3> HIDE DEF r, t
    <3> SUFFICES ASSUME NEW s \in Tasks \ Refusable, s < t + 1
                 PROVE  applied[r][s] = 1
      BY DEF Done
    <3>1. s \in Int /\ t \in Int
      BY <2>1, BackendRunsAssumption DEF Tasks
    <3>2. CASE s < t
      BY <2>2, <3>2 DEF Done
    <3>3. CASE s = t
      BY <2>3, <3>3
    <3> QED
      BY <3>1, <3>2, <3>3
  <2>5. Done(Current(f), executor[f].task)'
    BY <1>7, <2>1, <2>4, DoneKept DEF Done
  <2> QED
    BY <1>7, <2>5
<1>8. CASE /\ executor'[f].stage = "finishing"
           /\ executor'[f].queue = executor[f].queue
           /\ executor[f].stage = "working" /\ executor[f].task = TaskCount + 1
  <2>1. Current(f)' = Current(f) /\ Current(f) \in Runs
    BY <1>8, CurrentIsRun DEF Current
  <2>2. Done(Current(f), TaskCount + 1)
    BY <1>8 DEF ReachedInv, InRun
  <2>3. Done(Current(f), TaskCount + 1)'
    BY <2>1, <2>2, DoneKept DEF Done
  <2> QED
    BY <1>8, <2>3 DEF InRun
<1> QED
  BY <1>2, <1>3, <1>4, <1>5, <1>6, <1>7, <1>8, ExecutorChange DEF QuietMove

LEMMA SucceededStep ==
  ASSUME TypeInv, EffectInv, ReachedInv, SucceededInv, [Next]_vars
  PROVE  SucceededInv'
<1> SUFFICES ASSUME NEW r \in Runs,
                    rows'[r].state = "succeeded" \/ "succeeded" \in answers'[r]
             PROVE  Done(r, TaskCount + 1)'
  BY DEF SucceededInv
<1>1. \/ rows[r].state = "succeeded" \/ "succeeded" \in answers[r]
      \/ \E e \in Executors : /\ executor[e].stage = "finishing"
                              /\ Current(e) = r
                              /\ executor[e].result = "succeeded"
  BY RowChange
<1>2. Done(r, TaskCount + 1)
  BY <1>1 DEF SucceededInv, ReachedInv
<1> QED
  BY <1>2, DoneKept DEF Done

LEMMA OrderStep ==
  ASSUME TypeInv, EffectInv, ReachedInv, OrderInv, [Next]_vars
  PROVE  OrderInv'
<1> SUFFICES ASSUME NEW r \in Runs, NEW t \in Tasks, applied'[r][t] > 0
             PROVE  Done(r, t)'
  BY DEF OrderInv
<1>1. CASE applied'[r][t] = applied[r][t]
  BY <1>1, DoneKept DEF OrderInv, Done
<1>2. CASE \E e \in Executors : /\ executor[e].stage = "applying"
                                /\ Current(e) = r /\ executor[e].task = t
  <2>1. Done(r, t)
    BY <1>2 DEF ReachedInv, InRun
  <2> QED
    BY <2>1, DoneKept DEF Done
<1> QED
  BY <1>1, <1>2, AppliedChange

LEMMA RunInvInit == Init => RunInv
<1> SUFFICES ASSUME Init PROVE RunInv
  OBVIOUS
<1>1. \A e \in Executors : executor[e].stage = "idle"
  BY DEF Init, Idle
<1>2. \A r \in Runs : /\ rows[r].state = "absent" /\ answers[r] = {}
                      /\ \A t \in Tasks : applied[r][t] = 0
  BY DEF Init
<1> QED
  BY <1>1, <1>2 DEF RunInv, ReachedInv, SucceededInv, OrderInv, InRun

\* The runs invariant holds throughout.
THEOREM RunsReached == Spec => []RunInv
<1>1. TypeInv /\ EffectInv /\ RunInv /\ [Next]_vars => RunInv'
  BY ReachedStep, SucceededStep, OrderStep DEF RunInv
<1> QED
  BY <1>1, RunInvInit, EffectsClaimed, PTL DEF Spec

\* A run recorded or answered as succeeded has committed every effect its flow
\* insists on.
THEOREM SuccessIsComplete == Spec => []SucceededMeansDone
<1>1. RunInv => SucceededMeansDone
  BY BackendRunsAssumption
  DEF RunInv, SucceededInv, Done, Tasks, SucceededMeansDone
<1> QED
  BY <1>1, RunsReached, PTL

\* Effects happen in task order across all executors of a run.
THEOREM EffectsOrdered == Spec => []EffectsInTaskOrder
<1>1. RunInv => EffectsInTaskOrder
  BY DEF RunInv, OrderInv, Done, EffectsInTaskOrder
<1> QED
  BY <1>1, RunsReached, PTL

\* A final state is never replaced.
THEOREM FinalStatesKept == Spec => FinalForGood
<1> DEFINE Kept == \A r \in Runs : rows[r].state \in FinalStates => rows'[r] = rows[r]
<1>1. TypeInv /\ [Next]_vars => [Kept]_vars
  <2> SUFFICES ASSUME TypeInv, [Next]_vars, NEW r \in Runs,
                      rows[r].state \in FinalStates
               PROVE  rows'[r] = rows[r]
    OBVIOUS
  <2> QED
    BY RowChange DEF FinalStates
<1> QED
  BY <1>1, Typing, PTL DEF Spec, FinalForGood

-----------------------------------------------------------------------------
(***************************************************************************)
(* The acknowledged occurrence.  A delivery that missed no subscriber has  *)
(* recorded every one that is not in its queue any more, and past the      *)
(* request also the one at the head.                                       *)
(***************************************************************************)
Queued(e, r) ==
  \E i \in 1 .. Len(executor[e].queue) : executor[e].queue[i] = r

Covers(e) ==
  /\ \A r \in SubscriberRuns : rows[r].state # "absent" \/ Queued(e, r)
  /\ executor[e].stage # "requesting" => rows[Current(e)].state # "absent"

Delivering(e) ==
  /\ executor[e].stage # "idle"
  /\ executor[e].caller = "delivery"
  /\ ~executor[e].missed

CoverInv == \A e \in Executors : Delivering(e) => Covers(e)

\* A row is never taken back by a step.
LEMMA RowsStay ==
  ASSUME TypeInv, [Next]_vars, NEW r \in Runs, rows[r].state # "absent"
  PROVE  rows'[r].state # "absent"
<1>1. \A e \in Executors : executor[e].result # "absent"
  BY DEF TypeInv, WellFormed, ExecutorState, FinalStates
<1> QED
  BY <1>1, RowChange

LEMMA QueueShape ==
  ASSUME TypeInv, NEW e \in Executors, executor[e].stage # "idle"
  PROVE  /\ executor[e].queue \in Seq(Runs)
         /\ Len(executor[e].queue) \in Nat \ {0}
         /\ Current(e) = executor[e].queue[1]
<1>1. executor[e].queue \in Seq(Runs) /\ executor[e].queue # <<>>
  BY DEF TypeInv, WellFormed, ExecutorState
<1>2. Len(executor[e].queue) \in Nat /\ Len(executor[e].queue) # 0
  BY <1>1, LenProperties, EmptySeq
<1> QED
  BY <1>1, <1>2, HeadTailProperties DEF Current

\* What a step of executor e may do to its part in a delivery.
LeavesDelivery(e) == ~Delivering(e)'

StaysWithRun(e) ==
  /\ executor[e].stage # "idle"
  /\ executor'[e].queue = executor[e].queue
  /\ executor'[e].caller = executor[e].caller
  /\ executor'[e].missed = executor[e].missed
  /\ \/ executor[e].stage # "requesting"
     \/ rows'[Current(e)].state # "absent"

TakesNext(e) ==
  /\ Delivering(e)
  /\ executor[e].stage # "requesting"
  /\ ~(Len(executor[e].queue) <= 1)
  /\ executor'[e].stage = "requesting"
  /\ executor'[e].queue = Tail(executor[e].queue)

CoverStep(e) ==
  /\ \A f \in Executors : f # e => executor'[f] = executor[f]
  /\ \/ LeavesDelivery(e)
     \/ StartDelivery(e)
     \/ StaysWithRun(e)
     \/ TakesNext(e)
  /\ delivered' = "ran" =>
       \/ delivered = "ran"
       \/ /\ Delivering(e)
          /\ executor[e].stage # "requesting"
          /\ Len(executor[e].queue) <= 1

\* An executor that is done with a run it did not miss, or that it did.
LEMMA GoOnCovers ==
  ASSUME TypeInv, NEW e \in Executors, executor[e].stage # "idle",
         GoOn(e, executor[e]),
         executor[e].stage # "requesting" \/ executor[e].caller # "delivery"
  PROVE  CoverStep(e)
<1>1. executor \in [Executors -> ExecutorState]
  BY DEF TypeInv, TypeOK
<1>2. CASE Len(executor[e].queue) <= 1
  <2>1. /\ executor' = [executor EXCEPT ![e] = Idle]
        /\ delivered' \in Settled(executor[e])
    BY <1>2 DEF GoOn
  <2>2. executor'[e].stage = "idle"
    BY <1>1, <2>1 DEF Idle
  <2>3. \A f \in Executors : f # e => executor'[f] = executor[f]
    BY <1>1, <2>1
  <2>4. delivered' = "ran" =>
          \/ delivered = "ran"
          \/ executor[e].caller = "delivery" /\ ~executor[e].missed
    BY <2>1 DEF Settled
  <2> QED
    BY <1>2, <2>2, <2>3, <2>4 DEF CoverStep, LeavesDelivery, Delivering
<1>3. CASE ~(Len(executor[e].queue) <= 1)
  <2>1. /\ executor' = [executor EXCEPT ![e] =
             [Idle EXCEPT !.caller = executor[e].caller,
                          !.missed = executor[e].missed,
                          !.queue = Tail(executor[e].queue),
                          !.stage = IF executor[e].caller = "sweep"
                                    THEN "claiming" ELSE "requesting"]]
        /\ UNCHANGED delivered
    BY <1>3 DEF GoOn
  <2>2. /\ executor'[e].caller = executor[e].caller
        /\ executor'[e].missed = executor[e].missed
        /\ executor'[e].queue = Tail(executor[e].queue)
        /\ executor[e].caller = "delivery" => executor'[e].stage = "requesting"
    BY <1>1, <2>1 DEF Idle
  <2>3. \A f \in Executors : f # e => executor'[f] = executor[f]
    BY <1>1, <2>1
  <2>4. CASE Delivering(e)
    <3>1. TakesNext(e)
      BY <1>3, <2>2, <2>4 DEF TakesNext, Delivering
    <3> QED
      BY <2>1, <2>3, <3>1 DEF CoverStep
  <2>5. CASE ~Delivering(e)
    <3>1. LeavesDelivery(e)
      BY <2>2, <2>5 DEF LeavesDelivery, Delivering
    <3> QED
      BY <2>1, <2>3, <3>1 DEF CoverStep
  <2> QED
    BY <2>4, <2>5
<1> QED
  BY <1>2, <1>3

\* A delivery whose call throws has missed a run from then on.
LEMMA ThrowCovers ==
  ASSUME TypeInv, NEW e \in Executors, Throw(e)
  PROVE  CoverStep(e)
<1>1. executor \in [Executors -> ExecutorState]
  BY DEF TypeInv, TypeOK
<1>2. CASE executor[e].caller = "delivery"
  <2> DEFINE state == [executor[e] EXCEPT !.missed = TRUE]
  <2>1. GoOn(e, state)
    BY <1>2 DEF Throw
  <2>2. state.missed = TRUE
    BY <1>1 DEF ExecutorState
  <2> HIDE DEF state
  <2>3. CASE Len(state.queue) <= 1
    <3>1. executor' = [executor EXCEPT ![e] = Idle] /\ delivered' \in Settled(state)
      BY <2>1, <2>3 DEF GoOn
    <3>2. delivered' = delivered
      BY <2>2, <3>1 DEF Settled
    <3>3. /\ executor'[e].stage = "idle"
          /\ \A f \in Executors : f # e => executor'[f] = executor[f]
      BY <1>1, <3>1 DEF Idle
    <3> QED
      BY <3>2, <3>3 DEF CoverStep, LeavesDelivery, Delivering
  <2>4. CASE ~(Len(state.queue) <= 1)
    <3>1. /\ executor' = [executor EXCEPT ![e] =
               [Idle EXCEPT !.caller = state.caller, !.missed = state.missed,
                            !.queue = Tail(state.queue),
                            !.stage = IF state.caller = "sweep"
                                      THEN "claiming" ELSE "requesting"]]
          /\ UNCHANGED delivered
      BY <2>1, <2>4 DEF GoOn
    <3>2. /\ executor'[e].missed
          /\ \A f \in Executors : f # e => executor'[f] = executor[f]
      BY <1>1, <2>2, <3>1 DEF Idle
    <3> QED
      BY <3>1, <3>2 DEF CoverStep, LeavesDelivery, Delivering
  <2> QED
    BY <2>3, <2>4
<1>3. CASE executor[e].caller # "delivery"
  <2>1. executor' = [executor EXCEPT ![e] = Idle] /\ UNCHANGED delivered
    BY <1>3 DEF Throw
  <2>2. /\ executor'[e].stage = "idle"
        /\ \A f \in Executors : f # e => executor'[f] = executor[f]
    BY <1>1, <2>1 DEF Idle
  <2> QED
    BY <2>1, <2>2 DEF CoverStep, LeavesDelivery, Delivering
<1> QED
  BY <1>2, <1>3

\* An executor inside a run stays with it.
LEMMA ResumeCovers ==
  ASSUME TypeInv, NEW e \in Executors, NEW outcome, Resume(e, outcome),
         executor[e].stage \notin {"idle", "requesting"}, UNCHANGED delivered
  PROVE  CoverStep(e)
<1>1. executor \in [Executors -> ExecutorState]
  BY DEF TypeInv, TypeOK
<1>2. executor' = [executor EXCEPT ![e] = Resumed(executor[e], outcome)]
  BY DEF Resume
<1>3. /\ Resumed(executor[e], outcome).queue = executor[e].queue
      /\ Resumed(executor[e], outcome).caller = executor[e].caller
      /\ Resumed(executor[e], outcome).missed = executor[e].missed
  <2>1. executor[e] \in ExecutorState
    BY <1>1
  <2> QED
    BY <2>1 DEF Resumed, ExecutorState
<1>4. StaysWithRun(e)
  BY <1>1, <1>2, <1>3 DEF StaysWithRun
<1> QED
  BY <1>1, <1>2, <1>4 DEF CoverStep

LEMMA RecordRequestCovers ==
  ASSUME TypeInv, NEW e \in Executors, RecordRequest(e)
  PROVE  CoverStep(e)
<1> DEFINE r == Current(e)
<1>1. /\ executor \in [Executors -> ExecutorState]
      /\ executor[e].stage = "requesting"
      /\ rows \in [Runs -> RunRow]
  BY DEF TypeInv, TypeOK, RecordRequest
<1>2. CASE rows[r].state \in FinalStates /\ executor[e].caller # "delivery"
  <2>1. GoOn(e, executor[e])
    BY <1>2 DEF RecordRequest
  <2> QED
    BY <1>1, <1>2, <2>1, GoOnCovers
<1>3. CASE ~(rows[r].state \in FinalStates /\ executor[e].caller # "delivery")
  <2>1. /\ executor' = [executor EXCEPT ![e].stage = "claiming"]
        /\ UNCHANGED delivered
    BY <1>3 DEF RecordRequest
  <2>2. r \in Runs
    BY <1>1, CurrentIsRun
  <2>3. rows'[r].state # "absent"
    BY <1>1, <2>2 DEF RecordRequest, RunRow
  <2>4. StaysWithRun(e)
    BY <1>1, <2>1, <2>3 DEF StaysWithRun, ExecutorState
  <2> QED
    BY <1>1, <2>1, <2>4 DEF CoverStep
<1> QED
  BY <1>2, <1>3

LEMMA ClaimRunCovers ==
  ASSUME TypeInv, NEW e \in Executors, ClaimRun(e)
  PROVE  CoverStep(e)
<1>1. /\ executor \in [Executors -> ExecutorState]
      /\ executor[e].stage = "claiming"
  BY DEF TypeInv, TypeOK, ClaimRun
<1>2. CASE Claimable(rows[Current(e)])
  <2>1. /\ executor' = [executor EXCEPT ![e].stage = "working", ![e].task = 1]
        /\ UNCHANGED delivered
    BY <1>2 DEF ClaimRun
  <2>2. StaysWithRun(e)
    BY <1>1, <2>1 DEF StaysWithRun, ExecutorState
  <2> QED
    BY <1>1, <2>1, <2>2 DEF CoverStep
<1>3. CASE ~Claimable(rows[Current(e)])
  <2>1. GoOn(e, executor[e])
    BY <1>3 DEF ClaimRun
  <2> QED
    BY <1>1, <2>1, GoOnCovers
<1> QED
  BY <1>2, <1>3

LEMMA StartsCover ==
  ASSUME TypeInv, NEW e \in Executors,
         \/ \E r \in Requested, caller \in {"await", "start"} :
              StartRequest(e, r, caller)
         \/ StartDelivery(e)
         \/ StartSweep(e)
         \/ Crash(e)
  PROVE  CoverStep(e)
<1>1. executor \in [Executors -> ExecutorState]
  BY DEF TypeInv, TypeOK
<1>2. ASSUME NEW r \in Requested, NEW caller \in {"await", "start"},
             StartRequest(e, r, caller)
      PROVE  CoverStep(e)
  <2>1. /\ executor'[e].caller # "delivery"
        /\ \A f \in Executors : f # e => executor'[f] = executor[f]
        /\ UNCHANGED delivered
    BY <1>1, <1>2 DEF StartRequest, Idle
  <2> QED
    BY <2>1 DEF CoverStep, LeavesDelivery, Delivering
<1>3. CASE StartDelivery(e)
  <2>1. /\ \A f \in Executors : f # e => executor'[f] = executor[f]
        /\ UNCHANGED delivered
    BY <1>1, <1>3 DEF StartDelivery
  <2> QED
    BY <1>3, <2>1 DEF CoverStep
<1>4. CASE StartSweep(e)
  <2>1. PICK list : executor' = [executor EXCEPT ![e] =
                      [Idle EXCEPT !.stage = "claiming", !.queue = list]]
    BY <1>4 DEF StartSweep
  <2>2. /\ executor'[e].caller # "delivery"
        /\ \A f \in Executors : f # e => executor'[f] = executor[f]
    BY <1>1, <2>1 DEF Idle
  <2>3. UNCHANGED delivered
    BY <1>4 DEF StartSweep
  <2> QED
    BY <2>2, <2>3 DEF CoverStep, LeavesDelivery, Delivering
<1>5. CASE Crash(e)
  <2>1. /\ executor'[e].stage = "idle"
        /\ \A f \in Executors : f # e => executor'[f] = executor[f]
        /\ UNCHANGED delivered
    BY <1>1, <1>5 DEF Crash, Idle
  <2> QED
    BY <2>1 DEF CoverStep, LeavesDelivery, Delivering
<1> QED
  BY <1>2, <1>3, <1>4, <1>5

LEMMA TasksCover ==
  ASSUME TypeInv, NEW e \in Executors,
         \/ BeginEffect(e) \/ ApplyEffect(e) \/ CompleteEffect(e) \/ EndTasks(e)
         \/ RefuseRun(e) \/ RefuseTask(e) \/ FailEffect(e)
  PROVE  CoverStep(e)
<1>1. /\ executor \in [Executors -> ExecutorState]
      /\ executor[e].stage \notin {"idle", "requesting"}
      /\ UNCHANGED delivered
  BY DEF TypeInv, TypeOK, BeginEffect, ApplyEffect, CompleteEffect, EndTasks,
         RefuseRun, RefuseTask, FailEffect
<1> DEFINE Stays == /\ executor'[e].queue = executor[e].queue
                    /\ executor'[e].caller = executor[e].caller
                    /\ executor'[e].missed = executor[e].missed
                    /\ \A f \in Executors : f # e => executor'[f] = executor[f]
<1>2. CASE BeginEffect(e)
  <2>1. CASE \E outcome : Resume(e, outcome)
    BY <1>1, <2>1, ResumeCovers
  <2>2. CASE executor' = [executor EXCEPT ![e].stage = "applying"]
    <3>1. Stays
      BY <1>1, <2>2 DEF ExecutorState
    <3> QED
      BY <1>1, <3>1 DEF CoverStep, StaysWithRun
  <2> QED
    BY <1>2, <2>1, <2>2 DEF BeginEffect
<1>3. CASE ApplyEffect(e)
  <2>1. PICK outcome \in TaskOutcomes :
          executor' = [executor EXCEPT ![e].stage = "recording",
                                       ![e].outcome = outcome]
    BY <1>3 DEF ApplyEffect
  <2>2. Stays
    BY <1>1, <2>1 DEF ExecutorState
  <2> QED
    BY <1>1, <2>2 DEF CoverStep, StaysWithRun
<1>4. CASE EndTasks(e) \/ RefuseRun(e)
  <2>1. Stays
    BY <1>1, <1>4 DEF EndTasks, RefuseRun, ExecutorState
  <2> QED
    BY <1>1, <2>1 DEF CoverStep, StaysWithRun
<1>5. CASE CompleteEffect(e) \/ RefuseTask(e) \/ FailEffect(e)
  <2>1. \E outcome : Resume(e, outcome)
    BY <1>5 DEF CompleteEffect, RefuseTask, FailEffect
  <2> QED
    BY <1>1, <2>1, ResumeCovers
<1> QED
  BY <1>2, <1>3, <1>4, <1>5

LEMMA CoverSteps ==
  ASSUME TypeInv, [Next]_vars
  PROVE  \/ \E e \in Executors : CoverStep(e)
         \/ UNCHANGED executor /\ delivered' \in {delivered, "refused"}
<1>1. ASSUME NEW e \in Executors, Finish(e) PROVE CoverStep(e)
  <2>1. GoOn(e, executor[e]) /\ executor[e].stage = "finishing"
    BY <1>1 DEF Finish
  <2> QED
    BY <2>1, GoOnCovers
<1>2. ASSUME NEW e \in Executors, FailCall(e) PROVE CoverStep(e)
  <2>1. Throw(e)
    BY <1>2 DEF FailCall
  <2> QED
    BY <2>1, ThrowCovers
<1>3. CASE RefuseDelivery \/ (\E r \in Runs : LapseClaim(r)) \/ UNCHANGED vars
  BY <1>3 DEF RefuseDelivery, LapseClaim, vars
<1> QED
  BY <1>1, <1>2, <1>3, StartsCover, RecordRequestCovers, ClaimRunCovers, TasksCover
  DEF Next, Work

\* What an executor covers in a delivery it still covers after a step that leaves
\* the executor alone, or moves it.
LEMMA CoverKept ==
  ASSUME TypeInv, CoverInv, [Next]_vars, NEW f \in Executors, Delivering(f)',
         executor'[f] = executor[f] \/ StaysWithRun(f)
  PROVE  Covers(f)'
<1>1. /\ executor[f].stage # "idle"
      /\ executor'[f].queue = executor[f].queue
      /\ Delivering(f)
      /\ executor'[f].stage # "requesting" =>
           \/ executor[f].stage # "requesting"
           \/ rows'[Current(f)].state # "absent"
  BY DEF Delivering, StaysWithRun
<1>2. Current(f)' = Current(f) /\ Current(f) \in Runs
  BY <1>1, CurrentIsRun DEF Current
<1>3. Covers(f)
  BY <1>1 DEF CoverInv
<1>4. ASSUME NEW r \in SubscriberRuns
      PROVE  rows'[r].state # "absent" \/ Queued(f, r)'
  <2>1. CASE rows[r].state # "absent"
    BY <2>1, RowsStay DEF Runs
  <2>2. CASE Queued(f, r)
    BY <1>1, <2>2 DEF Queued
  <2> QED
    BY <1>3, <2>1, <2>2 DEF Covers
<1>5. executor'[f].stage # "requesting" => rows'[Current(f)].state # "absent"
  BY <1>1, <1>2, <1>3, RowsStay DEF Covers
<1> QED
  BY <1>2, <1>4, <1>5 DEF Covers

LEMMA NextCovered ==
  ASSUME TypeInv, CoverInv, [Next]_vars, NEW f \in Executors, TakesNext(f)
  PROVE  Covers(f)'
<1> DEFINE q == executor[f].queue
<1>1. /\ q \in Seq(Runs) /\ Len(q) \in Nat \ {0} /\ Current(f) = q[1]
      /\ Current(f) \in Runs
  BY QueueShape, CurrentIsRun DEF TakesNext, Delivering
<1>2. Covers(f) /\ rows[q[1]].state # "absent"
  BY <1>1 DEF CoverInv, TakesNext, Covers
<1>3. /\ executor'[f].queue = Tail(q) /\ executor'[f].stage = "requesting"
      /\ ~(Len(q) <= 1)
  BY DEF TakesNext
<1>4. /\ Len(Tail(q)) = Len(q) - 1
      /\ \A i \in 1 .. Len(Tail(q)) : Tail(q)[i] = q[i + 1]
  <2>1. q # <<>>
    BY <1>1, EmptySeq
  <2> HIDE DEF q
  <2> QED
    BY <1>1, <2>1, HeadTailProperties
<1>5. ASSUME NEW r \in SubscriberRuns
      PROVE  rows'[r].state # "absent" \/ Queued(f, r)'
  <2>1. CASE rows[r].state # "absent"
    BY <2>1, RowsStay DEF Runs
  <2>2. CASE rows[r].state = "absent"
    <3>1. PICK i \in 1 .. Len(q) : q[i] = r
      BY <1>2, <2>2 DEF Covers, Queued
    <3>2. i # 1
      BY <1>2, <2>2, <3>1
    <3> HIDE DEF q
    <3>3. i - 1 \in 1 .. Len(Tail(q)) /\ Tail(q)[i - 1] = r
      <4>1. i - 1 \in 1 .. Len(Tail(q))
        BY <1>1, <1>4, <3>2
      <4>2. Tail(q)[i - 1] = q[(i - 1) + 1]
        BY <1>4, <4>1
      <4>3. (i - 1) + 1 = i
        BY <1>1
      <4> QED
        BY <3>1, <4>1, <4>2, <4>3
    <3> QED
      BY <1>3, <3>3 DEF Queued
  <2> QED
    BY <2>1, <2>2
<1> QED
  BY <1>3, <1>5 DEF Covers

LEMMA StartCovered ==
  ASSUME TypeInv, NEW f \in Executors, StartDelivery(f)
  PROVE  Covers(f)'
<1>1. /\ executor'[f].queue = Subscribers
      /\ executor'[f].stage = "requesting"
  BY DEF StartDelivery, TypeInv, TypeOK, Idle
<1> QED
  BY <1>1 DEF Covers, Queued, SubscriberRuns

LEMMA CoverInvStep ==
  ASSUME TypeInv, CoverInv, DeliveredMeansRecorded, [Next]_vars
  PROVE  CoverInv' /\ DeliveredMeansRecorded'
<1>1. CoverInv'
  <2> SUFFICES ASSUME NEW f \in Executors, Delivering(f)' PROVE Covers(f)'
    BY DEF CoverInv
  <2> QED
    BY CoverSteps, CoverKept, NextCovered, StartCovered
    DEF CoverStep, LeavesDelivery
<1>2. DeliveredMeansRecorded'
  <2> SUFFICES ASSUME delivered' = "ran", NEW r \in SubscriberRuns
               PROVE  rows'[r].state # "absent"
    BY DEF DeliveredMeansRecorded
  <2>1. CASE delivered = "ran"
    BY <2>1, RowsStay DEF DeliveredMeansRecorded, Runs
  <2>2. ASSUME NEW e \in Executors, Delivering(e),
               executor[e].stage # "requesting", Len(executor[e].queue) <= 1
        PROVE  rows'[r].state # "absent"
    <3>1. Covers(e) /\ rows[Current(e)].state # "absent"
      BY <2>2 DEF CoverInv, Covers
    <3>2. Queued(e, r) => r = Current(e)
      BY <2>2, QueueShape DEF Queued, Delivering
    <3>3. rows[r].state # "absent"
      BY <3>1, <3>2 DEF Covers
    <3> QED
      BY <3>3, RowsStay DEF Runs
  <2> QED
    BY <2>1, <2>2, CoverSteps DEF CoverStep
<1> QED
  BY <1>1, <1>2

\* An occurrence acknowledged as run has a recorded run for every subscriber.
THEOREM AcknowledgedIsRecorded == Spec => []DeliveredMeansRecorded
<1>1. Init => CoverInv /\ DeliveredMeansRecorded
  BY DEF Init, Idle, CoverInv, Delivering, DeliveredMeansRecorded
<1>2. TypeInv /\ CoverInv /\ DeliveredMeansRecorded /\ [Next]_vars
        => CoverInv' /\ DeliveredMeansRecorded'
  BY CoverInvStep
<1> QED
  BY <1>1, <1>2, Typing, PTL DEF Spec
-----------------------------------------------------------------------------
(***************************************************************************)
(* The promise of DurableRuns.  An executor that is past its claim works   *)
(* on a run that has started, be it that another one has ended it since.   *)
(***************************************************************************)
Started == {"running"} \union FinalStates

PastClaim(state) == state.stage \in {"working", "applying", "recording", "finishing"}

StartedInv == \A e \in Executors : PastClaim(executor[e]) => rows[Current(e)].state \in Started

\* An executor gets past the claim of a run by claiming it.
EntersOwn(f) ==
  PastClaim(executor'[f]) =>
    /\ Current(f)' = Current(f)
    /\ executor[f].stage # "idle"
    /\ PastClaim(executor[f]) \/ rows'[Current(f)].state = "running"

LEMMA MovesEnter ==
  ASSUME TypeInv, NEW e \in Executors, NEW f \in Executors,
         \E s : Moved(s) /\ executor' = [executor EXCEPT ![e] = s]
  PROVE  f = e => EntersOwn(f)
  BY DEF TypeInv, TypeOK, EntersOwn, Moved, PastClaim

LEMMA ResumeEnters ==
  ASSUME TypeInv, NEW e \in Executors, NEW outcome, PastClaim(executor[e]), Resume(e, outcome)
  PROVE  EntersOwn(e)
<1>1. executor[e] \in ExecutorState /\ executor'[e] = Resumed(executor[e], outcome)
  BY DEF TypeInv, TypeOK, Resume
<1>2. executor'[e].queue = executor[e].queue
  BY <1>1 DEF Resumed, ExecutorState
<1> QED
  BY <1>2 DEF EntersOwn, Current, PastClaim

LEMMA EnterSteps ==
  ASSUME TypeInv, [Next]_vars, NEW f \in Executors
  PROVE  EntersOwn(f) \/ UNCHANGED executor[f]
<1>1. ASSUME NEW e \in Executors,
             \/ \E r \in Requested, caller \in {"await", "start"} : StartRequest(e, r, caller)
             \/ StartDelivery(e) \/ StartSweep(e)
      PROVE  EntersOwn(f) \/ UNCHANGED executor[f]
  <2>1. \E s : Moved(s) /\ executor' = [executor EXCEPT ![e] = s]
    <3>1. ASSUME NEW stage \in {"requesting", "claiming"}, NEW caller, NEW queue,
                 executor' = [executor EXCEPT ![e] =
                   [Idle EXCEPT !.stage = stage, !.caller = caller, !.queue = queue]]
          PROVE  \E s : Moved(s) /\ executor' = [executor EXCEPT ![e] = s]
      <4> DEFINE s == [Idle EXCEPT !.stage = stage, !.caller = caller, !.queue = queue]
      <4>1. Moved(s)
        BY DEF Moved, Idle
      <4>2. executor' = [executor EXCEPT ![e] = s]
        BY <3>1
      <4> HIDE DEF s
      <4> QED
        BY <4>1, <4>2
    <3>2. CASE \E r \in Requested, caller \in {"await", "start"} : StartRequest(e, r, caller)
      BY <3>1, <3>2 DEF StartRequest
    <3>3. CASE StartDelivery(e)
      BY <3>1, <3>3 DEF StartDelivery
    <3>4. CASE StartSweep(e)
      <4>1. PICK list : executor' = [executor EXCEPT ![e] =
                          [Idle EXCEPT !.stage = "claiming", !.queue = list]]
        BY <3>4 DEF StartSweep
      <4> DEFINE s == [Idle EXCEPT !.stage = "claiming", !.queue = list]
      <4>2. Moved(s)
        BY DEF Moved, Idle
      <4>3. executor' = [executor EXCEPT ![e] = s]
        BY <4>1
      <4> HIDE DEF s
      <4> QED
        BY <4>2, <4>3
    <3> QED
      BY <1>1, <3>2, <3>3, <3>4
  <2> QED
    BY <2>1, MovesEnter DEF TypeInv, TypeOK
<1>2. ASSUME NEW e \in Executors, GoOn(e, executor[e]) \/ Throw(e) \/ Crash(e)
      PROVE  EntersOwn(f) \/ UNCHANGED executor[f]
  <2>1. \E s : Moved(s) /\ executor' = [executor EXCEPT ![e] = s]
    <3>1. CASE GoOn(e, executor[e])
      BY <3>1, GoOnMoves DEF TypeInv
    <3>2. CASE Throw(e)
      BY <3>2, ThrowMoves
    <3>3. CASE Crash(e)
      <4>1. Moved(Idle)
        BY DEF Idle, Moved
      <4> QED
        BY <3>3, <4>1 DEF Crash
    <3> QED
      BY <1>2, <3>1, <3>2, <3>3
  <2> QED
    BY <2>1, MovesEnter DEF TypeInv, TypeOK
<1>3. ASSUME NEW e \in Executors, RecordRequest(e) PROVE EntersOwn(f) \/ UNCHANGED executor[f]
  <2>1. GoOn(e, executor[e]) \/ executor' = [executor EXCEPT ![e].stage = "claiming"]
    BY <1>3 DEF RecordRequest
  <2> QED
    BY <1>2, <2>1 DEF TypeInv, TypeOK, ExecutorState, EntersOwn, PastClaim
<1>4. ASSUME NEW e \in Executors, ClaimRun(e) PROVE EntersOwn(f) \/ UNCHANGED executor[f]
  <2>1. CASE Claimable(rows[Current(e)])
    <3>1. executor[e].stage = "claiming" /\ Current(e) \in Runs
      BY <1>4, CurrentIsRun DEF ClaimRun
    <3>2. rows'[Current(e)].state = "running"
      BY <1>4, <2>1, <3>1 DEF ClaimRun, TypeInv, TypeOK
    <3>3. executor'[e].queue = executor[e].queue /\ (f # e => executor'[f] = executor[f])
      BY <1>4, <2>1 DEF ClaimRun, TypeInv, TypeOK, ExecutorState
    <3> QED
      BY <3>1, <3>2, <3>3 DEF EntersOwn, Current
  <2> QED
    BY <1>2, <1>4, <2>1 DEF ClaimRun
<1>5. ASSUME NEW e \in Executors, NEW outcome, PastClaim(executor[e]), Resume(e, outcome)
      PROVE  EntersOwn(f) \/ UNCHANGED executor[f]
  BY <1>5, ResumeEnters DEF Resume, TypeInv, TypeOK
<1>6. ASSUME NEW e \in Executors,
             RefuseTask(e) \/ BeginEffect(e) \/ CompleteEffect(e) \/ FailEffect(e)
      PROVE  EntersOwn(f) \/ UNCHANGED executor[f]
  <2>1. CASE executor' = [executor EXCEPT ![e].stage = "applying"] /\ BeginEffect(e)
    BY <2>1 DEF BeginEffect, EntersOwn, PastClaim, Current, TypeInv, TypeOK, ExecutorState
  <2>2. PastClaim(executor[e])
    BY <1>6 DEF RefuseTask, BeginEffect, CompleteEffect, FailEffect, PastClaim
  <2>3. \/ BeginEffect(e) /\ executor' = [executor EXCEPT ![e].stage = "applying"]
        \/ \E outcome : Resume(e, outcome)
    BY <1>6 DEF RefuseTask, BeginEffect, CompleteEffect, FailEffect
  <2> QED
    BY <1>5, <2>1, <2>2, <2>3
<1>7. ASSUME NEW e \in Executors, RefuseRun(e) \/ EndTasks(e) \/ ApplyEffect(e)
      PROVE  EntersOwn(f) \/ UNCHANGED executor[f]
  <2>1. PastClaim(executor[e])
    BY <1>7 DEF RefuseRun, EndTasks, ApplyEffect, PastClaim
  <2>2. executor'[e].queue = executor[e].queue /\ (f # e => executor'[f] = executor[f])
    BY <1>7 DEF RefuseRun, EndTasks, ApplyEffect, TypeInv, TypeOK, ExecutorState
  <2> QED
    BY <2>1, <2>2 DEF EntersOwn, Current, PastClaim
<1>8. CASE UNCHANGED executor
  BY <1>8
<1> QED
  BY <1>1, <1>2, <1>3, <1>4, <1>6, <1>7, <1>8
  DEF Next, vars, Work, Finish, FailCall, RefuseDelivery, LapseClaim

LEMMA StartedStays ==
  ASSUME TypeInv, [Next]_vars, NEW r \in Runs, rows[r].state \in Started
  PROVE  rows'[r].state \in Started
<1>1. \A e \in Executors : executor[e].result \in FinalStates
  BY DEF TypeInv, TypeOK, ExecutorState
<1> QED
  BY <1>1, RowChange DEF Started, FinalStates

LEMMA StartedStep == TypeInv /\ StartedInv /\ [Next]_vars => StartedInv'
<1> SUFFICES ASSUME TypeInv, StartedInv, [Next]_vars,
                    NEW f \in Executors, PastClaim(executor[f])'
             PROVE  rows'[Current(f)'].state \in Started
  BY DEF StartedInv
<1>1. /\ Current(f)' = Current(f) /\ executor[f].stage # "idle"
      /\ PastClaim(executor[f]) \/ rows'[Current(f)].state = "running"
  BY EnterSteps DEF EntersOwn, Current, PastClaim
<1>2. Current(f) \in Runs
  BY <1>1, CurrentIsRun
<1> QED
  BY <1>1, <1>2, StartedStays DEF StartedInv, Started

LEMMA StartedThroughout == Spec => []StartedInv
<1>1. Init => StartedInv
  BY DEF Init, StartedInv, PastClaim, Idle
<1> QED
  BY <1>1, StartedStep, Typing, PTL DEF Spec

RunStates == [r \in Runs |-> rows[r].state]

\* The row of one run is written, and the promise sees the state in it.
LEMMA RowWritten ==
  ASSUME NEW r \in Runs, \A q \in Runs \ {r} : rows'[q] = rows[q]
  PROVE  /\ RunStates' = [RunStates EXCEPT ![r] = rows'[r].state]
         /\ rows'[r].state = rows[r].state => UNCHANGED RunStates
         /\ RunStates[r] = rows[r].state
  BY DEF RunStates

LEMMA RecordKept ==
  ASSUME TypeInv, NEW r \in Runs, rows[r].state = "absent",
         rows' = [rows EXCEPT ![r].state = "pending"], UNCHANGED <<applied, answers>>
  PROVE  Promise!Record(r)
<1>1. rows'[r].state = "pending" /\ \A q \in Runs \ {r} : rows'[q] = rows[q]
  BY DEF TypeInv, TypeOK, RunRow
<1>2. RunStates' = [RunStates EXCEPT ![r] = rows'[r].state] /\ RunStates[r] = "absent"
  BY <1>1, RowWritten
<1> QED
  BY <1>1, <1>2 DEF Promise!Record, RunStates

LEMMA RecordsKept ==
  ASSUME TypeInv, NEW e \in Executors, Current(e) \in Runs, rows[Current(e)].state = "absent",
         rows' = [rows EXCEPT ![Current(e)].state = "pending"], UNCHANGED <<applied, answers>>
  PROVE  Promise!Next
<1>1. PICK r \in Runs : r = Current(e)
  OBVIOUS
<1>2. rows[r].state = "absent" /\ rows' = [rows EXCEPT ![r].state = "pending"]
  BY <1>1
<1>3. Promise!Record(r)
  BY <1>2, RecordKept
<1> QED
  BY <1>3 DEF Promise!Next

\* A claim starts a run, or takes over one that was started.
LEMMA ClaimKept ==
  ASSUME TypeInv, NEW r \in Runs, Claimable(rows[r]),
         rows' = [rows EXCEPT ![r] = [state |-> "running", live |-> TRUE]],
         UNCHANGED <<applied, answers>>
  PROVE  Promise!Start(r) \/ UNCHANGED <<RunStates, applied, answers>>
<1>1. rows'[r].state = "running" /\ \A q \in Runs \ {r} : rows'[q] = rows[q]
  BY DEF TypeInv, TypeOK
<1>2. /\ RunStates' = [RunStates EXCEPT ![r] = rows'[r].state]
      /\ rows'[r].state = rows[r].state => UNCHANGED RunStates
      /\ RunStates[r] = rows[r].state
  BY <1>1, RowWritten
<1>3. CASE rows[r].state = "pending"
  BY <1>1, <1>2, <1>3 DEF Promise!Start, RunStates
<1> QED
  BY <1>1, <1>2, <1>3 DEF Claimable

\* An effect takes place that the executor has claimed.
LEMMA PerformKept ==
  ASSUME TypeInv, EffectInv, RunInv, StartedInv, NEW e \in Executors,
         executor[e].stage = "applying", UNCHANGED <<rows, answers>>,
         applied' = [applied EXCEPT ![Current(e)][executor[e].task] = @ + 1]
  PROVE  Promise!Perform(Current(e), executor[e].task)
<1> DEFINE r == Current(e)
           t == executor[e].task
<1>1. r \in Runs /\ t \in Tasks
  BY AtEffectTask DEF AtEffect
<1>2. RunStates[r] \in {"running"} \union FinalStates
  BY <1>1 DEF StartedInv, PastClaim, Started, RunStates
<1>3. applied[r][t] = 0
  BY DEF EffectInv, ClaimInv, AtEffect
<1>4. Done(r, t)
  BY DEF RunInv, ReachedInv, InRun
<1>5. applied' = [applied EXCEPT ![r][t] = 1]
  BY <1>1, <1>3 DEF TypeInv, TypeOK
<1>6. UNCHANGED RunStates
  BY DEF RunStates
<1> HIDE DEF r, t
<1>7. Promise!Perform(r, t)
  BY <1>1, <1>2, <1>3, <1>4, <1>5, <1>6
  DEF Promise!Perform, Promise!FinalStates, FinalStates, Promise!DoneBefore, Done, RunStates
<1> QED
  BY <1>7 DEF r, t

\* A success has everything done that the flow insists on.
LEMMA SuccessComplete ==
  ASSUME NEW r \in Runs, Done(r, TaskCount + 1)
  PROVE  Promise!Complete(r)
  BY BackendRunsAssumption DEF Promise!Complete, Done, Tasks

LEMMA EndKept ==
  ASSUME TypeInv, RunInv, NEW e \in Executors,
         executor[e].stage = "finishing", rows[Current(e)].state = "running",
         rows' = [rows EXCEPT ![Current(e)] = [state |-> executor[e].result, live |-> FALSE]],
         answers' \in {answers, [answers EXCEPT ![Current(e)] = @ \union {executor[e].result}]},
         UNCHANGED applied
  PROVE  \E s \in FinalStates : Promise!End(Current(e), s)
<1> DEFINE r == Current(e)
<1>1. r \in Runs
  BY CurrentIsRun
<1>2. PICK s \in FinalStates : s = executor[e].result
  BY DEF TypeInv, TypeOK, ExecutorState
<1>3. RunStates' = [RunStates EXCEPT ![r] = s] /\ RunStates[r] = "running"
  <2>1. rows'[r].state = s /\ \A q \in Runs \ {r} : rows'[q] = rows[q]
    BY <1>1, <1>2 DEF TypeInv, TypeOK
  <2>2. rows[r].state = "running"
    OBVIOUS
  <2> HIDE DEF r
  <2>3. RunStates' = [RunStates EXCEPT ![r] = rows'[r].state] /\ RunStates[r] = rows[r].state
    BY <1>1, <2>1, RowWritten
  <2> QED
    BY <2>1, <2>2, <2>3
<1>4. s = "succeeded" => Promise!Complete(r)
  BY <1>1, <1>2, SuccessComplete DEF RunInv, ReachedInv
<1>5. answers' \in {answers, [answers EXCEPT ![r] = @ \union {s}]}
  BY <1>2
<1> HIDE DEF r
<1>6. Promise!End(r, s)
  BY <1>3, <1>4, <1>5 DEF Promise!End, RunStates
<1> QED
  BY <1>6 DEF r

\* A caller is told a state that is recorded, or the end of its own attempt.
LEMMA ReportKept ==
  ASSUME TypeInv, RunInv, NEW e \in Executors, executor[e].stage # "idle",
         rows[Current(e)].state \in FinalStates, NEW s \in FinalStates,
         \/ s = rows[Current(e)].state
         \/ executor[e].stage = "finishing" /\ s = executor[e].result,
         answers' = [answers EXCEPT ![Current(e)] = @ \union {s}],
         UNCHANGED <<rows, applied>>
  PROVE  Promise!Report(Current(e), s)
<1> DEFINE r == Current(e)
<1>1. r \in Runs
  BY CurrentIsRun
<1>2. UNCHANGED RunStates /\ RunStates[r] \in FinalStates
  BY <1>1 DEF RunStates
<1>3. s = "succeeded" => Promise!Complete(r)
  BY <1>1, SuccessComplete DEF RunInv, ReachedInv, SucceededInv
<1>4. answers' = [answers EXCEPT ![r] = @ \union {s}]
  OBVIOUS
<1> HIDE DEF r
<1>5. Promise!Report(r, s)
  BY <1>2, <1>3, <1>4 DEF Promise!Report, Promise!FinalStates, FinalStates, RunStates
<1> QED
  BY <1>5 DEF r

Hidden == UNCHANGED <<RunStates, applied, answers>>

LEMMA NothingSeen ==
  ASSUME UNCHANGED <<rows, applied, answers>>
  PROVE  Hidden
  BY DEF Hidden, RunStates

LEMMA RecordRequestKept ==
  ASSUME TypeInv, RunInv, NEW e \in Executors, RecordRequest(e)
  PROVE  Promise!Next \/ Hidden
<1>1. Current(e) \in Runs /\ executor[e].stage # "idle" /\ UNCHANGED applied
  BY CurrentIsRun DEF RecordRequest
<1>2. CASE rows[Current(e)].state = "absent"
  <2>1. UNCHANGED answers
    BY <1>2 DEF RecordRequest, FinalStates
  <2>2. rows' = [rows EXCEPT ![Current(e)].state = "pending"]
    BY <1>2 DEF RecordRequest
  <2> QED
    BY <1>1, <1>2, <2>1, <2>2, RecordsKept
<1>3. CASE rows[Current(e)].state \in FinalStates /\ ~UNCHANGED answers
  <2>1. UNCHANGED rows
    BY <1>3 DEF RecordRequest, FinalStates
  <2>2. PICK s \in FinalStates : s = rows[Current(e)].state
    BY <1>3
  <2>3. answers' = [answers EXCEPT ![Current(e)] = @ \union {s}]
    BY <1>3, <2>2 DEF RecordRequest
  <2>4. Promise!Report(Current(e), s)
    BY <1>1, <1>3, <2>1, <2>2, <2>3, ReportKept
  <2> QED
    BY <1>1, <2>4 DEF Promise!Next, Promise!FinalStates, FinalStates
<1>4. CASE rows[Current(e)].state # "absent" /\ UNCHANGED answers
  BY <1>1, <1>4, NothingSeen DEF RecordRequest
<1> QED
  BY <1>2, <1>3, <1>4 DEF RecordRequest, FinalStates

LEMMA ClaimRunKept ==
  ASSUME TypeInv, NEW e \in Executors, ClaimRun(e)
  PROVE  Promise!Next \/ Hidden
<1>1. Current(e) \in Runs /\ UNCHANGED <<applied, answers>>
  BY CurrentIsRun DEF ClaimRun
<1>2. CASE Claimable(rows[Current(e)])
  BY <1>1, <1>2, ClaimKept DEF ClaimRun, Promise!Next, Hidden
<1>3. CASE ~Claimable(rows[Current(e)])
  BY <1>1, <1>3, NothingSeen DEF ClaimRun
<1> QED
  BY <1>2, <1>3

LEMMA EffectKept ==
  ASSUME TypeInv, EffectInv, RunInv, StartedInv, NEW e \in Executors, ApplyEffect(e) \/ FailEffect(e)
  PROVE  Promise!Next \/ Hidden
<1>1. UNCHANGED <<rows, answers>>
  BY DEF ApplyEffect, FailEffect
<1>2. CASE UNCHANGED applied
  BY <1>1, <1>2, NothingSeen
<1>3. CASE ~UNCHANGED applied
  <2>1. executor[e].stage = "applying"
    BY <1>3 DEF ApplyEffect, FailEffect
  <2>2. applied' = [applied EXCEPT ![Current(e)][executor[e].task] = @ + 1]
    <3>1. Current(e) \in Runs /\ executor[e].task \in Tasks
      BY <2>1, AtEffectTask DEF AtEffect
    <3>2. CASE ApplyEffect(e)
      BY <1>3, <3>2 DEF ApplyEffect
    <3>3. CASE FailEffect(e)
      <4>1. PICK n \in {0, 1} :
              applied' = [applied EXCEPT ![Current(e)][executor[e].task] = @ + n]
        BY <2>1, <3>3 DEF FailEffect
      <4>2. n # 0
        <5> SUFFICES ASSUME n = 0 PROVE applied' = applied
          BY <1>3
        <5>1. applied \in [Runs -> [Tasks -> Nat]]
          BY DEF TypeInv, TypeOK
        <5> QED
          BY <3>1, <4>1, <5>1
      <4> QED
        BY <4>1, <4>2
    <3> QED
      BY <3>2, <3>3
  <2>3. Promise!Perform(Current(e), executor[e].task)
    BY <1>1, <2>1, <2>2, PerformKept
  <2>4. Current(e) \in Runs /\ executor[e].task \in Tasks
    BY <2>1, AtEffectTask DEF AtEffect
  <2> QED
    BY <2>3, <2>4 DEF Promise!Next
<1> QED
  BY <1>2, <1>3

\* The end of a run, with or without an answer to its caller.
LEMMA EndsKept ==
  ASSUME TypeInv, RunInv, NEW e \in Executors, executor[e].stage = "finishing",
         rows[Current(e)].state = "running",
         rows' = [rows EXCEPT ![Current(e)] = [state |-> executor[e].result, live |-> FALSE]],
         answers' \in {answers, [answers EXCEPT ![Current(e)] = @ \union {executor[e].result}]},
         UNCHANGED applied
  PROVE  Promise!Next
<1>1. PICK s \in FinalStates : Promise!End(Current(e), s)
  BY EndKept
<1> QED
  BY <1>1, CurrentIsRun DEF Promise!Next, Promise!FinalStates, FinalStates

LEMMA FinishKept ==
  ASSUME TypeInv, RunInv, StartedInv, NEW e \in Executors, Finish(e)
  PROVE  Promise!Next \/ Hidden
<1>1. Current(e) \in Runs /\ executor[e].stage = "finishing" /\ UNCHANGED applied
  BY CurrentIsRun DEF Finish
<1>2. answers' \in {answers, [answers EXCEPT ![Current(e)] = @ \union {executor[e].result}]}
  BY DEF Finish
<1>3. CASE rows[Current(e)].state = "running"
  BY <1>1, <1>2, <1>3, EndsKept DEF Finish
<1>4. CASE rows[Current(e)].state # "running" /\ UNCHANGED answers
  BY <1>1, <1>4, NothingSeen DEF Finish
<1>5. CASE rows[Current(e)].state # "running" /\ ~UNCHANGED answers
  <2>1. rows[Current(e)].state \in FinalStates
    BY <1>1, <1>5 DEF StartedInv, PastClaim, Started
  <2>2. PICK s \in FinalStates : s = executor[e].result
    BY DEF TypeInv, TypeOK, ExecutorState
  <2>3. answers' = [answers EXCEPT ![Current(e)] = @ \union {s}] /\ UNCHANGED rows
    BY <1>2, <1>5, <2>2 DEF Finish
  <2>4. Promise!Report(Current(e), s)
    BY <1>1, <2>1, <2>2, <2>3, ReportKept
  <2> QED
    BY <1>1, <2>4 DEF Promise!Next, Promise!FinalStates, FinalStates
<1> QED
  BY <1>3, <1>4, <1>5

\* A call that committed and lost its answer is a step of the promise too.
LEMMA FailCallKept ==
  ASSUME TypeInv, RunInv, NEW e \in Executors, FailCall(e)
  PROVE  Promise!Next \/ Hidden
<1>1. PICK r \in Runs : r = Current(e)
  BY CurrentIsRun DEF FailCall
<1>2. UNCHANGED <<applied, answers>>
  BY DEF FailCall
<1>3. CASE UNCHANGED rows
  BY <1>2, <1>3, NothingSeen
<1>4. CASE ~UNCHANGED rows
  <2>1. rows' = [rows EXCEPT ![r] = AfterCall(executor[e], rows[r])]
    BY <1>1, <1>4 DEF FailCall
  <2>2. CASE executor[e].stage = "requesting" /\ rows[r].state = "absent"
    <3>1. rows' = [rows EXCEPT ![r].state = "pending"]
      BY <2>1, <2>2 DEF AfterCall
    <3>2. Promise!Record(r)
      BY <1>2, <2>2, <3>1, RecordKept
    <3> QED
      BY <3>2 DEF Promise!Next
  <2>3. CASE executor[e].stage = "claiming" /\ Claimable(rows[r])
    <3>1. rows' = [rows EXCEPT ![r] = [state |-> "running", live |-> TRUE]]
      BY <2>1, <2>3 DEF AfterCall
    <3>2. Promise!Start(r) \/ Hidden
      BY <1>2, <2>3, <3>1, ClaimKept DEF Hidden
    <3> QED
      BY <3>2 DEF Promise!Next
  <2>4. CASE executor[e].stage = "finishing" /\ rows[r].state = "running"
    <3>1. rows' = [rows EXCEPT ![r] = [state |-> executor[e].result, live |-> FALSE]]
      BY <2>1, <2>4 DEF AfterCall
    <3> QED
      BY <1>1, <1>2, <2>4, <3>1, EndsKept
  <2>5. CASE AfterCall(executor[e], rows[r]) = rows[r]
    BY <1>4, <2>1, <2>5 DEF TypeInv, TypeOK
  <2> QED
    BY <2>2, <2>3, <2>4, <2>5 DEF AfterCall
<1> QED
  BY <1>3, <1>4

LEMMA LapseClaimKept ==
  ASSUME TypeInv, NEW r \in Runs, LapseClaim(r)
  PROVE  Hidden
<1>1. UNCHANGED <<applied, answers>>
  BY DEF LapseClaim
<1>2. \A q \in Runs : rows'[q].state = rows[q].state
  BY DEF LapseClaim, TypeInv, TypeOK, RunRow
<1> QED
  BY <1>1, <1>2 DEF Hidden, RunStates

LEMMA PromiseInit == Init => Promise!Init
  BY DEF Init, Promise!Init

LEMMA StepKept ==
  TypeInv /\ EffectInv /\ RunInv /\ StartedInv /\ [Next]_vars => Promise!Next \/ Hidden
<1> SUFFICES ASSUME TypeInv, EffectInv, RunInv, StartedInv, [Next]_vars
             PROVE  Promise!Next \/ Hidden
  OBVIOUS
<1>1. CASE UNCHANGED <<rows, applied, answers>>
  BY <1>1, NothingSeen
<1>2. CASE \E e \in Executors :
             \/ RecordRequest(e) \/ ClaimRun(e) \/ ApplyEffect(e) \/ FailEffect(e)
             \/ Finish(e) \/ FailCall(e)
  BY <1>2, RecordRequestKept, ClaimRunKept, EffectKept, FinishKept, FailCallKept
<1>3. CASE \E r \in Runs : LapseClaim(r)
  BY <1>3, LapseClaimKept
<1> QED
  BY <1>1, <1>2, <1>3
  DEF Next, vars, Work, StartRequest, StartDelivery, StartSweep, BeginEffect, CompleteEffect,
      EndTasks, RefuseRun, RefuseTask, Crash, RefuseDelivery

\* The history of back-end runs keeps the promise of DurableRuns: a run starts
\* once and ends once, each of its effects happens at most once and in order,
\* and no success is recorded or told too early, however many executors work on
\* it, are cut off between two calls and are taken over from
\* (claim_backend_run, begin_flow_effect, finish_backend_run and their adapter).
THEOREM RunsKeepPromise == Spec => ImplementsPromise
<1>1. TypeInv /\ EffectInv /\ RunInv /\ StartedInv /\ [Next]_vars
        => [Promise!Next]_<<RunStates, applied, answers>>
  BY StepKept DEF Hidden
<1> QED
  BY <1>1, PromiseInit, EffectsClaimed, RunsReached, StartedThroughout, PTL
  DEF Spec, ImplementsPromise, Promise!Spec, Promise!vars, RunStates
==============================================================================
