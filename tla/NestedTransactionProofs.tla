----------------------- MODULE NestedTransactionProofs -----------------------
(***************************************************************************)
(* RequestTransaction implements NestedTransaction: for any number of       *)
(* scopes and queries and any limit of the queue, each of its steps is a    *)
(* step of the promise or a stutter under the mapping StatusOf.             *)
(***************************************************************************)
EXTENDS RequestTransactionProofs

\* A closed connection holds no transaction, and one that never began in the
\* database has not called its callback.
Shut ==
  /\ closed => remote \notin {"open", "aborted"}
  /\ remote = "none" => phase[Root] \in {"none", "marking", "failed"}

\* A transaction that was rolled back leaves nothing under way in it.
Idle ==
  remote = "rolledBack" /\ ~closed =>
    /\ phase[Root] # "running"
    /\ \A s \in Scopes \ {Root} : ~Open(s)
    /\ \A q \in Queries : issuer[q] # NoScope => answer[q] # "none"

PromiseInv == IInv /\ Shut /\ Idle

StatusMap == [s \in Scopes |-> StatusOf(s)]
Done == {q \in Queries : answer[q] = "ok"}
Committed == IF remote = "committed" THEN effects ELSE {}
Mapped == <<StatusMap, within, issuer, Done, Committed, outcome>>

LEMMA ShutInit == Init => Shut
  BY RootFirst DEF Init, Shut

LEMMA ShutStep == IInv /\ Shut /\ [Next]_vars => Shut'
<1> SUFFICES ASSUME IInv, Shut, [Next]_vars PROVE Shut'
  OBVIOUS
<1>0. TypeOK /\ Tree /\ Wire /\ Ends /\ Ending
  BY DEF IInv
<1> USE DEF Shut
<1>1. ASSUME UNCHANGED <<closed, remote>>,
             phase'[Root] # phase[Root] =>
               remote # "none" \/ phase'[Root] \in {"none", "marking", "failed"}
      PROVE  Shut'
  BY <1>1
<1>2. CASE Begin
  BY <1>0, <1>1, <1>2, RootFirst DEF Begin, Enter, TypeOK, database, lifetime
<1>3. ASSUME NEW s \in Scopes, NEW q \in Queries, IssueQuery(s, q) PROVE Shut'
  BY <1>1, <1>3 DEF IssueQuery, database, lifetime
<1>4. ASSUME NEW p \in Scopes, NEW c \in Scopes, OpenSavepoint(p, c) PROVE Shut'
  <2>1. c # Root
    BY <1>0, <1>4, RootOfAll DEF OpenSavepoint, Accepts
  <2> QED
    BY <1>0, <1>1, <1>4, <2>1, RootFirst DEF OpenSavepoint, Enter, TypeOK, database, lifetime
<1>5. ASSUME NEW p \in Scopes, NEW c \in Scopes, Mark(p, c) PROVE Shut'
  BY <1>0, <1>1, <1>5, RootFirst DEF Mark, Enter, TypeOK, database, lifetime
<1>6. ASSUME NEW s \in Scopes, NEW how \in {"returned", "threw"}, EndCallback(s, how) PROVE Shut'
  BY <1>0, <1>1, <1>6, RootFirst DEF EndCallback, Enter, TypeOK, database, lifetime
<1>7. ASSUME NEW s \in Scopes, Conclude(s) PROVE Shut'
  BY <1>0, <1>1, <1>7, RootFirst DEF Conclude, Joined, Enter, TypeOK, database, lifetime
<1>8. ASSUME NEW s \in Scopes, Unwind(s) PROVE Shut'
  BY <1>0, <1>1, <1>8, RootFirst DEF Unwind, Enter, TypeOK, database, lifetime
<1>9. CASE Answer
  <2>1. active.scope \in Scopes /\ ~closed
    BY <1>0, <1>9, AnsweredActive DEF Answer, AnswerBegin, AnswerQuery, AnswerSavepoint,
       AnswerRollbackTo, AnswerCommit, AnswerRollback, Answered, Kinds, Ending
  <2> QED
    BY <1>0, <1>9, <2>1, RootFirst DEF Answer, AnswerBegin, AnswerQuery, AnswerSavepoint,
       AnswerRollbackTo, AnswerCommit, AnswerRollback, Enter, TypeOK, lifetime, Wire
<1>10. CASE Tell \/ TellStopped \/ Settle \/ Stop \/ UNCHANGED vars
  BY <1>1, <1>10 DEF Tell, TellStopped, Settle, Stop, vars, callers, database, lifetime
<1>11. CASE Close
  BY <1>0, <1>11 DEF Close, TypeOK, Remotes
<1> QED
  BY <1>2, <1>3, <1>4, <1>5, <1>6, <1>7, <1>8, <1>9, <1>10, <1>11 DEF Next

\* Nothing of a transaction that was rolled back goes on.
LEMMA RolledBackIdle ==
  ASSUME PromiseInv, remote = "rolledBack", ~closed
  PROVE  /\ \A s \in Scopes : ~Accepts(s) /\ phase[s] # "opening" /\ phase[s] # "running"
         /\ \A kind \in {"begin", "query", "savepoint", "rollbackTo"} : active.kind # kind
<1>0. TypeOK /\ Tree /\ Chain /\ Wire /\ Ends
  BY DEF PromiseInv, IInv
<1>1. \A s \in Scopes : s # Root => phase[s] \in Ended \union {"none"}
  BY DEF PromiseInv, Idle, Open
<1>2. phase[Root] \notin {"running", "marking", "opening"}
  BY <1>0 DEF PromiseInv, Idle, Ends, Chain
<1>3. active.kind # "query"
  BY <1>0, ActiveScope DEF Wire, Asked, PromiseInv, Idle, NoScope, NoStatement, Scopes
<1>4. active.kind \in {"begin", "savepoint", "rollbackTo"} => active.scope \in Scopes
  BY <1>0, ActiveScope DEF NoStatement
<1>5. \A kind \in {"begin", "query", "savepoint", "rollbackTo"} : active.kind # kind
  BY <1>0, <1>1, <1>2, <1>3, <1>4 DEF Wire, Ended
<1> QED
  BY <1>1, <1>2, <1>5 DEF Accepts, Ended


LEMMA IdleStep == PromiseInv /\ IInv' /\ [Next]_vars => Idle'
<1> SUFFICES ASSUME PromiseInv, IInv', [Next]_vars, remote' = "rolledBack", ~closed'
             PROVE  /\ phase'[Root] # "running"
                    /\ \A s \in Scopes \ {Root} : ~Open(s)'
                    /\ \A q \in Queries : issuer'[q] # NoScope => answer'[q] # "none"
  BY DEF Idle
<1>0. TypeOK /\ Tree /\ Chain /\ Unanswered /\ Wire /\ Root \in Scopes /\ TypeOK'
  BY RootFirst DEF PromiseInv, IInv
<1>1. CASE remote # "rolledBack"
  <2>1. AnswerCommit \/ AnswerRollback
    BY <1>1 DEF Next, Begin, IssueQuery, OpenSavepoint, Mark, EndCallback, Conclude, Unwind, Answer,
       AnswerBegin, AnswerQuery, AnswerSavepoint, AnswerRollbackTo, Tell, Stop, Close, TellStopped,
       Settle, vars, database
  <2>2. PICK kind \in {"commit", "rollback"} : Answered(kind)
    BY <2>1 DEF AnswerCommit, AnswerRollback
  <2>3. active.scope = Root
    BY <1>0, <2>2 DEF Wire, Answered
  <2>4. /\ \A d \in Scopes : Open(d) => d \in within[Root]
        /\ \A q \in Queries : issuer[q] # NoScope => answer[q] # "none"
    BY <1>0, <2>2, <2>3, ControlAnswered DEF Kinds
  <2>5. \A d \in Scopes \ {Root} : ~Open(d)
    <3> SUFFICES ASSUME NEW d \in Scopes \ {Root}, Open(d) PROVE FALSE
      OBVIOUS
    <3>1. d <= Root /\ d >= Root
      BY <1>0, <2>4, RootFirst DEF Tree
    <3> QED
      BY <3>1, RootFirst
  <2>6. /\ UNCHANGED <<issuer, answer>>
        /\ \A d \in Scopes \ {Root} : phase'[d] = phase[d]
        /\ phase'[Root] # "running"
    BY <1>0, <2>1 DEF AnswerCommit, AnswerRollback, Enter, TypeOK
  <2> QED
    BY <2>4, <2>5, <2>6 DEF Open
<1>2. CASE remote = "rolledBack"
  <2>1. ~closed
    BY DEF Next, Begin, IssueQuery, OpenSavepoint, Mark, EndCallback, Conclude, Unwind, Answer,
       AnswerBegin, AnswerQuery, AnswerSavepoint, AnswerRollbackTo, AnswerCommit, AnswerRollback,
       Tell, Stop, Close, TellStopped, Settle, vars, lifetime
  <2>2. /\ phase[Root] # "running"
        /\ \A s \in Scopes \ {Root} : ~Open(s)
        /\ \A q \in Queries : issuer[q] # NoScope => answer[q] # "none"
    BY <1>2, <2>1 DEF PromiseInv, Idle
  <2>3. /\ \A s \in Scopes : ~Accepts(s) /\ phase[s] # "opening" /\ phase[s] # "running"
        /\ \A kind \in {"begin", "query", "savepoint", "rollbackTo"} : active.kind # kind
    BY <1>2, <2>1, RolledBackIdle
  <2>4. ASSUME UNCHANGED <<issuer, answer>>,
               \A s \in Scopes \ {Root} : phase'[s] = phase[s],
               phase'[Root] # "running"
        PROVE  /\ phase'[Root] # "running"
               /\ \A s \in Scopes \ {Root} : ~Open(s)'
               /\ \A q \in Queries : issuer'[q] # NoScope => answer'[q] # "none"
    BY <2>2, <2>4 DEF Open
  <2>5. ASSUME NEW s \in Scopes, Conclude(s) \/ Unwind(s) PROVE s = Root
    BY <2>2, <2>3, <2>5 DEF Conclude, Unwind, Joined, Open, Ended
  <2>6. ASSUME NEW s \in Scopes, Conclude(s) \/ Unwind(s)
        PROVE  /\ UNCHANGED <<issuer, answer>>
               /\ \A t \in Scopes \ {Root} : phase'[t] = phase[t]
               /\ phase'[Root] # "running"
    <3>1. s = Root /\ UNCHANGED <<issuer, answer>>
      BY <2>5, <2>6 DEF Conclude, Unwind
    <3>2. PICK p \in Phases \ {"running"} : Enter(Root, p)
      BY <2>6, <3>1 DEF Conclude, Unwind, Phases
    <3> QED
      BY <1>0, <3>1, <3>2 DEF Enter, TypeOK
  <2>7. ~Begin
    BY <1>0, <1>2 DEF PromiseInv, IInv, Ends, Begin
  <2>8. ASSUME NEW s \in Scopes, NEW q \in Queries PROVE ~IssueQuery(s, q)
    BY <2>3 DEF IssueQuery
  <2>9. ASSUME NEW p \in Scopes, NEW c \in Scopes PROVE ~OpenSavepoint(p, c) /\ ~Mark(p, c)
    BY <2>3 DEF OpenSavepoint, Mark
  <2>10. ASSUME NEW s \in Scopes, NEW how \in {"returned", "threw"} PROVE ~EndCallback(s, how)
    BY <2>3 DEF EndCallback
  <2>11. CASE Answer
    <3>1. AnswerCommit \/ AnswerRollback
      BY <2>3, <2>11 DEF Answer, AnswerBegin, AnswerQuery, AnswerSavepoint, AnswerRollbackTo, Answered
    <3>2. /\ UNCHANGED <<issuer, answer>>
          /\ \A t \in Scopes \ {Root} : phase'[t] = phase[t]
          /\ phase'[Root] # "running"
      BY <1>0, <3>1 DEF AnswerCommit, AnswerRollback, Enter, TypeOK
    <3> QED
      BY <2>4, <3>2
  <2>12. CASE Tell \/ TellStopped \/ Settle \/ UNCHANGED vars
    BY <2>2, <2>4, <2>12 DEF Tell, TellStopped, Settle, vars, callers
  <2>13. CASE Stop
    <3>1. \A q \in Queries : answer'[q] = "none" => answer[q] = "none"
      BY <1>0, <2>13, StopRejects
    <3> QED
      BY <2>2, <2>13, <3>1 DEF Stop, Open
  <2>14. ~Close
    BY DEF Close
  <2> QED
    BY <2>4, <2>6, <2>7, <2>8, <2>9, <2>10, <2>11, <2>12, <2>13, <2>14 DEF Next
<1> QED
  BY <1>1, <1>2

LEMMA PromiseInvariance == Spec => []PromiseInv
<1>1. Init => PromiseInv
  BY InitInv, ShutInit DEF PromiseInv, Idle, Init
<1>2. PromiseInv /\ IInv' /\ [Next]_vars => PromiseInv'
  BY ShutStep, IdleStep DEF PromiseInv
<1> QED
  BY <1>1, <1>2, Invariance, PTL DEF Spec

-----------------------------------------------------------------------------
(* The mapping.                                                             *)

\* One scope moves, and the status of the others stays.
LEMMA StatusMoves ==
  ASSUME TypeOK, NEW s \in Scopes, NEW p \in Phases, Enter(s, p),
         s = Root \/ remote' = remote
  PROVE  /\ StatusMap' = [StatusMap EXCEPT ![s] = StatusOf(s)']
         /\ s # Root => StatusOf(s)' = StatusIn(p)
         /\ StatusMap[s] = StatusOf(s)
<1>1. phase' = [phase EXCEPT ![s] = p] /\ Root \in Scopes
  BY RootFirst DEF Enter
<1>2. \A t \in Scopes : phase'[t] = IF t = s THEN p ELSE phase[t]
  BY <1>1 DEF TypeOK
<1>3. ASSUME NEW t \in Scopes, t # s PROVE StatusOf(t)' = StatusOf(t)
  <2>1. phase'[t] = phase[t]
    BY <1>2, <1>3
  <2>2. CASE t # Root
    BY <2>1, <2>2 DEF StatusOf, StatusIn
  <2>3. CASE t = Root
    <3>1. remote' = remote
      BY <1>3, <2>3
    <3> QED
      BY <2>1, <2>3, <3>1 DEF StatusOf, RootStatus, StatusIn
  <2> QED
    BY <2>2, <2>3
<1>4. s # Root => StatusOf(s)' = StatusIn(p)
  BY <1>2 DEF StatusOf, StatusIn
<1> QED
  BY <1>3, <1>4 DEF StatusMap

\* The transaction ends in the database, in whatever phase its scope is.
LEMMA RootMoves ==
  ASSUME TypeOK, UNCHANGED phase
  PROVE  StatusMap' = [StatusMap EXCEPT ![Root] = RootStatus']
<1>1. ASSUME NEW t \in Scopes, t # Root PROVE StatusOf(t)' = StatusOf(t)
  BY <1>1 DEF StatusOf, StatusIn
<1>2. Root \in Scopes /\ StatusOf(Root)' = RootStatus'
  BY RootFirst DEF StatusOf
<1> QED
  BY <1>1, <1>2 DEF StatusMap

LEMMA StatusStays ==
  ASSUME UNCHANGED <<phase, remote>>
  PROVE  UNCHANGED StatusMap
  BY DEF StatusMap, StatusOf, StatusIn, RootStatus

\* What the statuses say.
LEMMA StatusSays ==
  ASSUME TypeOK, NEW s \in Scopes
  PROVE  /\ StatusMap[s] = StatusOf(s)
         /\ s # Root /\ phase[s] \in Ended \union {"none"} => StatusOf(s) = phase[s]
         /\ s # Root /\ phase[s] \in {"opening", "marking"} => StatusOf(s) = "reserved"
         /\ s # Root /\ phase[s] \in Calling \union {"undoing", "committing"} =>
              StatusOf(s) = "open"
         /\ s # Root /\ Open(s) => StatusOf(s) \in {"reserved", "open"}
         /\ s = Root /\ remote \in {"open", "aborted"} => StatusOf(s) = "open"
<1>1. phase[s] \in Phases
  BY DEF TypeOK
<1> QED
  BY <1>1 DEF StatusMap, StatusOf, RootStatus, StatusIn, Phases, Ended, Calling, Open

\* A scope that every open scope is around is the innermost one of the promise.
LEMMA AbstractInnermost ==
  ASSUME TypeOK, Tree, NEW s \in Scopes, \A d \in Scopes : Open(d) => d \in within[s]
  PROVE  Promise!Innermost(s)
<1>1. ASSUME NEW c \in Scopes \ {s}, s \in within[c] PROVE StatusMap[c] \in Ended
  <2>1. phase[c] # "none"
    BY <1>1 DEF Tree
  <2>2. c \notin within[s]
    BY <1>1, WithinOnce
  <2>3. phase[c] \in Ended
    BY <2>1, <2>2 DEF Open
  <2>4. c # Root
    BY <1>1, RootFirst DEF Tree
  <2> QED
    BY <2>3, <2>4, StatusSays DEF Ended
<1> QED
  BY <1>1 DEF Promise!Innermost, Promise!Within, Promise!Ended, StatusMap, Ended

-----------------------------------------------------------------------------
(* Each step is one of the promise, or none.                                *)

LEMMA BeginKept ==
  ASSUME PromiseInv, Begin
  PROVE  Promise!ReserveIn(Root)
<1>0. TypeOK /\ Tree /\ Ends /\ Root \in Scopes
  BY RootFirst DEF PromiseInv, IInv
<1>1. remote = "none" /\ remote' = remote
  BY <1>0 DEF Begin, Ends, database
<1>2. StatusMap' = [StatusMap EXCEPT ![Root] = StatusOf(Root)']
  BY <1>0, <1>1, StatusMoves DEF Begin, Phases
<1>3. StatusOf(Root) = "none" /\ StatusOf(Root)' = "reserved"
  BY <1>0, <1>1 DEF Begin, Enter, TypeOK, StatusOf, RootStatus, StatusIn, Ended
<1>4. StatusMap[Root] = "none"
  BY <1>0, <1>3 DEF StatusMap
<1> QED
  BY <1>0, <1>1, <1>2, <1>3, <1>4 DEF Promise!ReserveIn, Promise!Reserve, StatusMap, Begin, lifetime

\* A scope that may issue work is the innermost open one of the promise.
LEMMA AcceptsInnermost ==
  ASSUME PromiseInv, NEW s \in Scopes, Accepts(s)
  PROVE  StatusMap[s] = "open" /\ Promise!Innermost(s)
<1>0. TypeOK /\ Tree /\ Chain /\ Ends /\ Ending
  BY DEF PromiseInv, IInv
<1>1. Open(s) /\ ~closed
  BY <1>0 DEF Accepts, Open, Ended, Ending
<1>2. \A d \in Scopes : Open(d) => d \in within[s]
  BY <1>0, <1>1, Innermost DEF Accepts
<1>3. s = Root => remote \in {"open", "aborted"}
  BY <1>0, <1>1 DEF Accepts, Ends
<1> QED
  BY <1>0, <1>2, <1>3, StatusSays, AbstractInnermost DEF Accepts, Calling

LEMMA OpenSavepointKept ==
  ASSUME PromiseInv, NEW p \in Scopes, NEW c \in Scopes, OpenSavepoint(p, c)
  PROVE  Promise!ReserveIn(c)
<1>0. TypeOK /\ Tree
  BY DEF PromiseInv, IInv
<1>1. c # Root /\ phase[c] = "none" /\ remote' = remote
  BY <1>0, RootOfAll DEF OpenSavepoint, Accepts, database
<1>2. StatusMap' = [StatusMap EXCEPT ![c] = "reserved"]
  BY <1>0, <1>1, StatusMoves DEF OpenSavepoint, Phases, StatusIn, Ended
<1>3. StatusMap[c] = "none"
  BY <1>0, <1>1, StatusSays
<1>4. StatusMap[p] = "open" /\ Promise!Innermost(p)
  BY AcceptsInnermost DEF OpenSavepoint
<1>5. UNCHANGED <<issuer, answer, effects, outcome>>
  BY DEF OpenSavepoint, database, lifetime
<1>6. Promise!Reserve(c, within[p])
  BY <1>1, <1>2, <1>3, <1>5 DEF Promise!Reserve, StatusMap, OpenSavepoint
<1> QED
  BY <1>4, <1>6 DEF Promise!ReserveIn, StatusMap

LEMMA IssueQueryKept ==
  ASSUME PromiseInv, NEW s \in Scopes, NEW q \in Queries, IssueQuery(s, q)
  PROVE  Promise!Ask(s, q)
<1>0. TypeOK /\ Unanswered
  BY DEF PromiseInv, IInv
<1>1. StatusMap[s] = "open" /\ Promise!Innermost(s)
  BY AcceptsInnermost DEF IssueQuery
<1>2. UNCHANGED StatusMap
  BY StatusStays DEF IssueQuery, database
<1>3. Done' = Done
  BY <1>0 DEF Done, IssueQuery, Unanswered, TypeOK
<1>4. UNCHANGED <<within, remote, effects, outcome>>
  BY DEF IssueQuery, database, lifetime
<1> QED
  BY <1>1, <1>2, <1>3, <1>4 DEF Promise!Ask, StatusMap, Done, IssueQuery

\* A scope other than the transaction ends.
LEMMA ScopeFails ==
  ASSUME PromiseInv, NEW s \in Scopes \ {Root}, Open(s), Enter(s, "failed"),
         \A d \in Scopes : Open(d) => d \in within[s],
         RootStatus' = RootStatus, UNCHANGED <<within, issuer, answer, outcome, Committed>>
  PROVE  Promise!Fail(s)
<1>0. TypeOK /\ Tree
  BY DEF PromiseInv, IInv
<1>1. StatusMap' = [StatusMap EXCEPT ![s] = "failed"]
  <2>1. phase' = [phase EXCEPT ![s] = "failed"]
    BY DEF Enter
  <2>2. \A t \in Scopes : StatusOf(t)' = IF t = s THEN "failed" ELSE StatusOf(t)
    BY <1>0, <2>1 DEF StatusOf, StatusIn, TypeOK, Ended
  <2> QED
    BY <2>2 DEF StatusMap
<1>2. Promise!Innermost(s)
  BY <1>0, AbstractInnermost
<1>3. StatusMap[s] \in {"reserved", "open"}
  BY <1>0, StatusSays
<1> QED
  BY <1>1, <1>2, <1>3 DEF Promise!Fail, StatusMap, Committed

\* The transaction is rolled back, with whatever is open in it.
LEMMA RootFails ==
  ASSUME PromiseInv, RootStatus \in {"reserved", "open"}, RootStatus' = "failed",
         \A t \in Scopes \ {Root} : phase'[t] = phase[t],
         UNCHANGED <<within, issuer, Done, outcome, Committed>>
  PROVE  Promise!RollBack
<1>1. Root \in Scopes
  BY RootFirst
<1>2. \A t \in Scopes : StatusOf(t)' = IF t = Root THEN "failed" ELSE StatusOf(t)
  BY <1>1 DEF StatusOf, StatusIn
<1>3. StatusMap' = [StatusMap EXCEPT ![Root] = "failed"] /\ StatusMap[Root] \in {"reserved", "open"}
  BY <1>1, <1>2 DEF StatusMap, StatusOf
<1> QED
  BY <1>3 DEF Promise!RollBack, StatusMap, Committed, Done

\* The database commits what no failed scope is around.
LEMMA CommitKept ==
  ASSUME PromiseInv, PromiseInv', active.kind = "commit", remote = "open", remote' = "committed",
         \A t \in Scopes \ {Root} : phase'[t] = phase[t],
         UNCHANGED <<within, issuer, effects, Done, outcome>>
  PROVE  Promise!Commit
<1>0. TypeOK /\ Tree /\ Chain /\ Wire /\ Unanswered /\ Remembered /\ Root \in Scopes
  BY RootFirst DEF PromiseInv, IInv
<1>1. phase[Root] = "committing" /\ Open(Root)
  BY <1>0 DEF Wire, Open, Ended
<1>2. \A t \in Scopes : StatusOf(t)' = IF t = Root THEN "succeeded" ELSE StatusOf(t)
  BY <1>0 DEF StatusOf, StatusIn, RootStatus
<1>3. StatusMap' = [StatusMap EXCEPT ![Root] = "succeeded"] /\ StatusMap[Root] = "open"
  BY <1>0, <1>2, StatusSays DEF StatusMap
<1>4. Promise!Innermost(Root)
  BY <1>0, <1>1, AtTheEdge, AbstractInnermost DEF Calling
<1>5. Promise!Complete(Root)
  BY <1>0, <1>1 DEF Promise!Complete, Remembered, NoScope, Scopes
<1>6. effects = {q \in Done : \A s \in within[issuer[q]] \ {Root} : StatusMap[s] # "failed"}
  <2>1. Held' /\ TypeOK'
    BY DEF PromiseInv, IInv
  <2>2. ASSUME NEW q \in Queries, issuer[q] # NoScope
        PROVE  Unfailed(q)' <=> \A s \in within[issuer[q]] \ {Root} : StatusMap[s] # "failed"
    <3>1. issuer[q] \in Scopes
      BY <1>0, <2>2 DEF TypeOK
    <3>2. ASSUME NEW s \in within[issuer[q]] \ {Root}
          PROVE  phase'[s] = "failed" <=> StatusMap[s] = "failed"
      <4>1. s \in Scopes /\ phase'[s] = phase[s]
        BY <1>0, <3>1, <3>2 DEF TypeOK
      <4> QED
        BY <1>0, <3>2, <4>1, StatusSays DEF StatusOf, StatusIn, Ended
    <3> QED
      BY <3>2 DEF Unfailed
  <2>3. \A q \in Queries : answer'[q] = "ok" <=> answer[q] = "ok"
    BY DEF Done
  <2>4. \A q \in Queries :
          /\ q \in effects => issuer[q] # NoScope /\ Unfailed(q)'
          /\ issuer[q] # NoScope /\ answer[q] = "ok" /\ Unfailed(q)' => q \in effects
    BY <2>1, <2>3 DEF Held
  <2>5. \A q \in Queries : q \in effects => answer[q] = "ok"
    <3> SUFFICES ASSUME NEW q \in Queries, q \in effects PROVE answer[q] = "ok"
      OBVIOUS
    <3>1. IInv' => CommittedIsWhole'
      BY CommittedWhenEnded, PTL
    <3>2. issuer[q] # NoScope /\ \A s \in within[issuer[q]] \ {Root} : phase'[s] = "succeeded"
      BY <3>1 DEF PromiseInv, CommittedIsWhole
    <3>3. issuer[q] \in Scopes /\ issuer[q] \in within[issuer[q]]
      BY <1>0, <3>2 DEF TypeOK, Unanswered, Unentered, Tree
    <3>4. Remembered'
      BY DEF PromiseInv, IInv
    <3> QED
      BY <2>3, <3>2, <3>3, <3>4 DEF Remembered
  <2>6. \A q \in Queries : answer[q] = "ok" => issuer[q] # NoScope
    BY <1>0 DEF Unanswered
  <2>7. effects \subseteq Queries
    BY <1>0 DEF TypeOK
  <2> QED
    BY <2>2, <2>4, <2>5, <2>6, <2>7 DEF Done
<1> QED
  BY <1>3, <1>4, <1>5, <1>6 DEF Promise!Commit, StatusMap, Done

\* Answers, while the connection is open.
LEMMA AnswerOpen ==
  ASSUME PromiseInv, NEW kind \in Kinds, Answered(kind)
  PROVE  ~closed /\ active.scope \in Scopes /\ active.kind = kind
  BY AnsweredActive DEF PromiseInv, IInv, Answered, Ending

LEMMA AnswerBeginKept ==
  ASSUME PromiseInv, AnswerBegin
  PROVE  Promise!Enter(Root) \/ Promise!RollBack
<1>0. TypeOK /\ Tree /\ Wire /\ Ends /\ Root \in Scopes
  BY RootFirst DEF PromiseInv, IInv
<1>1. phase[Root] = "marking" /\ remote = "none" /\ ~closed
  BY <1>0, AnswerOpen DEF AnswerBegin, Wire, Ends, Kinds
<1>2. RootStatus = "reserved" /\ StatusMap[Root] = "reserved"
  BY <1>0, <1>1 DEF StatusMap, StatusOf, RootStatus, StatusIn, Ended
<1>3. UNCHANGED <<within, issuer, answer, effects, outcome>>
  BY DEF AnswerBegin, lifetime
<1>4. CASE Enter(Root, "running") /\ remote' = "open"
  <2>1. StatusMap' = [StatusMap EXCEPT ![Root] = "open"]
    BY <1>0, <1>4, StatusMoves DEF Phases, StatusOf, RootStatus
  <2>2. within[Root] \ {Root} = {}
    BY <1>0, RootFirst DEF Tree, TypeOK, Scopes, Root
  <2> QED
    BY <1>0, <1>1, <1>2, <1>3, <1>4, <2>1, <2>2 DEF Promise!Enter, StatusMap
<1>5. CASE Enter(Root, "failed") /\ UNCHANGED remote
  <2>1. RootStatus' = "failed"
    BY <1>0, <1>1, <1>5 DEF RootStatus, StatusIn, Enter, TypeOK, Ended
  <2>2. \A t \in Scopes \ {Root} : phase'[t] = phase[t]
    BY <1>0, <1>5 DEF Enter, TypeOK
  <2> QED
    BY <1>2, <1>3, <1>5, <2>1, <2>2, RootFails DEF Done, Committed
<1> QED
  BY <1>4, <1>5 DEF AnswerBegin

LEMMA AnswerQueryKept ==
  ASSUME PromiseInv, AnswerQuery
  PROVE  (\E q \in Queries : Promise!Do(q)) \/ UNCHANGED Mapped
<1>0. TypeOK /\ Tree /\ Chain /\ Unanswered /\ Wire /\ Root \in Scopes
  BY RootFirst DEF PromiseInv, IInv
<1>1. active.kind = "query" /\ Asked(active) /\ active.scope \in Scopes /\ ~closed
  BY <1>0, AnswerOpen DEF AnswerQuery, Wire, Kinds
<1>q. PICK q \in Queries : q = active.query
  BY <1>1 DEF Asked
<1>2. issuer[q] \in Scopes /\ answer[q] = "none" /\ issuer[q] # NoScope
  BY <1>0, <1>1, <1>q DEF Asked, NoScope, Scopes
<1>3. UNCHANGED <<phase, within, issuer, outcome>>
  BY DEF AnswerQuery, lifetime
<1>4. CASE /\ remote = "open"
           /\ answer' = [answer EXCEPT ![q] = "ok"]
           /\ effects' = effects \union {q}
           /\ UNCHANGED <<failed, remote>>
  <2>1. UNCHANGED StatusMap
    BY <1>3, <1>4, StatusStays
  <2>2. Done' = Done \union {q} /\ q \notin Done
    BY <1>0, <1>2, <1>4 DEF Done, TypeOK
  <2>3. Committed' = Committed
    BY <1>4 DEF Committed
  <2>4. Open(issuer[q]) /\ phase[issuer[q]] \in Calling
    BY <1>0, <1>2 DEF Unanswered, Open, Calling, Ended
  <2>5. ASSUME NEW t \in within[issuer[q]] PROVE StatusMap[t] = "open"
    <3>1. t \in Scopes
      BY <1>0, <1>2, <2>5 DEF TypeOK
    <3>2. phase[t] \in Calling
      BY <1>0, <1>2, <2>4, <2>5 DEF Chain
    <3> QED
      BY <1>0, <1>4, <3>1, <3>2, StatusSays
  <2>6. ASSUME NEW c \in Scopes \ {issuer[q]}, issuer[q] \in within[c]
        PROVE  StatusMap[c] \in Ended \union {"reserved"}
    <3>1. phase[c] # "none" /\ c \notin within[issuer[q]] /\ c # Root
      <4>1. phase[c] # "none"
        BY <2>6 DEF Tree, PromiseInv, IInv
      <4>2. c \notin within[issuer[q]]
        BY <1>0, <1>2, <2>6, WithinOnce
      <4>3. issuer[q] <= c /\ issuer[q] # c
        BY <1>0, <2>6 DEF Tree, TypeOK
      <4>4. c # Root
        <5>1. issuer[q] \in Nat /\ c \in Nat /\ Root \in Nat /\ issuer[q] >= Root
          BY <1>2, RootFirst
        <5> QED
          BY <4>3, <5>1
      <4> QED
        BY <4>1, <4>2, <4>4
    <3>2. phase[c] \in Ended \/ phase[c] = "opening"
      BY <1>0, <1>2, <3>1 DEF Unanswered, Open
    <3> QED
      BY <1>0, <3>1, <3>2, StatusSays DEF Ended
  <2>7. Promise!Do(q)
    BY <1>2, <1>3, <2>1, <2>2, <2>3, <2>5, <2>6
    DEF Promise!Do, Promise!Within, Promise!Ended, StatusMap, Done, Committed, Ended
  <2> QED
    BY <1>2, <2>7
<1>5. CASE /\ answer' = [answer EXCEPT ![q] = "failed"]
           /\ remote' \in {remote, "aborted"}
           /\ UNCHANGED <<effects, since>>
  <2>1. Done' = Done
    BY <1>0, <1>2, <1>5 DEF Done, TypeOK
  <2>2. remote \in {"open", "aborted"}
    <3>1. phase[issuer[q]] \in Calling
      BY <1>0, <1>2 DEF Unanswered
    <3>2. phase[Root] \in Calling
      BY <1>0, <1>2, <3>1, RootCalling DEF Open, Calling, Ended
    <3>3. remote # "rolledBack"
      BY <1>1, <1>2 DEF PromiseInv, Idle
    <3> QED
      BY <1>1, <3>2, <3>3 DEF PromiseInv, IInv, Ends, Calling
  <2>3. UNCHANGED StatusMap
    BY <1>3, <1>5, <2>2 DEF StatusMap, StatusOf, RootStatus, StatusIn
  <2> QED
    BY <1>3, <1>5, <2>1, <2>2, <2>3 DEF Mapped, Committed
<1> QED
  BY <1>q, <1>4, <1>5 DEF AnswerQuery

LEMMA AnswerSavepointKept ==
  ASSUME PromiseInv, AnswerSavepoint
  PROVE  \E c \in Scopes : Promise!Enter(c) \/ Promise!Fail(c)
<1>0. TypeOK /\ Tree /\ Chain /\ Unanswered /\ Wire /\ Ends /\ Root \in Scopes
  BY RootFirst DEF PromiseInv, IInv
<1>1. Answered("savepoint") /\ ~closed /\ active.kind = "savepoint"
  BY AnswerOpen DEF AnswerSavepoint, Kinds
<1>c. PICK c \in Scopes : c = active.scope
  BY <1>1, AnswerOpen DEF Kinds
<1>2. c # Root /\ phase[c] = "marking" /\ Open(c) /\ \A d \in Scopes : Open(d) => d \in within[c]
  BY <1>0, <1>1, <1>c, ControlAnswered DEF Wire, Kinds
<1>3. UNCHANGED <<within, issuer, answer, effects, outcome>>
  BY DEF AnswerSavepoint, lifetime
<1>4. CASE remote = "open" /\ Enter(c, "running") /\ UNCHANGED remote
  <2>1. StatusMap' = [StatusMap EXCEPT ![c] = "open"]
    BY <1>0, <1>2, <1>4, StatusMoves DEF Phases, StatusIn, Ended
  <2>2. StatusMap[c] = "reserved"
    BY <1>0, <1>2, StatusSays
  <2>3. ASSUME NEW t \in within[c] \ {c} PROVE StatusMap[t] = "open"
    BY <1>0, <1>2, <1>4, <2>3, StatusSays DEF Chain, TypeOK
  <2>4. Promise!Enter(c)
    BY <1>3, <1>4, <2>1, <2>2, <2>3 DEF Promise!Enter, StatusMap
  <2> QED
    BY <2>4
<1>5. CASE Enter(c, "failed") /\ remote' \in {remote, "aborted"}
  <2>1. remote \in {"open", "aborted"}
    <3>1. phase[Root] \in Calling
      BY <1>0, <1>2, RootCalling
    <3>2. remote # "rolledBack"
      BY <1>1, RolledBackIdle
    <3> QED
      BY <1>0, <1>1, <3>1, <3>2 DEF Ends, Calling
  <2>2. RootStatus' = RootStatus /\ Committed' = Committed
    BY <1>3, <1>5, <2>1 DEF RootStatus, Committed
  <2>3. Promise!Fail(c)
    BY <1>2, <1>3, <1>5, <2>2, ScopeFails
  <2> QED
    BY <2>3
<1> QED
  BY <1>c, <1>4, <1>5 DEF AnswerSavepoint

LEMMA AnswerRollbackToKept ==
  ASSUME PromiseInv, AnswerRollbackTo
  PROVE  \E c \in Scopes : Promise!Fail(c)
<1>0. TypeOK /\ Tree /\ Chain /\ Unanswered /\ Wire /\ Ends
  BY DEF PromiseInv, IInv
<1>1. Answered("rollbackTo") /\ ~closed /\ active.kind = "rollbackTo"
  BY AnswerOpen DEF AnswerRollbackTo, Kinds
<1>c. PICK c \in Scopes : c = active.scope
  BY <1>1, AnswerOpen DEF Kinds
<1>2. c # Root /\ Open(c) /\ \A d \in Scopes : Open(d) => d \in within[c]
  BY <1>0, <1>1, <1>c, ControlAnswered DEF Wire, Kinds
<1>3. remote \in {"open", "aborted"}
  <2>1. phase[Root] \in Calling
    BY <1>0, <1>2, RootCalling
  <2>2. remote # "rolledBack"
    BY <1>1, RolledBackIdle
  <2> QED
    BY <1>0, <1>1, <2>1, <2>2 DEF Ends, Calling
<1>4. RootStatus' = RootStatus /\ Committed' = Committed
  BY <1>3 DEF AnswerRollbackTo, RootStatus, Committed
<1>5. Promise!Fail(c)
  BY <1>c, <1>2, <1>4, ScopeFails DEF AnswerRollbackTo, lifetime
<1> QED
  BY <1>5

LEMMA AnswerCommitKept ==
  ASSUME PromiseInv, PromiseInv', AnswerCommit
  PROVE  Promise!Commit \/ Promise!RollBack
<1>0. TypeOK /\ Wire /\ Ends /\ Root \in Scopes
  BY RootFirst DEF PromiseInv, IInv
<1>1. ~closed /\ active.kind = "commit"
  BY AnswerOpen DEF AnswerCommit, Kinds
<1>2. phase[Root] = "committing" /\ remote \in {"open", "aborted"}
  BY <1>0, <1>1 DEF Wire, Ends
<1>3. UNCHANGED <<within, issuer, answer, effects, Done, outcome>>
  BY DEF AnswerCommit, lifetime, Done
<1>4. \A t \in Scopes \ {Root} : phase'[t] = phase[t]
  BY <1>0 DEF AnswerCommit, Enter, TypeOK
<1>5. CASE remote = "open" /\ remote' = "committed"
  BY <1>1, <1>3, <1>4, <1>5, CommitKept
<1>6. CASE remote' = "rolledBack"
  BY <1>2, <1>3, <1>4, <1>6, RootFails DEF RootStatus, Committed
<1> QED
  BY <1>2, <1>5, <1>6 DEF AnswerCommit

LEMMA AnswerRollbackKept ==
  ASSUME PromiseInv, AnswerRollback
  PROVE  Promise!RollBack \/ UNCHANGED Mapped
<1>0. TypeOK /\ Wire /\ Ends /\ Root \in Scopes
  BY RootFirst DEF PromiseInv, IInv
<1>1. ~closed /\ active.kind = "rollback"
  BY AnswerOpen DEF AnswerRollback, Kinds
<1>2. remote \in {"open", "aborted", "rolledBack"}
  BY <1>0, <1>1 DEF Wire, Ends
<1>3. UNCHANGED <<within, issuer, answer, effects, Done, outcome>>
  BY DEF AnswerRollback, lifetime, Done
<1>4. \A t \in Scopes \ {Root} : phase'[t] = phase[t]
  BY <1>0 DEF AnswerRollback, Enter, TypeOK
<1>5. remote' = "rolledBack"
  BY DEF AnswerRollback
<1>6. CASE remote = "rolledBack"
  <2>1. UNCHANGED StatusMap
    BY <1>4, <1>5, <1>6 DEF StatusMap, StatusOf, StatusIn, RootStatus
  <2> QED
    BY <1>3, <1>5, <1>6, <2>1 DEF Mapped, Committed
<1>7. CASE remote # "rolledBack"
  BY <1>2, <1>3, <1>4, <1>5, <1>7, RootFails DEF RootStatus, Committed
<1> QED
  BY <1>6, <1>7

LEMMA ConcludeKept ==
  ASSUME PromiseInv, NEW s \in Scopes, Conclude(s)
  PROVE  Promise!Succeed(s) \/ UNCHANGED Mapped
<1>0. TypeOK /\ Tree /\ Chain /\ Unanswered /\ Wire /\ Remembered /\ Ends /\ Ending
  BY DEF PromiseInv, IInv
<1>1. /\ \A d \in Scopes : Open(d) => d \in within[s]
      /\ \A q \in Queries : issuer[q] # NoScope => answer[q] # "none"
  BY <1>0, JoinedFree DEF Conclude
<1>2. UNCHANGED <<within, issuer, answer, remote, effects, outcome>>
  BY DEF Conclude, database, lifetime
<1>3. CASE Succeeds(s) /\ s # Root
  <2>1. StatusMap' = [StatusMap EXCEPT ![s] = "succeeded"]
    BY <1>0, <1>2, <1>3, StatusMoves DEF Conclude, Phases, StatusIn, Ended
  <2>2. StatusMap[s] = "open"
    BY <1>0, <1>3, StatusSays DEF Succeeds, Calling
  <2>3. Promise!Innermost(s)
    BY <1>0, <1>1, AbstractInnermost
  <2>4. Promise!Complete(s)
    <3> SUFFICES ASSUME NEW q \in Queries, issuer[q] = s PROVE answer[q] = "ok"
      BY DEF Promise!Complete
    <3>1. answer[q] \in {"ok", "failed"}
      BY <1>0, <1>1 DEF TypeOK, Answers, NoScope, Scopes
    <3> QED
      BY <1>0, <1>3, <3>1 DEF Remembered, Conclude, Succeeds
  <2> QED
    BY <1>2, <1>3, <2>1, <2>2, <2>3, <2>4 DEF Promise!Succeed, StatusMap
<1>4. CASE ~Succeeds(s) \/ s = Root
  <2>1. phase[s] \in {"returned", "threw"}
    BY DEF Conclude, Joined
  <2>2. PICK p \in {"committing", "undoing"} : Enter(s, p)
    BY <1>4 DEF Conclude
  <2>3. s = Root => remote # "none"
    BY <2>1 DEF PromiseInv, Shut
  <2>4. \A t \in Scopes : StatusOf(t)' = StatusOf(t)
    BY <1>0, <1>2, <2>1, <2>2, <2>3 DEF Enter, TypeOK, StatusOf, StatusIn, RootStatus, Ended
  <2> QED
    BY <1>2, <2>4 DEF Mapped, StatusMap, Done, Committed
<1> QED
  BY <1>3, <1>4

LEMMA CloseKept ==
  ASSUME PromiseInv, PromiseInv', Close
  PROVE  Promise!Commit \/ Promise!RollBack \/ UNCHANGED Mapped
<1>0. TypeOK /\ Wire
  BY DEF PromiseInv, IInv
<1>1. UNCHANGED <<phase, within, issuer, effects, outcome>>
  BY DEF Close
<1>2. Done' = Done
  BY <1>0, CloseRejects DEF Done
<1>3. CASE active.kind = "commit" /\ remote = "open" /\ remote' = "committed"
  BY <1>1, <1>2, <1>3, CommitKept
<1>4. CASE remote \in {"open", "aborted"} /\ remote' = "rolledBack"
  BY <1>1, <1>2, <1>4, RootFails DEF RootStatus, Committed
<1>5. CASE UNCHANGED remote
  BY <1>1, <1>2, <1>5, StatusStays DEF Mapped, Committed
<1> QED
  BY <1>3, <1>4, <1>5 DEF Close

LEMMA UnwindKept ==
  ASSUME PromiseInv, NEW s \in Scopes, Unwind(s)
  PROVE  Promise!Fail(s) \/ Promise!RollBack \/ UNCHANGED Mapped
<1>0. TypeOK /\ Tree /\ Chain /\ Unanswered /\ Wire
  BY DEF PromiseInv, IInv
<1>1. UNCHANGED <<within, issuer, answer, remote, effects, outcome, Done, Committed>>
  BY DEF Unwind, database, lifetime, Done, Committed
<1>2. Open(s) /\ Enter(s, "failed")
  BY DEF Unwind, Joined, Open, Ended
<1>3. \A d \in Scopes : Open(d) => d \in within[s]
  BY <1>0, <1>2, AtTheEdge, JoinedFree DEF Unwind, Calling
<1>4. CASE s # Root
  <2>1. RootStatus' = RootStatus
    BY <1>0, <1>1, <1>2, <1>4 DEF RootStatus, StatusIn, Enter, TypeOK
  <2> QED
    BY <1>1, <1>2, <1>3, <1>4, <2>1, ScopeFails
<1>5. CASE s = Root /\ remote = "none"
  <2>1. RootStatus = "reserved" /\ RootStatus' = "failed"
    BY <1>0, <1>1, <1>2, <1>5
    DEF PromiseInv, Shut, RootStatus, StatusIn, Enter, TypeOK, Open, Ended
  <2>2. \A t \in Scopes \ {Root} : phase'[t] = phase[t]
    BY <1>0, <1>2, <1>5 DEF Enter, TypeOK
  <2> QED
    BY <1>1, <2>1, <2>2, RootFails
<1>6. CASE s = Root /\ remote # "none"
  <2>1. \A t \in Scopes : StatusOf(t)' = StatusOf(t)
    BY <1>0, <1>1, <1>2, <1>6 DEF Enter, TypeOK, StatusOf, StatusIn, RootStatus
  <2> QED
    BY <1>1, <2>1 DEF Mapped, StatusMap
<1> QED
  BY <1>4, <1>5, <1>6

LEMMA TellKept ==
  ASSUME PromiseInv, Tell \/ TellStopped
  PROVE  Promise!Tell
<1>0. TypeOK /\ Ends /\ Ending /\ Root \in Scopes
  BY RootFirst DEF PromiseInv, IInv
<1>1. UNCHANGED <<phase, within, issuer, answer, remote, effects>>
  BY DEF Tell, TellStopped, callers, database
<1>2. UNCHANGED StatusMap
  BY <1>1, StatusStays
<1>3. /\ phase[Root] = "succeeded" => StatusMap[Root] = "succeeded"
      /\ phase[Root] = "failed" /\ ~closed => StatusMap[Root] = "failed"
      /\ phase[Root] \in Ended => StatusMap[Root] \in Ended
  BY <1>0 DEF StatusMap, StatusOf, RootStatus, StatusIn, Ends, PromiseInv, Shut, Ended, TypeOK, Remotes
<1>4. CASE Tell
  BY <1>0, <1>1, <1>2, <1>3, <1>4 DEF Tell, Promise!Tell, Promise!Ended, StatusMap, Ended, Ending
<1>5. CASE TellStopped
  BY <1>1, <1>2, <1>3, <1>5 DEF TellStopped, Promise!Tell, Promise!Ended, StatusMap, Ended
<1> QED
  BY <1>4, <1>5

\* What goes on inside a scope, and the end of the request, are not seen.
LEMMA HiddenKept ==
  ASSUME PromiseInv,
         \/ \E p, c \in Scopes : Mark(p, c)
         \/ \E s \in Scopes, how \in {"returned", "threw"} : EndCallback(s, how)
         \/ Stop \/ Settle \/ UNCHANGED vars
  PROVE  UNCHANGED Mapped
<1>0. TypeOK /\ Wire /\ Ends
  BY DEF PromiseInv, IInv
<1>1. ASSUME UNCHANGED <<within, issuer, remote, effects, outcome, Done, StatusMap>>
      PROVE  UNCHANGED Mapped
  BY <1>1 DEF Mapped, Committed
<1>2. ASSUME NEW p \in Scopes, NEW c \in Scopes, Mark(p, c) PROVE UNCHANGED Mapped
  <2>1. UNCHANGED <<within, issuer, answer, remote, effects, outcome>>
    BY <1>2 DEF Mark, database, lifetime
  <2>2. \A t \in Scopes : StatusOf(t)' = StatusOf(t)
    BY <1>0, <1>2, <2>1 DEF Mark, Enter, TypeOK, StatusOf, StatusIn, RootStatus, Ended
  <2> QED
    BY <1>1, <2>1, <2>2 DEF StatusMap, Done
<1>3. ASSUME NEW s \in Scopes, NEW how \in {"returned", "threw"}, EndCallback(s, how)
      PROVE  UNCHANGED Mapped
  <2>1. UNCHANGED <<within, issuer, answer, remote, effects, outcome>>
    BY <1>3 DEF EndCallback, database, lifetime
  <2>2. s = Root => remote # "none"
    BY <1>3 DEF PromiseInv, Shut, EndCallback
  <2>3. \A t \in Scopes : StatusOf(t)' = StatusOf(t)
    BY <1>0, <1>3, <2>1, <2>2
    DEF EndCallback, Enter, TypeOK, StatusOf, StatusIn, RootStatus, Ended
  <2> QED
    BY <1>1, <2>1, <2>3 DEF StatusMap, Done
<1>4. CASE Stop
  <2>1. Done' = Done
    BY <1>0, <1>4, StopRejects DEF Done
  <2> QED
    BY <1>1, <1>4, <2>1, StatusStays DEF Stop, database
<1>5. CASE Settle \/ UNCHANGED vars
  BY <1>1, <1>5, StatusStays DEF Settle, vars, callers, database, lifetime, Done
<1> QED
  BY <1>2, <1>3, <1>4, <1>5

LEMMA PromiseInit == Init => Promise!Init
<1> SUFFICES ASSUME Init PROVE Promise!Init
  OBVIOUS
<1>1. \A s \in Scopes : StatusOf(s) = "none"
  BY RootFirst DEF Init, StatusOf, RootStatus, StatusIn
<1>2. Done = {} /\ Committed = {}
  BY DEF Init, Done, Committed
<1> QED
  BY <1>1, <1>2 DEF Init, Promise!Init, Done, Committed

LEMMA StepKept == PromiseInv /\ PromiseInv' /\ [Next]_vars => Promise!Next \/ UNCHANGED Mapped
<1> SUFFICES ASSUME PromiseInv, PromiseInv', [Next]_vars PROVE Promise!Next \/ UNCHANGED Mapped
  OBVIOUS
<1>0. Root \in Scopes
  BY RootFirst
<1> USE DEF Promise!Next
<1>1. CASE Begin
  BY <1>0, <1>1, BeginKept
<1>2. ASSUME NEW s \in Scopes, NEW q \in Queries, IssueQuery(s, q) PROVE Promise!Next
  BY <1>2, IssueQueryKept
<1>3. ASSUME NEW p \in Scopes, NEW c \in Scopes, OpenSavepoint(p, c) PROVE Promise!Next
  BY <1>3, OpenSavepointKept
<1>4. ASSUME NEW s \in Scopes, Conclude(s) \/ Unwind(s) PROVE Promise!Next \/ UNCHANGED Mapped
  BY <1>4, ConcludeKept, UnwindKept
<1>5. CASE AnswerBegin
  BY <1>0, <1>5, AnswerBeginKept
<1>6. CASE AnswerQuery
  BY <1>6, AnswerQueryKept
<1>7. CASE AnswerSavepoint
  BY <1>7, AnswerSavepointKept
<1>8. CASE AnswerRollbackTo
  BY <1>8, AnswerRollbackToKept
<1>9. CASE AnswerCommit
  BY <1>9, AnswerCommitKept
<1>10. CASE AnswerRollback
  BY <1>10, AnswerRollbackKept
<1>11. CASE Tell \/ TellStopped
  BY <1>11, TellKept
<1>12. CASE Close
  BY <1>12, CloseKept
<1>13. CASE \/ \E p, c \in Scopes : Mark(p, c)
            \/ \E s \in Scopes, how \in {"returned", "threw"} : EndCallback(s, how)
            \/ Stop \/ Settle \/ UNCHANGED vars
  BY <1>13, HiddenKept
<1> QED
  BY <1>1, <1>2, <1>3, <1>4, <1>5, <1>6, <1>7, <1>8, <1>9, <1>10, <1>11, <1>12, <1>13
  DEF Next, Answer

\* A request's transaction keeps the promise of NestedTransaction: one scope at
\* a time is asked for work, a scope succeeds only with all of it done, failed
\* or late or refused statements included, a commit takes effect for exactly
\* what no failed scope is around, and the caller hears the end the database
\* knows of, at whatever moment the request is stopped (request-transaction.ts,
\* request-database-lifetime.ts).
THEOREM NestedPromiseKept == Spec => ImplementsPromise
<1>1. PromiseInv /\ PromiseInv' /\ [Next]_vars => [Promise!Next]_Mapped
  BY StepKept
<1> QED
  BY <1>1, PromiseInit, PromiseInvariance, PTL
  DEF Spec, ImplementsPromise, Promise!Spec, Promise!vars, Mapped, StatusMap, Done, Committed
==============================================================================
