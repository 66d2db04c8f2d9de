------------------------- MODULE RequestTransaction -------------------------
(***************************************************************************)
(* One database transaction of one request, over the request's own         *)
(* connection: a queue that lets one statement at a time onto the wire, a  *)
(* tree of scopes (the transaction and its savepoints), each with a        *)
(* callback that may issue statements without awaiting them, and the end   *)
(* of the request, which stops all of it at any moment and then waits      *)
(* until everything has settled.                                           *)
(*                                                                         *)
(* The transactions of a request wait for each other and share only its    *)
(* end; this is one of them.  A continuation is an action of its own.  The *)
(* answer of a statement, what it makes the callers and the queue do at    *)
(* once, and its effect in the database are one action.                    *)
(***************************************************************************)
EXTENDS Integers, Sequences

CONSTANTS
  ScopeCount,     \* bound on the scopes, the transaction's own included
  QueryCount,     \* bound on the queries
  MaximumQueued   \* statements that may wait (64 in the code)

ASSUME RequestTransactionAssumption ==
  /\ ScopeCount \in Nat \ {0}
  /\ QueryCount \in Nat
  /\ MaximumQueued \in Nat \ {0}

Scopes == 1 .. ScopeCount
Root == 1
Queries == 1 .. QueryCount
NoQuery == 0
NoScope == 0

VARIABLES
  phase,     \* of each scope
  within,    \* the scopes around each scope, itself included
  failed,    \* a scope remembers that one of its statements failed
  issuer,    \* the scope that issued a query
  answer,    \* what became of a query
  active,    \* the statement on the wire
  waiting,   \* the statements queued behind it
  remote,    \* the transaction in the database
  effects,   \* the queries that are part of it
  marks,     \* its savepoints
  since,     \* what was done after each savepoint
  stopped,   \* the request's lifetime has been stopped
  closed,    \* its connection has been closed
  settled,   \* database_resources_settled
  outcome    \* what the caller of the transaction was told

callers == <<phase, within, failed, issuer, answer>>
queue == <<active, waiting>>
database == <<remote, effects, marks, since>>
lifetime == <<stopped, closed, settled, outcome>>
vars == <<callers, queue, database, lifetime>>

Phases == {"none", "opening", "marking", "running", "returned", "threw",
           "committing", "undoing", "succeeded", "failed"}
Answers == {"none", "ok", "failed"}
Remotes == {"none", "open", "aborted", "committed", "rolledBack"}
Outcomes == {"none", "value", "error", "stopped"}

Kinds == {"begin", "query", "savepoint", "rollbackTo", "commit", "rollback"}
Statement == [kind : Kinds, scope : Scopes, query : Queries \union {NoQuery}]
NoStatement == [kind |-> "none", scope |-> NoScope, query |-> NoQuery]

Control(kind, s) == [kind |-> kind, scope |-> s, query |-> NoQuery]
Query(s, q) == [kind |-> "query", scope |-> s, query |-> q]

Init ==
  /\ phase = [s \in Scopes |-> "none"]
  /\ within = [s \in Scopes |-> {}]
  /\ failed = [s \in Scopes |-> FALSE]
  /\ issuer = [q \in Queries |-> NoScope]
  /\ answer = [q \in Queries |-> "none"]
  /\ active = NoStatement
  /\ waiting = <<>>
  /\ remote = "none"
  /\ effects = {}
  /\ marks = {}
  /\ since = [s \in Scopes |-> {}]
  /\ stopped = FALSE
  /\ closed = FALSE
  /\ settled = FALSE
  /\ outcome = "none"

Ended == {"succeeded", "failed"}
Open(s) == phase[s] \notin Ended \union {"none"}
ChildOf(c, p) == p \in within[c] \ {c} /\ within[c] = within[p] \union {c}
Busy(p) == \E c \in Scopes : ChildOf(c, p) /\ Open(c)

\* The accepted queries of a scope have settled.
Drained(s) == \A q \in Queries : issuer[q] = s => answer[q] # "none"

\* Mutant: the limit is one too high.
RoomForOneMore == Len(waiting) <= MaximumQueued

\* The queue moves up on a microtask after an answer; a query issued in between
\* meets it as it was before the answer.
Room == Len(waiting) < MaximumQueued

\* A statement goes onto the wire at once when nothing else is there.
Enqueue(statement) ==
  IF active = NoStatement
  THEN active' = statement /\ UNCHANGED waiting
  ELSE waiting' = Append(waiting, statement) /\ UNCHANGED active

\* The statement on the wire is answered and the next one follows.
Pump ==
  IF waiting = <<>>
  THEN active' = NoStatement /\ UNCHANGED waiting
  ELSE active' = Head(waiting) /\ waiting' = Tail(waiting)

Enter(s, p) == phase' = [phase EXCEPT ![s] = p]

-----------------------------------------------------------------------------
(* Callers.                                                                 *)

Begin ==
  /\ ~stopped
  /\ phase[Root] = "none"
  /\ Enter(Root, "marking")
  /\ within' = [within EXCEPT ![Root] = {Root}]
  /\ Enqueue(Control("begin", Root))
  /\ UNCHANGED <<failed, issuer, answer, database, lifetime>>

\* Mutant: a scope whose savepoint is open takes queries too.
AcceptsBesideChild(s) == ~stopped /\ phase[s] = "running"

\* checkpoint of a scope: only the innermost scope may issue work.
Accepts(s) == ~stopped /\ phase[s] = "running" /\ ~Busy(s)

\* A refusal for want of room counts as a failed statement of the scope.
IssueQuery(s, q) ==
  /\ Accepts(s)
  /\ issuer[q] = NoScope
  /\ \A r \in Queries : r < q => issuer[r] # NoScope
  /\ issuer' = [issuer EXCEPT ![q] = s]
  /\ IF Room
     THEN Enqueue(Query(s, q)) /\ UNCHANGED <<failed, answer>>
     ELSE /\ failed' = [failed EXCEPT ![s] = TRUE]
          /\ answer' = [answer EXCEPT ![q] = "failed"]
          /\ UNCHANGED queue
  /\ UNCHANGED <<phase, within, database, lifetime>>

\* withSavepoint: the child is reserved; it waits for the parent's queries.
OpenSavepoint(p, c) ==
  /\ Accepts(p)
  /\ phase[c] = "none"
  /\ \A s \in Scopes : s < c => phase[s] # "none"
  /\ Enter(c, "opening")
  /\ within' = [within EXCEPT ![c] = within[p] \union {c}]
  /\ UNCHANGED <<failed, issuer, answer, queue, database, lifetime>>

Mark(p, c) ==
  /\ ~stopped
  /\ phase[c] = "opening"
  /\ ChildOf(c, p)
  /\ Drained(p)
  /\ Enter(c, "marking")
  /\ Enqueue(Control("savepoint", c))
  /\ UNCHANGED <<within, failed, issuer, answer, database, lifetime>>

\* The callback ends, whatever it has left under way.
EndCallback(s, how) ==
  /\ phase[s] = "running"
  /\ how \in {"returned", "threw"}
  /\ Enter(s, how)
  /\ UNCHANGED <<within, failed, issuer, answer, queue, database, lifetime>>

\* Mutant: the end of the callback is the end of its queries.
JoinedUndrained(s) == phase[s] \in {"returned", "threw"} /\ ~Busy(s)

\* What the callback left under way has settled too.
Joined(s) == phase[s] \in {"returned", "threw"} /\ Drained(s) /\ ~Busy(s)

\* Mutant: a failure the callback has caught is forgotten.
SucceedsByCallback(s) == phase[s] = "returned"

\* A scope succeeds only when its callback did and no statement of its own
\* failed, also one whose failure the callback has caught.
Succeeds(s) == phase[s] = "returned" /\ ~failed[s]

Conclude(s) ==
  /\ ~stopped
  /\ Joined(s)
  /\ IF Succeeds(s)
     THEN IF s = Root
          THEN Enter(s, "committing") /\ Enqueue(Control("commit", s))
          ELSE Enter(s, "succeeded") /\ UNCHANGED queue
     ELSE /\ Enter(s, "undoing")
          /\ Enqueue(Control(IF s = Root THEN "rollback" ELSE "rollbackTo", s))
  /\ UNCHANGED <<within, failed, issuer, answer, database, lifetime>>

-----------------------------------------------------------------------------
(* Answers of the database.                                                 *)

Answered(kind) == ~stopped /\ active.kind = kind /\ Pump

AnswerBegin ==
  /\ Answered("begin")
  /\ \/ Enter(Root, "running") /\ remote' = "open"
     \/ Enter(Root, "failed") /\ UNCHANGED remote
  /\ UNCHANGED <<within, failed, issuer, answer, effects, marks, since, lifetime>>

\* A statement that fails in the database leaves the transaction aborted.
AnswerQuery ==
  /\ Answered("query")
  /\ LET q == active.query IN
       \/ /\ remote = "open"
          /\ answer' = [answer EXCEPT ![q] = "ok"]
          /\ effects' = effects \union {q}
          /\ since' = [m \in Scopes |->
               IF m \in marks THEN since[m] \union {q} ELSE since[m]]
          /\ UNCHANGED <<failed, remote>>
       \/ /\ answer' = [answer EXCEPT ![q] = "failed"]
          /\ failed' = [failed EXCEPT ![active.scope] = TRUE]
          /\ remote' \in {remote, "aborted"}  \* it may fail before it is sent
          /\ UNCHANGED <<effects, since>>
  /\ UNCHANGED <<phase, within, issuer, marks, lifetime>>

\* A savepoint that fails is a failed statement of the parent.
AnswerSavepoint ==
  /\ Answered("savepoint")
  /\ LET c == active.scope IN
       \/ /\ remote = "open"
          /\ Enter(c, "running")
          /\ marks' = marks \union {c}
          /\ since' = [since EXCEPT ![c] = {}]
          /\ UNCHANGED <<failed, remote>>
       \/ /\ Enter(c, "failed")
          /\ failed' = [p \in Scopes |-> failed[p] \/ ChildOf(c, p)]
          /\ remote' \in {remote, "aborted"}
          /\ UNCHANGED <<marks, since>>
  /\ UNCHANGED <<within, issuer, answer, effects, lifetime>>

\* The savepoints that were set later go with what was done since.  A rollback
\* that fails stops the request.
AnswerRollbackTo ==
  /\ Answered("rollbackTo")
  /\ active.scope \in marks
  /\ LET c == active.scope IN
       /\ Enter(c, "failed")
       /\ remote' = "open"
       /\ effects' = effects \ since[c]
       /\ marks' = {m \in marks : m <= c}
       /\ since' = [m \in Scopes |-> since[m] \ since[c]]
  /\ UNCHANGED <<within, failed, issuer, answer, lifetime>>

\* COMMIT of an aborted transaction is answered like any other, and rolls back.
AnswerCommit ==
  /\ Answered("commit")
  /\ \/ /\ Enter(Root, "succeeded")
        /\ remote' = IF remote = "open" THEN "committed" ELSE "rolledBack"
     \/ Enter(Root, "threw") /\ remote' = "rolledBack"
  /\ UNCHANGED <<within, failed, issuer, answer, effects, marks, since, lifetime>>

AnswerRollback ==
  /\ Answered("rollback")
  /\ Enter(Root, "failed")
  /\ remote' = "rolledBack"
  /\ UNCHANGED <<within, failed, issuer, answer, effects, marks, since, lifetime>>

\* The caller of the transaction learns of its end, unless the request has been
\* stopped meanwhile.
Tell ==
  /\ ~stopped
  /\ outcome = "none"
  /\ phase[Root] \in Ended
  /\ outcome' = IF phase[Root] = "succeeded" THEN "value" ELSE "error"
  /\ UNCHANGED <<callers, queue, database, stopped, closed, settled>>

-----------------------------------------------------------------------------
(* The end of the request.                                                  *)

\* Mutant: whatever waits is dropped and its callers are not told.
RejectedUntold(statements) == [q \in Queries |-> answer[q]]

\* The callers of the statements learn that the request was stopped.  (Its scopes
\* end as failed in any case, so what they remember is left alone.)
Rejected(statements) ==
  [q \in Queries |-> IF \E st \in statements : st.query = q THEN "failed" ELSE answer[q]]

\* Its operation has ended, it was aborted, its deadline has come, its connection
\* was lost or a rollback failed.  Nothing is sent from here on, and whatever
\* waits is rejected.
Stop ==
  /\ ~stopped
  /\ stopped' = TRUE
  /\ waiting' = <<>>
  /\ answer' = Rejected({waiting[i] : i \in 1 .. Len(waiting)})
  /\ UNCHANGED <<phase, within, failed, issuer, active, database, closed, settled, outcome>>

\* The connection is closed, and the statement on the wire is rejected.  The
\* database has carried it out or not; it rolls back what was not committed.
Close ==
  /\ stopped
  /\ ~closed
  /\ closed' = TRUE
  /\ active' = NoStatement
  /\ answer' = Rejected({active})
  /\ \/ remote' = IF remote \in {"open", "aborted"} THEN "rolledBack" ELSE remote
     \/ active.kind = "commit" /\ remote = "open" /\ remote' = "committed"
  /\ UNCHANGED <<phase, within, failed, issuer, waiting, effects, marks, since,
                 stopped, settled, outcome>>

\* A stopped scope ends without a rollback of its own.
Unwind(s) ==
  /\ closed
  /\ phase[s] \in {"opening", "marking", "committing", "undoing"} \/ Joined(s)
  /\ Enter(s, "failed")
  /\ UNCHANGED <<within, failed, issuer, answer, queue, database, lifetime>>

TellStopped ==
  /\ closed
  /\ outcome = "none"
  /\ phase[Root] \in Ended
  /\ outcome' = "stopped"
  /\ UNCHANGED <<callers, queue, database, stopped, closed, settled>>

\* Mutant: the end of the connection is taken for the end of all.
JoinedConnection == active = NoStatement

\* The queues of statements and of transactions, then everything tracked: the
\* callbacks, the scopes and what the callers wait for.
JoinedAll ==
  /\ active = NoStatement
  /\ phase[Root] = "none" \/ outcome # "none"
  /\ \A s \in Scopes : ~Open(s)

Settle ==
  /\ closed
  /\ ~settled
  /\ JoinedAll
  /\ settled' = TRUE
  /\ UNCHANGED <<callers, queue, database, stopped, closed, outcome>>
-----------------------------------------------------------------------------
Answer ==
  \/ AnswerBegin \/ AnswerQuery \/ AnswerSavepoint \/ AnswerRollbackTo
  \/ AnswerCommit \/ AnswerRollback

Next ==
  \/ Begin
  \/ \E s \in Scopes, q \in Queries : IssueQuery(s, q)
  \/ \E p, c \in Scopes : OpenSavepoint(p, c) \/ Mark(p, c)
  \/ \E s \in Scopes, how \in {"returned", "threw"} : EndCallback(s, how)
  \/ \E s \in Scopes : Conclude(s) \/ Unwind(s)
  \/ Answer
  \/ Tell \/ Stop \/ Close \/ TellStopped \/ Settle

Spec == Init /\ [][Next]_vars

(***************************************************************************)
(* The database answers the statement on the wire, or its connection is    *)
(* lost, which is a Stop; a continuation runs; a closed connection reports *)
(* it.  A callback ends once everything it has issued has settled, and may *)
(* wait for all of it: only database work is supported in it.  A statement *)
(* a callback issues, and the end of the request, are not fair.            *)
(***************************************************************************)
Fairness ==
  /\ WF_vars(Answer)
  /\ WF_vars(Tell \/ TellStopped)
  /\ WF_vars(Close)
  /\ WF_vars(Settle)
  /\ \A s \in Scopes :
       /\ WF_vars(\E p \in Scopes : Mark(p, s))
       /\ WF_vars(Conclude(s) \/ Unwind(s))
       /\ WF_vars(Drained(s) /\ ~Busy(s) /\ \E how \in {"returned", "threw"} : EndCallback(s, how))

FairSpec == Spec /\ Fairness

-----------------------------------------------------------------------------
\* Every variable has its type, and the queue its limit.
TypeOK ==
  /\ phase \in [Scopes -> Phases]
  /\ within \in [Scopes -> SUBSET Scopes]
  /\ failed \in [Scopes -> BOOLEAN]
  /\ issuer \in [Queries -> Scopes \union {NoScope}]
  /\ answer \in [Queries -> Answers]
  /\ active \in Statement \union {NoStatement}
  /\ waiting \in Seq(Statement)
  /\ Len(waiting) <= MaximumQueued
  /\ remote \in Remotes
  /\ effects \subseteq Queries
  /\ marks \subseteq Scopes
  /\ since \in [Scopes -> SUBSET Queries]
  /\ stopped \in BOOLEAN
  /\ closed \in BOOLEAN
  /\ settled \in BOOLEAN
  /\ outcome \in Outcomes

\* What is committed is exactly the work of the scopes that succeeded: every
\* query that any of them accepted, awaited or not, and none of a scope that
\* failed, or that is inside one that did.
CommittedIsWhole ==
  remote = "committed" =>
    effects = {q \in Queries :
                 /\ issuer[q] # NoScope
                 /\ \A s \in within[issuer[q]] \ {Root} : phase[s] = "succeeded"}

\* A caller told of success has its transaction committed, one told of an error
\* has left nothing open or committed behind; only a stopped request is told
\* neither.
AnswersAreTrue ==
  /\ outcome = "value" => remote = "committed"
  /\ outcome = "error" => remote \in {"none", "rolledBack"}

\* A control statement finds the wire free and the queue empty, so a full queue
\* never refuses a COMMIT or a ROLLBACK, and no query slips in beside it.
ControlsAlone ==
  /\ active.kind # "query" => waiting = <<>>
  /\ \A i \in 1 .. Len(waiting) : waiting[i].kind = "query"

\* When the request reports its database resources settled, nothing of the
\* transaction happens any more.
SettledIsFinal == [][~settled]_vars

\* A transaction that has begun tells its caller how it ended, whatever its
\* callbacks left under way, and a request that was stopped settles.
EverythingEnds ==
  /\ phase[Root] # "none" ~> outcome # "none"
  /\ stopped ~> settled

(***************************************************************************)
(* The promise of NestedTransaction.  A scope is reserved from withSavepoint *)
(* until its savepoint is set, and open until it has ended; the transaction *)
(* is open and ends when it does in the database.                           *)
(***************************************************************************)
StatusIn(p) ==
  CASE p \in {"none"} \union Ended -> p
    [] p \in {"opening", "marking"} -> "reserved"
    [] OTHER -> "open"

RootStatus ==
  CASE remote = "none" -> StatusIn(phase[Root])
    [] remote = "committed" -> "succeeded"
    [] remote = "rolledBack" -> "failed"
    [] OTHER -> "open"

StatusOf(s) == IF s = Root THEN RootStatus ELSE StatusIn(phase[s])

Promise == INSTANCE NestedTransaction WITH
  status <- [s \in Scopes |-> StatusOf(s)],
  around <- within,
  asker <- issuer,
  done <- {q \in Queries : answer[q] = "ok"},
  committed <- IF remote = "committed" THEN effects ELSE {},
  told <- outcome

\* The transaction does what NestedTransaction promises, whatever its callbacks
\* leave under way, whichever statements fail and whenever the request is
\* stopped.
ImplementsPromise == Promise!Spec
=============================================================================
