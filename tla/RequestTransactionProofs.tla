---------------------- MODULE RequestTransactionProofs ----------------------
(***************************************************************************)
(* Proofs about RequestTransaction, for any number of scopes and queries    *)
(* and any limit of the queue.                                              *)
(*                                                                         *)
(* The open scopes form a chain, of which only the innermost one acts; the  *)
(* queries that are not answered yet belong to it, or to the parent of a    *)
(* savepoint that still waits for them.  So a control statement is alone    *)
(* on the wire, and what a savepoint holds is what its scope and the scopes *)
(* in it have done.                                                         *)
(***************************************************************************)
EXTENDS RequestTransaction, TLAPS

Calling == {"running", "returned", "threw"}
Unentered == {"none", "opening", "marking"}

\* The scopes are numbered as they are opened, each around its children.
Tree ==
  /\ \A s \in Scopes : phase[s] = "none" => within[s] = {}
  /\ \A s \in Scopes : phase[s] # "none" => Root \in within[s] /\ s \in within[s]
  /\ \A s \in Scopes : \A t \in within[s] : t <= s /\ within[t] \subseteq within[s]
  /\ \A s \in Scopes : \A t \in within[s] \ {s} :
       phase[t] \notin Unentered /\ \E k \in within[s] : ChildOf(k, t)
  /\ \A s \in Scopes : phase[s] # "none" /\ s # Root => \E p \in Scopes : ChildOf(s, p)
  /\ \A s, t \in Scopes : t < s /\ phase[s] # "none" => phase[t] # "none"

\* The open scopes are a chain, and all but the innermost are in their callback,
\* or have it behind them.
Chain ==
  /\ \A c \in Scopes : Open(c) => \A s \in within[c] \ {c} : phase[s] \in Calling
  /\ \A c, d \in Scopes : Open(c) /\ Open(d) => c \in within[d] \/ d \in within[c]
  /\ phase[Root] # "opening"
  /\ \A s \in Scopes : phase[s] = "committing" => s = Root

\* A query that is not answered was issued by the innermost scope, a savepoint
\* that waits for it aside.
Unanswered ==
  /\ \A q \in Queries : issuer[q] = NoScope => answer[q] = "none"
  /\ \A q \in Queries : issuer[q] # NoScope => phase[issuer[q]] \notin Unentered
  /\ \A q \in Queries : issuer[q] # NoScope /\ answer[q] = "none" =>
       /\ phase[issuer[q]] \in Calling
       /\ \A c \in Scopes : Open(c) =>
            \/ c \in within[issuer[q]]
            \/ ChildOf(c, issuer[q]) /\ phase[c] = "opening"

Asked(statement) ==
  /\ statement.query \in Queries
  /\ issuer[statement.query] = statement.scope
  /\ answer[statement.query] = "none"

\* What is on the wire and in the queue is what its issuer waits for.
Wire ==
  /\ active = NoStatement => waiting = <<>>
  /\ active.kind = "query" => Asked(active)
  /\ \A i \in 1 .. Len(waiting) :
       /\ waiting[i].kind = "query"
       /\ Asked(waiting[i])
       /\ waiting[i].query # active.query
       /\ \A j \in 1 .. Len(waiting) : i # j => waiting[i].query # waiting[j].query
  /\ active.kind # "query" => waiting = <<>> /\ active.query = NoQuery
  /\ active.kind = "begin" => active.scope = Root /\ phase[Root] = "marking"
  /\ active.kind = "savepoint" => active.scope # Root /\ phase[active.scope] = "marking"
  /\ active.kind = "rollbackTo" => active.scope # Root /\ phase[active.scope] = "undoing"
  /\ active.kind = "commit" => active.scope = Root /\ phase[Root] = "committing"
  /\ active.kind = "rollback" => active.scope = Root /\ phase[Root] = "undoing"

\* The queries of a scope that succeeded were all answered well, and a scope
\* remembers one that was not.
Remembered ==
  /\ \A q \in Queries :
       /\ issuer[q] # NoScope
       /\ \/ phase[issuer[q]] \in {"succeeded", "committing"}
          \/ issuer[q] = Root /\ remote = "committed"
       => answer[q] = "ok"
  /\ ~stopped => \A q \in Queries : answer[q] = "failed" => failed[issuer[q]]
  /\ ~closed /\ remote = "aborted" =>
       \E s \in Scopes : failed[s] /\ phase[s] \in Calling \union {"undoing"}

\* No scope around the issuer of the query, the transaction aside, has failed.
Unfailed(q) == \A s \in within[issuer[q]] \ {Root} : phase[s] # "failed"
Saved(c) == c # Root /\ phase[c] \in Calling \union {"undoing"}

\* What the database holds, and what each savepoint would take back.
Held ==
  /\ ~closed \/ remote = "committed" =>
       \A q \in Queries :
         /\ q \in effects => issuer[q] # NoScope /\ Unfailed(q)
         /\ issuer[q] # NoScope /\ answer[q] = "ok" /\ Unfailed(q) => q \in effects
  /\ ~closed => \A c \in Scopes : Saved(c) =>
       /\ c \in marks
       /\ \A q \in Queries :
            q \in since[c] <=> q \in effects /\ issuer[q] # NoScope /\ c \in within[issuer[q]]

\* How far the transaction is in the database and for its caller.
Ends ==
  /\ phase[Root] \in {"none", "marking"} => remote = "none"
  /\ ~closed /\ phase[Root] \in {"running", "returned", "committing"} =>
       remote \in {"open", "aborted"}
  /\ ~closed /\ phase[Root] \in {"threw", "undoing"} =>
       remote \in {"open", "aborted", "rolledBack"}
  /\ phase[Root] = "succeeded" => remote = "committed"
  /\ remote = "committed" => phase[Root] \in {"succeeded", "committing", "failed"}
  /\ ~closed /\ phase[Root] = "failed" => remote \in {"none", "rolledBack"}
  /\ outcome = "value" => phase[Root] = "succeeded"
  /\ outcome = "error" => phase[Root] = "failed" /\ remote \in {"none", "rolledBack"}

\* What the end of the request leaves behind.
Ending ==
  /\ closed => stopped /\ active = NoStatement
  /\ stopped => waiting = <<>>
  /\ settled => /\ closed
                /\ \A s \in Scopes : ~Open(s)
                /\ phase[Root] = "none" \/ outcome # "none"

IInv == TypeOK /\ Tree /\ Chain /\ Unanswered /\ Wire /\ Remembered /\ Held /\ Ends /\ Ending

-----------------------------------------------------------------------------
(* Types.                                                                   *)

LEMMA ControlTypes ==
  ASSUME NEW s \in Scopes, NEW kind \in Kinds
  PROVE  Control(kind, s) \in Statement
  BY DEF Control, Statement

LEMMA QueueTypes ==
  ASSUME TypeOK
  PROVE  /\ active \in Statement \union {NoStatement}
         /\ waiting \in Seq(Statement) /\ Len(waiting) \in Nat
         /\ Len(waiting) <= MaximumQueued /\ MaximumQueued \in Nat \ {0}
  BY RequestTransactionAssumption DEF TypeOK

LEMMA PumpTypes ==
  ASSUME TypeOK, Pump
  PROVE  /\ active' \in Statement \union {NoStatement}
         /\ waiting' \in Seq(Statement)
         /\ Len(waiting') <= MaximumQueued
<1>1. CASE waiting = <<>>
  BY <1>1, QueueTypes DEF Pump
<1>2. CASE waiting # <<>>
  <2>1. active' = Head(waiting) /\ waiting' = Tail(waiting)
    BY <1>2 DEF Pump
  <2>2. Head(waiting) \in Statement /\ Tail(waiting) \in Seq(Statement)
    BY <1>2, QueueTypes
  <2>3. Len(Tail(waiting)) = Len(waiting) - 1
    BY <1>2, QueueTypes
  <2> QED
    BY <2>1, <2>2, <2>3, QueueTypes
<1> QED
  BY <1>1, <1>2

LEMMA EnqueueTypes ==
  ASSUME TypeOK, NEW statement \in Statement, Enqueue(statement),
         Len(waiting) < MaximumQueued
  PROVE  /\ active' \in Statement \union {NoStatement}
         /\ waiting' \in Seq(Statement)
         /\ Len(waiting') <= MaximumQueued
<1>1. CASE active = NoStatement
  BY <1>1, QueueTypes DEF Enqueue
<1>2. CASE active # NoStatement
  <2>1. waiting' = Append(waiting, statement) /\ active' = active
    BY <1>2 DEF Enqueue
  <2>2. Append(waiting, statement) \in Seq(Statement)
    BY QueueTypes
  <2>3. Len(Append(waiting, statement)) = Len(waiting) + 1
    BY QueueTypes
  <2> QED
    BY <2>1, <2>2, <2>3, QueueTypes
<1> QED
  BY <1>1, <1>2

\* The statement on the wire, when there is one, is of a scope.
LEMMA ActiveScope ==
  ASSUME TypeOK, active # NoStatement
  PROVE  active.scope \in Scopes /\ active.kind \in Kinds
         /\ active.query \in Queries \union {NoQuery}
  BY DEF TypeOK, Statement

LEMMA AnsweredActive ==
  ASSUME TypeOK, NEW kind \in Kinds, Answered(kind)
  PROVE  active.scope \in Scopes /\ active.kind = kind /\ active # NoStatement
<1>1. active # NoStatement
  BY DEF Answered, NoStatement, Kinds
<1> QED
  BY <1>1, ActiveScope DEF Answered

-----------------------------------------------------------------------------
(* The innermost scope.                                                     *)

LEMMA RootFirst == Root \in Scopes /\ Scopes \subseteq Nat /\ \A s \in Scopes : s >= Root
  BY RequestTransactionAssumption DEF Root, Scopes

\* Two scopes that are within each other are the same.
LEMMA WithinOnce ==
  ASSUME TypeOK, Tree, NEW s \in Scopes, NEW t \in Scopes, s \in within[t], t \in within[s]
  PROVE  s = t
<1>1. s <= t /\ t <= s /\ s \in Nat /\ t \in Nat
  BY RootFirst DEF Tree
<1> QED
  BY <1>1

LEMMA OneParent ==
  ASSUME TypeOK, Tree, NEW c \in Scopes, NEW p \in Scopes, NEW r \in Scopes,
         ChildOf(c, p), ChildOf(c, r)
  PROVE  p = r
<1>1. p \in within[r] /\ r \in within[p]
  BY DEF ChildOf
<1> QED
  BY <1>1, WithinOnce

LEMMA RootOfAll ==
  ASSUME TypeOK, Tree, phase[Root] = "none"
  PROVE  \A s \in Scopes : phase[s] = "none"
<1> SUFFICES ASSUME NEW s \in Scopes, phase[s] # "none" PROVE FALSE
  OBVIOUS
<1>1. Root < s
  BY RootFirst
<1> QED
  BY <1>1, RootFirst DEF Tree

\* A scope that has no open child has every open scope around it.
LEMMA Innermost ==
  ASSUME TypeOK, Tree, Chain, NEW s \in Scopes, Open(s), ~Busy(s)
  PROVE  \A d \in Scopes : Open(d) => d \in within[s]
<1> SUFFICES ASSUME NEW d \in Scopes, Open(d), d \notin within[s] PROVE FALSE
  OBVIOUS
<1>1. s \in within[d] /\ s # d
  <2>1. s \in within[s]
    BY DEF Tree, Open
  <2> QED
    BY <2>1 DEF Chain
<1>2. PICK k \in within[d] : ChildOf(k, s)
  BY <1>1 DEF Tree
<1>3. k \in Scopes
  BY DEF TypeOK
<1>4. Open(k)
  BY <1>3 DEF Chain, Open, Calling, Ended
<1> QED
  BY <1>2, <1>3, <1>4 DEF Busy

\* A scope that is at its beginning or its end has no open scope within.
LEMMA AtTheEdge ==
  ASSUME TypeOK, Tree, Chain, NEW s \in Scopes, Open(s), phase[s] \notin Calling
  PROVE  /\ \A d \in Scopes : Open(d) => d \in within[s]
         /\ ~Busy(s)
<1>1. \A d \in Scopes : Open(d) => d \in within[s]
  <2> SUFFICES ASSUME NEW d \in Scopes, Open(d), d \notin within[s] PROVE FALSE
    OBVIOUS
  <2>1. s \in within[d] /\ s # d
    BY DEF Chain, Tree, Open
  <2> QED
    BY <2>1 DEF Chain
<1>2. ~Busy(s)
  <2> SUFFICES ASSUME NEW c \in Scopes, ChildOf(c, s), Open(c) PROVE FALSE
    BY DEF Busy
  <2>1. c \in within[s] /\ s \in within[c] /\ c # s
    BY <1>1 DEF ChildOf
  <2> QED
    BY <2>1, WithinOnce
<1> QED
  BY <1>1, <1>2

\* When nothing is unanswered and the innermost scope has no control statement
\* under way, the wire is free.
LEMMA FreeWire ==
  ASSUME TypeOK, Chain, Wire, NEW s \in Scopes,
         \A d \in Scopes : Open(d) => d \in within[s],
         Open(s), phase[s] \in Calling \union {"opening"},
         \A q \in Queries : issuer[q] # NoScope => answer[q] # "none"
  PROVE  active = NoStatement /\ waiting = <<>>
<1> SUFFICES ASSUME active # NoStatement PROVE FALSE
  BY DEF Wire
<1>1. active.scope \in Scopes /\ active.kind \in Kinds
  BY ActiveScope
<1>2. active.kind # "query"
  BY <1>1 DEF Wire, Asked, NoScope, Scopes
<1>3. Open(active.scope) /\ phase[active.scope] \in {"marking", "undoing", "committing"}
  BY <1>1, <1>2 DEF Wire, Open, Kinds, Ended
<1>4. active.scope \in within[s] \ {s}
  BY <1>1, <1>3 DEF Calling
<1> QED
  BY <1>3, <1>4 DEF Chain, Calling

LEMMA JoinedFree ==
  ASSUME TypeOK, Tree, Chain, Unanswered, Wire, NEW s \in Scopes, Joined(s)
  PROVE  /\ active = NoStatement /\ waiting = <<>>
         /\ \A d \in Scopes : Open(d) => d \in within[s]
         /\ \A q \in Queries : issuer[q] # NoScope => answer[q] # "none"
<1>1. Open(s) /\ phase[s] \in Calling
  BY DEF Joined, Open, Calling, Ended
<1>2. \A d \in Scopes : Open(d) => d \in within[s]
  BY <1>1, Innermost DEF Joined
<1>3. ASSUME NEW q \in Queries, issuer[q] # NoScope, answer[q] = "none" PROVE FALSE
  <2>1. issuer[q] \in Scopes
    BY <1>3 DEF TypeOK
  <2>2. Open(issuer[q]) /\ s \in within[issuer[q]]
    BY <1>1, <1>3 DEF Unanswered, Open, Calling, Ended
  <2>3. issuer[q] = s
    BY <1>2, <2>1, <2>2, WithinOnce
  <2> QED
    BY <1>3, <2>3 DEF Joined, Drained
<1> QED
  BY <1>1, <1>2, <1>3, FreeWire

LEMMA MarkFree ==
  ASSUME TypeOK, Tree, Chain, Unanswered, Wire, NEW p \in Scopes, NEW c \in Scopes,
         phase[c] = "opening", ChildOf(c, p), Drained(p)
  PROVE  /\ active = NoStatement /\ waiting = <<>>
         /\ \A d \in Scopes : Open(d) => d \in within[c]
         /\ \A q \in Queries : issuer[q] # NoScope => answer[q] # "none"
<1>1. Open(c) /\ phase[c] \notin Calling
  BY DEF Open, Calling, Ended
<1>2. \A d \in Scopes : Open(d) => d \in within[c]
  BY <1>1, AtTheEdge
<1>3. ASSUME NEW q \in Queries, issuer[q] # NoScope, answer[q] = "none" PROVE FALSE
  <2>1. issuer[q] \in Scopes
    BY <1>3 DEF TypeOK
  <2>2. Open(issuer[q]) /\ issuer[q] \in within[c] /\ issuer[q] # c
    BY <1>1, <1>2, <1>3, <2>1 DEF Unanswered, Open, Calling, Ended
  <2>3. c \notin within[issuer[q]]
    BY <2>1, <2>2, WithinOnce
  <2>4. ChildOf(c, issuer[q])
    BY <1>1, <1>3, <2>3 DEF Unanswered
  <2> QED
    BY <1>3, <2>1, <2>4, OneParent DEF Drained
<1> QED
  BY <1>1, <1>2, <1>3, FreeWire

LEMMA BeginFree ==
  ASSUME TypeOK, Tree, Unanswered, Wire, phase[Root] = "none"
  PROVE  active = NoStatement /\ waiting = <<>>
<1> SUFFICES ASSUME active # NoStatement PROVE FALSE
  BY DEF Wire
<1>1. active.scope \in Scopes /\ active.kind \in Kinds /\ phase[active.scope] = "none"
  BY ActiveScope, RootOfAll
<1>2. active.kind # "query"
  BY <1>1 DEF Wire, Asked, Unanswered, Calling, NoScope, Scopes
<1> QED
  BY <1>1, <1>2 DEF Wire, Kinds

-----------------------------------------------------------------------------
(* The invariant holds at first and in every step.                          *)

LEMMA InitInv == Init => IInv
<1> SUFFICES ASSUME Init PROVE IInv
  OBVIOUS
<1> USE DEF Init
<1>1. TypeOK
  <2>1. waiting \in Seq(Statement) /\ Len(waiting) <= MaximumQueued
    BY RequestTransactionAssumption
  <2> QED
    BY <2>1 DEF TypeOK, Phases, Answers, Remotes, Outcomes
<1>2. Tree /\ Chain
  BY RootFirst DEF Tree, Chain, Open
<1>3. Unanswered /\ Remembered /\ Held
  BY DEF Unanswered, Remembered, Held, Saved, Calling
<1>4. Wire
  BY DEF Wire, NoStatement
<1>5. Ends /\ Ending
  BY RootFirst DEF Ends, Ending
<1> QED
  BY <1>1, <1>2, <1>3, <1>4, <1>5 DEF IInv

\* The kinds of step: the actions that touch the queue and the phases.
LEMMA TypeStep == IInv /\ [Next]_vars => TypeOK'
<1> SUFFICES ASSUME IInv, [Next]_vars PROVE TypeOK'
  OBVIOUS
<1>0. TypeOK /\ Tree /\ Chain /\ Unanswered /\ Wire
  BY DEF IInv
<1> USE DEF Phases, Answers, Remotes, Outcomes
<1>1. CASE Begin
  <2>1. waiting = <<>> /\ active = NoStatement
    BY <1>0, <1>1, BeginFree DEF Begin
  <2>2. active' = Control("begin", Root) /\ waiting' = waiting
    BY <1>1, <2>1 DEF Begin, Enqueue
  <2>3. active' \in Statement
    BY <2>2, RootFirst, ControlTypes DEF Kinds
  <2> QED
    BY <1>0, <1>1, <2>2, <2>3, RootFirst DEF TypeOK, Begin, Enter, database, lifetime
<1>2. ASSUME NEW s \in Scopes, NEW q \in Queries, IssueQuery(s, q) PROVE TypeOK'
  <2>1. Query(s, q) \in Statement
    BY DEF Query, Statement, Kinds
  <2>2. /\ active' \in Statement \union {NoStatement}
        /\ waiting' \in Seq(Statement)
        /\ Len(waiting') <= MaximumQueued
    <3>1. CASE Room
      BY <1>0, <1>2, <2>1, <3>1, EnqueueTypes DEF IssueQuery, Room
    <3>2. CASE ~Room
      BY <1>0, <1>2, <3>2, QueueTypes DEF IssueQuery, queue
    <3> QED
      BY <3>1, <3>2
  <2>3. failed' \in [Scopes -> BOOLEAN] /\ answer' \in [Queries -> Answers]
    BY <1>0, <1>2 DEF IssueQuery, TypeOK
  <2> QED
    BY <1>0, <1>2, <2>2, <2>3 DEF TypeOK, IssueQuery, database, lifetime
<1>3. ASSUME NEW p \in Scopes, NEW c \in Scopes, OpenSavepoint(p, c) PROVE TypeOK'
  <2>1. within' \in [Scopes -> SUBSET Scopes]
    BY <1>0, <1>3 DEF TypeOK, OpenSavepoint
  <2> QED
    BY <1>0, <1>3, <2>1 DEF TypeOK, OpenSavepoint, Enter, queue, database, lifetime
<1>4. ASSUME NEW p \in Scopes, NEW c \in Scopes, Mark(p, c) PROVE TypeOK'
  <2>1. active = NoStatement /\ waiting = <<>>
    BY <1>0, <1>4, MarkFree DEF Mark
  <2>2. active' = Control("savepoint", c) /\ waiting' = waiting
    BY <1>4, <2>1 DEF Mark, Enqueue
  <2>3. active' \in Statement
    BY <2>2, ControlTypes DEF Kinds
  <2> QED
    BY <1>0, <1>4, <2>2, <2>3 DEF TypeOK, Mark, Enter, database, lifetime
<1>5. ASSUME NEW s \in Scopes, NEW how \in {"returned", "threw"}, EndCallback(s, how)
      PROVE TypeOK'
  BY <1>0, <1>5 DEF TypeOK, EndCallback, Enter, queue, database, lifetime
<1>6. ASSUME NEW s \in Scopes, Conclude(s) PROVE TypeOK'
  <2>1. active = NoStatement /\ waiting = <<>>
    BY <1>0, <1>6, JoinedFree DEF Conclude
  <2>2. active' \in Statement \union {NoStatement} /\ waiting' = waiting
    <3>1. \A kind \in Kinds : Enqueue(Control(kind, s)) => active' \in Statement /\ waiting' = waiting
      BY <2>1, ControlTypes DEF Enqueue
    <3> QED
      BY <1>6, <2>1, <3>1 DEF Conclude, Kinds, queue
  <2>3. phase' \in [Scopes -> Phases]
    BY <1>0, <1>6 DEF Conclude, TypeOK, Enter
  <2> QED
    BY <1>0, <1>6, <2>2, <2>3 DEF TypeOK, Conclude, database, lifetime
<1>7. ASSUME NEW s \in Scopes, Unwind(s) PROVE TypeOK'
  BY <1>0, <1>7 DEF TypeOK, Unwind, Enter, queue, database, lifetime
<1>8. CASE Answer
  <2>1. Pump
    BY <1>8 DEF Answer, AnswerBegin, AnswerQuery, AnswerSavepoint, AnswerRollbackTo,
                AnswerCommit, AnswerRollback, Answered
  <2>2. /\ active' \in Statement \union {NoStatement}
        /\ waiting' \in Seq(Statement)
        /\ Len(waiting') <= MaximumQueued
    BY <1>0, <2>1, PumpTypes
  <2>3. CASE AnswerBegin
    BY <1>0, <2>2, <2>3, RootFirst DEF TypeOK, AnswerBegin, Enter, lifetime
  <2>4. CASE AnswerQuery
    <3>1. active.kind = "query"
      BY <2>4 DEF AnswerQuery, Answered
    <3>2. active.query \in Queries
      BY <1>0, <3>1 DEF Wire, Asked
    <3>3. effects' \subseteq Queries /\ since' \in [Scopes -> SUBSET Queries]
      <4>1. effects \subseteq Queries /\ since \in [Scopes -> SUBSET Queries]
        BY <1>0 DEF TypeOK
      <4>2. effects' \in {effects, effects \union {active.query}}
        BY <2>4 DEF AnswerQuery
      <4>3. \/ since' = since
            \/ since' = [m \in Scopes |->
                 IF m \in marks THEN since[m] \union {active.query} ELSE since[m]]
        BY <2>4 DEF AnswerQuery
      <4> QED
        BY <3>2, <4>1, <4>2, <4>3
    <3>4. answer' \in [Queries -> Answers] /\ failed' \in [Scopes -> BOOLEAN]
          /\ remote' \in Remotes
      BY <1>0, <2>4, <3>2 DEF TypeOK, AnswerQuery
    <3> QED
      BY <1>0, <2>2, <2>4, <3>3, <3>4 DEF TypeOK, AnswerQuery, lifetime
  <2>5. CASE AnswerSavepoint
    <3>1. active.scope \in Scopes
      BY <1>0, <2>5, AnsweredActive DEF AnswerSavepoint, Kinds
    <3>2. marks' \subseteq Scopes /\ since' \in [Scopes -> SUBSET Queries]
          /\ phase' \in [Scopes -> Phases]
      BY <1>0, <2>5, <3>1 DEF TypeOK, AnswerSavepoint, Enter
    <3>3. failed' \in [Scopes -> BOOLEAN] /\ remote' \in Remotes
      BY <1>0, <2>5, <3>1 DEF TypeOK, AnswerSavepoint
    <3> QED
      BY <1>0, <2>2, <2>5, <3>2, <3>3 DEF TypeOK, AnswerSavepoint, lifetime
  <2>6. CASE AnswerRollbackTo
    <3>1. active.scope \in Scopes
      BY <1>0, <2>6, AnsweredActive DEF AnswerRollbackTo, Kinds
    <3>2. marks' \subseteq Scopes /\ since' \in [Scopes -> SUBSET Queries]
          /\ effects' \subseteq Queries /\ phase' \in [Scopes -> Phases]
      BY <1>0, <2>6, <3>1 DEF TypeOK, AnswerRollbackTo, Enter
    <3> QED
      BY <1>0, <2>2, <2>6, <3>2 DEF TypeOK, AnswerRollbackTo, lifetime
  <2>7. CASE AnswerCommit
    BY <1>0, <2>2, <2>7, RootFirst DEF TypeOK, AnswerCommit, Enter, lifetime
  <2>8. CASE AnswerRollback
    BY <1>0, <2>2, <2>8, RootFirst DEF TypeOK, AnswerRollback, Enter, lifetime
  <2> QED
    BY <1>8, <2>3, <2>4, <2>5, <2>6, <2>7, <2>8 DEF Answer
<1>9. CASE Tell \/ TellStopped \/ Settle
  BY <1>0, <1>9 DEF TypeOK, Tell, TellStopped, Settle, callers, queue, database
<1>10. CASE Stop
  <2>1. answer' \in [Queries -> Answers]
    BY <1>0, <1>10 DEF TypeOK, Stop, Rejected
  <2>2. waiting' \in Seq(Statement) /\ Len(waiting') <= MaximumQueued
    BY <1>10, QueueTypes, <1>0 DEF Stop
  <2> QED
    BY <1>0, <1>10, <2>1, <2>2 DEF TypeOK, Stop, database
<1>11. CASE Close
  <2>1. answer' \in [Queries -> Answers]
    BY <1>0, <1>11 DEF TypeOK, Close, Rejected
  <2> QED
    BY <1>0, <1>11, <2>1 DEF TypeOK, Close
<1>12. CASE UNCHANGED vars
  BY <1>0, <1>12 DEF TypeOK, vars, callers, queue, database, lifetime
<1> QED
  BY <1>1, <1>2, <1>3, <1>4, <1>5, <1>6, <1>7, <1>8, <1>9, <1>10, <1>11, <1>12 DEF Next

\* One scope goes on to another phase, and the tree stays as it is.
LEMMA TreeEnter ==
  ASSUME TypeOK, Tree, NEW s \in Scopes, NEW p \in Phases \ {"none"}, phase[s] # "none",
         p \in Unentered => phase[s] \in Unentered, Enter(s, p), within' = within
  PROVE  Tree'
<1>1. phase' = [phase EXCEPT ![s] = p] /\ \A c, t : ChildOf(c, t)' <=> ChildOf(c, t)
  BY DEF Enter, ChildOf
<1>2. \A t \in Scopes : phase'[t] = "none" <=> phase[t] = "none"
  BY <1>1 DEF TypeOK
<1>3. \A t \in Scopes : \A u \in within[t] : u \in Scopes
  BY DEF TypeOK
<1>4. ASSUME NEW t \in Scopes, NEW u \in within[t] \ {t} PROVE phase'[u] \notin Unentered
  BY <1>1, <1>3, <1>4 DEF Tree, TypeOK
<1>5. \A t \in Scopes : \A u \in within[t] \ {t} : \E k \in within'[t] : ChildOf(k, u)'
  BY <1>1 DEF Tree
<1>6. \A t \in Scopes : phase'[t] # "none" /\ t # Root => \E u \in Scopes : ChildOf(t, u)'
  BY <1>1, <1>2 DEF Tree
<1> QED
  BY <1>2, <1>4, <1>5, <1>6 DEF Tree

LEMMA TreeStep == IInv /\ [Next]_vars => Tree'
<1> SUFFICES ASSUME IInv, [Next]_vars PROVE Tree'
  OBVIOUS
<1>0. TypeOK /\ Tree /\ Chain /\ Wire
  BY DEF IInv
<1> USE DEF Phases
<1>1. CASE Begin
  <2>1. \A s \in Scopes : phase[s] = "none" /\ within[s] = {}
    BY <1>0, <1>1, RootOfAll DEF Begin, Tree
  <2>2. \A s \in Scopes : phase'[s] = IF s = Root THEN "marking" ELSE "none"
    BY <1>0, <1>1, <2>1, RootFirst DEF Begin, Enter, TypeOK
  <2>3. \A s \in Scopes : within'[s] = IF s = Root THEN {Root} ELSE {}
    BY <1>0, <1>1, <2>1, RootFirst DEF Begin, TypeOK
  <2>4. ASSUME NEW s \in Scopes, NEW t \in Scopes, t < s PROVE s # Root
    BY <2>4, RootFirst
  <2> QED
    BY <2>2, <2>3, <2>4, RootFirst DEF Tree
<1>2. ASSUME NEW p \in Scopes, NEW c \in Scopes, OpenSavepoint(p, c) PROVE Tree'
  <2>1. phase[c] = "none" /\ within[c] = {} /\ phase[p] = "running" /\ p # c
    BY <1>0, <1>2 DEF OpenSavepoint, Accepts, Tree
  <2>2. phase' = [phase EXCEPT ![c] = "opening"]
    BY <1>2 DEF OpenSavepoint, Enter
  <2>3. within' = [within EXCEPT ![c] = within[p] \union {c}]
    BY <1>2 DEF OpenSavepoint
  <2>4. \A s \in Scopes : s # c => phase'[s] = phase[s] /\ within'[s] = within[s]
    BY <1>0, <2>2, <2>3 DEF TypeOK
  <2>5. phase'[c] = "opening" /\ within'[c] = within[p] \union {c}
    BY <1>0, <2>2, <2>3 DEF TypeOK
  <2>6. \A s \in Scopes : c \notin within[s]
    <3> SUFFICES ASSUME NEW s \in Scopes, c \in within[s] PROVE FALSE
      OBVIOUS
    <3>1. s # c
      BY <2>1
    <3> QED
      BY <1>0, <2>1, <3>1 DEF Tree, Unentered
  <2>7. \A s \in Scopes : within[s] \subseteq Scopes
    BY <1>0 DEF TypeOK
  <2>8. \A s \in Scopes : s < c => phase[s] # "none"
    BY <1>2 DEF OpenSavepoint
  <2>9. p < c /\ \A t \in within[p] : t <= c
    <3>1. ~(c < p)
      BY <1>0, <2>1 DEF Tree
    <3>2. p < c
      BY <2>1, <3>1, RootFirst
    <3>3. ASSUME NEW t \in within[p] PROVE t <= c
      <4>1. t <= p /\ t \in Nat /\ p \in Nat /\ c \in Nat
        BY <1>0, <2>7, RootFirst DEF Tree
      <4> QED
        BY <3>2, <4>1
    <3> QED
      BY <3>2, <3>3
  <2>10. ASSUME NEW s \in Scopes, phase'[s] # "none"
         PROVE  Root \in within'[s] /\ s \in within'[s]
    BY <1>0, <2>1, <2>4, <2>5, <2>10 DEF Tree
  <2>11. ASSUME NEW s \in Scopes, NEW t \in within'[s]
         PROVE  t <= s /\ within'[t] \subseteq within'[s]
    <3>1. CASE s # c
      BY <1>0, <2>4, <2>6, <2>7, <2>11, <3>1 DEF Tree
    <3>2. CASE s = c /\ t = c
      BY <3>2, RootFirst
    <3>3. CASE s = c /\ t # c
      <4>1. t \in within[p] /\ t \in Scopes /\ within'[t] = within[t]
        BY <2>4, <2>5, <2>7, <2>11, <3>3
      <4> QED
        BY <1>0, <2>5, <2>9, <3>3, <4>1 DEF Tree
    <3> QED
      BY <3>1, <3>2, <3>3
  <2>12. ASSUME NEW k \in Scopes, NEW t \in Scopes, k # c, t # c, ChildOf(k, t) PROVE ChildOf(k, t)'
    BY <2>4, <2>12 DEF ChildOf
  <2>13. ChildOf(c, p)'
    BY <1>0, <2>1, <2>4, <2>5 DEF ChildOf, Tree
  <2>14. ASSUME NEW s \in Scopes, NEW t \in within'[s] \ {s}
         PROVE  phase'[t] \notin Unentered /\ \E k \in within'[s] : ChildOf(k, t)'
    <3>1. CASE s # c
      <4>1. t \in within[s] \ {s} /\ t \in Scopes /\ t # c
        BY <2>4, <2>6, <2>7, <2>14, <3>1
      <4>2. PICK k \in within[s] : ChildOf(k, t)
        BY <1>0, <4>1 DEF Tree
      <4>3. k \in Scopes /\ k # c /\ k \in within'[s]
        BY <2>4, <2>6, <2>7, <3>1, <4>2
      <4> QED
        BY <1>0, <2>4, <2>12, <4>1, <4>2, <4>3 DEF Tree
    <3>2. CASE s = c /\ t = p
      BY <2>1, <2>4, <2>5, <2>13, <3>2 DEF Unentered
    <3>3. CASE s = c /\ t # p
      <4>1. t \in within[p] \ {p} /\ t \in Scopes /\ t # c
        BY <2>5, <2>7, <2>14, <3>3
      <4>2. PICK k \in within[p] : ChildOf(k, t)
        BY <1>0, <4>1 DEF Tree
      <4>3. k \in Scopes /\ k # c /\ k \in within'[s]
        BY <2>5, <2>6, <2>7, <3>3, <4>2
      <4> QED
        BY <1>0, <2>4, <2>12, <4>1, <4>2, <4>3 DEF Tree
    <3> QED
      BY <3>1, <3>2, <3>3
  <2>15. ASSUME NEW s \in Scopes, phase'[s] # "none", s # Root PROVE \E t \in Scopes : ChildOf(s, t)'
    <3>1. CASE s = c
      BY <2>13, <3>1
    <3>2. CASE s # c
      <4>1. PICK t \in Scopes : ChildOf(s, t)
        BY <1>0, <2>4, <2>15, <3>2 DEF Tree
      <4>2. t # c
        BY <2>6, <4>1 DEF ChildOf
      <4> QED
        BY <2>12, <3>2, <4>1, <4>2
    <3> QED
      BY <3>1, <3>2
  <2>16. ASSUME NEW s \in Scopes, NEW t \in Scopes, t < s, phase'[s] # "none" PROVE phase'[t] # "none"
    BY <1>0, <2>4, <2>5, <2>8, <2>16 DEF Tree
  <2>17. \A s \in Scopes : phase'[s] = "none" => within'[s] = {}
    BY <1>0, <2>4, <2>5 DEF Tree
  <2> QED
    BY <2>10, <2>11, <2>14, <2>15, <2>16, <2>17 DEF Tree
<1>3. ASSUME NEW p \in Scopes, NEW c \in Scopes, Mark(p, c) PROVE Tree'
  BY <1>0, <1>3, TreeEnter DEF Mark, Unentered
<1>4. ASSUME NEW s \in Scopes, NEW how \in {"returned", "threw"}, EndCallback(s, how)
      PROVE Tree'
  BY <1>0, <1>4, TreeEnter DEF EndCallback, Unentered
<1>5. ASSUME NEW s \in Scopes, Conclude(s) PROVE Tree'
  <2>1. PICK p \in {"committing", "succeeded", "undoing"} : Enter(s, p)
    BY <1>5 DEF Conclude
  <2>2. phase[s] # "none" /\ within' = within
    BY <1>5 DEF Conclude, Joined
  <2> QED
    BY <1>0, <2>1, <2>2, TreeEnter DEF Unentered
<1>6. ASSUME NEW s \in Scopes, Unwind(s) PROVE Tree'
  <2>1. phase[s] # "none" /\ within' = within /\ Enter(s, "failed")
    BY <1>6 DEF Unwind, Joined
  <2> QED
    BY <1>0, <2>1, TreeEnter DEF Unentered
<1>7. CASE AnswerBegin \/ AnswerSavepoint \/ AnswerRollbackTo \/ AnswerCommit \/ AnswerRollback
  <2>1. active.scope \in Scopes /\ active.kind \in Kinds \ {"query"}
    BY <1>0, <1>7, AnsweredActive DEF AnswerBegin, AnswerSavepoint, AnswerRollbackTo,
         AnswerCommit, AnswerRollback, Answered, Kinds
  <2>2. phase[active.scope] # "none" /\ (active.scope # Root => active.kind \in {"savepoint", "rollbackTo"})
        /\ (active.scope = Root => active.kind \in {"begin", "commit", "rollback"})
    BY <1>0, <2>1 DEF Wire, Kinds
  <2>3. PICK p \in {"running", "failed", "succeeded", "threw"} : Enter(active.scope, p)
    BY <1>0, <1>7, <2>1, <2>2 DEF Wire, AnswerBegin, AnswerSavepoint, AnswerRollbackTo,
         AnswerCommit, AnswerRollback, Answered
  <2>4. within' = within
    BY <1>7 DEF AnswerBegin, AnswerSavepoint, AnswerRollbackTo, AnswerCommit, AnswerRollback
  <2> QED
    BY <1>0, <2>1, <2>2, <2>3, <2>4, TreeEnter DEF Unentered
<1>8. ASSUME UNCHANGED <<phase, within>> PROVE Tree'
  BY <1>0, <1>8 DEF Tree, ChildOf
<1>9. CASE AnswerQuery
  BY <1>8, <1>9 DEF AnswerQuery
<1>10. CASE Tell \/ TellStopped \/ Settle \/ Stop \/ Close \/ UNCHANGED vars
  BY <1>8, <1>10 DEF Tell, TellStopped, Settle, Stop, Close, vars, callers
<1>11. ASSUME NEW s \in Scopes, NEW q \in Queries, IssueQuery(s, q) PROVE Tree'
  BY <1>8, <1>11 DEF IssueQuery
<1> QED
  BY <1>1, <1>2, <1>3, <1>4, <1>5, <1>6, <1>7, <1>9, <1>10, <1>11 DEF Next, Answer

\* A scope with a control statement to come or under way has all queries behind it.
LEMMA EdgeQuiet ==
  ASSUME TypeOK, Tree, Chain, Unanswered, NEW s \in Scopes, Open(s),
         phase[s] \notin Calling \union {"opening"}
  PROVE  \A q \in Queries : issuer[q] # NoScope => answer[q] # "none"
<1> SUFFICES ASSUME NEW q \in Queries, issuer[q] # NoScope, answer[q] = "none" PROVE FALSE
  OBVIOUS
<1>1. issuer[q] \in Scopes
  BY DEF TypeOK
<1>2. phase[issuer[q]] \in Calling /\ Open(issuer[q]) /\ s \in within[issuer[q]]
  BY DEF Unanswered, Open, Calling, Ended
<1>3. issuer[q] \in within[s]
  BY <1>1, <1>2, AtTheEdge
<1> QED
  BY <1>1, <1>2, <1>3, WithinOnce

\* A control statement is answered: it was alone.
LEMMA ControlAnswered ==
  ASSUME TypeOK, Tree, Chain, Unanswered, Wire, NEW kind \in Kinds \ {"query"}, Answered(kind)
  PROVE  LET s == active.scope IN
         /\ s \in Scopes /\ active.kind = kind /\ ~stopped
         /\ active' = NoStatement /\ waiting' = <<>> /\ waiting = <<>>
         /\ Open(s) /\ phase[s] \in {"marking", "undoing", "committing"}
         /\ \A d \in Scopes : Open(d) => d \in within[s]
         /\ ~Busy(s)
         /\ \A q \in Queries : issuer[q] # NoScope => answer[q] # "none"
<1>1. active.scope \in Scopes /\ active.kind = kind /\ ~stopped
  BY AnsweredActive DEF Answered
<1>2. waiting = <<>> /\ active' = NoStatement /\ waiting' = <<>>
  BY <1>1 DEF Wire, Answered, Pump
<1>3. phase[active.scope] \in {"marking", "undoing", "committing"} /\ Open(active.scope)
  BY <1>1 DEF Wire, Kinds, Open, Ended
<1> QED
  BY <1>1, <1>2, <1>3, AtTheEdge, EdgeQuiet DEF Calling

\* A scope goes on, the innermost one to whatever end, any other in its callback.
LEMMA ChainEnter ==
  ASSUME TypeOK, Tree, Chain, NEW s \in Scopes, NEW p \in Phases \ {"none", "opening"}, Open(s),
         p = "committing" => s = Root, Enter(s, p), within' = within,
         p \in Calling \/ \A d \in Scopes : Open(d) => d \in within[s]
  PROVE  Chain'
<1>1. \A t \in Scopes : t # s => phase'[t] = phase[t]
  BY DEF Enter, TypeOK
<1>2. phase'[s] = p
  BY DEF Enter, TypeOK
<1>3. \A t \in Scopes : Open(t)' => Open(t)
  BY <1>1, <1>2 DEF Open
<1>4. ASSUME NEW c \in Scopes, Open(c)', NEW t \in within[c] \ {c} PROVE phase'[t] \in Calling
  <2>1. t \in Scopes /\ phase[t] \in Calling
    BY <1>3, <1>4 DEF Chain, TypeOK
  <2>2. CASE t = s /\ p \notin Calling
    <3>1. c \in within[s]
      BY <1>3, <1>4, <2>2
    <3> QED
      BY <1>4, <2>2, <3>1, WithinOnce
  <2>3. CASE t # s \/ p \in Calling
    BY <1>1, <1>2, <2>1, <2>3
  <2> QED
    BY <2>2, <2>3
<1>5. phase'[Root] # "opening"
  BY <1>1, <1>2, RootFirst DEF Chain
<1>6. \A t \in Scopes : phase'[t] = "committing" => t = Root
  BY <1>1, <1>2 DEF Chain
<1> QED
  BY <1>3, <1>4, <1>5, <1>6 DEF Chain

LEMMA ChainStep == IInv /\ [Next]_vars => Chain'
<1> SUFFICES ASSUME IInv, [Next]_vars PROVE Chain'
  OBVIOUS
<1>0. TypeOK /\ Tree /\ Chain /\ Unanswered /\ Wire
  BY DEF IInv
<1> USE DEF Phases
<1>1. CASE Begin
  <2>1. \A s \in Scopes : phase[s] = "none" /\ within[s] = {}
    BY <1>0, <1>1, RootOfAll DEF Begin, Tree
  <2>2. \A s \in Scopes : phase'[s] = IF s = Root THEN "marking" ELSE "none"
    BY <1>0, <1>1, <2>1, RootFirst DEF Begin, Enter, TypeOK
  <2>3. within'[Root] = {Root}
    BY <1>0, <1>1, RootFirst DEF Begin, TypeOK
  <2> QED
    BY <2>2, <2>3, RootFirst DEF Chain, Open
<1>2. ASSUME NEW p \in Scopes, NEW c \in Scopes, OpenSavepoint(p, c) PROVE Chain'
  <2>1. phase[c] = "none" /\ phase[p] = "running" /\ p # c /\ Open(p) /\ ~Busy(p)
    BY <1>0, <1>2 DEF OpenSavepoint, Accepts, Open, Ended
  <2>2. \A d \in Scopes : Open(d) => d \in within[p]
    BY <1>0, <2>1, Innermost
  <2>3. \A s \in Scopes : s # c => phase'[s] = phase[s] /\ within'[s] = within[s]
    BY <1>0, <1>2 DEF OpenSavepoint, Enter, TypeOK
  <2>4. phase'[c] = "opening" /\ within'[c] = within[p] \union {c}
    BY <1>0, <1>2 DEF OpenSavepoint, Enter, TypeOK
  <2>5. \A s \in Scopes : Open(s)' => s = c \/ Open(s)
    BY <2>3 DEF Open
  <2>6. \A s \in Scopes : c \notin within[s] /\ within[s] \subseteq Scopes
    BY <1>0, <2>1 DEF Tree, Unentered, TypeOK
  <2>7. \A s \in Scopes : Open(s) => s # c /\ s \in within'[c]
    BY <2>1, <2>2, <2>4 DEF Open
  <2>8. ASSUME NEW s \in Scopes, Open(s)', NEW t \in within'[s] \ {s} PROVE phase'[t] \in Calling
    <3>1. CASE s # c
      BY <1>0, <2>3, <2>5, <2>6, <2>8, <3>1 DEF Chain
    <3>2. CASE s = c /\ t = p
      BY <2>1, <2>3, <3>2 DEF Calling
    <3>3. CASE s = c /\ t # p
      BY <1>0, <2>1, <2>3, <2>4, <2>6, <2>8, <3>3 DEF Chain
    <3> QED
      BY <3>1, <3>2, <3>3
  <2>9. ASSUME NEW s \in Scopes, NEW t \in Scopes, Open(s)', Open(t)'
        PROVE  s \in within'[t] \/ t \in within'[s]
    BY <1>0, <2>3, <2>4, <2>5, <2>7, <2>9 DEF Chain
  <2>10. phase'[Root] # "opening"
    <3>1. c # Root
      BY <1>0, <2>1, RootFirst DEF Tree, Open, Ended
    <3> QED
      BY <1>0, <2>3, <3>1, RootFirst DEF Chain
  <2>11. \A s \in Scopes : phase'[s] = "committing" => s = Root
    BY <1>0, <2>3, <2>4 DEF Chain
  <2> QED
    BY <2>8, <2>9, <2>10, <2>11 DEF Chain
<1>3. ASSUME NEW p \in Scopes, NEW c \in Scopes, Mark(p, c) PROVE Chain'
  <2>1. \A d \in Scopes : Open(d) => d \in within[c]
    BY <1>0, <1>3, MarkFree DEF Mark
  <2>2. Enter(c, "marking") /\ within' = within /\ Open(c)
    BY <1>3 DEF Mark, Open, Ended
  <2> QED
    BY <1>0, <2>1, <2>2, ChainEnter
<1>4. ASSUME NEW s \in Scopes, NEW how \in {"returned", "threw"}, EndCallback(s, how)
      PROVE Chain'
  <2>1. Enter(s, how) /\ within' = within /\ Open(s) /\ how \in Calling
    BY <1>4 DEF EndCallback, Open, Ended, Calling
  <2> QED
    BY <1>0, <2>1, ChainEnter
<1>5. ASSUME NEW s \in Scopes, Conclude(s) PROVE Chain'
  <2>1. PICK p \in {"committing", "succeeded", "undoing"} :
          Enter(s, p) /\ (p = "committing" => s = Root)
    BY <1>5 DEF Conclude
  <2>2. within' = within /\ Open(s) /\ \A d \in Scopes : Open(d) => d \in within[s]
    BY <1>0, <1>5, JoinedFree DEF Conclude, Joined, Open, Ended
  <2> QED
    BY <1>0, <2>1, <2>2, ChainEnter
<1>6. ASSUME NEW s \in Scopes, Unwind(s) PROVE Chain'
  <2>1. Open(s) /\ within' = within /\ Enter(s, "failed")
    BY <1>6 DEF Unwind, Joined, Open, Ended
  <2>2. \A d \in Scopes : Open(d) => d \in within[s]
    <3>1. CASE Joined(s)
      BY <1>0, <3>1, JoinedFree
    <3>2. CASE ~Joined(s)
      BY <1>0, <1>6, <2>1, <3>2, AtTheEdge DEF Unwind, Calling
    <3> QED
      BY <3>1, <3>2
  <2> QED
    BY <1>0, <2>1, <2>2, ChainEnter
<1>7. CASE AnswerBegin \/ AnswerSavepoint \/ AnswerRollbackTo \/ AnswerCommit \/ AnswerRollback
  <2>1. PICK kind \in Kinds \ {"query"} : Answered(kind)
    BY <1>7 DEF AnswerBegin, AnswerSavepoint, AnswerRollbackTo, AnswerCommit, AnswerRollback, Kinds
  <2>2. /\ active.scope \in Scopes /\ active.kind \in Kinds \ {"query"} /\ Open(active.scope)
        /\ \A d \in Scopes : Open(d) => d \in within[active.scope]
    BY <1>0, <2>1, ControlAnswered
  <2>3. PICK p \in {"running", "failed", "succeeded", "threw"} : Enter(active.scope, p)
    BY <1>0, <1>7 DEF Wire, AnswerBegin, AnswerSavepoint, AnswerRollbackTo,
         AnswerCommit, AnswerRollback, Answered
  <2>4. within' = within
    BY <1>7 DEF AnswerBegin, AnswerSavepoint, AnswerRollbackTo, AnswerCommit, AnswerRollback
  <2> QED
    BY <1>0, <2>2, <2>3, <2>4, ChainEnter
<1>8. ASSUME UNCHANGED <<phase, within>> PROVE Chain'
  BY <1>0, <1>8 DEF Chain, Open
<1>9. CASE AnswerQuery
  BY <1>8, <1>9 DEF AnswerQuery
<1>10. CASE Tell \/ TellStopped \/ Settle \/ Stop \/ Close \/ UNCHANGED vars
  BY <1>8, <1>10 DEF Tell, TellStopped, Settle, Stop, Close, vars, callers
<1>11. ASSUME NEW s \in Scopes, NEW q \in Queries, IssueQuery(s, q) PROVE Chain'
  BY <1>8, <1>11 DEF IssueQuery
<1> QED
  BY <1>1, <1>2, <1>3, <1>4, <1>5, <1>6, <1>7, <1>9, <1>10, <1>11 DEF Next, Answer

LEMMA UnansweredEnter ==
  ASSUME TypeOK, Tree, Chain, Unanswered, NEW s \in Scopes, NEW p \in Phases \ {"none", "opening"},
         Open(s), p \in Unentered => phase[s] \in Unentered,
         Enter(s, p), UNCHANGED <<within, issuer, answer>>,
         \/ p \in Calling /\ phase[s] \in Calling
         \/ \A q \in Queries : issuer[q] # NoScope => answer[q] # "none"
         \/ phase[s] = "opening" /\ p = "failed"
  PROVE  Unanswered'
<1>1. \A t \in Scopes : t # s => phase'[t] = phase[t]
  BY DEF Enter, TypeOK
<1>2. phase'[s] = p
  BY DEF Enter, TypeOK
<1>3. \A q \in Queries : issuer[q] \in Scopes \union {NoScope}
  BY DEF TypeOK
<1>4. ASSUME NEW q \in Queries, issuer[q] # NoScope PROVE phase'[issuer[q]] \notin Unentered
  BY <1>1, <1>2, <1>3, <1>4 DEF Unanswered
<1>5. ASSUME NEW q \in Queries, issuer[q] # NoScope, answer[q] = "none"
      PROVE  /\ phase'[issuer[q]] \in Calling
             /\ \A c \in Scopes : Open(c)' =>
                  \/ c \in within[issuer[q]]
                  \/ ChildOf(c, issuer[q])' /\ phase'[c] = "opening"
  <2>1. issuer[q] \in Scopes /\ phase[issuer[q]] \in Calling
    BY <1>3, <1>5 DEF Unanswered
  <2>2. phase'[issuer[q]] \in Calling
    BY <1>1, <1>2, <1>5, <2>1 DEF Calling
  <2>3. ASSUME NEW c \in Scopes, Open(c)', c \notin within[issuer[q]]
        PROVE  ChildOf(c, issuer[q])' /\ phase'[c] = "opening"
    <3>1. Open(c)
      BY <1>1, <2>3 DEF Open
    <3>2. ChildOf(c, issuer[q]) /\ phase[c] = "opening"
      BY <1>5, <2>3, <3>1 DEF Unanswered
    <3>3. c # s
      <4>1. CASE phase[s] \in Calling
        BY <3>2, <4>1 DEF Calling
      <4>2. CASE phase[s] = "opening" /\ p = "failed"
        BY <1>2, <2>3, <4>2 DEF Open, Ended
      <4> QED
        BY <1>5, <4>1, <4>2
    <3> QED
      BY <1>1, <3>2, <3>3 DEF ChildOf
  <2> QED
    BY <2>2, <2>3
<1> QED
  BY <1>4, <1>5 DEF Unanswered

\* Callers are answered; nothing else changes for them.
LEMMA UnansweredFewer ==
  ASSUME Unanswered, UNCHANGED <<phase, within, issuer>>,
         \A q \in Queries :
           answer'[q] = answer[q] \/ (issuer[q] # NoScope /\ answer'[q] # "none")
  PROVE  Unanswered'
  BY DEF Unanswered, Open, ChildOf

\* Only what somebody waits for is rejected.
LEMMA RejectedWaits ==
  ASSUME TypeOK, NEW statements, answer' = Rejected(statements),
         \A st \in statements : st.query \in Queries => Asked(st) /\ st.scope \in Scopes
  PROVE  \A q \in Queries :
           \/ answer'[q] = answer[q]
           \/ issuer[q] # NoScope /\ answer[q] = "none" /\ answer'[q] = "failed"
<1> SUFFICES ASSUME NEW q \in Queries, answer'[q] # answer[q]
             PROVE  issuer[q] # NoScope /\ answer[q] = "none" /\ answer'[q] = "failed"
  OBVIOUS
<1>1. PICK st \in statements : st.query = q
  BY DEF Rejected
<1>2. answer'[q] = "failed"
  BY <1>1 DEF Rejected
<1> QED
  BY <1>1, <1>2 DEF Asked, NoScope, Scopes

LEMMA StopRejects ==
  ASSUME TypeOK, Wire, Stop
  PROVE  \A q \in Queries :
           \/ answer'[q] = answer[q]
           \/ issuer[q] # NoScope /\ answer[q] = "none" /\ answer'[q] = "failed"
<1>1. ASSUME NEW i \in 1 .. Len(waiting) PROVE Asked(waiting[i]) /\ waiting[i].scope \in Scopes
  <2>1. waiting[i] \in Statement
    BY <1>1, QueueTypes
  <2> QED
    BY <1>1, <2>1 DEF Wire, Statement
<1>2. \A st \in {waiting[i] : i \in 1 .. Len(waiting)} : Asked(st) /\ st.scope \in Scopes
  BY <1>1
<1> QED
  BY <1>2, RejectedWaits DEF Stop

LEMMA CloseRejects ==
  ASSUME TypeOK, Wire, Close
  PROVE  \A q \in Queries :
           \/ answer'[q] = answer[q]
           \/ issuer[q] # NoScope /\ answer[q] = "none" /\ answer'[q] = "failed"
<1>1. active.query \in Queries => Asked(active) /\ active.scope \in Scopes
  <2>1. active.query \in Queries => active.kind = "query"
    BY DEF Wire, NoQuery, Queries
  <2>2. active.kind = "query" => active.scope \in Scopes
    BY ActiveScope DEF NoStatement
  <2> QED
    BY <2>1, <2>2 DEF Wire
<1> QED
  BY <1>1, RejectedWaits DEF Close

LEMMA UnansweredStep == IInv /\ [Next]_vars => Unanswered'
<1> SUFFICES ASSUME IInv, [Next]_vars PROVE Unanswered'
  OBVIOUS
<1>0. TypeOK /\ Tree /\ Chain /\ Unanswered /\ Wire
  BY DEF IInv
<1> USE DEF Phases
<1>1. CASE Begin
  <2>1. \A s \in Scopes : phase[s] = "none"
    BY <1>0, <1>1, RootOfAll DEF Begin
  <2>2. \A q \in Queries : issuer[q] = NoScope
    BY <1>0, <2>1 DEF Unanswered, TypeOK, Unentered
  <2> QED
    BY <1>0, <1>1, <2>2 DEF Begin, Unanswered
<1>2. ASSUME NEW s \in Scopes, NEW q \in Queries, IssueQuery(s, q) PROVE Unanswered'
  <2>1. phase[s] = "running" /\ Open(s) /\ \A d \in Scopes : Open(d) => d \in within[s]
    BY <1>0, <1>2, Innermost DEF IssueQuery, Accepts, Open, Ended
  <2>2. UNCHANGED <<phase, within>> /\ \A d, e : (Open(d)' <=> Open(d)) /\ (ChildOf(d, e)' <=> ChildOf(d, e))
    BY <1>2 DEF IssueQuery, Open, ChildOf
  <2>3. \A r \in Queries : r # q => issuer'[r] = issuer[r] /\ answer'[r] = answer[r]
    BY <1>0, <1>2 DEF IssueQuery, TypeOK
  <2>4. issuer'[q] = s /\ s # NoScope
    BY <1>0, <1>2 DEF IssueQuery, TypeOK, NoScope, Scopes
  <2> QED
    BY <1>0, <2>1, <2>2, <2>3, <2>4 DEF Unanswered, Calling, Unentered
<1>3. ASSUME NEW p \in Scopes, NEW c \in Scopes, OpenSavepoint(p, c) PROVE Unanswered'
  <2>1. phase[c] = "none" /\ within[c] = {} /\ phase[p] = "running" /\ p # c /\ Open(p)
    BY <1>0, <1>3 DEF OpenSavepoint, Accepts, Open, Ended, Tree
  <2>2. \A d \in Scopes : Open(d) => d \in within[p]
    BY <1>0, <1>3, <2>1, Innermost DEF OpenSavepoint, Accepts
  <2>3. \A s \in Scopes : s # c => phase'[s] = phase[s] /\ within'[s] = within[s]
    BY <1>0, <1>3 DEF OpenSavepoint, Enter, TypeOK
  <2>4. phase'[c] = "opening" /\ within'[c] = within[p] \union {c}
    BY <1>0, <1>3 DEF OpenSavepoint, Enter, TypeOK
  <2>5. UNCHANGED <<issuer, answer>>
    BY <1>3 DEF OpenSavepoint
  <2>6. \A s \in Scopes : Open(s)' => s = c \/ Open(s)
    BY <2>3 DEF Open
  <2>7. \A q \in Queries : issuer[q] # NoScope => issuer[q] \in Scopes /\ issuer[q] # c
    BY <1>0, <2>1 DEF Unanswered, TypeOK, Unentered
  <2>8. ASSUME NEW q \in Queries, issuer[q] # NoScope, answer[q] = "none" PROVE issuer[q] = p
    <3>1. issuer[q] \in within[p] /\ p \in within[issuer[q]]
      BY <1>0, <2>1, <2>2, <2>7, <2>8 DEF Unanswered, Open, Calling, Ended
    <3> QED
      BY <1>0, <2>7, <2>8, <3>1, WithinOnce
  <2>9. ChildOf(c, p)'
    BY <1>0, <2>1, <2>3, <2>4 DEF ChildOf, Tree
  <2> QED
    BY <1>0, <2>1, <2>2, <2>3, <2>4, <2>5, <2>6, <2>7, <2>8, <2>9 DEF Unanswered, Calling
<1>4. ASSUME NEW p \in Scopes, NEW c \in Scopes, Mark(p, c) PROVE Unanswered'
  <2>1. \A q \in Queries : issuer[q] # NoScope => answer[q] # "none"
    BY <1>0, <1>4, MarkFree DEF Mark
  <2>2. Enter(c, "marking") /\ UNCHANGED <<within, issuer, answer>> /\ Open(c) /\ phase[c] \in Unentered
    BY <1>4 DEF Mark, Open, Ended, Unentered
  <2> QED
    BY <1>0, <2>1, <2>2, UnansweredEnter
<1>5. ASSUME NEW s \in Scopes, NEW how \in {"returned", "threw"}, EndCallback(s, how)
      PROVE Unanswered'
  <2>1. /\ Enter(s, how) /\ UNCHANGED <<within, issuer, answer>> /\ Open(s)
        /\ how \in Calling /\ phase[s] \in Calling
    BY <1>5 DEF EndCallback, Open, Ended, Calling
  <2> QED
    BY <1>0, <2>1, UnansweredEnter DEF Unentered, Calling
<1>6. ASSUME NEW s \in Scopes, Conclude(s) PROVE Unanswered'
  <2>1. PICK p \in {"committing", "succeeded", "undoing"} : Enter(s, p)
    BY <1>6 DEF Conclude
  <2>2. UNCHANGED <<within, issuer, answer>> /\ Open(s)
    BY <1>6 DEF Conclude, Joined, Open, Ended
  <2>3. \A q \in Queries : issuer[q] # NoScope => answer[q] # "none"
    BY <1>0, <1>6, JoinedFree DEF Conclude
  <2> QED
    BY <1>0, <2>1, <2>2, <2>3, UnansweredEnter DEF Unentered
<1>7. ASSUME NEW s \in Scopes, Unwind(s) PROVE Unanswered'
  <2>1. Open(s) /\ UNCHANGED <<within, issuer, answer>> /\ Enter(s, "failed")
    BY <1>7 DEF Unwind, Joined, Open, Ended
  <2>2. phase[s] = "opening" \/ \A q \in Queries : issuer[q] # NoScope => answer[q] # "none"
    <3>1. CASE Joined(s)
      BY <1>0, <3>1, JoinedFree
    <3>2. CASE ~Joined(s) /\ phase[s] # "opening"
      BY <1>0, <1>7, <2>1, <3>2, EdgeQuiet DEF Unwind, Calling
    <3> QED
      BY <3>1, <3>2
  <2> QED
    BY <1>0, <2>1, <2>2, UnansweredEnter DEF Unentered
<1>8. CASE AnswerBegin \/ AnswerSavepoint \/ AnswerRollbackTo \/ AnswerCommit \/ AnswerRollback
  <2>1. PICK kind \in Kinds \ {"query"} : Answered(kind)
    BY <1>8 DEF AnswerBegin, AnswerSavepoint, AnswerRollbackTo, AnswerCommit, AnswerRollback, Kinds
  <2>2. /\ active.scope \in Scopes /\ active.kind \in Kinds \ {"query"} /\ Open(active.scope)
        /\ \A q \in Queries : issuer[q] # NoScope => answer[q] # "none"
    BY <1>0, <2>1, ControlAnswered
  <2>3. PICK p \in {"running", "failed", "succeeded", "threw"} : Enter(active.scope, p)
    BY <1>0, <1>8 DEF Wire, AnswerBegin, AnswerSavepoint, AnswerRollbackTo,
         AnswerCommit, AnswerRollback, Answered
  <2>4. UNCHANGED <<within, issuer, answer>>
    BY <1>8 DEF AnswerBegin, AnswerSavepoint, AnswerRollbackTo, AnswerCommit, AnswerRollback
  <2> QED
    BY <1>0, <2>2, <2>3, <2>4, UnansweredEnter DEF Unentered
<1>9. CASE AnswerQuery
  <2>1. active.query \in Queries /\ issuer[active.query] # NoScope
    <3>1. active.kind = "query" /\ active.scope \in Scopes
      BY <1>0, <1>9, AnsweredActive DEF AnswerQuery, Kinds
    <3> QED
      BY <1>0, <3>1 DEF Wire, Asked, NoScope, Scopes
  <2>2. PICK a \in {"ok", "failed"} : answer' = [answer EXCEPT ![active.query] = a]
    BY <1>9 DEF AnswerQuery
  <2>3. \A q \in Queries : answer'[q] = answer[q] \/ (issuer[q] # NoScope /\ answer'[q] # "none")
    BY <1>0, <2>1, <2>2 DEF TypeOK
  <2> QED
    BY <1>0, <1>9, <2>3, UnansweredFewer DEF AnswerQuery
<1>10. CASE Stop
  <2>1. \A q \in Queries : answer'[q] = answer[q] \/ (issuer[q] # NoScope /\ answer'[q] # "none")
    BY <1>0, <1>10, StopRejects
  <2>2. UNCHANGED <<phase, within, issuer>>
    BY <1>10 DEF Stop
  <2> QED
    BY <1>0, <2>1, <2>2, UnansweredFewer
<1>11. CASE Close
  <2>1. \A q \in Queries : answer'[q] = answer[q] \/ (issuer[q] # NoScope /\ answer'[q] # "none")
    BY <1>0, <1>11, CloseRejects
  <2>2. UNCHANGED <<phase, within, issuer>>
    BY <1>11 DEF Close
  <2> QED
    BY <1>0, <2>1, <2>2, UnansweredFewer
<1>12. CASE Tell \/ TellStopped \/ Settle \/ UNCHANGED vars
  <2>1. UNCHANGED <<phase, within, issuer, answer>>
    BY <1>12 DEF Tell, TellStopped, Settle, vars, callers
  <2> QED
    BY <1>0, <2>1, UnansweredFewer
<1> QED
  BY <1>1, <1>2, <1>3, <1>4, <1>5, <1>6, <1>7, <1>8, <1>9, <1>10, <1>11, <1>12 DEF Next, Answer

LEMMA WireEmpty == ASSUME active' = NoStatement, waiting' = <<>> PROVE Wire'
  BY DEF Wire, NoStatement

\* While the innermost scope is in its callback no control statement is under way.
LEMMA NoControl ==
  ASSUME TypeOK, Chain, Wire, NEW s \in Scopes, phase[s] = "running",
         \A d \in Scopes : Open(d) => d \in within[s], active # NoStatement
  PROVE  active.kind = "query"
<1> SUFFICES ASSUME active.kind # "query" PROVE FALSE
  OBVIOUS
<1>1. active.scope \in Scopes /\ active.kind \in Kinds
  BY ActiveScope
<1>2. Open(active.scope) /\ phase[active.scope] \in {"marking", "undoing", "committing"}
  BY <1>1 DEF Wire, Open, Kinds, Ended
<1>3. active.scope \in within[s] \ {s} /\ Open(s)
  BY <1>1, <1>2 DEF Open, Ended
<1> QED
  BY <1>2, <1>3 DEF Chain, Calling

\* A statement of this state that is still waited for in the next.
StillAsked(st) ==
  /\ st.query \in Queries
  /\ issuer'[st.query] = st.scope
  /\ answer'[st.query] = "none"

LEMMA WireQueries ==
  ASSUME active'.kind = "query", StillAsked(active'),
         \A i \in 1 .. Len(waiting') :
           /\ waiting'[i].kind = "query"
           /\ StillAsked(waiting'[i])
           /\ waiting'[i].query # active'.query
           /\ \A j \in 1 .. Len(waiting') : i # j => waiting'[i].query # waiting'[j].query
  PROVE  Wire'
<1>1. active' # NoStatement
  BY DEF NoStatement
<1>2. Asked(active)'
  BY DEF Asked, StillAsked
<1>3. \A i \in 1 .. Len(waiting') : Asked(waiting[i])'
  BY DEF Asked, StillAsked
<1> QED
  BY <1>1, <1>2, <1>3 DEF Wire

\* The queue after the answer of a query: what waited still waits.
LEMMA WirePump ==
  ASSUME TypeOK, Wire, Answered("query"), UNCHANGED <<phase, issuer>>,
         \A q \in Queries : q # active.query => answer'[q] = answer[q]
  PROVE  Wire'
<1>1. Pump
  BY DEF Answered
<1>2. CASE waiting = <<>>
  BY <1>1, <1>2, WireEmpty DEF Pump
<1>3. CASE waiting # <<>>
  <2>1. active' = Head(waiting) /\ waiting' = Tail(waiting)
    BY <1>1, <1>3 DEF Pump
  <2>2. Len(waiting) >= 1 /\ Head(waiting) = waiting[1] /\ Len(waiting) \in Nat
    BY <1>3, QueueTypes
  <2>3. /\ Len(waiting') = Len(waiting) - 1
        /\ \A i \in 1 .. Len(waiting') : waiting'[i] = waiting[i + 1]
    BY <1>3, <2>1, QueueTypes
  <2>4. \A i \in 1 .. Len(waiting) : waiting[i].kind = "query" /\ StillAsked(waiting[i])
    BY DEF Wire, Asked, StillAsked
  <2>5. active'.kind = "query" /\ StillAsked(active')
    <3>1. active' = waiting[1] /\ 1 \in 1 .. Len(waiting)
      BY <2>1, <2>2
    <3> QED
      BY <2>4, <3>1
  <2>6. ASSUME NEW i \in 1 .. Len(waiting')
        PROVE  /\ waiting'[i].kind = "query" /\ StillAsked(waiting'[i])
               /\ waiting'[i].query # active'.query
               /\ \A j \in 1 .. Len(waiting') : i # j => waiting'[i].query # waiting'[j].query
    <3>1. /\ waiting'[i] = waiting[i + 1] /\ i + 1 \in 1 .. Len(waiting)
          /\ i + 1 # 1 /\ 1 \in 1 .. Len(waiting)
      BY <2>2, <2>3
    <3>2. waiting'[i].kind = "query" /\ StillAsked(waiting'[i])
      BY <2>4, <3>1
    <3>3. waiting'[i].query # active'.query
      BY <2>1, <2>2, <3>1 DEF Wire
    <3>4. ASSUME NEW j \in 1 .. Len(waiting'), i # j PROVE waiting'[i].query # waiting'[j].query
      <4>1. waiting'[j] = waiting[j + 1] /\ j + 1 \in 1 .. Len(waiting) /\ j + 1 # i + 1
        BY <2>2, <2>3, <3>4
      <4> QED
        BY <3>1, <4>1 DEF Wire
    <3> QED
      BY <3>2, <3>3, <3>4
  <2> QED
    BY <2>5, <2>6, WireQueries
<1> QED
  BY <1>2, <1>3

LEMMA WireIssue ==
  ASSUME TypeOK, Tree, Chain, Wire, NEW s \in Scopes, NEW q \in Queries,
         answer[q] = "none", IssueQuery(s, q)
  PROVE  Wire'
<1>1. phase[s] = "running" /\ phase' = phase /\ issuer[q] = NoScope
  BY DEF IssueQuery, Accepts
<1>2. \A d \in Scopes : Open(d) => d \in within[s]
  BY <1>1, Innermost DEF IssueQuery, Accepts, Open, Ended
<1>3. issuer'[q] = s /\ \A r \in Queries : r # q => issuer'[r] = issuer[r] /\ answer'[r] = answer[r]
  BY DEF IssueQuery, TypeOK
<1>4. active # NoStatement => active.kind = "query"
  BY <1>1, <1>2, NoControl
<1>5. ASSUME NEW st, Asked(st), st.scope \in Scopes PROVE StillAsked(st) /\ st.query # q
  BY <1>1, <1>3, <1>5 DEF Asked, StillAsked, NoScope, Scopes
<1>6. active # NoStatement => active.kind = "query" /\ StillAsked(active) /\ active.query # q
  BY <1>4, <1>5, ActiveScope DEF Wire
<1>7. ASSUME NEW i \in 1 .. Len(waiting)
      PROVE  waiting[i].kind = "query" /\ StillAsked(waiting[i]) /\ waiting[i].query # q
  <2>1. waiting[i] \in Statement
    BY <1>7, QueueTypes
  <2> QED
    BY <1>5, <1>7, <2>1 DEF Wire, Statement
<1>8. CASE UNCHANGED queue
  <2>1. active' = active /\ waiting' = waiting
    BY <1>8 DEF queue
  <2>2. CASE active = NoStatement
    BY <2>1, <2>2, WireEmpty DEF Wire
  <2>3. CASE active # NoStatement
    <3>1. active'.kind = "query" /\ StillAsked(active')
      BY <1>6, <2>1, <2>3
    <3>2. \A i \in 1 .. Len(waiting') :
            /\ waiting'[i].kind = "query"
            /\ StillAsked(waiting'[i])
            /\ waiting'[i].query # active'.query
            /\ \A j \in 1 .. Len(waiting') : i # j => waiting'[i].query # waiting'[j].query
      BY <1>7, <2>1 DEF Wire
    <3> QED
      BY <3>1, <3>2, WireQueries
  <2> QED
    BY <2>2, <2>3
<1>9. CASE Room
  <2>1. Enqueue(Query(s, q)) /\ answer' = answer
    BY <1>9 DEF IssueQuery
  <2>2. Query(s, q).kind = "query" /\ Query(s, q).query = q /\ StillAsked(Query(s, q))
    BY <1>3, <2>1 DEF Query, StillAsked
  <2>3. CASE active = NoStatement
    <3>1. active' = Query(s, q) /\ waiting' = <<>>
      BY <2>1, <2>3 DEF Enqueue, Wire
    <3>2. Len(waiting') = 0
      BY <3>1
    <3> QED
      BY <2>2, <3>1, <3>2, WireQueries
  <2>4. CASE active # NoStatement
    <3>1. active' = active /\ waiting' = Append(waiting, Query(s, q))
      BY <2>1, <2>4 DEF Enqueue
    <3>2. /\ Len(waiting') = Len(waiting) + 1 /\ Len(waiting) \in Nat
          /\ waiting'[Len(waiting) + 1] = Query(s, q)
          /\ \A i \in 1 .. Len(waiting) : waiting'[i] = waiting[i]
      BY <3>1, QueueTypes
    <3>3. ASSUME NEW i \in 1 .. Len(waiting')
          PROVE  /\ waiting'[i].kind = "query" /\ StillAsked(waiting'[i])
                 /\ waiting'[i].query # active'.query
                 /\ \A j \in 1 .. Len(waiting') : i # j => waiting'[i].query # waiting'[j].query
      <4>1. CASE i = Len(waiting) + 1
        <5>1. \A j \in 1 .. Len(waiting') : i # j => j \in 1 .. Len(waiting)
          BY <3>2, <4>1
        <5> QED
          BY <1>6, <1>7, <2>2, <2>4, <3>1, <3>2, <4>1, <5>1
      <4>2. CASE i # Len(waiting) + 1
        <5>1. i \in 1 .. Len(waiting) /\ waiting'[i] = waiting[i]
          BY <3>2, <3>3, <4>2
        <5>2. \A j \in 1 .. Len(waiting') : j \in 1 .. Len(waiting) \/ j = Len(waiting) + 1
          BY <3>2
        <5>3. waiting'[i].query # q
          BY <1>7, <5>1
        <5> QED
          BY <1>7, <2>2, <3>1, <3>2, <5>1, <5>2, <5>3 DEF Wire
      <4> QED
        BY <4>1, <4>2
    <3>4. active'.kind = "query" /\ StillAsked(active')
      BY <1>6, <2>4, <3>1
    <3> QED
      BY <3>3, <3>4, WireQueries
  <2> QED
    BY <2>3, <2>4
<1> QED
  BY <1>8, <1>9 DEF IssueQuery

\* A statement that nobody disturbs: its issuer, its answer and its phase stay.
LEMMA WireKept ==
  ASSUME Wire, UNCHANGED <<active, waiting, issuer>>,
         active.kind = "query" => answer'[active.query] = answer[active.query],
         \A i \in 1 .. Len(waiting) : answer'[waiting[i].query] = answer[waiting[i].query],
         active.kind \in Kinds \ {"query"} => phase'[active.scope] = phase[active.scope]
  PROVE  Wire'
<1>1. CASE active.kind = "query"
  <2>1. StillAsked(active') /\ active'.kind = "query"
    BY <1>1 DEF Wire, Asked, StillAsked
  <2>2. \A i \in 1 .. Len(waiting') :
          /\ waiting'[i].kind = "query"
          /\ StillAsked(waiting'[i])
          /\ waiting'[i].query # active'.query
          /\ \A j \in 1 .. Len(waiting') : i # j => waiting'[i].query # waiting'[j].query
    BY DEF Wire, Asked, StillAsked
  <2> QED
    BY <2>1, <2>2, WireQueries
<1>2. CASE active.kind # "query"
  <2>1. waiting' = <<>> /\ Len(waiting') = 0
    BY <1>2 DEF Wire
  <2> QED
    BY <1>2, <2>1 DEF Wire, Kinds
<1> QED
  BY <1>1, <1>2

LEMMA WireStep == IInv /\ [Next]_vars => Wire'
<1> SUFFICES ASSUME IInv, [Next]_vars PROVE Wire'
  OBVIOUS
<1>0. TypeOK /\ Tree /\ Chain /\ Unanswered /\ Wire
  BY DEF IInv
<1>a. active # NoStatement => active.scope \in Scopes /\ active.kind \in Kinds
  BY <1>0, ActiveScope
<1>b. active.kind \in Kinds \ {"query"} =>
        active # NoStatement /\ phase[active.scope] \in {"marking", "undoing", "committing"}
  BY <1>0 DEF Wire, Kinds, NoStatement
<1>1. CASE Begin
  <2>1. active' = Control("begin", Root) /\ waiting' = <<>>
    BY <1>0, <1>1, BeginFree DEF Begin, Enqueue
  <2>2. phase'[Root] = "marking"
    BY <1>0, <1>1, RootFirst DEF Begin, Enter, TypeOK
  <2> QED
    BY <2>1, <2>2 DEF Wire, Control, NoStatement
<1>2. ASSUME NEW s \in Scopes, NEW q \in Queries, IssueQuery(s, q) PROVE Wire'
  <2>1. answer[q] = "none"
    BY <1>0, <1>2 DEF IssueQuery, Unanswered
  <2> QED
    BY <1>0, <1>2, <2>1, WireIssue
<1>3. ASSUME NEW p \in Scopes, NEW c \in Scopes, OpenSavepoint(p, c) PROVE Wire'
  <2>1. UNCHANGED <<active, waiting, issuer, answer>> /\ phase[c] = "none"
    BY <1>3 DEF OpenSavepoint, queue
  <2>2. \A s \in Scopes : s # c => phase'[s] = phase[s]
    BY <1>0, <1>3 DEF OpenSavepoint, Enter, TypeOK
  <2> QED
    BY <1>0, <1>a, <1>b, <2>1, <2>2, WireKept
<1>4. ASSUME NEW p \in Scopes, NEW c \in Scopes, Mark(p, c) PROVE Wire'
  <2>1. active' = Control("savepoint", c) /\ waiting' = <<>>
    BY <1>0, <1>4, MarkFree DEF Mark, Enqueue
  <2>2. phase'[c] = "marking" /\ c # Root
    BY <1>0, <1>4 DEF Mark, Enter, TypeOK, Chain
  <2> QED
    BY <2>1, <2>2 DEF Wire, Control, NoStatement
<1>5. ASSUME NEW s \in Scopes, NEW how \in {"returned", "threw"}, EndCallback(s, how)
      PROVE Wire'
  <2>1. UNCHANGED <<active, waiting, issuer, answer>> /\ phase[s] = "running"
    BY <1>5 DEF EndCallback, queue
  <2>2. \A t \in Scopes : t # s => phase'[t] = phase[t]
    BY <1>0, <1>5 DEF EndCallback, Enter, TypeOK
  <2> QED
    BY <1>0, <1>a, <1>b, <2>1, <2>2, WireKept
<1>6. ASSUME NEW s \in Scopes, Conclude(s) PROVE Wire'
  <2>1. active = NoStatement /\ waiting = <<>>
    BY <1>0, <1>6, JoinedFree DEF Conclude
  <2>2. CASE UNCHANGED queue
    BY <2>1, <2>2, WireEmpty DEF queue
  <2>3. CASE s = Root /\ Enter(s, "committing") /\ Enqueue(Control("commit", s))
    <3>1. active' = Control("commit", Root) /\ waiting' = <<>> /\ phase'[Root] = "committing"
      BY <1>0, <2>1, <2>3 DEF Enter, TypeOK, Enqueue
    <3> QED
      BY <3>1 DEF Wire, Control, NoStatement
  <2>4. CASE /\ Enter(s, "undoing")
             /\ Enqueue(Control(IF s = Root THEN "rollback" ELSE "rollbackTo", s))
    <3>1. /\ active' = Control(IF s = Root THEN "rollback" ELSE "rollbackTo", s)
          /\ waiting' = <<>> /\ phase'[s] = "undoing"
      BY <1>0, <2>1, <2>4 DEF Enter, TypeOK, Enqueue
    <3> QED
      BY <3>1 DEF Wire, Control, NoStatement
  <2> QED
    BY <1>6, <2>2, <2>3, <2>4 DEF Conclude
<1>7. ASSUME NEW s \in Scopes, Unwind(s) PROVE Wire'
  <2>1. active = NoStatement /\ UNCHANGED queue
    BY <1>7 DEF Unwind, IInv, Ending
  <2> QED
    BY <1>0, <2>1, WireEmpty DEF Wire, queue
<1>8. CASE AnswerBegin \/ AnswerSavepoint \/ AnswerRollbackTo \/ AnswerCommit \/ AnswerRollback
  <2>1. PICK kind \in Kinds \ {"query"} : Answered(kind)
    BY <1>8 DEF AnswerBegin, AnswerSavepoint, AnswerRollbackTo, AnswerCommit, AnswerRollback, Kinds
  <2> QED
    BY <1>0, <2>1, ControlAnswered, WireEmpty
<1>9. CASE AnswerQuery
  <2>1. Answered("query") /\ UNCHANGED <<phase, issuer>>
    BY <1>9 DEF AnswerQuery
  <2>2. PICK a \in {"ok", "failed"} : answer' = [answer EXCEPT ![active.query] = a]
    BY <1>9 DEF AnswerQuery
  <2>3. \A q \in Queries : q # active.query => answer'[q] = answer[q]
    BY <1>0, <2>2 DEF TypeOK
  <2> QED
    BY <1>0, <2>1, <2>3, WirePump
<1>10. CASE Stop
  <2>1. active' = active /\ waiting' = <<>> /\ Len(waiting') = 0 /\ UNCHANGED <<phase, issuer>>
    BY <1>10 DEF Stop
  <2>2. CASE active.kind = "query"
    <3>1. \A i \in 1 .. Len(waiting) : waiting[i].query # active.query
      BY <1>0 DEF Wire
    <3>2. answer'[active.query] = answer[active.query]
      BY <1>0, <1>10, <2>2, <3>1 DEF Stop, Rejected, Wire, Asked
    <3>3. StillAsked(active')
      BY <1>0, <2>1, <2>2, <3>2 DEF Wire, Asked, StillAsked
    <3> QED
      BY <2>1, <2>2, <3>3, WireQueries
  <2>3. CASE active.kind # "query"
    BY <1>0, <2>1, <2>3 DEF Wire
  <2> QED
    BY <2>2, <2>3
<1>11. CASE Close
  <2>1. waiting = <<>>
    BY <1>11 DEF Close, IInv, Ending
  <2> QED
    BY <1>11, <2>1, WireEmpty DEF Close
<1>12. CASE Tell \/ TellStopped \/ Settle \/ UNCHANGED vars
  <2>1. UNCHANGED <<phase, issuer, answer, active, waiting>>
    BY <1>12 DEF Tell, TellStopped, Settle, vars, callers, queue
  <2> QED
    BY <1>0, <2>1, WireKept
<1> QED
  BY <1>1, <1>2, <1>3, <1>4, <1>5, <1>6, <1>7, <1>8, <1>9, <1>10, <1>11, <1>12 DEF Next, Answer

\* What a scope remembers, while it goes on to a phase in which it may not
\* succeed and has not forgotten.
LEMMA RememberedEnter ==
  ASSUME TypeOK, Remembered, NEW s \in Scopes, NEW p \in Phases, Enter(s, p),
         UNCHANGED <<issuer, answer, failed, remote, stopped, closed>>,
         p \in {"succeeded", "committing"} =>
           \A q \in Queries : issuer[q] = s => answer[q] = "ok",
         \/ closed
         \/ failed[s] /\ phase[s] \in Calling \union {"undoing"} => p \in Calling \union {"undoing"}
  PROVE  Remembered'
<1>1. phase'[s] = p /\ \A t \in Scopes : t # s => phase'[t] = phase[t]
  BY DEF Enter, TypeOK
<1>2. \A q \in Queries : issuer[q] \in Scopes \union {NoScope}
  BY DEF TypeOK
<1>3. ASSUME NEW q \in Queries, issuer[q] # NoScope,
             \/ phase'[issuer[q]] \in {"succeeded", "committing"}
             \/ issuer[q] = Root /\ remote = "committed"
      PROVE  answer[q] = "ok"
  BY <1>1, <1>2, <1>3 DEF Remembered
<1>4. ~closed /\ remote = "aborted" =>
        \E t \in Scopes : failed[t] /\ phase'[t] \in Calling \union {"undoing"}
  BY <1>1 DEF Remembered
<1> QED
  BY <1>3, <1>4 DEF Remembered

LEMMA RememberedStep == IInv /\ [Next]_vars => Remembered'
<1> SUFFICES ASSUME IInv, [Next]_vars PROVE Remembered'
  OBVIOUS
<1>0. TypeOK /\ Tree /\ Chain /\ Unanswered /\ Wire /\ Remembered
  BY DEF IInv
<1>a. \A q \in Queries : issuer[q] \in Scopes \union {NoScope}
  BY <1>0 DEF TypeOK
<1> USE DEF Phases
<1>1. CASE Begin
  <2>1. \A s \in Scopes : phase[s] = "none"
    BY <1>0, <1>1, RootOfAll DEF Begin
  <2>2. \A q \in Queries : issuer[q] = NoScope /\ answer[q] = "none"
    BY <1>0, <2>1 DEF Unanswered, TypeOK, Unentered
  <2>3. remote' = "none" /\ UNCHANGED <<issuer, answer>>
    BY <1>1 DEF Begin, database, IInv, Ends
  <2> QED
    BY <2>2, <2>3 DEF Remembered
<1>2. ASSUME NEW s \in Scopes, NEW q \in Queries, IssueQuery(s, q) PROVE Remembered'
  <2>1. phase[s] = "running" /\ UNCHANGED <<phase, remote, stopped, closed>>
    BY <1>2 DEF IssueQuery, Accepts, database, lifetime
  <2>2. \A r \in Queries : r # q => issuer'[r] = issuer[r] /\ answer'[r] = answer[r]
    BY <1>0, <1>2 DEF IssueQuery, TypeOK
  <2>3. issuer'[q] = s /\ answer[q] = "none"
    BY <1>0, <1>2 DEF IssueQuery, TypeOK, Unanswered
  <2>4. /\ \A t \in Scopes : failed[t] => failed'[t]
        /\ answer'[q] = "failed" => failed'[s]
    BY <1>0, <1>2, <2>3 DEF IssueQuery, TypeOK
  <2>5. s = Root => remote # "committed"
    BY <2>1 DEF IInv, Ends
  <2>6. ASSUME NEW r \in Queries, answer'[r] = "failed", ~stopped PROVE failed'[issuer'[r]]
    <3>1. CASE r = q
      BY <2>3, <2>4, <2>6, <3>1
    <3>2. CASE r # q
      <4>1. answer[r] = "failed" /\ issuer'[r] = issuer[r]
        BY <2>2, <2>6, <3>2
      <4>2. failed[issuer[r]] /\ issuer[r] \in Scopes
        BY <1>0, <1>a, <2>6, <4>1 DEF Remembered, Unanswered
      <4> QED
        BY <2>4, <4>1, <4>2
    <3> QED
      BY <3>1, <3>2
  <2>7. ~closed /\ remote = "aborted" =>
          \E t \in Scopes : failed'[t] /\ phase[t] \in Calling \union {"undoing"}
    BY <1>0, <2>4 DEF Remembered
  <2>8. ASSUME NEW r \in Queries, issuer'[r] # NoScope,
               \/ phase[issuer'[r]] \in {"succeeded", "committing"}
               \/ issuer'[r] = Root /\ remote = "committed"
        PROVE  answer'[r] = "ok"
    BY <1>0, <2>1, <2>2, <2>3, <2>5, <2>8 DEF Remembered
  <2> QED
    BY <2>1, <2>6, <2>7, <2>8 DEF Remembered
<1>3. ASSUME NEW p \in Scopes, NEW c \in Scopes, OpenSavepoint(p, c) PROVE Remembered'
  BY <1>0, <1>3, RememberedEnter DEF OpenSavepoint, database, lifetime, Calling
<1>4. ASSUME NEW p \in Scopes, NEW c \in Scopes, Mark(p, c) PROVE Remembered'
  BY <1>0, <1>4, RememberedEnter DEF Mark, database, lifetime, Calling
<1>5. ASSUME NEW s \in Scopes, NEW how \in {"returned", "threw"}, EndCallback(s, how)
      PROVE Remembered'
  BY <1>0, <1>5, RememberedEnter DEF EndCallback, database, lifetime, Calling
<1>6. ASSUME NEW s \in Scopes, Conclude(s) PROVE Remembered'
  <2>1. PICK p \in {"committing", "succeeded", "undoing"} :
          Enter(s, p) /\ (p # "undoing" => ~failed[s])
    BY <1>6 DEF Conclude, Succeeds
  <2>2. UNCHANGED <<issuer, answer, failed, remote, stopped, closed>> /\ ~stopped
    BY <1>6 DEF Conclude, database, lifetime
  <2>3. p # "undoing" => \A q \in Queries : issuer[q] = s => answer[q] = "ok"
    <3> SUFFICES ASSUME p # "undoing", NEW q \in Queries, issuer[q] = s PROVE answer[q] = "ok"
      OBVIOUS
    <3>1. answer[q] # "none"
      BY <1>6 DEF Conclude, Joined, Drained
    <3>2. answer[q] # "failed"
      BY <1>0, <2>1, <2>2 DEF Remembered
    <3> QED
      BY <1>0, <3>1, <3>2 DEF TypeOK, Answers
  <2> QED
    BY <1>0, <2>1, <2>2, <2>3, RememberedEnter
<1>7. ASSUME NEW s \in Scopes, Unwind(s) PROVE Remembered'
  BY <1>0, <1>7, RememberedEnter DEF Unwind, database, lifetime
<1>8. CASE AnswerBegin
  <2>1. \A q \in Queries : issuer[q] # Root
    BY <1>0, <1>8 DEF AnswerBegin, Answered, Wire, Unanswered, Unentered, Root, NoScope
  <2>2. remote' # "aborted" /\ UNCHANGED <<issuer, answer, failed, stopped>>
    BY <1>0, <1>8 DEF AnswerBegin, Answered, Wire, IInv, Ends, lifetime
  <2>3. \A t \in Scopes : t # Root => phase'[t] = phase[t]
    BY <1>0, <1>8 DEF AnswerBegin, Enter, TypeOK
  <2> QED
    BY <1>0, <1>a, <2>1, <2>2, <2>3 DEF Remembered
<1>9. CASE AnswerQuery
  <2>1. Asked(active) /\ active.scope \in Scopes /\ UNCHANGED <<phase, issuer, stopped, closed>>
    BY <1>0, <1>9, AnsweredActive DEF AnswerQuery, Answered, Wire, lifetime, Kinds
  <2>2. phase[active.scope] \in Calling /\ active.query \in Queries /\ issuer[active.query] = active.scope
    BY <1>0, <2>1 DEF Unanswered, Asked, NoScope, Scopes
  <2>3. active.scope = Root => remote # "committed"
    BY <2>2 DEF IInv, Ends, Calling
  <2>4. \A q \in Queries : q # active.query => answer'[q] = answer[q]
    BY <1>0, <1>9 DEF AnswerQuery, TypeOK
  <2>5. remote' = "committed" => remote = "committed"
    BY <1>9 DEF AnswerQuery
  <2>6. /\ \A t \in Scopes : failed[t] => failed'[t]
        /\ answer'[active.query] = "failed" => failed'[active.scope]
        /\ remote' = "aborted" => failed'[active.scope]
    BY <1>0, <1>9, <2>1, <2>2 DEF AnswerQuery, TypeOK
  <2>7. ASSUME NEW q \in Queries, answer'[q] = "failed", ~stopped PROVE failed'[issuer[q]]
    <3>1. q # active.query => issuer[q] \in Scopes
      BY <1>0, <1>a, <2>4, <2>7 DEF Unanswered
    <3> QED
      BY <1>0, <2>2, <2>4, <2>6, <2>7, <3>1 DEF Remembered
  <2>8. ASSUME NEW q \in Queries, issuer[q] # NoScope,
               \/ phase[issuer[q]] \in {"succeeded", "committing"}
               \/ issuer[q] = Root /\ remote' = "committed"
        PROVE  answer'[q] = "ok"
    <3>1. q # active.query
      BY <2>2, <2>3, <2>5, <2>8 DEF Calling
    <3> QED
      BY <1>0, <2>4, <2>5, <2>8, <3>1 DEF Remembered
  <2> QED
    BY <2>1, <2>2, <2>6, <2>7, <2>8 DEF Remembered
<1>10. CASE AnswerSavepoint
  <2> DEFINE c == active.scope
  <2>1. /\ c \in Scopes /\ c # Root /\ phase[c] = "marking" /\ Open(c)
        /\ UNCHANGED <<within, issuer, answer, stopped, closed>>
    BY <1>0, <1>10, ControlAnswered DEF AnswerSavepoint, Answered, Wire, lifetime, Kinds
  <2>2. \A q \in Queries : issuer[q] # c
    BY <1>0, <2>1 DEF Unanswered, Unentered, NoScope, Scopes
  <2>3. \A t \in Scopes : t # c => phase'[t] = phase[t]
    BY <1>0, <1>10 DEF AnswerSavepoint, Enter, TypeOK
  <2>4. \A t \in Scopes : failed[t] => failed'[t]
    BY <1>0, <1>10 DEF AnswerSavepoint, TypeOK
  <2>5. remote' = "committed" => remote = "committed"
    BY <1>10 DEF AnswerSavepoint
  <2>6. PICK p \in Scopes : ChildOf(c, p)
    BY <1>0, <2>1 DEF Tree
  <2>7. phase[p] \in Calling /\ p # c
    BY <1>0, <2>1, <2>6 DEF ChildOf, Chain
  <2>8. remote' = "aborted" => failed'[p]
    BY <1>0, <1>10, <2>6 DEF AnswerSavepoint
  <2>9. \A q \in Queries : answer[q] = "failed" /\ ~stopped => failed'[issuer[q]]
    BY <1>0, <1>a, <2>4 DEF Remembered, Unanswered
  <2> QED
    BY <1>0, <1>a, <2>1, <2>2, <2>3, <2>5, <2>7, <2>8, <2>9 DEF Remembered
<1>11. CASE AnswerRollbackTo
  <2>1. active.scope \in Scopes /\ UNCHANGED <<issuer, answer, failed, stopped>>
        /\ phase' = [phase EXCEPT ![active.scope] = "failed"] /\ remote' = "open"
    BY <1>0, <1>11, ControlAnswered DEF AnswerRollbackTo, Enter, lifetime, Kinds
  <2>2. \A t \in Scopes : phase'[t] = "failed" \/ phase'[t] = phase[t]
    BY <1>0, <2>1 DEF TypeOK
  <2> QED
    BY <1>0, <1>a, <2>1, <2>2 DEF Remembered
<1>12. CASE AnswerCommit
  <2>1. phase[Root] = "committing" /\ UNCHANGED <<issuer, answer, failed, stopped>>
        /\ remote' # "aborted"
    BY <1>0, <1>12 DEF AnswerCommit, Answered, Wire, lifetime
  <2>2. \A t \in Scopes : t # Root => phase'[t] = phase[t]
    BY <1>0, <1>12 DEF AnswerCommit, Enter, TypeOK
  <2>3. \A q \in Queries : issuer[q] = Root => answer[q] = "ok"
    BY <1>0, <2>1 DEF Remembered, Root, NoScope
  <2> QED
    BY <1>0, <1>a, <2>1, <2>2, <2>3 DEF Remembered
<1>13. CASE AnswerRollback
  <2>1. UNCHANGED <<issuer, answer, failed, stopped>> /\ remote' = "rolledBack"
        /\ phase' = [phase EXCEPT ![Root] = "failed"]
    BY <1>13 DEF AnswerRollback, Enter, lifetime
  <2>2. \A t \in Scopes : phase'[t] = "failed" \/ phase'[t] = phase[t]
    BY <1>0, <2>1 DEF TypeOK
  <2> QED
    BY <1>0, <1>a, <2>1, <2>2 DEF Remembered
<1>14. CASE Stop
  <2>1. \A q \in Queries : answer[q] = "ok" => answer'[q] = "ok"
    BY <1>0, <1>14, StopRejects
  <2>2. UNCHANGED <<phase, issuer, failed, remote, closed>> /\ stopped'
    BY <1>14 DEF Stop, database
  <2> QED
    BY <1>0, <2>1, <2>2 DEF Remembered
<1>15. CASE Close
  <2>1. \A q \in Queries : answer[q] = "ok" => answer'[q] = "ok"
    BY <1>0, <1>15, CloseRejects
  <2>2. UNCHANGED <<phase, issuer, failed, stopped>> /\ stopped /\ closed'
    BY <1>15 DEF Close
  <2>3. remote' = "committed" => remote = "committed" \/ phase[Root] = "committing"
    BY <1>0, <1>15 DEF Close, Wire
  <2> QED
    BY <1>0, <2>1, <2>2, <2>3 DEF Remembered
<1>16. CASE Tell \/ TellStopped \/ Settle \/ UNCHANGED vars
  <2>1. UNCHANGED <<phase, issuer, answer, failed, remote, stopped, closed>>
    BY <1>16 DEF Tell, TellStopped, Settle, vars, callers, database, lifetime
  <2> QED
    BY <1>0, <2>1 DEF Remembered
<1> QED
  BY <1>1, <1>2, <1>3, <1>4, <1>5, <1>6, <1>7, <1>8, <1>9, <1>10, <1>11, <1>12, <1>13, <1>14,
     <1>15, <1>16 DEF Next, Answer

LEMMA RootCalling ==
  ASSUME Tree, Chain, NEW s \in Scopes, Open(s), s # Root
  PROVE  phase[Root] \in Calling
  BY RootFirst DEF Tree, Chain, Open

\* A scope goes on without having failed, or one without queries fails.
LEMMA HeldEnter ==
  ASSUME TypeOK, Held, NEW s \in Scopes, NEW p \in Phases, Enter(s, p),
         UNCHANGED <<within, issuer, answer, effects, marks, since, closed>>,
         closed => remote' = remote,
         s # Root /\ p \in Calling \union {"undoing"} => phase[s] \in Calling \union {"undoing"},
         \/ s = Root \/ p # "failed"
         \/ \A q \in Queries : issuer[q] # NoScope => s \notin within[issuer[q]]
         \/ closed /\ remote # "committed",
         phase[s] # "failed"
  PROVE  Held'
<1>1. phase'[s] = p /\ \A t \in Scopes : t # s => phase'[t] = phase[t]
  BY DEF Enter, TypeOK
<1>2. \A c \in Scopes : Saved(c)' => Saved(c)
  BY <1>1 DEF Saved
<1>3. CASE closed /\ remote # "committed"
  BY <1>3 DEF Held
<1>4. CASE ~(closed /\ remote # "committed")
  <2>1. ASSUME NEW q \in Queries, issuer[q] # NoScope PROVE Unfailed(q)' <=> Unfailed(q)
    <3>1. within[issuer[q]] \subseteq Scopes
      BY <2>1 DEF TypeOK
    <3> QED
      BY <1>1, <1>4, <2>1, <3>1 DEF Unfailed
  <2> QED
    BY <1>2, <1>4, <2>1 DEF Held
<1> QED
  BY <1>3, <1>4

\* Nothing that is held changes.
LEMMA HeldKept ==
  ASSUME Held, UNCHANGED <<phase, within, issuer, effects, marks, since>>,
         closed => closed' /\ remote' = remote,
         \A q \in Queries : answer'[q] = "ok" <=> answer[q] = "ok"
  PROVE  Held'
  BY DEF Held, Unfailed, Saved

LEMMA HeldStep == IInv /\ [Next]_vars => Held'
<1> SUFFICES ASSUME IInv, [Next]_vars PROVE Held'
  OBVIOUS
<1>0. TypeOK /\ Tree /\ Chain /\ Unanswered /\ Wire /\ Held /\ (closed => stopped)
  BY DEF IInv, Ending
<1>a. \A q \in Queries : issuer[q] \in Scopes \union {NoScope}
  BY <1>0 DEF TypeOK
<1>b. \A s \in Scopes : within[s] \subseteq Scopes
  BY <1>0 DEF TypeOK
<1>c. \A q \in Queries : answer[q] = "none" => answer[q] # "ok"
  OBVIOUS
<1> USE DEF Phases
<1>1. CASE Begin
  <2>1. \A s \in Scopes : phase[s] = "none"
    BY <1>0, <1>1, RootOfAll DEF Begin
  <2>2. \A q \in Queries : issuer[q] = NoScope
    BY <1>0, <2>1 DEF Unanswered, TypeOK, Unentered
  <2>3. \A s \in Scopes : s # Root => phase'[s] = "none"
    BY <1>0, <1>1, <2>1 DEF Begin, Enter, TypeOK
  <2>4. UNCHANGED <<issuer, effects>> /\ ~closed
    BY <1>0, <1>1 DEF Begin, database
  <2> QED
    BY <1>0, <2>2, <2>3, <2>4 DEF Held, Saved, Calling
<1>2. ASSUME NEW s \in Scopes, NEW q \in Queries, IssueQuery(s, q) PROVE Held'
  <2>1. /\ UNCHANGED <<phase, within, effects, marks, since, remote, closed>> /\ ~closed
        /\ issuer[q] = NoScope
    BY <1>0, <1>2 DEF IssueQuery, Accepts, database, lifetime
  <2>2. \A r \in Queries : r # q => issuer'[r] = issuer[r] /\ answer'[r] = answer[r]
    BY <1>0, <1>2 DEF IssueQuery, TypeOK
  <2>3. answer'[q] # "ok" /\ q \notin effects
    BY <1>0, <1>2, <2>1 DEF IssueQuery, TypeOK, Unanswered, Held
  <2>4. \A r \in Queries : r # q => (Unfailed(r)' <=> Unfailed(r))
    BY <2>1, <2>2 DEF Unfailed
  <2>5. \A c \in Scopes : Saved(c)' <=> Saved(c)
    BY <2>1 DEF Saved
  <2>6. \A c \in Scopes : Saved(c) => q \notin since[c]
    BY <1>0, <2>1, <2>3 DEF Held
  <2> QED
    BY <1>0, <2>1, <2>2, <2>3, <2>4, <2>5, <2>6 DEF Held
<1>3. ASSUME NEW p \in Scopes, NEW c \in Scopes, OpenSavepoint(p, c) PROVE Held'
  <2>1. phase[c] = "none" /\ UNCHANGED <<issuer, answer, effects, marks, since, remote, closed>>
    BY <1>3 DEF OpenSavepoint, database, lifetime
  <2>2. \A s \in Scopes : s # c => phase'[s] = phase[s] /\ within'[s] = within[s]
    BY <1>0, <1>3 DEF OpenSavepoint, Enter, TypeOK
  <2>3. phase'[c] = "opening"
    BY <1>0, <1>3 DEF OpenSavepoint, Enter, TypeOK
  <2>4. \A s \in Scopes : c \notin within[s]
    BY <1>0, <2>1 DEF Tree, Unentered
  <2>5. \A q \in Queries : issuer[q] # NoScope => issuer[q] \in Scopes /\ issuer[q] # c
    BY <1>0, <1>a, <2>1 DEF Unanswered, Unentered
  <2>6. ASSUME NEW q \in Queries, issuer[q] # NoScope PROVE Unfailed(q)' <=> Unfailed(q)
    BY <1>b, <2>1, <2>2, <2>4, <2>5, <2>6 DEF Unfailed
  <2>7. \A s \in Scopes : Saved(s)' => Saved(s)
    BY <2>2, <2>3 DEF Saved, Calling
  <2> QED
    BY <1>0, <2>1, <2>2, <2>5, <2>6, <2>7 DEF Held
<1>4. ASSUME NEW p \in Scopes, NEW c \in Scopes, Mark(p, c) PROVE Held'
  BY <1>0, <1>4, HeldEnter DEF Mark, database, lifetime, Calling
<1>5. ASSUME NEW s \in Scopes, NEW how \in {"returned", "threw"}, EndCallback(s, how)
      PROVE Held'
  BY <1>0, <1>5, HeldEnter DEF EndCallback, database, lifetime, Calling
<1>6. ASSUME NEW s \in Scopes, Conclude(s) PROVE Held'
  <2>1. PICK p \in {"committing", "succeeded", "undoing"} : Enter(s, p)
    BY <1>6 DEF Conclude
  <2>2. UNCHANGED <<within, issuer, answer, effects, marks, since, remote, closed>>
        /\ phase[s] \in Calling
    BY <1>6 DEF Conclude, Joined, database, lifetime, Calling
  <2> QED
    BY <1>0, <2>1, <2>2, HeldEnter DEF Calling
<1>7. ASSUME NEW s \in Scopes, Unwind(s) PROVE Held'
  <2>1. Enter(s, "failed") /\ closed /\ Open(s)
        /\ UNCHANGED <<within, issuer, answer, effects, marks, since, remote, closed>>
    BY <1>7 DEF Unwind, Joined, Open, Ended, database, lifetime
  <2>2. s # Root => remote # "committed"
    BY <1>0, <2>1, RootCalling DEF IInv, Ends, Calling
  <2> QED
    BY <1>0, <2>1, <2>2, HeldEnter DEF Open, Ended, Calling
<1>8. CASE AnswerBegin \/ AnswerCommit \/ AnswerRollback
  <2>1. ~stopped /\ UNCHANGED <<within, issuer, answer, effects, marks, since, closed>>
    BY <1>8 DEF AnswerBegin, AnswerCommit, AnswerRollback, Answered, lifetime
  <2>2. PICK p \in {"running", "failed", "succeeded", "threw"} : Enter(Root, p)
    BY <1>8 DEF AnswerBegin, AnswerCommit, AnswerRollback
  <2>3. phase[Root] # "failed"
    BY <1>0, <1>8 DEF AnswerBegin, AnswerCommit, AnswerRollback, Answered, Wire
  <2> QED
    BY <1>0, <2>1, <2>2, <2>3, RootFirst, HeldEnter
<1>9. CASE AnswerQuery
  <2> DEFINE q == active.query
  <2>1. /\ q \in Queries /\ issuer[q] = active.scope /\ active.scope \in Scopes
        /\ answer[q] = "none" /\ issuer[q] # NoScope
    BY <1>0, <1>9, AnsweredActive DEF AnswerQuery, Answered, Wire, Asked, Kinds, NoScope, Scopes
  <2>2. UNCHANGED <<phase, within, issuer, marks, closed>> /\ ~closed
    BY <1>0, <1>9 DEF AnswerQuery, Answered, lifetime
  <2>3. CASE answer' = [answer EXCEPT ![q] = "failed"] /\ UNCHANGED <<effects, since>>
    <3>1. \A r \in Queries : answer'[r] = "ok" <=> answer[r] = "ok"
      BY <1>0, <2>1, <2>3 DEF TypeOK
    <3> QED
      BY <1>0, <2>2, <2>3, <3>1, HeldKept
  <2>4. CASE /\ answer' = [answer EXCEPT ![q] = "ok"]
             /\ effects' = effects \union {q}
             /\ since' = [m \in Scopes |->
                  IF m \in marks THEN since[m] \union {q} ELSE since[m]]
    <3>1. \A r \in Queries : answer'[r] = "ok" <=> answer[r] = "ok" \/ r = q
      BY <1>0, <2>1, <2>4 DEF TypeOK
    <3>2. \A r \in Queries : Unfailed(r)' <=> Unfailed(r)
      BY <2>2 DEF Unfailed
    <3>3. phase[issuer[q]] \in Calling /\ Open(issuer[q])
      BY <1>0, <2>1 DEF Unanswered, Open, Calling, Ended
    <3>4. Unfailed(q)
      BY <1>0, <2>1, <3>3 DEF Unfailed, Chain, Calling
    <3>5. \A c \in Scopes : Saved(c) => c \in within[issuer[q]]
      BY <1>0, <2>1 DEF Unanswered, Saved, Open, Ended, Calling
    <3>6. \A c \in Scopes : Saved(c)' <=> Saved(c)
      BY <2>2 DEF Saved
    <3>7. \A c \in Scopes : Saved(c) => c \in marks /\ since'[c] = since[c] \union {q}
      BY <1>0, <2>2, <2>4 DEF Held
    <3>8. ASSUME NEW c \in Scopes, Saved(c), NEW r \in Queries
          PROVE  r \in since'[c] <=> r \in effects' /\ issuer[r] # NoScope /\ c \in within[issuer[r]]
      BY <1>0, <2>1, <2>2, <2>4, <3>5, <3>7, <3>8 DEF Held
    <3>9. ASSUME NEW r \in Queries
          PROVE  /\ r \in effects' => issuer[r] # NoScope /\ Unfailed(r)
                 /\ issuer[r] # NoScope /\ answer'[r] = "ok" /\ Unfailed(r) => r \in effects'
      BY <1>0, <2>1, <2>2, <2>4, <3>1, <3>4 DEF Held
    <3> QED
      BY <2>2, <3>2, <3>6, <3>7, <3>8, <3>9 DEF Held
  <2> QED
    BY <1>9, <2>3, <2>4 DEF AnswerQuery
<1>10. CASE AnswerSavepoint
  <2> DEFINE c == active.scope
  <2>1. /\ c \in Scopes /\ c # Root /\ phase[c] = "marking" /\ ~closed
        /\ UNCHANGED <<within, issuer, answer, effects, closed>>
    BY <1>0, <1>10, ControlAnswered DEF AnswerSavepoint, Answered, Wire, lifetime, Kinds
  <2>2. \A q \in Queries : issuer[q] # NoScope => c \notin within[issuer[q]]
    <3> SUFFICES ASSUME NEW q \in Queries, issuer[q] # NoScope, c \in within[issuer[q]] PROVE FALSE
      OBVIOUS
    <3>1. issuer[q] \in Scopes /\ issuer[q] # c
      BY <1>0, <1>a, <2>1 DEF Unanswered, Unentered
    <3> QED
      BY <1>0, <2>1, <3>1 DEF Tree, Unentered
  <2>3. CASE Enter(c, "failed") /\ UNCHANGED <<marks, since>>
    BY <1>0, <2>1, <2>2, <2>3, HeldEnter DEF Calling
  <2>4. CASE Enter(c, "running") /\ marks' = marks \union {c} /\ since' = [since EXCEPT ![c] = {}]
    <3>1. phase'[c] = "running" /\ \A s \in Scopes : s # c => phase'[s] = phase[s]
      BY <1>0, <2>1, <2>4 DEF Enter, TypeOK
    <3>2. since'[c] = {} /\ \A s \in Scopes : s # c => since'[s] = since[s]
      BY <1>0, <2>1, <2>4 DEF TypeOK
    <3>3. ASSUME NEW q \in Queries, issuer[q] # NoScope PROVE Unfailed(q)' <=> Unfailed(q)
      BY <1>a, <1>b, <2>1, <2>2, <3>1, <3>3 DEF Unfailed
    <3>4. \A s \in Scopes : s # c /\ Saved(s)' => Saved(s)
      BY <3>1 DEF Saved
    <3>5. ASSUME NEW s \in Scopes, Saved(s)'
          PROVE  /\ s \in marks'
                 /\ \A q \in Queries :
                      q \in since'[s] <=> q \in effects /\ issuer[q] # NoScope /\ s \in within[issuer[q]]
      BY <1>0, <2>1, <2>2, <2>4, <3>2, <3>4, <3>5 DEF Held
    <3>6. ASSUME NEW q \in Queries
          PROVE  /\ q \in effects => issuer[q] # NoScope /\ Unfailed(q)'
                 /\ issuer[q] # NoScope /\ answer[q] = "ok" /\ Unfailed(q)' => q \in effects
      BY <1>0, <2>1, <3>3 DEF Held
    <3>7. issuer' = issuer /\ answer' = answer /\ effects' = effects /\ within' = within
      BY <2>1
    <3>8. \A s \in Scopes : Saved(s)' =>
            /\ s \in marks'
            /\ \A q \in Queries :
                 q \in since'[s] <=> q \in effects' /\ issuer'[q] # NoScope /\ s \in within'[issuer'[q]]
      BY <3>5, <3>7
    <3>9. \A q \in Queries :
            /\ q \in effects' => issuer'[q] # NoScope /\ Unfailed(q)'
            /\ issuer'[q] # NoScope /\ answer'[q] = "ok" /\ Unfailed(q)' => q \in effects'
      BY <3>6, <3>7
    <3> QED
      BY <3>8, <3>9 DEF Held
  <2> QED
    BY <1>10, <2>3, <2>4 DEF AnswerSavepoint
<1>11. CASE AnswerRollbackTo
  <2> DEFINE c == active.scope
  <2>1. /\ c \in Scopes /\ c # Root /\ phase[c] = "undoing" /\ ~closed
        /\ UNCHANGED <<within, issuer, answer, closed>>
        /\ \A d \in Scopes : Open(d) => d \in within[c]
    BY <1>0, <1>11, ControlAnswered DEF AnswerRollbackTo, Answered, Wire, lifetime, Kinds
  <2>2. /\ effects' = effects \ since[c]
        /\ marks' = {m \in marks : m <= c}
        /\ since' = [m \in Scopes |-> since[m] \ since[c]]
    BY <1>11 DEF AnswerRollbackTo
  <2>3. phase'[c] = "failed" /\ \A s \in Scopes : s # c => phase'[s] = phase[s]
    BY <1>0, <1>11, <2>1 DEF AnswerRollbackTo, Enter, TypeOK
  <2>4. \A s \in Scopes : Saved(s)' => Saved(s) /\ s # c /\ s \in within[c] /\ s <= c
    BY <1>0, <2>1, <2>3 DEF Saved, Open, Ended, Calling, Tree
  <2>5. \A q \in Queries :
          q \in since[c] <=> q \in effects /\ issuer[q] # NoScope /\ c \in within[issuer[q]]
    BY <1>0, <2>1 DEF Held, Saved
  <2>6. ASSUME NEW q \in Queries, issuer[q] # NoScope
        PROVE  Unfailed(q)' <=> Unfailed(q) /\ c \notin within[issuer[q]]
    BY <1>a, <1>b, <2>1, <2>3, <2>6 DEF Unfailed
  <2>7. ASSUME NEW s \in Scopes, Saved(s)'
        PROVE  /\ s \in marks'
               /\ \A q \in Queries :
                    q \in since'[s] <=> q \in effects' /\ issuer[q] # NoScope /\ s \in within[issuer[q]]
    BY <1>0, <2>1, <2>2, <2>4, <2>7 DEF Held
  <2>8. ASSUME NEW q \in Queries
        PROVE  /\ q \in effects' => issuer[q] # NoScope /\ Unfailed(q)'
               /\ issuer[q] # NoScope /\ answer[q] = "ok" /\ Unfailed(q)' => q \in effects'
    BY <1>0, <2>1, <2>2, <2>5, <2>6 DEF Held
  <2>9. issuer' = issuer /\ answer' = answer /\ within' = within
    BY <1>11 DEF AnswerRollbackTo
  <2>10. \A s \in Scopes : Saved(s)' =>
           /\ s \in marks'
           /\ \A q \in Queries :
                q \in since'[s] <=> q \in effects' /\ issuer'[q] # NoScope /\ s \in within'[issuer'[q]]
    BY <2>7, <2>9
  <2>11. \A q \in Queries :
           /\ q \in effects' => issuer'[q] # NoScope /\ Unfailed(q)'
           /\ issuer'[q] # NoScope /\ answer'[q] = "ok" /\ Unfailed(q)' => q \in effects'
    BY <2>8, <2>9
  <2> QED
    BY <2>10, <2>11 DEF Held
<1>12. CASE Stop
  <2>1. \A q \in Queries : answer'[q] = "ok" <=> answer[q] = "ok"
    BY <1>0, <1>12, StopRejects
  <2>2. UNCHANGED <<phase, within, issuer, effects, marks, since, remote, closed>>
    BY <1>12 DEF Stop, database
  <2> QED
    BY <1>0, <2>1, <2>2, HeldKept
<1>13. CASE Close
  <2>1. \A q \in Queries : answer'[q] = "ok" <=> answer[q] = "ok"
    BY <1>0, <1>13, CloseRejects
  <2>2. UNCHANGED <<phase, within, issuer, effects, marks, since>> /\ ~closed
    BY <1>13 DEF Close
  <2> QED
    BY <1>0, <2>1, <2>2, HeldKept
<1>14. CASE Tell \/ TellStopped \/ Settle \/ UNCHANGED vars
  <2>1. UNCHANGED <<phase, within, issuer, answer, effects, marks, since, remote, closed>>
    BY <1>14 DEF Tell, TellStopped, Settle, vars, callers, database, lifetime
  <2> QED
    BY <1>0, <2>1, HeldKept
<1> QED
  BY <1>1, <1>2, <1>3, <1>4, <1>5, <1>6, <1>7, <1>8, <1>9, <1>10, <1>11, <1>12, <1>13, <1>14
     DEF Next, Answer


\* What another scope does, and what the database does meanwhile, leaves the end
\* of the transaction where it is.
LEMMA EndsKept ==
  ASSUME Ends, phase'[Root] = phase[Root], outcome' = outcome, closed' = closed,
         \/ remote' = remote
         \/ phase[Root] \in Calling /\ remote' \in {"open", "aborted"}
  PROVE  Ends'
  BY DEF Ends, Calling

LEMMA EndsStep == IInv /\ [Next]_vars => Ends'
<1> SUFFICES ASSUME IInv, [Next]_vars PROVE Ends'
  OBVIOUS
<1>0. TypeOK /\ Tree /\ Chain /\ Unanswered /\ Wire /\ Remembered /\ Ends /\ (closed => stopped)
  BY DEF IInv, Ending
<1> USE RootFirst
<1>a. \A s \in Scopes : \A p : Enter(s, p) =>
        IF s = Root THEN phase'[Root] = p ELSE phase'[Root] = phase[Root]
  BY <1>0 DEF Enter, TypeOK
<1>1. CASE Begin
  <2>1. phase[Root] = "none" /\ phase'[Root] = "marking" /\ UNCHANGED <<remote, outcome, closed>>
    BY <1>1, <1>a DEF Begin, database, lifetime
  <2> QED
    BY <1>0, <2>1 DEF Ends
<1>2. ASSUME NEW s \in Scopes, NEW q \in Queries, IssueQuery(s, q) PROVE Ends'
  BY <1>0, <1>2, EndsKept DEF IssueQuery, database, lifetime
<1>3. ASSUME NEW p \in Scopes, NEW c \in Scopes, OpenSavepoint(p, c) PROVE Ends'
  <2>1. c # Root
    BY <1>3, <1>0 DEF OpenSavepoint, Accepts, Tree
  <2> QED
    BY <1>0, <1>3, <1>a, <2>1, EndsKept DEF OpenSavepoint, database, lifetime
<1>4. ASSUME NEW p \in Scopes, NEW c \in Scopes, Mark(p, c) PROVE Ends'
  <2>1. c # Root
    BY <1>0, <1>4 DEF Mark, Chain
  <2> QED
    BY <1>0, <1>4, <1>a, <2>1, EndsKept DEF Mark, database, lifetime
<1>5. ASSUME NEW s \in Scopes, NEW how \in {"returned", "threw"}, EndCallback(s, how)
      PROVE Ends'
  <2>1. phase[s] = "running" /\ Enter(s, how) /\ UNCHANGED <<remote, outcome, closed>>
    BY <1>5 DEF EndCallback, database, lifetime
  <2> QED
    BY <1>0, <1>a, <2>1, EndsKept DEF Ends
<1>6. ASSUME NEW s \in Scopes, Conclude(s) PROVE Ends'
  <2>1. phase[s] \in {"returned", "threw"} /\ UNCHANGED <<remote, outcome, closed>>
    BY <1>6 DEF Conclude, Joined, database, lifetime
  <2>2. CASE s = Root
    <3>1. \/ phase'[Root] = "committing" /\ phase[Root] = "returned"
          \/ phase'[Root] = "undoing"
      BY <1>6, <1>a, <2>2 DEF Conclude, Succeeds
    <3> QED
      BY <1>0, <2>1, <2>2, <3>1 DEF Ends
  <2>3. CASE s # Root
    <3>1. phase'[Root] = phase[Root]
      BY <1>6, <1>a, <2>3 DEF Conclude
    <3> QED
      BY <1>0, <2>1, <3>1, EndsKept
  <2> QED
    BY <2>2, <2>3
<1>7. ASSUME NEW s \in Scopes, Unwind(s) PROVE Ends'
  <2>1. /\ phase[s] \in {"opening", "marking", "committing", "undoing", "returned", "threw"}
        /\ closed /\ Enter(s, "failed") /\ UNCHANGED <<remote, outcome, closed>>
    BY <1>7 DEF Unwind, Joined, database, lifetime
  <2> QED
    BY <1>0, <1>a, <2>1, EndsKept DEF Ends
<1>8. CASE AnswerBegin
  <2>1. phase[Root] = "marking" /\ ~closed /\ UNCHANGED <<outcome, closed>>
    BY <1>0, <1>8 DEF AnswerBegin, Answered, Wire, lifetime
  <2>2. \/ phase'[Root] = "running" /\ remote' = "open"
        \/ phase'[Root] = "failed" /\ remote' = remote
    BY <1>8, <1>a DEF AnswerBegin
  <2> QED
    BY <1>0, <2>1, <2>2 DEF Ends
<1>9. CASE AnswerQuery
  <2>1. active.scope \in Scopes /\ phase[active.scope] \in Calling
    BY <1>0, <1>9, AnsweredActive DEF AnswerQuery, Answered, Wire, Asked, Unanswered, Kinds, NoScope, Scopes
  <2>2. phase[Root] \in Calling
    BY <1>0, <2>1, RootCalling DEF Open, Calling, Ended
  <2>3. UNCHANGED <<phase, outcome, closed>> /\ remote' \in {remote, "aborted"}
    BY <1>9 DEF AnswerQuery, lifetime
  <2> QED
    BY <1>0, <2>2, <2>3, EndsKept
<1>10. CASE AnswerSavepoint
  <2>1. /\ active.scope \in Scopes /\ active.scope # Root /\ Open(active.scope)
        /\ UNCHANGED <<outcome, closed>>
    BY <1>0, <1>10, ControlAnswered DEF AnswerSavepoint, Answered, Wire, lifetime, Kinds
  <2>2. phase[Root] \in Calling
    BY <1>0, <2>1, RootCalling
  <2>3. phase'[Root] = phase[Root] /\ remote' \in {remote, "aborted"}
    BY <1>10, <1>a, <2>1 DEF AnswerSavepoint
  <2> QED
    BY <1>0, <2>1, <2>2, <2>3, EndsKept
<1>11. CASE AnswerRollbackTo
  <2>1. /\ active.scope \in Scopes /\ active.scope # Root /\ Open(active.scope)
        /\ UNCHANGED <<outcome, closed>>
    BY <1>0, <1>11, ControlAnswered DEF AnswerRollbackTo, Answered, Wire, lifetime, Kinds
  <2>2. phase[Root] \in Calling
    BY <1>0, <2>1, RootCalling
  <2>3. phase'[Root] = phase[Root] /\ remote' = "open"
    BY <1>11, <1>a, <2>1 DEF AnswerRollbackTo
  <2> QED
    BY <1>0, <2>1, <2>2, <2>3, EndsKept
<1>12. CASE AnswerCommit
  <2>1. /\ active.scope = Root /\ phase[Root] = "committing" /\ ~closed
        /\ \A d \in Scopes : Open(d) => d \in within[Root]
        /\ UNCHANGED <<outcome, closed>>
    BY <1>0, <1>12, ControlAnswered DEF AnswerCommit, Answered, Wire, lifetime, Kinds
  <2>2. ASSUME remote = "aborted" PROVE FALSE
    <3>1. PICK s \in Scopes : phase[s] \in Calling \union {"undoing"}
      BY <1>0, <2>1, <2>2 DEF Remembered
    <3>2. s \in within[Root]
      BY <2>1, <3>1 DEF Open, Ended, Calling
    <3>3. s <= Root /\ s >= Root /\ s \in Nat
      BY <1>0, <3>2 DEF Tree
    <3>4. s = Root
      BY <3>3 DEF Root
    <3> QED
      BY <2>1, <3>1, <3>4 DEF Calling
  <2>3. remote = "open"
    BY <1>0, <2>1, <2>2 DEF Ends
  <2>4. \/ phase'[Root] = "succeeded" /\ remote' = "committed"
        \/ phase'[Root] = "threw" /\ remote' = "rolledBack"
    BY <1>12, <1>a, <2>3 DEF AnswerCommit
  <2> QED
    BY <1>0, <2>1, <2>4 DEF Ends
<1>13. CASE AnswerRollback
  <2>1. phase[Root] = "undoing" /\ ~closed /\ UNCHANGED <<outcome, closed>>
    BY <1>0, <1>13 DEF AnswerRollback, Answered, Wire, lifetime
  <2>2. phase'[Root] = "failed" /\ remote' = "rolledBack"
    BY <1>13, <1>a DEF AnswerRollback
  <2> QED
    BY <1>0, <2>1, <2>2 DEF Ends
<1>14. CASE Close
  <2>1. /\ ~closed /\ UNCHANGED <<phase, outcome>>
        /\ \/ remote \in {"open", "aborted"} /\ remote' = "rolledBack"
           \/ remote \notin {"open", "aborted"} /\ remote' = remote
           \/ active.kind = "commit" /\ remote = "open" /\ remote' = "committed"
    BY <1>14 DEF Close
  <2>2. active.kind = "commit" => phase[Root] = "committing"
    BY <1>0 DEF Wire
  <2> QED
    BY <1>0, <1>14, <2>1, <2>2 DEF Ends, Close
<1>15. CASE Tell \/ TellStopped
  <2>1. /\ UNCHANGED <<phase, remote, closed>> /\ outcome = "none" /\ phase[Root] \in Ended
        /\ \/ ~closed /\ outcome' = IF phase[Root] = "succeeded" THEN "value" ELSE "error"
           \/ outcome' = "stopped"
    BY <1>0, <1>15 DEF Tell, TellStopped, callers, database
  <2> QED
    BY <1>0, <2>1 DEF Ends, Ended
<1>16. CASE Stop \/ Settle \/ UNCHANGED vars
  BY <1>0, <1>16, EndsKept DEF Stop, Settle, vars, callers, database, lifetime
<1> QED
  BY <1>1, <1>2, <1>3, <1>4, <1>5, <1>6, <1>7, <1>8, <1>9, <1>10, <1>11, <1>12, <1>13, <1>14,
     <1>15, <1>16 DEF Next, Answer

\* Nothing is enabled any more when the resources have settled.
LEMMA NothingLeft ==
  ASSUME IInv, settled, [Next]_vars
  PROVE  UNCHANGED vars
<1>0. stopped /\ closed /\ ~(\E s \in Scopes : Open(s)) /\ (phase[Root] = "none" \/ outcome # "none")
  BY DEF IInv, Ending
<1>1. ASSUME NEW s \in Scopes PROVE phase[s] \in Ended \union {"none"}
  BY <1>0 DEF Open
<1>2. ~Begin /\ ~Answer /\ ~Tell /\ ~Stop /\ ~Close /\ ~TellStopped /\ ~Settle
  BY <1>0, RootFirst DEF Begin, Answer, AnswerBegin, AnswerQuery, AnswerSavepoint, AnswerRollbackTo,
     AnswerCommit, AnswerRollback, Answered, Tell, Stop, Close, TellStopped, Settle, Ended
<1>3. ASSUME NEW s \in Scopes, NEW q \in Queries PROVE ~IssueQuery(s, q)
  BY <1>0 DEF IssueQuery, Accepts
<1>4. ASSUME NEW p \in Scopes, NEW c \in Scopes PROVE ~OpenSavepoint(p, c) /\ ~Mark(p, c)
  BY <1>0 DEF OpenSavepoint, Mark, Accepts
<1>5. ASSUME NEW s \in Scopes, NEW how \in {"returned", "threw"} PROVE ~EndCallback(s, how)
  BY <1>1 DEF EndCallback, Ended
<1>6. ASSUME NEW s \in Scopes PROVE ~Conclude(s) /\ ~Unwind(s)
  BY <1>0, <1>1 DEF Conclude, Unwind, Joined, Ended
<1> QED
  BY <1>2, <1>3, <1>4, <1>5, <1>6 DEF Next

LEMMA EndingStep == IInv /\ [Next]_vars => Ending'
<1> SUFFICES ASSUME IInv, [Next]_vars PROVE Ending'
  OBVIOUS
<1>0. Ending
  BY DEF IInv
<1>1. CASE settled
  <2>1. UNCHANGED <<phase, active, waiting, stopped, closed, settled, outcome>>
    BY <1>1, NothingLeft DEF vars, callers, queue, lifetime
  <2> QED
    BY <1>0, <2>1 DEF Ending, Open
<1>2. CASE ~settled /\ Stop
  BY <1>0, <1>2 DEF Ending, Stop
<1>3. CASE ~settled /\ Close
  BY <1>0, <1>3 DEF Ending, Close
<1>4. CASE ~settled /\ Settle
  BY <1>0, <1>4 DEF Ending, Settle, JoinedAll, Open, callers, queue
<1>5. ASSUME ~settled, UNCHANGED <<queue, stopped, closed, settled>> PROVE Ending'
  BY <1>0, <1>5 DEF Ending, queue
<1>6. ASSUME ~settled, ~stopped, UNCHANGED <<stopped, closed, settled>> PROVE Ending'
  BY <1>0, <1>6 DEF Ending
<1>7. CASE ~settled /\ (Tell \/ TellStopped \/ UNCHANGED vars)
  BY <1>5, <1>7 DEF Tell, TellStopped, vars, lifetime
<1>8. CASE ~settled /\ (Begin \/ Answer)
  BY <1>6, <1>8 DEF Begin, Answer, AnswerBegin, AnswerQuery, AnswerSavepoint, AnswerRollbackTo,
     AnswerCommit, AnswerRollback, Answered, lifetime
<1>9. ASSUME ~settled, NEW s \in Scopes, NEW q \in Queries, IssueQuery(s, q) PROVE Ending'
  BY <1>6, <1>9 DEF IssueQuery, Accepts, lifetime
<1>10. ASSUME ~settled, NEW p \in Scopes, NEW c \in Scopes, OpenSavepoint(p, c) \/ Mark(p, c)
       PROVE Ending'
  BY <1>6, <1>10 DEF OpenSavepoint, Mark, Accepts, lifetime
<1>11. ASSUME ~settled, NEW s \in Scopes, NEW how \in {"returned", "threw"}, EndCallback(s, how)
       PROVE Ending'
  BY <1>5, <1>11 DEF EndCallback, lifetime
<1>12. ASSUME ~settled, NEW s \in Scopes, Unwind(s) PROVE Ending'
  BY <1>5, <1>12 DEF Unwind, lifetime
<1>13. ASSUME ~settled, NEW s \in Scopes, Conclude(s) PROVE Ending'
  BY <1>6, <1>13 DEF Conclude, lifetime
<1> QED
  BY <1>1, <1>2, <1>3, <1>4, <1>7, <1>8, <1>9, <1>10, <1>11, <1>12, <1>13 DEF Next

-----------------------------------------------------------------------------
(* Theorems.                                                                *)

LEMMA Invariance == Spec => []IInv
<1>1. IInv /\ [Next]_vars => IInv'
  BY TypeStep, TreeStep, ChainStep, UnansweredStep, WireStep, RememberedStep, HeldStep, EndsStep,
     EndingStep DEF IInv
<1> QED
  BY <1>1, InitInv, PTL DEF Spec

\* Every variable keeps its type, and the queue of statements its limit,
\* also for the control statements that are not held against it
\* (request-transaction.ts enqueueStatement).
THEOREM TypeCorrect == Spec => []TypeOK
<1>1. IInv => TypeOK
  BY DEF IInv
<1> QED
  BY <1>1, Invariance, PTL

\* A COMMIT, a ROLLBACK or a savepoint statement is alone on the connection:
\* the queue can neither refuse it nor let a query run beside it.
THEOREM ControlsAreAlone == Spec => []ControlsAlone
<1>1. IInv => ControlsAlone
  BY DEF IInv, Wire, ControlsAlone
<1> QED
  BY <1>1, Invariance, PTL

\* Once the database has committed, no scope is open, and the work of each that
\* succeeded was carried out.
LEMMA CommittedWhenEnded == IInv => CommittedIsWhole
<1> SUFFICES ASSUME IInv, remote = "committed"
             PROVE  effects = {q \in Queries :
                      /\ issuer[q] # NoScope
                      /\ \A s \in within[issuer[q]] \ {Root} : phase[s] = "succeeded"}
  BY DEF CommittedIsWhole
<1>0. TypeOK /\ Tree /\ Chain /\ Unanswered /\ Remembered /\ Held /\ Ends
  BY DEF IInv
<1>1. phase[Root] \notin Calling
  BY <1>0 DEF Ends, Calling
<1>2. ASSUME NEW s \in Scopes, s # Root PROVE ~Open(s)
  BY <1>0, <1>1, <1>2, RootCalling
<1>3. ASSUME NEW q \in Queries, issuer[q] # NoScope
      PROVE  Unfailed(q) <=> \A s \in within[issuer[q]] \ {Root} : phase[s] = "succeeded"
  <2>1. issuer[q] \in Scopes /\ phase[issuer[q]] # "none"
    BY <1>0, <1>3 DEF TypeOK, Unanswered, Unentered
  <2>2. ASSUME NEW s \in within[issuer[q]] \ {Root} PROVE phase[s] \in {"succeeded", "failed"}
    <3>1. s \in Scopes /\ ~Open(s)
      BY <1>0, <1>2, <2>1, <2>2 DEF TypeOK
    <3>2. phase[s] # "none"
      BY <1>0, <2>1, <2>2 DEF Tree, Unentered
    <3> QED
      BY <3>1, <3>2 DEF Open, Ended
  <2> QED
    BY <2>2 DEF Unfailed
<1>4. ASSUME NEW q \in Queries, issuer[q] # NoScope, Unfailed(q) PROVE answer[q] = "ok"
  <2>1. issuer[q] \in Scopes /\ issuer[q] \in within[issuer[q]]
    BY <1>0, <1>4 DEF TypeOK, Unanswered, Unentered, Tree
  <2>2. issuer[q] = Root \/ phase[issuer[q]] = "succeeded"
    BY <1>3, <1>4, <2>1
  <2> QED
    BY <1>0, <1>4, <2>2 DEF Remembered
<1>5. effects \subseteq Queries
  BY <1>0 DEF TypeOK
<1>6. \A q \in Queries :
        /\ q \in effects => issuer[q] # NoScope /\ Unfailed(q)
        /\ issuer[q] # NoScope /\ answer[q] = "ok" /\ Unfailed(q) => q \in effects
  BY <1>0 DEF Held
<1> QED
  BY <1>3, <1>4, <1>5, <1>6

\* What the database commits is every accepted query of the scopes that
\* succeeded, and nothing of a scope that failed (finishScope of the scoped
\* driver), at whatever moment the request is stopped.
THEOREM CommittedWhole == Spec => []CommittedIsWhole
  BY CommittedWhenEnded, Invariance, PTL

\* What the caller of a transaction is told is true in the database: a value
\* only when the work is committed, though an aborted transaction answers COMMIT
\* like any other, and an error only when nothing is committed or left open.
THEOREM AnswersTold == Spec => []AnswersAreTrue
<1>1. IInv => AnswersAreTrue
  BY DEF IInv, Ends, AnswersAreTrue
<1> QED
  BY <1>1, Invariance, PTL

\* After the request has reported database_resources_settled no statement, no
\* callback and no answer of the transaction is left (the lifetime's joinAll).
THEOREM SettledForGood == Spec => SettledIsFinal
<1>1. IInv /\ [Next]_vars => [~settled]_vars
  BY NothingLeft
<1> QED
  BY <1>1, Invariance, PTL DEF Spec, SettledIsFinal

=============================================================================
