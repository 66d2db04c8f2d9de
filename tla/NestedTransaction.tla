-------------------------- MODULE NestedTransaction --------------------------
(***************************************************************************)
(* What a transaction with savepoints promises to those who work in it,    *)
(* with no connection, queue, statements or callbacks: scopes lie one in   *)
(* the other and only the innermost one is asked for anything; a scope     *)
(* succeeds only with all it was asked to do done; a commit takes effect   *)
(* at once for exactly the work that no failed scope is around; and the    *)
(* caller is told how the transaction has really ended.                    *)
(***************************************************************************)
CONSTANTS Scopes, Root, Queries, NoScope

VARIABLES
  status,     \* of each scope: "none", "reserved", "open" or how it ended
  around,     \* the scopes around each scope, itself included
  asker,      \* the scope that was asked to do a query
  done,       \* the queries that were done
  committed,  \* those that took effect
  told        \* what the caller was told of the end

vars == <<status, around, asker, done, committed, told>>

Ended == {"succeeded", "failed"}

Init ==
  /\ status = [s \in Scopes |-> "none"]
  /\ around = [s \in Scopes |-> {}]
  /\ asker = [q \in Queries |-> NoScope]
  /\ done = {}
  /\ committed = {}
  /\ told = "none"

\* The scopes in s.
Within(s) == {c \in Scopes \ {s} : s \in around[c]}

Innermost(s) == \A c \in Within(s) : status[c] \in Ended

\* All that s was asked to do is done.
Complete(s) == \A q \in Queries : asker[q] = s => q \in done

Reserve(c, outer) ==
  /\ status[c] = "none"
  /\ status' = [status EXCEPT ![c] = "reserved"]
  /\ around' = [around EXCEPT ![c] = outer \union {c}]
  /\ UNCHANGED <<asker, done, committed, told>>

\* The transaction itself, or a savepoint in the innermost scope.
ReserveIn(c) ==
  \/ c = Root /\ Reserve(c, {})
  \/ \E p \in Scopes : status[p] = "open" /\ Innermost(p) /\ Reserve(c, around[p])

Enter(c) ==
  /\ status[c] = "reserved"
  /\ \A s \in around[c] \ {c} : status[s] = "open"
  /\ status' = [status EXCEPT ![c] = "open"]
  /\ UNCHANGED <<around, asker, done, committed, told>>

Ask(s, q) ==
  /\ status[s] = "open"
  /\ Innermost(s)
  /\ asker[q] = NoScope
  /\ asker' = [asker EXCEPT ![q] = s]
  /\ UNCHANGED <<status, around, done, committed, told>>

\* What was asked of a scope before one in it was reserved is done before that
\* one is entered.
Do(q) ==
  /\ asker[q] # NoScope
  /\ q \notin done
  /\ \A s \in around[asker[q]] : status[s] = "open"
  /\ \A c \in Within(asker[q]) : status[c] \in Ended \union {"reserved"}
  /\ done' = done \union {q}
  /\ UNCHANGED <<status, around, asker, committed, told>>

Succeed(s) ==
  /\ s # Root
  /\ status[s] = "open"
  /\ Innermost(s)
  /\ Complete(s)
  /\ status' = [status EXCEPT ![s] = "succeeded"]
  /\ UNCHANGED <<around, asker, done, committed, told>>

Fail(s) ==
  /\ s # Root
  /\ status[s] \in {"reserved", "open"}
  /\ Innermost(s)
  /\ status' = [status EXCEPT ![s] = "failed"]
  /\ UNCHANGED <<around, asker, done, committed, told>>

Commit ==
  /\ status[Root] = "open"
  /\ Innermost(Root)
  /\ Complete(Root)
  /\ status' = [status EXCEPT ![Root] = "succeeded"]
  /\ committed' = {q \in done : \A s \in around[asker[q]] \ {Root} : status[s] # "failed"}
  /\ UNCHANGED <<around, asker, done, told>>

\* At any moment, whatever is open in it.
RollBack ==
  /\ status[Root] \in {"reserved", "open"}
  /\ status' = [status EXCEPT ![Root] = "failed"]
  /\ UNCHANGED <<around, asker, done, committed, told>>

Tell ==
  /\ told = "none"
  /\ \/ status[Root] = "succeeded" /\ told' = "value"
     \/ status[Root] = "failed" /\ told' = "error"
     \/ status[Root] \in Ended /\ told' = "stopped"
  /\ UNCHANGED <<status, around, asker, done, committed>>

Next ==
  \/ \E s \in Scopes : ReserveIn(s) \/ Enter(s) \/ Succeed(s) \/ Fail(s)
  \/ \E s \in Scopes, q \in Queries : Ask(s, q)
  \/ \E q \in Queries : Do(q)
  \/ Commit \/ RollBack \/ Tell

Spec == Init /\ [][Next]_vars
==============================================================================
