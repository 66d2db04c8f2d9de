------------------------------ MODULE FlowRuns ------------------------------
(***************************************************************************)
(* The flow runs of one page: the concurrency rule of a binding, the        *)
(* exclusive scopes on a form or on the page, the queue of runs that wait   *)
(* for a scope, pending changes a submit waits for, and timeouts whose      *)
(* clock stands still while a step asks the person.                         *)
(*                                                                         *)
(* The runtime is one JavaScript thread.  Continuations of settled promises *)
(* run, in an order left open here, before the next event (a gesture, a     *)
(* timer, an answer): an event is possible only when the page is Quiet.     *)
(*                                                                         *)
(* A run has two promises.  phase follows the scheduled one (`start`), and  *)
(* result the one its caller holds, which settles at once when the run is   *)
(* stopped.  Runs are numbered in the order in which they were started, so  *)
(* the queue of tickets and the queue of a binding are ordered by number.   *)
(* A start that is refused or ignored at once is left out: it changes       *)
(* nothing.                                                                 *)
(***************************************************************************)
EXTENDS Integers, FiniteSets

CONSTANTS
  RunCount,   \* bound: runs the page accepts
  Bindings,   \* the page's flow bindings
  Settings,   \* their settings
  NoForm,     \* a binding outside any form
  NoBinding   \* the binding of a run that was not started

Runs == 1 .. RunCount

ASSUME FlowRunsAssumption ==
  /\ RunCount \in Nat
  /\ NoBinding \notin Bindings
  /\ \A b \in Bindings :
       /\ Settings[b].concurrency \in {"ignore_while_running", "latest_wins", "queue"}
       /\ Settings[b].exclusive \in {"none", "form", "page"}
       /\ Settings[b].debounced \in BOOLEAN
       /\ Settings[b].settles \/ Settings[b].tracked => Settings[b].form # NoForm
  \* publication refuses an exclusive binding without a timeout
  /\ \A b \in Bindings : Settings[b].exclusive # "none" => Settings[b].timed

VARIABLES
  binding,  \* the binding a run was started for
  phase,    \* where its scheduled promise is
  result,   \* how the promise of its caller settled
  stop,     \* whether its controller was aborted, and by what
  ready,    \* its debounce is over
  active,   \* the runs that hold an exclusive scope
  tickets,  \* the runs that wait in the queue of the page
  allowed,  \* pending changes that may run inside its scope
  heldBy    \* the runs whose question stops its timeout clock

vars == <<binding, phase, result, stop, ready, active, tickets, allowed, heldBy>>

Running == {"executing", "asking", "answered"}
Outcomes == {"done", "refused", "abandoned"}
Phases == {"idle", "scheduled", "waiting", "settling"} \union Running \union Outcomes

TypeOK ==
  /\ binding \in [Runs -> Bindings \union {NoBinding}]
  /\ phase \in [Runs -> Phases]
  /\ result \in [Runs -> Outcomes \union {"none", "unknown"}]
  /\ stop \in [Runs -> {"no", "abort", "timeout"}]
  /\ ready \in [Runs -> BOOLEAN]
  /\ active \in SUBSET Runs
  /\ tickets \in SUBSET Runs
  /\ allowed \in [Runs -> SUBSET Runs]
  /\ heldBy \in [Runs -> SUBSET Runs]

Init ==
  /\ binding = [r \in Runs |-> NoBinding]
  /\ phase = [r \in Runs |-> "idle"]
  /\ result = [r \in Runs |-> "none"]
  /\ stop = [r \in Runs |-> "no"]
  /\ ready = [r \in Runs |-> FALSE]
  /\ active = {}
  /\ tickets = {}
  /\ allowed = [r \in Runs |-> {}]
  /\ heldBy = [r \in Runs |-> {}]

S(r) == Settings[binding[r]]
Stopped(r) == stop[r] # "no"
Over(r) == phase[r] \in Outcomes

\* The runs whose result is open; of one binding, its jobs.
Open == {r \in Runs : phase[r] # "idle" /\ result[r] = "none"}
Jobs(b) == {r \in Open : binding[r] = b}

-----------------------------------------------------------------------------
(* Exclusive scopes.                                                        *)

Overlaps(s, t) ==
  \/ "page" \in {s.exclusive, t.exclusive}
  \/ s.form # NoForm /\ s.form = t.form

\* The scopes a run of these settings meets.
Conflicts(s) == {h \in active : Overlaps(S(h), s)}

\* The scopes that keep run r out: not those it is a pending change of.
Blockers(r) == {h \in Conflicts(S(r)) : r \notin allowed[h]}

\* A run waits for a scope, and behind the earlier tickets it overlaps with.
MustWait(r) ==
  \/ Blockers(r) # {}
  \/ r \in tickets /\ \E q \in tickets : q < r /\ Overlaps(S(q), S(r))

\* Pending changes of the run's form that are still open.
Changes(r) == allowed[r] \intersect Open

-----------------------------------------------------------------------------
(* Continuations.                                                           *)

\* The scheduled promise is called after the earlier runs of a queue, and goes
\* on after its debounce, which a stop ends.
MayGo(r) ==
  /\ phase[r] = "scheduled"
  /\ ready[r] \/ Stopped(r)
  /\ S(r).concurrency = "queue" =>
       \A q \in Runs : q < r /\ binding[q] = binding[r] => Over(q)

\* Every release, removed ticket or abort wakes the waiting runs.
MayWake(r) == phase[r] = "waiting" /\ (Stopped(r) \/ ~MustWait(r))
MayStart(r) == phase[r] = "settling" /\ (Stopped(r) \/ Changes(r) = {})
MayStop(r) == phase[r] \in Running /\ Stopped(r)
MayReturn(r) == r \in Open /\ (Over(r) \/ Stopped(r))

Quiet ==
  \A r \in Runs : ~(MayGo(r) \/ MayWake(r) \/ MayStart(r) \/ MayStop(r) \/ MayReturn(r))

End(r, outcome) ==
  /\ phase' = [phase EXCEPT ![r] = outcome]
  /\ UNCHANGED <<binding, result, stop, ready, active, tickets, allowed, heldBy>>

\* The run has its scope.  A submit flushes the pending changes of its form and
\* waits for them; any other run starts.
Enter(r) ==
  /\ active' = IF S(r).exclusive = "none" THEN active ELSE active \union {r}
  /\ tickets' = tickets \ {r}
  /\ phase' = [phase EXCEPT ![r] = IF Changes(r) = {} THEN "executing" ELSE "settling"]
  /\ ready' = [q \in Runs |-> ready[q] \/ q \in Changes(r)]
  /\ UNCHANGED <<binding, result, stop, allowed, heldBy>>

\* Mutant: an abort is not looked at when the turn of the run comes.
GoUnlooked(r) ==
  /\ MayGo(r)
  /\ IF S(r).exclusive = "form" /\ S(r).form = NoForm THEN End(r, "refused")
     ELSE IF r \in active \/ ~MustWait(r) THEN Enter(r)
     ELSE End(r, IF S(r).concurrency = "queue" THEN "waiting" ELSE "refused")

\* Mutant: the conflict seen when the run was started is trusted.
GoUnchecked(r) ==
  /\ MayGo(r)
  /\ IF Stopped(r) THEN End(r, "abandoned") ELSE Enter(r)

\* start: the first continuation.  A run without a scope asks for it once more.
Go(r) ==
  /\ MayGo(r)
  /\ IF Stopped(r) THEN End(r, "abandoned")
     ELSE IF S(r).exclusive = "form" /\ S(r).form = NoForm THEN End(r, "refused")
     ELSE IF r \in active \/ ~MustWait(r) THEN Enter(r)
     ELSE End(r, IF S(r).concurrency = "queue" THEN "waiting" ELSE "refused")

\* A waiting run of a queue is woken.
Wake(r) ==
  /\ MayWake(r)
  /\ IF Stopped(r) THEN End(r, "abandoned") ELSE Enter(r)

\* settle has returned.
Start(r) ==
  /\ MayStart(r)
  /\ End(r, IF Stopped(r) THEN "abandoned" ELSE "executing")

\* The abort wins the race against the flow.
StopRunning(r) == MayStop(r) /\ End(r, "abandoned")

\* Mutant: the result is always that of the scheduled promise.
ReturnUnraced(r) ==
  /\ MayReturn(r)
  /\ result' = [result EXCEPT ![r] = IF stop[r] = "timeout" THEN "unknown" ELSE phase[r]]
  /\ active' = active \ {r}
  /\ tickets' = tickets \ {r}
  /\ heldBy' = [q \in Runs |-> heldBy[q] \ {r}]
  /\ UNCHANGED <<binding, phase, stop, ready, allowed>>

\* Mutant: a run that is given up keeps its ticket.
ReturnKeepingTicket(r) ==
  /\ MayReturn(r)
  /\ result' = [result EXCEPT ![r] =
       IF stop[r] = "timeout" THEN "unknown"
       ELSE IF Over(r) THEN phase[r] ELSE "abandoned"]
  /\ active' = active \ {r}
  /\ heldBy' = [q \in Runs |-> heldBy[q] \ {r}]
  /\ UNCHANGED <<binding, phase, stop, ready, tickets, allowed>>

\* The result settles, at the latest when the run is stopped, and everything the
\* run held is given back.  (The abort has also withdrawn its open question, which
\* starts the clocks again.)
Return(r) ==
  /\ MayReturn(r)
  /\ result' = [result EXCEPT ![r] =
       IF stop[r] = "timeout" THEN "unknown"
       ELSE IF Over(r) THEN phase[r] ELSE "abandoned"]
  /\ active' = active \ {r}
  /\ tickets' = tickets \ {r}
  /\ heldBy' = [q \in Runs |-> heldBy[q] \ {r}]
  /\ UNCHANGED <<binding, phase, stop, ready, allowed>>

-----------------------------------------------------------------------------
(* Events.                                                                  *)

Aborted(runs) == [q \in Runs |-> IF q \in runs /\ stop[q] = "no" THEN "abort" ELSE stop[q]]

\* run: a run of binding b is accepted.  Only a queue accepts one that meets a
\* scope; it takes a ticket then.  A scope that is free is held from here on.
Accept(r, b) ==
  LET s == Settings[b]
      free == Conflicts(s) = {}
  IN /\ Quiet
     /\ phase[r] = "idle"
     /\ \A q \in Runs : q < r => phase[q] # "idle"
     /\ free \/ s.concurrency = "queue"
     /\ s.concurrency = "ignore_while_running" => Jobs(b) = {}
     /\ stop' = IF s.concurrency = "latest_wins" THEN Aborted(Jobs(b)) ELSE stop
     /\ binding' = [binding EXCEPT ![r] = b]
     /\ phase' = [phase EXCEPT ![r] = "scheduled"]
     /\ ready' = [ready EXCEPT ![r] = ~s.debounced]
     /\ allowed' = [allowed EXCEPT ![r] =
          {q \in Open : s.settles /\ S(q).tracked /\ S(q).form = s.form}]
     /\ tickets' = IF free THEN tickets ELSE tickets \union {r}
     /\ active' = IF free /\ s.exclusive # "none"
                     /\ ~(s.exclusive = "form" /\ s.form = NoForm)
                  THEN active \union {r} ELSE active
     /\ UNCHANGED <<result, heldBy>>

DebounceEnds(r) ==
  /\ Quiet
  /\ phase[r] = "scheduled"
  /\ ~ready[r]
  /\ ready' = [ready EXCEPT ![r] = TRUE]
  /\ UNCHANGED <<binding, phase, result, stop, active, tickets, allowed, heldBy>>

\* The settle deadline of two seconds: the changes are cancelled and the submit
\* is refused.
SettleDeadline(r) ==
  /\ Quiet
  /\ phase[r] = "settling"
  /\ stop' = Aborted(Changes(r))
  /\ phase' = [phase EXCEPT ![r] = "refused"]
  /\ UNCHANGED <<binding, result, ready, active, tickets, allowed, heldBy>>

\* The flow ends, however it ended.
Finish(r) ==
  /\ Quiet
  /\ phase[r] \in {"executing", "answered"}
  /\ End(r, "done")

\* A step asks the person: the clocks of the binding's open runs stand still.
\* (Bound: a run asks once.)
Ask(r) ==
  /\ Quiet
  /\ phase[r] = "executing"
  /\ S(r).asks
  /\ phase' = [phase EXCEPT ![r] = "asking"]
  /\ heldBy' = [q \in Runs |-> IF q \in Jobs(binding[r]) THEN heldBy[q] \union {r}
                               ELSE heldBy[q]]
  /\ UNCHANGED <<binding, result, stop, ready, active, tickets, allowed>>

Answer(r) ==
  /\ Quiet
  /\ phase[r] = "asking"
  /\ phase' = [phase EXCEPT ![r] = "answered"]
  /\ heldBy' = [q \in Runs |-> heldBy[q] \ {r}]
  /\ UNCHANGED <<binding, result, stop, ready, active, tickets, allowed>>

\* Mutant: the timeout is armed when the flow itself starts.
TimeoutOfFlow(r) ==
  /\ Quiet
  /\ r \in Open
  /\ phase[r] \in Running
  /\ S(r).timed
  /\ heldBy[r] = {}
  /\ stop' = [stop EXCEPT ![r] = "timeout"]
  /\ UNCHANGED <<binding, phase, result, ready, active, tickets, allowed, heldBy>>

\* The timeout, armed when the run was accepted, while its clock is not held.
Timeout(r) ==
  /\ Quiet
  /\ r \in Open
  /\ S(r).timed
  /\ heldBy[r] = {}
  /\ stop' = [stop EXCEPT ![r] = "timeout"]
  /\ UNCHANGED <<binding, phase, result, ready, active, tickets, allowed, heldBy>>

\* The caller's signal aborts one run; leaving the page aborts all.
Abort(runs) ==
  /\ Quiet
  /\ stop' = Aborted(runs)
  /\ UNCHANGED <<binding, phase, result, ready, active, tickets, allowed, heldBy>>

Cancel(r) == r \in Open /\ Abort({r})
Dispose == Open # {} /\ Abort(Open)

-----------------------------------------------------------------------------
Continue(r) == Go(r) \/ Wake(r) \/ Start(r) \/ StopRunning(r) \/ Return(r)

Next ==
  \/ \E r \in Runs :
       \/ Go(r)
       \/ Wake(r)
       \/ Start(r)
       \/ StopRunning(r)
       \/ Return(r)
       \/ \E b \in Bindings : Accept(r, b)
       \/ DebounceEnds(r)
       \/ SettleDeadline(r)
       \/ Finish(r)
       \/ Ask(r)
       \/ Answer(r)
       \/ Timeout(r)
       \/ Cancel(r)
  \/ Dispose

Spec == Init /\ [][Next]_vars

\* The event loop runs continuations and timers, a flow ends (its requests are
\* bounded) and the person answers.  Nobody has to press, cancel or leave.
FairSpec ==
  /\ Spec
  /\ \A r \in Runs :
       /\ WF_vars(Continue(r))
       /\ WF_vars(DebounceEnds(r))
       /\ WF_vars(SettleDeadline(r))
       /\ WF_vars(Finish(r))
       /\ WF_vars(Answer(r))
       /\ WF_vars(Timeout(r))
-----------------------------------------------------------------------------
\* Two scopes that overlap are held together only when one is that of a pending
\* change the other waits for.
ScopesExclusive ==
  \A h, k \in active :
    h # k /\ Overlaps(S(h), S(k)) => h \in allowed[k] \/ k \in allowed[h]

\* A run whose result has settled, by whatever way, is in nobody's way: it holds
\* no scope, no ticket and no clock, also when its scheduled promise still waits
\* for its turn.
SettledLeavesNothing ==
  \A r \in Runs :
    result[r] # "none" =>
      /\ r \notin active \union tickets
      /\ \A q \in Runs : r \notin heldBy[q]

\* While an exclusive run is under way nothing else starts on its form or page,
\* however long ago the other one passed its checks.  The exceptions: the pending
\* changes the exclusive run waits for, and a run without a scope of its own that
\* waits for pending changes, which does not look again when they have finished.
NothingElseStarts ==
  [][\A r \in Runs :
       phase[r] # "executing" /\ phase'[r] = "executing" =>
         \/ \A h \in Blockers(r) : h = r
         \/ phase[r] = "settling" /\ S(r).exclusive = "none"]_vars

\* A run its caller was told is over never starts, though its turn in the queue
\* of its binding comes later.
NoLateStart ==
  [][\A r \in Runs :
       result[r] # "none" /\ phase[r] \notin Running => phase'[r] \notin Running]_vars

\* Every run that was accepted ends: aborted waits, overlapping scopes, pending
\* changes, and runs that wait for each other, end by a timeout at the latest.
EveryRunSettles ==
  \A r \in Runs : phase[r] # "idle" ~> Over(r) /\ result[r] # "none"

\* A run of a queue is queued behind the running ones: it never holds a scope that
\* keeps an earlier open run of its own binding waiting.
QueuedBehind ==
  \A r \in Open : \A q \in Jobs(binding[r]) :
    S(r).concurrency = "queue" /\ r < q => q \notin Blockers(r)
=============================================================================
