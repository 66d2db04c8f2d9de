--------------------------- MODULE OrderedDelivery ---------------------------
(***************************************************************************)
(* What the outbox promises its consumers, with no rows, leases, cursors   *)
(* or processes: every consumer finishes the occurrences of one record in  *)
(* sequence order, each at most once; an occurrence that failed for good   *)
(* holds back its successors; and retention discards an occurrence only    *)
(* after some consumer finished it and another occurrence followed it.     *)
(***************************************************************************)
EXTENDS Integers

CONSTANTS Records, MaxSequence, Consumers

VARIABLE status  \* of each consumer and occurrence

Occurrence == [record : Records, sequence : 1 .. MaxSequence]
Precedes(p, o) == p.record = o.record /\ p.sequence < o.sequence

States == {"absent", "pending", "acknowledged", "failed", "discarded"}

TypeOK == status \in [Consumers -> [Occurrence -> States]]

Present(o) == \A c \in Consumers : status[c][o] # "absent"

Init == status = [c \in Consumers |-> [o \in Occurrence |-> "absent"]]

\* A save appends the next occurrences of one record for every consumer.
Append ==
  \E r \in Records, first, last \in 1 .. MaxSequence :
    LET new == {o \in Occurrence : o.record = r /\ o.sequence \in first .. last}
        old == {o \in Occurrence : o.record = r /\ o.sequence < first}
    IN /\ first <= last
       /\ \A o \in Occurrence : o \in old => Present(o)
       /\ \A o \in new : \A c \in Consumers : status[c][o] = "absent"
       /\ status' = [c \in Consumers |-> [o \in Occurrence |->
            IF o \in new THEN "pending" ELSE status[c][o]]]

\* Nothing earlier of the same record is still to be done.
InOrder(c, o) ==
  \A p \in Occurrence :
    Precedes(p, o) => status[c][p] \in {"acknowledged", "discarded"}

Acknowledge(c, o) ==
  /\ status[c][o] = "pending"
  /\ InOrder(c, o)
  /\ status' = [status EXCEPT ![c][o] = "acknowledged"]

\* One reported failure, or the sweep's set of exhausted claims.
Fail(c) ==
  \E failed \in SUBSET Occurrence :
    /\ failed # {}
    /\ \A o \in failed : status[c][o] = "pending" /\ InOrder(c, o)
    /\ status' = [status EXCEPT ![c] = [o \in Occurrence |->
         IF o \in failed THEN "failed" ELSE status[c][o]]]

Discard ==
  \E gone \in SUBSET Occurrence :
    /\ gone # {}
    /\ \A o \in gone :
         /\ \E c \in Consumers : status[c][o] = "acknowledged"
         /\ \E newer \in Occurrence : Precedes(o, newer) /\ Present(newer)
    /\ status' = [c \in Consumers |-> [o \in Occurrence |->
         IF o \in gone /\ status[c][o] # "acknowledged"
         THEN "discarded" ELSE status[c][o]]]

Next ==
  \/ Append
  \/ \E c \in Consumers : (\E o \in Occurrence : Acknowledge(c, o)) \/ Fail(c)
  \/ Discard

Spec == Init /\ [][Next]_status
==============================================================================
