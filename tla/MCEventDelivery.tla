--------------------------- MODULE MCEventDelivery ---------------------------
(* Instances of EventDelivery for TLC.                                      *)
EXTENDS EventDelivery, TLC

\* Dispatchers, consumers and records are interchangeable: sound for the safety
\* runs, and not used in the run that checks liveness.
Interchangeable ==
  Permutations(Dispatchers) \union Permutations(Consumers)
    \union Permutations(Records)
==============================================================================
