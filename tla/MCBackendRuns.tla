---------------------------- MODULE MCBackendRuns ----------------------------
(* Instances of BackendRuns for TLC.                                        *)
EXTENDS BackendRuns, TLC

CONSTANTS a, b  \* two runs

TwoSubscribers == <<a, b>>
NoSubscribers == <<>>

\* Executors are interchangeable: sound for the safety runs.
Interchangeable == Permutations(Executors)
==============================================================================
