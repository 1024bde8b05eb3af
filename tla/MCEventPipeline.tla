--------------------------- MODULE MCEventPipeline ---------------------------
(* Instances of EventPipeline for TLC.                                      *)
EXTENDS EventPipeline, TLC

\* Requests are interchangeable, and so are the consumers of a queue.
Symmetry == Permutations(Events) \cup Permutations(Notifiers)
=============================================================================
