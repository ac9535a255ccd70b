--------------------------- MODULE MCNodeSession ---------------------------
(* Model values and symmetry for the runs of NodeSession. *)
EXTENDS NodeSession, TLC

\* Handlers are interchangeable: sound for the runs without liveness.
HandlerSymmetry == Permutations(Handlers)
=============================================================================
