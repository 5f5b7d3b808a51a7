---------------------------- MODULE MCRepoLifecycle ---------------------------
(* Small instances of RepoLifecycle for TLC. *)
EXTENDS RepoLifecycle, TLC

\* Workers are interchangeable; every property quantifies over all of them.
Symmetry == Permutations(Workers)
==============================================================================
