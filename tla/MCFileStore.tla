----------------------------- MODULE MCFileStore -----------------------------
(* Small instances of FileStore for TLC. *)
EXTENDS FileStore, TLC

\* Workers differ only by their names and phases, which are variables.
WorkerSymmetry == Permutations(Workers)
=============================================================================
