--------------------------- MODULE MCPersistence ---------------------------
(* Small instances of Persistence for TLC. *)
EXTENDS Persistence, TLC

\* No action and no property tells two maps apart.
MCSymmetry == Permutations(Maps)
=============================================================================
