------------------------------ MODULE MCTicking ------------------------------
(* Small instances of Ticking for TLC. *)
EXTENDS Ticking
=============================================================================
