-------------------------- MODULE MCInterruptedCreate --------------------------
(* InterruptedCreate with two notes of one title. *)
EXTENDS InterruptedCreate

CONSTANTS n1, n2
================================================================================
