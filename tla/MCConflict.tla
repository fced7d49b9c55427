------------------------------- MODULE MCConflict -------------------------------
(* One note, one edit on each side and what follows. *)
EXTENDS ConflictResolution
================================================================================
