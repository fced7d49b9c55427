------------------------------ MODULE MCStateFile ------------------------------
(* StateFile with one Obsidian and two commands. *)
EXTENDS StateFile

CONSTANTS obsidian, watch, push

================================================================================
