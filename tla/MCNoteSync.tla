------------------------------- MODULE MCNoteSync -------------------------------
(* NoteSync on a handful of edits. *)
EXTENDS NoteSync, TLC

CONSTANTS b1, b2, t1, t2

(* Edits of one kind are interchangeable; only the safety runs use this. *)
BodyEdits == Permutations({b1, b2})

(* What a run holds tells two states apart only where a later step still reads it. *)
Held(v, phases) == IF phase \in phases THEN {v} ELSE {}

Writing == {"send", "fill", "reread", "title", "store"}
HasText == {"live", "drift", "salvage", "salvageBody", "write", "writeMerged"} \cup Writing
HasPage == (PullPhases \ {"detect", "getPage"}) \cup {"drift", "salvageBody"} \cup Writing

NotOver ==
    <<strategy, minute, remote, local, fresh, rec, journal, phase, made, spared,
      Held(run, PullPhases \cup PushPhases), Held(text, HasText), Held(page, HasPage),
      Held(settles, Writing)>>
================================================================================
