--------------------------- MODULE RemoteObservation ---------------------------
(***************************************************************************)
(* What a sync record remembers of the Notion page it saw last, and how a  *)
(* later stamp of that page is judged against it (remote-observation.ts,   *)
(* run-observation.ts).  Notion truncates last_edited_time to the minute,  *)
(* so the minute is the unit of time.  A record that does not know when it *)
(* saw the page has seen = 0, the time before everything.                  *)
(***************************************************************************)
EXTENDS Naturals

CONSTANTS
    Human, Bot,     \* the last editor of a page: a person, or this integration
    Unknown,        \* the record does not know who edited the page
    NoPrint,        \* the record holds no body fingerprint
    NoText          \* the record holds no text of a last sync

ASSUME EditorAssumption ==
    /\ Human # Bot
    /\ Unknown \notin {Human, Bot}

Editor == {Human, Bot}

EditTimeResolution == 1   \* EDIT_TIME_RESOLUTION_MS, in minutes
ClockSkewMargin == 1      \* CLOCK_SKEW_MARGIN_MS, in minutes

(* Mutant of IsSettled: the two clocks are taken to agree. *)
IsSettledNoMargin(edited, seen) == seen >= edited + EditTimeResolution

(* The page was seen so late that no later edit can carry the same minute. *)
IsSettled(edited, seen) == seen >= edited + EditTimeResolution + ClockSkewMargin

(***************************************************************************)
(* compareRemote has three answers.  r is the record: edited, by, seen,    *)
(* print (the body fingerprint) and base (the text of the last sync).  p   *)
(* is the stamp: time, by.  botKnown: this run could ask Notion which user *)
(* the integration is.                                                     *)
(***************************************************************************)
Changed(r, p) ==
    \/ p.time # r.edited
    \/ r.by # Unknown /\ p.by # r.by

OnlyBotWrote(r, p, botKnown) ==
    /\ botKnown /\ p.by = Bot /\ r.by = Bot
    /\ r.print = NoPrint \/ r.base = NoText

(* Mutant of Unchanged: the recorded stamp is proof, however early it was seen. *)
UnchangedStamp(r, p, botKnown) == ~Changed(r, p)

Unchanged(r, p, botKnown) ==
    /\ ~Changed(r, p)
    /\ IsSettled(r.edited, r.seen) \/ OnlyBotWrote(r, p, botKnown)

(* Writing an observation into a record: observationOf plus setRemoteObservation. *)
Observe(r, p, seen, print) ==
    [r EXCEPT !.edited = p.time, !.by = p.by, !.seen = seen, !.print = print]
================================================================================
