----------------------------- MODULE MCWatchAndFile ----------------------------
(***************************************************************************)
(* The two machines whose liveness rests on fairness of several processes. *)
(* They share nothing here, and each is explored by itself: `on` says      *)
(* which one runs, the other stays where it began.                         *)
(*                                                                         *)
(* WatchSync: two notes and three edits, so that one can change while the  *)
(* other is being synced, and the same one again behind the sync that has  *)
(* just read it.                                                           *)
(*                                                                         *)
(* StateFile, with one Obsidian and two commands.                          *)
(***************************************************************************)
EXTENDS WatchSync, StateFile

CONSTANTS a, b, obsidian, watch, push

VARIABLE on

all == <<on, vars, stateFileVars>>

Watch(A) == on = "watch" /\ A /\ UNCHANGED <<on, stateFileVars>>
File(A) == on = "file" /\ A /\ UNCHANGED <<on, vars>>

Initially ==
    /\ on \in {"watch", "file"}
    /\ Init /\ FileInit
    /\ on # "watch" => interval

Either == Watch(Next) \/ File(FileNext)

(* The fairness of WatchSync's FairSpec and of StateFile's FairFileSpec. *)
EitherSpec ==
    /\ Initially /\ [][Either]_all
    /\ WF_all(Watch(DebounceFires)) /\ WF_all(Watch(RequestFullSync)) /\ WF_all(Watch(Resume))
    /\ WF_all(Watch(WatcherClosed)) /\ WF_all(Watch(Close))
    /\ SF_all(Watch(SyncReturns))
    /\ \A p \in Paths : WF_all(Watch(Report(p))) /\ SF_all(Watch(SyncItem(p)))
    /\ \A p \in Openers : WF_all(File(Claim(p))) /\ SF_all(File(Opening(p)))
    /\ \A p \in Plugins : WF_all(File(Plugin(p)))
    /\ \A p \in Clis : WF_all(File(Cli(p)))
    /\ WF_all(File(TwoMinutes))
================================================================================
