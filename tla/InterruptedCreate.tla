--------------------------- MODULE InterruptedCreate ---------------------------
(***************************************************************************)
(* A push makes a Notion page for every note that has none.  Notion knows  *)
(* no idempotency key, so a note first gets a placeholder row and an entry *)
(* in pending_operations, and whoever finds that entry later looks for a   *)
(* child of the parent with the note's title and adopts it instead of      *)
(* making another page (InterruptedSyncRecovery, PagePusher.pushCreate).   *)
(* The notes of a push are workers of a pool that runs them side by side;  *)
(* a pull takes every page no row names and makes a note of it.            *)
(*                                                                         *)
(* Only notes and pages that share their parent and their title can meet,  *)
(* so all of them do here; the vault has other notes that are linked.      *)
(* Pages are numbered in the order in which the parent lists them.         *)
(***************************************************************************)
EXTENDS Integers, FiniteSets, FiniteSetsExt, Sequences

CONSTANTS
    Notes,        \* notes that have no page yet
    Natural,      \* the one whose file has the name a pull would choose
    Human,        \* the author of a page a person made, and what is in it
    MaxTrouble    \* bound: requests that fail, runs that die, and pages people make or trash

ASSUME CreateAssumption ==
    /\ IsFiniteSet(Notes) /\ Natural \in Notes /\ Human \notin Notes
    /\ MaxTrouble \in Nat

VARIABLES
    pages,   \* the children of the parent: by, text, whole (nothing left to fill in), live
    row,     \* the sync_state row of a note: state and page (0: notion_page_id is null)
    op,      \* the note has an incomplete create in pending_operations
    copies,  \* pages that a pull made new notes of
    phase,   \* what is running: nothing, a pull, the recovery of a push, or its pool
    pulling, \* the pages this pull has still to look at
    ops,     \* the notes whose entry this recovery has still to look at
    at,      \* where the worker of a note is
    cand,    \* the pages its search found and has not ruled out
    retry,   \* the pool is in its second pass
    trouble  \* what went wrong so far, and what people did

vars == <<pages, row, op, copies, phase, pulling, ops, at, cand, retry, trouble>>

NoRow == [state |-> "none", page |-> 0]
Unsettled == {"mapped", "adopted"}
Steps == {"off", "start", "list", "getPage", "adopted", "create", "map", "finish", "finished",
          "update", "failed", "done"}

Live == {p \in DOMAIN pages : pages[p].live}
Tracked == copies \cup {row[n].page : n \in Notes}

(* findChildPageByTitle goes through the list and stops at the first page no row names. *)
Untracked(listed) == listed \ Tracked

Init ==
    /\ pages = <<>>
    /\ row = [n \in Notes |-> NoRow]
    /\ op = [n \in Notes |-> FALSE]
    /\ copies = {}
    /\ phase = "idle" /\ pulling = {} /\ ops = {}
    /\ at = [n \in Notes |-> "off"]
    /\ cand = [n \in Notes |-> {}]
    /\ retry = FALSE
    /\ trouble = 0
--------------------------------------------------------------------------------
(* People. *)

Trouble == trouble < MaxTrouble /\ trouble' = trouble + 1

HumanCreate ==
    /\ Trouble
    /\ \E words \in {Human, Natural} :
          pages' = Append(pages, [by |-> Human, text |-> words, whole |-> TRUE, live |-> TRUE])
    /\ UNCHANGED <<row, op, copies, phase, pulling, ops, at, cand, retry>>

(* Deleting a page that has a note is another story (RemoteDeletion). *)
HumanTrash ==
    /\ Trouble
    /\ \E p \in Live \ Tracked : pages' = [pages EXCEPT ![p].live = FALSE]
    /\ UNCHANGED <<row, op, copies, phase, pulling, ops, at, cand, retry>>
--------------------------------------------------------------------------------
(* Runs: a push is the recovery and then the pool, a sync is a pull and then a push. *)

(* Mutant of StartPull: a row that names no page yet is taken for one that never was in step. *)
StartPullOfRows ==
    /\ phase = "idle"
    /\ phase' = "pull"
    /\ pulling' = Untracked(Live) \cup {row[n].page : n \in {m \in Notes : row[m].state # "synced"}}
    /\ UNCHANGED <<pages, row, op, copies, ops, at, cand, retry, trouble>>

(* Detection finds what no row names, and what never was in step. *)
StartPull ==
    /\ phase = "idle"
    /\ phase' = "pull"
    /\ pulling' = Untracked(Live) \cup {row[n].page : n \in {m \in Notes : row[m].state \in Unsettled}}
    /\ UNCHANGED <<pages, row, op, copies, ops, at, cand, retry, trouble>>

(* recoverInterruptedPushOps reads the entries once. *)
Recovers ==
    /\ phase' = "recover"
    /\ ops' = {n \in Notes : op[n]}
    /\ UNCHANGED <<pages, row, op, copies, pulling, at, cand, retry, trouble>>

StartPush == phase = "idle" /\ Recovers

PullDone ==
    /\ phase = "pull" /\ pulling = {}
    /\ \/ Recovers
       \/ /\ phase' = "idle"
          /\ UNCHANGED <<pages, row, op, copies, pulling, ops, at, cand, retry, trouble>>

(* The process dies, or the run is given up. *)
Crash ==
    /\ phase # "idle"
    /\ Trouble
    /\ phase' = "idle" /\ pulling' = {} /\ ops' = {}
    /\ at' = [n \in Notes |-> "off"]
    /\ cand' = [n \in Notes |-> {}]
    /\ retry' = FALSE
    /\ UNCHANGED <<pages, row, op, copies>>
--------------------------------------------------------------------------------
(* Pull. *)

PullsNext(p) ==
    /\ phase = "pull" /\ p \in pulling
    /\ pulling' = pulling \ {p}
    /\ UNCHANGED <<pages, op, phase, ops, at, cand, retry, trouble>>

(* Without a row the note of that name is taken for the page's own if it says the same. *)
PullRelink(p) ==
    /\ PullsNext(p)
    /\ p \notin Tracked
    /\ row[Natural] = NoRow
    /\ pages[p].text = Natural /\ pages[p].whole
    /\ row' = [row EXCEPT ![Natural] = [state |-> "synced", page |-> p]]
    /\ UNCHANGED copies

(* Otherwise its name is taken, by the file or by the row: the page gets a name of its own. *)
PullCopy(p) ==
    /\ PullsNext(p)
    /\ p \notin Tracked
    /\ ~(row[Natural] = NoRow /\ pages[p].text = Natural /\ pages[p].whole)
    /\ copies' = copies \cup {p}
    /\ UNCHANGED row

(* pullUpdate of a page whose note never was in step with it: there is no last text. *)
PullUnsettled(p) ==
    /\ PullsNext(p)
    /\ \E n \in Notes :
        /\ row[n].page = p /\ row[n].state \in Unsettled
        /\ row' = [row EXCEPT ![n].state =
                      IF pages[p].text = n /\ pages[p].whole THEN "synced" ELSE "conflict"]
    /\ UNCHANGED copies

(* The stamp or the update journal says that the page is as the tool left it. *)
PullUnchanged(p) ==
    /\ PullsNext(p)
    /\ p \in Tracked
    /\ UNCHANGED <<row, copies>>
--------------------------------------------------------------------------------
(* The recovery at the start of a push, one entry after the other. *)

RecoversNext(n) ==
    /\ phase = "recover" /\ n \in ops
    /\ ops' = ops \ {n}
    /\ UNCHANGED <<pages, copies, phase, pulling, at, cand, retry>>

(* Mutant of RecoverMapped: a page that has its row needs nothing more. *)
RecoverMappedSkips(n) ==
    /\ RecoversNext(n)
    /\ row[n].page # 0
    /\ UNCHANGED <<row, op, trouble>>

(* The crash came between the row and the entry. *)
RecoverMapped(n) ==
    /\ RecoversNext(n)
    /\ row[n].page # 0
    /\ op' = [op EXCEPT ![n] = FALSE]
    /\ UNCHANGED <<row, trouble>>

RecoverAdopt(n) ==
    /\ RecoversNext(n)
    /\ row[n].page = 0
    /\ Untracked(Live) # {}
    /\ row' = [row EXCEPT ![n] = [state |-> "adopted", page |-> Min(Untracked(Live))]]
    /\ op' = [op EXCEPT ![n] = FALSE]
    /\ UNCHANGED trouble

(* Nothing was made: the placeholder goes, and its entry with it (ON DELETE CASCADE). *)
RecoverNothing(n) ==
    /\ RecoversNext(n)
    /\ row[n].page = 0
    /\ Untracked(Live) = {}
    /\ row' = [row EXCEPT ![n] = NoRow]
    /\ op' = [op EXCEPT ![n] = FALSE]
    /\ UNCHANGED trouble

(* A list that cannot be read is not an empty list: the entry stays. *)
RecoverUnreadable(n) ==
    /\ RecoversNext(n)
    /\ row[n].page = 0
    /\ Trouble
    /\ UNCHANGED <<row, op>>
--------------------------------------------------------------------------------
(* The pool of a push. *)

(* Change detection: a note without a page is new, one with an empty hash is modified. *)
PushKind(n) ==
    CASE row[n].state \in {"synced", "conflict"} -> "off"
      [] row[n].page = 0                         -> "start"
      [] OTHER                                   -> "update"

StartPool ==
    /\ phase = "recover" /\ ops = {}
    /\ phase' = "pool"
    /\ at' = [n \in Notes |-> PushKind(n)]
    /\ retry' = FALSE
    /\ UNCHANGED <<pages, row, op, copies, pulling, ops, cand, trouble>>

Works(n, from) ==
    /\ phase = "pool" /\ at[n] = from
    /\ UNCHANGED <<copies, phase, pulling, ops, retry>>

Goes(n, to) == at' = [at EXCEPT ![n] = to]

(* A request that fails without having done anything. *)
RequestFails(n) ==
    /\ \E from \in {"list", "getPage", "create", "finish", "update"} : Works(n, from)
    /\ Trouble
    /\ Goes(n, "failed")
    /\ UNCHANGED <<pages, row, op, cand>>

(* Mutant of BeginCreate: an entry that is left over does not send the worker to search. *)
BeginCreateAnew(n) ==
    /\ Works(n, "start")
    /\ IF row[n].page # 0
       THEN Goes(n, "update") /\ UNCHANGED <<row, op>>
       ELSE /\ row' = [row EXCEPT ![n] = [state |-> "placeholder", page |-> 0]]
            /\ op' = [op EXCEPT ![n] = TRUE]
            /\ Goes(n, "create")
    /\ UNCHANGED <<pages, cand, trouble>>

(* The placeholder and the entry are written before anything is sent. *)
BeginCreate(n) ==
    /\ Works(n, "start")
    /\ IF row[n].page # 0
       THEN Goes(n, "update") /\ UNCHANGED <<row, op>>
       ELSE /\ row' = [row EXCEPT ![n] = [state |-> "placeholder", page |-> 0]]
            /\ op' = [op EXCEPT ![n] = TRUE]
            /\ Goes(n, IF op[n] THEN "list" ELSE "create")
    /\ UNCHANGED <<pages, cand, trouble>>

Ruled(n, listed) ==
    /\ cand' = [cand EXCEPT ![n] = Untracked(listed)]
    /\ Goes(n, IF Untracked(listed) = {} THEN "create" ELSE "getPage")

ListChildren(n) ==
    /\ Works(n, "list")
    /\ Ruled(n, Live)
    /\ UNCHANGED <<pages, row, op, trouble>>

GetTrashed(n) ==
    /\ Works(n, "getPage")
    /\ Min(cand[n]) \notin Live
    /\ Ruled(n, cand[n] \ {Min(cand[n])})
    /\ UNCHANGED <<pages, row, op, trouble>>

(* notion_page_id is unique: naming a page that another row names throws. *)
NamePage(n, p, state, next) ==
    IF p \in Tracked
    THEN Goes(n, "failed") /\ UNCHANGED row
    ELSE Goes(n, next) /\ row' = [row EXCEPT ![n] = [state |-> state, page |-> p]]

(* Mutant of Adopt: the adopted page passes for one that holds the note. *)
AdoptSettled(n) ==
    /\ Works(n, "getPage")
    /\ Min(cand[n]) \in Live
    /\ NamePage(n, Min(cand[n]), "synced", "finished")
    /\ cand' = [cand EXCEPT ![n] = {}]
    /\ UNCHANGED <<pages, op, trouble>>

(* Whether a row names the page was asked before getPage and is not asked again. *)
Adopt(n) ==
    /\ Works(n, "getPage")
    /\ Min(cand[n]) \in Live
    /\ NamePage(n, Min(cand[n]), "adopted", "adopted")
    /\ cand' = [cand EXCEPT ![n] = {}]
    /\ UNCHANGED <<pages, op, trouble>>

(* markPendingCompleted is a statement of its own: a crash can come before it. *)
CompleteOp(n) ==
    /\ \/ Works(n, "adopted") /\ Goes(n, "update")
       \/ Works(n, "finished") /\ Goes(n, "done")
    /\ op' = [op EXCEPT ![n] = FALSE]
    /\ UNCHANGED <<pages, row, cand, trouble>>

(* The page exists; what the request could not carry is filled in later. *)
CreatePage(n) ==
    /\ Works(n, "create")
    /\ \E whole \in BOOLEAN :
          pages' = Append(pages, [by |-> n, text |-> n, whole |-> whole, live |-> TRUE])
    /\ \/ /\ Goes(n, "map")
          /\ cand' = [cand EXCEPT ![n] = {Len(pages')}]
          /\ UNCHANGED trouble
       \/ /\ Trouble
          /\ Goes(n, "failed")
          /\ cand' = [cand EXCEPT ![n] = {}]
    /\ UNCHANGED <<row, op>>

MapPage(n) ==
    /\ Works(n, "map")
    /\ NamePage(n, Min(cand[n]), "mapped", "finish")
    /\ cand' = [cand EXCEPT ![n] = {}]
    /\ UNCHANGED <<pages, op, trouble>>

Settles(n, next) ==
    /\ pages' = [pages EXCEPT ![row[n].page].text = n, ![row[n].page].whole = TRUE]
    /\ row' = [row EXCEPT ![n].state = "synced"]
    /\ Goes(n, next)
    /\ UNCHANGED <<op, cand, trouble>>

FinishPage(n) == Works(n, "finish") /\ Settles(n, "finished")

(* pushUpdate writes the note over the page unseen: no last text says what was there. *)
(* Without a page it does nothing.                                                    *)
UpdatePage(n) ==
    /\ Works(n, "update")
    /\ IF row[n].page # 0
       THEN Settles(n, "done")
       ELSE Goes(n, "done") /\ UNCHANGED <<pages, row, op, cand, trouble>>

(* An update that fails may have replaced the body. *)
UpdateLost(n) ==
    /\ Works(n, "update")
    /\ row[n].page # 0
    /\ Trouble
    /\ pages' = [pages EXCEPT ![row[n].page].text = n]
    /\ Goes(n, "failed")
    /\ UNCHANGED <<row, op, cand>>

PoolDone ==
    /\ phase = "pool"
    /\ \A n \in Notes : at[n] \in {"off", "done", "failed"}
    /\ IF retry \/ \A n \in Notes : at[n] # "failed"
       THEN /\ phase' = "idle"
            /\ at' = [n \in Notes |-> "off"]
            /\ retry' = FALSE
       ELSE /\ at' = [n \in Notes |->
                         IF at[n] # "failed" THEN "off"
                         ELSE IF row[n].page = 0 THEN "start" ELSE "update"]
            /\ retry' = TRUE
            /\ UNCHANGED phase
    /\ UNCHANGED <<pages, row, op, copies, pulling, ops, cand, trouble>>
--------------------------------------------------------------------------------
Pull == \/ \E p \in pulling : PullRelink(p) \/ PullCopy(p) \/ PullUnsettled(p) \/ PullUnchanged(p)
        \/ PullDone

Recover == \/ \E n \in ops : \/ RecoverMapped(n) \/ RecoverAdopt(n) \/ RecoverNothing(n)
                             \/ RecoverUnreadable(n)
           \/ StartPool

Work(n) == \/ BeginCreate(n) \/ ListChildren(n) \/ GetTrashed(n) \/ Adopt(n) \/ CompleteOp(n)
           \/ CreatePage(n) \/ MapPage(n) \/ FinishPage(n)
           \/ UpdatePage(n) \/ UpdateLost(n)
           \/ RequestFails(n)

Push == Recover \/ PoolDone \/ \E n \in Notes : Work(n)

Next == \/ HumanCreate \/ HumanTrash
        \/ StartPull \/ StartPush \/ Pull \/ Push \/ Crash

Spec == Init /\ [][Next]_vars

(* Syncs keep coming, and every step of one ends: requests have time limits. *)
FairSpec == Spec /\ WF_vars(Pull) /\ WF_vars(Push) /\ SF_vars(StartPush)
--------------------------------------------------------------------------------
TypeOK ==
    /\ pages \in Seq([by : Notes \cup {Human}, text : Notes \cup {Human},
                      whole : BOOLEAN, live : BOOLEAN])
    /\ row \in [Notes -> [state : {"none", "placeholder", "synced", "conflict"} \cup Unsettled,
                          page : {0} \cup DOMAIN pages]]
    /\ op \in [Notes -> BOOLEAN]
    /\ copies \subseteq DOMAIN pages
    /\ phase \in {"idle", "pull", "recover", "pool"}
    /\ pulling \subseteq DOMAIN pages /\ ops \subseteq Notes
    /\ at \in [Notes -> Steps]
    /\ cand \in [Notes -> SUBSET DOMAIN pages]
    /\ retry \in BOOLEAN
    /\ trouble \in 0..MaxTrouble

Made == {p \in Live : pages[p].by \in Notes}

(* I12 of the repository: whatever answers are lost and wherever a run dies, the  *)
(* notes never have more pages of this tool's making than there are notes.        *)
NoDuplicatePages == Cardinality(Made) <= Cardinality(Notes)

(* The same for pushes alone: pages that a pull has made notes of do not count.   *)
PushMakesNoDuplicates == Cardinality(Made \ copies) <= Cardinality(Notes)

(* Two workers may find the same page; a note that counts as synced nevertheless  *)
(* has a page of its own, and that page holds the note and nothing else.          *)
SyncedPageHoldsNote ==
    \A n \in Notes : row[n].state = "synced" =>
        /\ pages[row[n].page].text = n
        /\ row[n].page \notin copies
        /\ \A m \in Notes \ {n} : row[m].page # row[n].page

(* A note is lost sight of at no point: it comes to have a page that holds it, or  *)
(* it is put before the user as a conflict, and then no entry is left to recover.  *)
EveryNoteLands ==
    <>[](\A n \in Notes : row[n].state \in {"synced", "conflict"} /\ ~op[n])
================================================================================
