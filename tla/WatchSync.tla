------------------------------- MODULE WatchSync -------------------------------
(***************************************************************************)
(* `nobsi watch`: WatchSyncService and the command that starts and stops   *)
(* it.  Node runs one callback at a time, so a step is what one callback   *)
(* does up to its next await: a file event, the debounce timer, the        *)
(* periodic timer, the sync that returns, the continuation of executeSync, *)
(* a signal.  `syncing` of the code is inFlight # NoSync.                  *)
(***************************************************************************)
EXTENDS Naturals

CONSTANTS
    Paths,        \* the notes of the vault
    MaxEdits,     \* bound: edits of files and of pages together
    ItemFailures  \* the settings of the periodic sync under which single notes fail

ASSUME WatchAssumption == MaxEdits \in Nat /\ ItemFailures \subseteq BOOLEAN

VARIABLES
    interval,   \* the periodic sync is on (--interval, sync.autoSync)
    proc,       \* the process: up, closing the watcher, waiting for the sync, closed, killed
    debounce,   \* debounceTimer is set
    pending,    \* pendingChanges
    full,       \* fullSyncQueued
    queued,     \* syncQueued
    inFlight,   \* the sync executeSync awaits: scope, batch, aborted, returned
    todo,       \* notes the running sync has still to look at
    dirty,      \* notes edited in the vault since they were last synced
    behind,     \* notes whose page was edited since they were last synced
    unreported, \* files written whose event chokidar has still to deliver
    made        \* edits so far

vars == <<interval, proc, debounce, pending, full, queued, inFlight, todo, dirty, behind,
          unreported, made>>
service == <<debounce, pending, full, queued, inFlight>>
disk == <<dirty, behind, unreported, made>>

Sync == [all: BOOLEAN, batch: SUBSET Paths, aborted: BOOLEAN, returned: BOOLEAN]
NoSync == [all |-> FALSE, batch |-> {}, aborted |-> FALSE, returned |-> TRUE]

Up == proc = "up"
Alive == proc \in {"up", "closing", "waiting"}
Syncing == inFlight # NoSync

Init ==
    /\ interval \in BOOLEAN
    /\ proc = "up"
    /\ debounce = FALSE /\ pending = {} /\ full = FALSE /\ queued = FALSE
    /\ inFlight = NoSync
    /\ todo = {} /\ dirty = {} /\ behind = {} /\ unreported = {}
    /\ made = 0
--------------------------------------------------------------------------------
(* People. *)

LocalEdit(p) ==
    /\ made < MaxEdits
    /\ made' = made + 1
    /\ dirty' = dirty \cup {p}
    /\ unreported' = unreported \cup {p}
    /\ UNCHANGED <<interval, proc, service, todo, behind>>

RemoteEdit(p) ==
    /\ made < MaxEdits
    /\ made' = made + 1
    /\ behind' = behind \cup {p}
    /\ UNCHANGED <<interval, proc, service, todo, dirty, unreported>>
--------------------------------------------------------------------------------
(* An event: the path is pending and the debounce starts anew.  It is dropped once *)
(* stop was called.                                                                *)
HandleFileChange(p) ==
    IF Up THEN /\ pending' = pending \cup {p}
               /\ debounce' = TRUE
          ELSE UNCHANGED <<pending, debounce>>

Report(p) ==
    /\ proc \in {"up", "closing"}
    /\ p \in unreported
    /\ unreported' = unreported \ {p}
    /\ HandleFileChange(p)
    /\ UNCHANGED <<interval, proc, full, queued, inFlight, todo, dirty, behind, made>>

(* Mutant of Execute: the timer stays set. *)
ExecuteKeepsTimer(all, waiting) ==
    /\ all \/ waiting # {}
    /\ UNCHANGED debounce
    /\ pending' = {} /\ full' = FALSE
    /\ inFlight' = [all |-> all, batch |-> waiting, aborted |-> FALSE, returned |-> FALSE]
    /\ todo' = IF all THEN Paths ELSE waiting

(* executeSync when no sync runs.  Nothing to do is nothing done: a stale timer *)
(* must not turn into a sync of the whole vault.                                *)
Execute(all, waiting) ==
    /\ debounce' = FALSE
    /\ pending' = {} /\ full' = FALSE
    /\ IF all \/ waiting # {}
       THEN /\ inFlight' = [all |-> all, batch |-> waiting,
                            aborted |-> FALSE, returned |-> FALSE]
            /\ todo' = IF all THEN Paths ELSE waiting
       ELSE /\ inFlight' = NoSync
            /\ todo' = {}

DebounceFires ==
    /\ Alive /\ debounce
    /\ IF Syncing
       THEN /\ debounce' = FALSE
            /\ queued' = TRUE
            /\ UNCHANGED <<pending, full, inFlight, todo>>
       ELSE Execute(full, pending) /\ UNCHANGED queued
    /\ UNCHANGED <<interval, proc, disk>>

RequestFullSync ==
    /\ Up /\ interval
    /\ IF Syncing
       THEN /\ full' = TRUE
            /\ queued' = TRUE
            /\ UNCHANGED <<pending, debounce, inFlight, todo>>
       ELSE Execute(TRUE, pending) /\ UNCHANGED queued
    /\ UNCHANGED <<interval, proc, disk>>
--------------------------------------------------------------------------------
(* The orchestrator's sync, one note at a time. *)

Running == Alive /\ ~inFlight.returned

(* Mutant of SyncItem: a note the sync looks at is written whatever it holds. *)
SyncItemRewrites(p) ==
    /\ Running /\ p \in todo
    /\ todo' = todo \ {p}
    /\ dirty' = dirty \ {p}
    /\ behind' = behind \ {p}
    /\ unreported' = unreported \cup {p}
    /\ UNCHANGED <<interval, proc, service, made>>

(* A page that was edited is written into the vault, and chokidar will report that. *)
SyncItem(p) ==
    /\ Running /\ p \in todo
    /\ todo' = todo \ {p}
    /\ dirty' = dirty \ {p}
    /\ behind' = behind \ {p}
    /\ unreported' = IF p \in behind THEN unreported \cup {p} ELSE unreported
    /\ UNCHANGED <<interval, proc, service, made>>

(* A note that failed twice is a line of the result; the sync goes on. *)
ItemFails(p) ==
    /\ interval \in ItemFailures
    /\ Running /\ p \in todo
    /\ todo' = todo \ {p}
    /\ UNCHANGED <<interval, proc, service, disk>>

(* The worker pool and the scans stop between two notes when the signal is aborted. *)
SyncReturns ==
    /\ Running
    /\ todo = {} \/ inFlight.aborted
    /\ inFlight' = [inFlight EXCEPT !.returned = TRUE]
    /\ todo' = {}
    /\ UNCHANGED <<interval, proc, debounce, pending, full, queued, disk>>

(* Mutants of GivenBack: the paths of a sync that threw are gone; its batch is put *)
(* back as one entry.                                                              *)
GivenBackNothing == pending
GivenBackWhole == IF Up THEN pending \cup {inFlight.batch} ELSE pending

GivenBack == IF Up THEN pending \cup inFlight.batch ELSE pending

(* Notion does not answer while the sync looks for changes, or the DB fails. *)
SyncThrows ==
    /\ Running
    /\ inFlight' = [inFlight EXCEPT !.returned = TRUE]
    /\ todo' = {}
    /\ pending' = GivenBack
    /\ UNCHANGED <<interval, proc, debounce, full, queued, disk>>

(* The rest of executeSync, after `await done`. *)
Resume ==
    /\ Alive /\ Syncing /\ inFlight.returned
    /\ queued' = FALSE
    /\ IF queued
       THEN Execute(full, pending)
       ELSE /\ inFlight' = NoSync
            /\ debounce' = IF pending # {} THEN TRUE ELSE debounce
            /\ UNCHANGED <<pending, full, todo>>
    /\ UNCHANGED <<interval, proc, disk>>
--------------------------------------------------------------------------------
Forget == debounce' = FALSE /\ pending' = {} /\ full' = FALSE /\ queued' = FALSE

(* Ctrl+C, first time: halt() up to `await watcher.stop()`. *)
Stop ==
    /\ Up
    /\ proc' = "closing"
    /\ Forget
    /\ UNCHANGED <<interval, inFlight, todo, disk>>

WatcherClosed ==
    /\ proc = "closing"
    /\ proc' = "waiting"
    /\ inFlight' = IF Syncing THEN [inFlight EXCEPT !.aborted = TRUE] ELSE inFlight
    /\ UNCHANGED <<interval, debounce, pending, full, queued, todo, disk>>

(* Mutant of Close: stop() does not wait for the sync. *)
CloseAtOnce ==
    /\ proc = "waiting"
    /\ proc' = "closed"
    /\ UNCHANGED <<interval, service, todo, disk>>

(* stop() resolves; the command closes the state DB and exits. *)
Close ==
    /\ proc = "waiting"
    /\ ~Syncing
    /\ proc' = "closed"
    /\ UNCHANGED <<interval, service, todo, disk>>

(* Ctrl+C, second time. *)
ForcedExit ==
    /\ proc \in {"closing", "waiting"}
    /\ proc' = "killed"
    /\ UNCHANGED <<interval, service, todo, disk>>

Next ==
    \/ \E p \in Paths : LocalEdit(p) \/ RemoteEdit(p) \/ Report(p) \/ SyncItem(p) \/ ItemFails(p)
    \/ DebounceFires \/ RequestFullSync
    \/ SyncReturns \/ SyncThrows \/ Resume
    \/ Stop \/ WatcherClosed \/ Close \/ ForcedExit

Spec == Init /\ [][Next]_vars

(***************************************************************************)
(* Timers fire, chokidar delivers, a sync looks at its next note (its      *)
(* requests have deadlines), continuations run.  Notion is not unreachable *)
(* for ever: a note, or a sync, that is tried again and again succeeds.    *)
(***************************************************************************)
FairSpec ==
    /\ Spec
    /\ WF_vars(DebounceFires) /\ WF_vars(RequestFullSync) /\ WF_vars(Resume)
    /\ WF_vars(WatcherClosed) /\ WF_vars(Close)
    /\ SF_vars(SyncReturns)
    /\ \A p \in Paths : WF_vars(Report(p)) /\ SF_vars(SyncItem(p))
--------------------------------------------------------------------------------
TypeOK ==
    /\ interval \in BOOLEAN
    /\ proc \in {"up", "closing", "waiting", "closed", "killed"}
    /\ debounce \in BOOLEAN /\ full \in BOOLEAN /\ queued \in BOOLEAN
    /\ inFlight \in Sync
    /\ pending \subseteq Paths /\ todo \subseteq Paths
    /\ dirty \subseteq Paths /\ behind \subseteq Paths /\ unreported \subseteq Paths
    /\ made \in 0..MaxEdits

(* Whatever waits, something is on its way to fetch it: a pending path has a timer *)
(* or a running sync that will look at the queue when it ends, and a full sync that*)
(* was asked for waits for nothing but the sync that is running.  And what is on   *)
(* its way finds something: no timer outlives the paths it was set for, so the     *)
(* sync without paths that executeSync guards against cannot be reached.           *)
NothingStranded ==
    /\ pending # {} => debounce \/ Syncing
    /\ full => queued
    /\ queued => Syncing /\ (full \/ pending # {})
    /\ debounce => pending # {}

(* The sync as AutoSync sees it: one that has returned, or was cut off by a forced *)
(* exit, is no longer running.                                                     *)
Doing == IF inFlight.returned \/ proc = "killed"
         THEN [all |-> FALSE, batch |-> {}]
         ELSE [all |-> inFlight.all, batch |-> inFlight.batch]

Promise == INSTANCE AutoSync WITH
    periodic <- interval,
    wanted <- pending,
    whole <- full,
    doing <- Doing,
    state <- IF proc \in {"closing", "waiting"} THEN "stopping"
             ELSE IF proc = "up" THEN "open" ELSE proc

(* The service does what AutoSync promises: one sync at a time, every reported     *)
(* change taken or given back, the whole vault only on request, nothing started    *)
(* after stop(), and the state DB closed under no sync.                            *)
KeepsItsPromise == Promise!Spec

(* Every edit of a note reaches Notion while the watch goes on. *)
ChangesLand == \A p \in Paths : p \in dirty ~> p \notin dirty \/ ~Up

(* The files a sync writes are reported like any other, and the syncs they cause  *)
(* write nothing: without a periodic sync, and once syncs stop throwing, the watch*)
(* comes to rest.                                                                 *)
Settles ==
    ~interval /\ <>[][~SyncThrows]_vars => <>[](~Alive \/ (~Syncing /\ pending = {}))
================================================================================
