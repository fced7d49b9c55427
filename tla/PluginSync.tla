------------------------------- MODULE PluginSync -------------------------------
(***************************************************************************)
(* The Obsidian plugin: an engine for the vault and one for each folder    *)
(* with a connection of its own, their controllers, the timers they share, *)
(* and the promise chain that opens and closes them.  The window runs one  *)
(* callback at a time, up to its next await: a step.  What an operation of *)
(* a controller does is the matter of other modules; here it begins, writes*)
(* the note of its engine now and then, and ends.                          *)
(***************************************************************************)
EXTENDS Naturals, Sequences, Functions

CONSTANTS
    primary,   \* the engine of the vault
    folders,   \* those of the connected folders, in their order
    MaxUser,   \* bound: operations the user starts, and questions the user is asked
    MaxNotes,  \* bound: edits of notes
    MaxSetup   \* bound: changes of the settings

ASSUME PluginAssumption ==
    /\ folders \in Seq(Range(folders)) /\ IsInjective(folders)
    /\ primary \notin Range(folders)
    /\ MaxUser \in Nat /\ MaxNotes \in Nat /\ MaxSetup \in Nat

Engines == {primary} \cup Range(folders)

VARIABLES
    ready,     \* engines that have a controller
    base,      \* the state DB of each engine: closed, open, unwritten (close failed)
    op,        \* `active` of each controller
    writing,   \* engines whose adapter is writing their note (`changing`)
    again,     \* vaultSyncPending
    asking,    \* the question about .base filters: none, of this controller, of a former one
    timer,     \* debounceTimer is set
    waiting,   \* vaultSyncQueue
    autoSync,  \* settings.autoSync
    clock,     \* autoSyncTimer is set
    jobs,      \* what is left of the chain `initializing`
    unloaded,  \* onunload was called
    accepted,  \* ghost: edits that called for a sync, and no sync began since
    spent      \* edits, operations and settings so far

opsVars   == <<op, writing, again, asking>>
timerVars == <<timer, waiting, autoSync, clock>>
lifeVars  == <<ready, base, jobs, unloaded>>
pluginVars == <<opsVars, timerVars, lifeVars, accepted, spent>>

(* What the user starts, and the periodic sync; the sync of a vault event; the fixes *)
(* of .base filters the user said yes to.                                            *)
Kinds == {"user", "vault", "fix"}
Busy(e) == op[e] # "none"

Jobs == [do : {"close", "shut", "open", "make", "timers"}, of : Engines]
Job(do, e) == <<[do |-> do, of |-> e]>>
Each(do) == [i \in DOMAIN folders |-> [do |-> do, of |-> folders[i]]]

(* createOrchestrator: openPrimary, openExtras, startAutoSync.  onunload: what closes. *)
InitJobs ==
    Job("close", primary) \o Job("open", primary)
    \o Each("close") \o Each("open") \o Job("timers", primary)
UnloadJobs == Each("close") \o Job("close", primary)

PluginInit ==
    /\ ready = {}
    /\ base = [e \in Engines |-> "closed"]
    /\ op = [e \in Engines |-> "none"] /\ writing = {}
    /\ again = {}
    /\ asking = [e \in Engines |-> "none"]
    /\ timer = FALSE /\ waiting = {} /\ clock = FALSE
    /\ autoSync \in BOOLEAN
    /\ jobs = InitJobs
    /\ unloaded = FALSE
    /\ accepted = {}
    /\ spent = [notes |-> 0, user |-> 0, setup |-> 0]
--------------------------------------------------------------------------------
(* The controller. *)

(* `exclusive` for the controllers of S, up to the first await of the task.  A sync *)
(* looks at the notes after it has begun.                                           *)
Begin(S, kind) ==
    /\ op' = [e \in Engines |-> IF e \in S THEN kind ELSE op[e]]
    /\ accepted' = IF kind = "fix" THEN accepted ELSE accepted \ S

Admits(e) == e \in ready /\ ~Busy(e)

UserRuns(e) ==
    /\ ~unloaded /\ spent.user < MaxUser
    /\ Admits(e)
    /\ Begin({e}, "user")
    /\ spent' = [spent EXCEPT !.user = @ + 1]
    /\ UNCHANGED <<writing, again, asking, timerVars, lifeVars>>

(* autoSync of every engine that is ready; one that is busy skips the turn. *)
ClockTicks ==
    /\ clock
    /\ Begin({e \in Engines : Admits(e)}, "user")
    /\ UNCHANGED <<writing, again, asking, timerVars, lifeVars, spent>>

(* Mutant of VaultSyncs: a sync that cannot run now is skipped, like the periodic one. *)
VaultSyncsOrSkips(S) ==
    /\ Begin({e \in S : Admits(e)}, "vault")
    /\ UNCHANGED again

(* vaultSync of the engines of S. *)
VaultSyncs(S) ==
    /\ Begin({e \in S : Admits(e)}, "vault")
    /\ again' = again \cup {e \in S \cap ready : Busy(e)}

(* writeFile; the adapter knows the path until the call returns. *)
Writes(e) ==
    /\ Busy(e)
    /\ writing' = IF e \in writing THEN writing \ {e} ELSE writing \cup {e}
    /\ UNCHANGED <<op, again, asking, timerVars, lifeVars, accepted, spent>>

(* Mutant of Released: what waits is run by an operation that succeeds, no `finally`. *)
ReleasedInTheEnd(e) ==
    \/ /\ e \in again
       /\ again' = again \ {e}
       /\ Begin({e}, "vault")
    \/ /\ op' = [op EXCEPT ![e] = "none"]
       /\ UNCHANGED <<again, accepted>>

(* `finally` of exclusive: a sync that was asked for meanwhile runs now. *)
Released(e) ==
    IF e \in again
    THEN /\ again' = again \ {e}
         /\ Begin({e}, "vault")
    ELSE /\ op' = [op EXCEPT ![e] = "none"]
         /\ UNCHANGED <<again, accepted>>

(* The operation is over: done, failed, or cancelled by the user or by shutdown. *)
Ends(e) ==
    /\ Busy(e) /\ e \notin writing
    /\ Released(e)
    /\ UNCHANGED <<writing, asking, timerVars, lifeVars, spent>>

(* After what the user started, and the periodic sync, the user may be asked, unless *)
(* the controller was shut down.                                                     *)
EndsAndAsks(e) ==
    /\ op[e] = "user" /\ e \notin writing
    /\ e \in ready
    /\ spent.user < MaxUser
    /\ Released(e)
    /\ asking' = [asking EXCEPT ![e] = "now"]
    /\ spent' = [spent EXCEPT !.user = @ + 1]
    /\ UNCHANGED <<writing, timerVars, lifeVars>>

(* Mutant of MayFix: nobody asks whether the controller was shut down meanwhile. *)
MayFixStill(e) == ~Busy(e)

MayFix(e) == asking[e] = "now" /\ Admits(e)

(* The user answers, or closes the question.  The answer is applied to the controller *)
(* that asked.                                                                        *)
Answers(e, accept) ==
    /\ asking[e] # "none"
    /\ asking' = [asking EXCEPT ![e] = "none"]
    /\ IF accept /\ MayFix(e)
       THEN Begin({e}, "fix")
       ELSE UNCHANGED <<op, accepted>>
    /\ UNCHANGED <<writing, again, timerVars, lifeVars, spent>>
--------------------------------------------------------------------------------
(* The vault events and the debounce. *)

(* route finds the engine, and the path is not one its own sync is writing. *)
Routed(e) == e \in ready /\ e \notin writing

(* Mutant of Queued: the queue is of one engine, the last one. *)
QueuedAlone(e) == {e}

(* Mutant of Queued: the queue holds what each event told, not the engine it is for. *)
QueuedNotes(e) == waiting \cup {<<e, "note">>}

Queued(e) == waiting \cup {e}

EditsNote(e) ==
    /\ ~unloaded /\ spent.notes < MaxNotes
    /\ spent' = [spent EXCEPT !.notes = @ + 1]
    /\ waiting' = IF Routed(e) THEN Queued(e) ELSE waiting
    /\ timer' = (timer \/ (Routed(e) /\ autoSync))
    /\ accepted' = IF Routed(e) /\ autoSync THEN accepted \cup {e} ELSE accepted
    /\ UNCHANGED <<opsVars, autoSync, clock, lifeVars>>

DebounceEnds ==
    /\ timer
    /\ timer' = FALSE /\ waiting' = {}
    /\ VaultSyncs(waiting)
    /\ UNCHANGED <<writing, asking, autoSync, clock, lifeVars, spent>>

(* Mutant of Ticking: the periodic sync goes with the connection of the vault. *)
TickingWithPrimary == primary \in ready

(* startAutoSync starts the clock for any engine. *)
Ticking == ready # {}

(* The toggle of the settings: startAutoSync, stopAutoSync.  The debounce stays. *)
TogglesAutoSync ==
    /\ ~unloaded /\ spent.setup < MaxSetup
    /\ spent' = [spent EXCEPT !.setup = @ + 1]
    /\ autoSync' = ~autoSync
    /\ clock' = (autoSync' /\ Ticking)
    /\ UNCHANGED <<opsVars, timer, waiting, lifeVars, accepted>>
--------------------------------------------------------------------------------
(* Opening and closing, one job after the other. *)

Now(do, e) == jobs # <<>> /\ jobs[1] = [do |-> do, of |-> e]
Then(do, e) == jobs' = Job(do, e) \o Tail(jobs)
Done == jobs' = Tail(jobs)

(* The connection settings changed, the user refreshes an engine that is not open, or *)
(* the copy of a state DB is stale.                                                   *)
Reconnects ==
    /\ ~unloaded /\ spent.setup < MaxSetup
    /\ spent' = [spent EXCEPT !.setup = @ + 1]
    /\ jobs' = jobs \o InitJobs
    /\ UNCHANGED <<opsVars, timerVars, ready, base, unloaded, accepted>>

(* Mutant of Unloading: what is open now is closed now. *)
UnloadingFirst == UnloadJobs \o jobs

Unloading == jobs \o UnloadJobs

Unloads ==
    /\ ~unloaded
    /\ unloaded' = TRUE
    /\ clock' = FALSE /\ timer' = FALSE
    /\ jobs' = Unloading
    /\ accepted' = {}
    /\ UNCHANGED <<opsVars, waiting, autoSync, ready, base, spent>>

(* close() up to `await controller?.shutdown()`: this controller begins nothing more. *)
CloseBegins(e) ==
    /\ Now("close", e)
    /\ Then("shut", e)
    /\ ready' = ready \ {e}
    /\ again' = again \ {e}
    /\ asking' = [asking EXCEPT ![e] = IF @ = "none" THEN @ ELSE "former"]
    /\ accepted' = accepted \ {e}
    /\ UNCHANGED <<op, writing, timerVars, base, unloaded, spent>>

(* Mutant of Stopped: close does not wait for the operation it aborted. *)
StoppedSoon(e) == Now("shut", e)

Stopped(e) == Now("shut", e) /\ ~Busy(e)

(* The operation stopped; what the state DB has still to write is written and it is   *)
(* closed.  An extra's engine is dropped, and with it what the queue held of it; its  *)
(* DB, when it cannot be closed, is nobody's.                                         *)
CloseEnds(e) ==
    /\ Stopped(e)
    /\ base' = [base EXCEPT ![e] = IF e # primary /\ @ = "unwritten" THEN @ ELSE "closed"]
    /\ waiting' = IF e = primary THEN waiting ELSE waiting \ {e}
    /\ Done
    /\ UNCHANGED <<opsVars, timer, autoSync, clock, ready, unloaded, accepted, spent>>

(* The DB cannot write.  openPrimary gives up before it opens; an extra is dropped. *)
CloseFails(e) ==
    /\ Stopped(e)
    /\ base[e] # "closed"
    /\ base' = [base EXCEPT ![e] = "unwritten"]
    /\ waiting' = IF e = primary THEN waiting ELSE waiting \ {e}
    /\ jobs' = IF e = primary /\ Len(jobs) > 1 /\ jobs[2] = [do |-> "open", of |-> primary]
               THEN Tail(Tail(jobs)) ELSE Tail(jobs)
    /\ UNCHANGED <<opsVars, timer, autoSync, clock, ready, unloaded, accepted, spent>>

(* Locked and read, unless the lock is held: by another program, or by the DB that *)
(* could not be closed.                                                            *)
OpensBase(e) ==
    /\ Now("open", e)
    /\ base[e] = "closed"
    /\ base' = [base EXCEPT ![e] = "open"]
    /\ Then("make", e)
    /\ UNCHANGED <<opsVars, timerVars, ready, unloaded, accepted, spent>>

MakesController(e) ==
    /\ Now("make", e)
    /\ ready' = ready \cup {e}
    /\ Done
    /\ UNCHANGED <<opsVars, timerVars, base, unloaded, accepted, spent>>

(* No token, no folder, a file that cannot be read: the next connection is tried. *)
OpenFails(e) ==
    /\ Now("open", e) \/ Now("make", e)
    /\ Done
    /\ UNCHANGED <<opsVars, timerVars, ready, base, unloaded, accepted, spent>>

SetsClock ==
    /\ Now("timers", primary)
    /\ clock' = (autoSync /\ Ticking)
    /\ Done
    /\ UNCHANGED <<opsVars, timer, waiting, autoSync, ready, base, unloaded, accepted, spent>>

OpeningOrClosing ==
    \/ SetsClock
    \/ \E e \in Engines :
          \/ CloseBegins(e) \/ CloseEnds(e) \/ CloseFails(e)
          \/ OpensBase(e) \/ MakesController(e) \/ OpenFails(e)
--------------------------------------------------------------------------------
PluginNext ==
    \/ \E e \in Engines :
          \/ UserRuns(e) \/ Answers(e, TRUE) \/ Answers(e, FALSE)
          \/ Writes(e) \/ Ends(e) \/ EndsAndAsks(e)
          \/ EditsNote(e)
    \/ ClockTicks \/ DebounceEnds \/ TogglesAutoSync
    \/ Reconnects \/ Unloads \/ OpeningOrClosing

PluginSpec == PluginInit /\ [][PluginNext]_pluginVars
--------------------------------------------------------------------------------
PluginTypeOK ==
    /\ ready \subseteq Engines /\ again \subseteq Engines /\ waiting \subseteq Engines
    /\ accepted \subseteq Engines
    /\ base \in [Engines -> {"closed", "open", "unwritten"}]
    /\ op \in [Engines -> Kinds \cup {"none"}] /\ writing \subseteq Engines
    /\ asking \in [Engines -> {"none", "now", "former"}]
    /\ timer \in BOOLEAN /\ autoSync \in BOOLEAN /\ clock \in BOOLEAN /\ unloaded \in BOOLEAN
    /\ jobs \in Seq(Jobs)
    /\ spent \in [notes : 0..MaxNotes, user : 0..MaxUser, setup : 0..MaxSetup]

(* No operation runs on a state DB that is closed, or that was given up: not one that *)
(* was running when the settings changed, and not one the user says yes to later.     *)
RunsOnOpenBase == \A e \in Engines : Busy(e) => base[e] = "open"

(* An edit that called for a sync is not forgotten before a sync has begun: the       *)
(* debounce will fire for its engine, or what runs there starts that sync when it     *)
(* ends, however it ends.                                                             *)
AcceptedEditIsComing ==
    \A e \in accepted : (timer /\ e \in waiting) \/ (e \in again /\ Busy(e))

(* When all that follows an unload is done nothing is open: not what an initialisation *)
(* that was under way opened after it.  Only a DB that could not be written is left.   *)
UnloadClosesAll ==
    unloaded /\ jobs = <<>> =>
        ready = {} /\ \A e \in Engines : ~Busy(e) /\ base[e] # "open"

(* What the events do not tell, an edit behind the sync that writes the same note or  *)
(* one made while the connection was closed, is left to the periodic sync: it runs    *)
(* whenever it is asked for and some connection is open, in whatever order the        *)
(* setting was changed and the connections came and went.                             *)
ClockRuns == jobs = <<>> /\ ~unloaded => clock = (autoSync /\ ready # {})
================================================================================
