------------------------------- MODULE StateFile -------------------------------
(***************************************************************************)
(* The state database of a vault, sync.db, is one file that the CLI        *)
(* (better-sqlite3: a -wal file that is merged on close) and the plugin    *)
(* (sql.js: a copy in memory that replaces the file) both write.  A lock   *)
(* file beside it keeps them apart: made with the flag wx, then filled     *)
(* with its owner, and taken over from an owner that died (StateLock).     *)
(* The plugin also compares the file with what it saw before it writes     *)
(* (StateDbFile).                                                          *)
(*                                                                         *)
(* All openers run on one machine, so each can ask whether another's PID   *)
(* is alive, and no PID is used twice.  Every action is one system call or *)
(* one uninterrupted piece of a process.                                   *)
(***************************************************************************)
EXTENDS Integers

CONSTANTS
    Plugins,     \* Obsidian processes: a window of each can be reloaded
    Clis,        \* command line processes: each command is a new one
    MaxRecords,  \* bound: records that are written
    MaxDeaths,   \* bound: processes that die and windows that are reloaded
    Crowded      \* two openers may be at the removal of one dead lock at once

Openers == Plugins \cup Clis

ASSUME FileAssumption ==
    /\ Plugins \cap Clis = {} /\ "nobody" \notin Openers
    /\ MaxRecords \in Nat /\ MaxDeaths \in Nat
    /\ Crowded \in BOOLEAN

VARIABLES
    lock,     \* the lock file: free, empty or held, by whom, and what is gone of the owner
    quiet,    \* the lock file was not touched for two minutes
    looking,  \* the openers that read the lock file as it still is
    at,       \* where each opener is
    db,       \* the records in the file
    wal,      \* the records in the -wal file
    paired,   \* the -wal file belongs to the file
    fresh,    \* the plugins for which the file has the stamp they took
    attached, \* the CLIs whose open file is the one that has the name
    copy,     \* the copy a plugin has in memory
    out,      \* what it exported last, or what it read
    durable,  \* the records that reached the disk
    total,    \* how many records there are
    deaths

lockVars == <<lock, quiet, looking>>
fileVars == <<db, wal, paired, fresh, attached, durable>>
memVars  == <<copy, out, total>>
stateFileVars == <<lockVars, at, fileVars, memVars, deaths>>

Nobody == "nobody"
Free == [state |-> "free", owner |-> Nobody, gone |-> "no"]

Claiming == {"create", "fill", "look", "compare", "remove"}
Holding  == {"locked", "load", "open", "replace", "stamp", "close"}
Places   == {"off"} \cup Claiming \cup Holding \cup {"release", "unlock"}

Goes(p, place) == at' = [at EXCEPT ![p] = place]

Owns(p) == lock.state = "held" /\ lock.owner = p /\ lock.gone = "no"

FileInit ==
    /\ lock = Free /\ quiet = FALSE /\ looking = {}
    /\ at = [p \in Openers |-> "off"]
    /\ db = {} /\ wal = {} /\ paired = TRUE
    /\ fresh = {} /\ attached = {}
    /\ copy = [p \in Plugins |-> {}] /\ out = [p \in Plugins |-> {}]
    /\ durable = {} /\ total = 0
    /\ deaths = 0
--------------------------------------------------------------------------------
(* The lock. *)

LockBecomes(l) == lock' = l /\ quiet' = FALSE /\ looking' = {}

Claim(p) ==
    /\ at[p] = "off"
    /\ Goes(p, "create")
    /\ UNCHANGED <<lockVars, fileVars, memVars, deaths>>

CreateLockFile(p) ==
    /\ at[p] = "create"
    /\ IF lock.state = "free"
       THEN LockBecomes([state |-> "empty", owner |-> p, gone |-> "no"]) /\ Goes(p, "fill")
       ELSE Goes(p, "look") /\ UNCHANGED lockVars
    /\ UNCHANGED <<fileVars, memVars, deaths>>

(* The owner goes through the open descriptor: a file that was removed gets it too. *)
FillLockFile(p) ==
    /\ at[p] = "fill"
    /\ IF lock.owner = p /\ lock.gone = "no"
       THEN LockBecomes([lock EXCEPT !.state = "held"])
       ELSE UNCHANGED lockVars
    /\ Goes(p, "locked")
    /\ UNCHANGED <<fileVars, memVars, deaths>>

(* Mutant of Abandoned: an owner that cannot be read is a dead one. *)
AbandonedUnread(p) ==
    \/ lock.state = "empty"
    \/ lock.gone = "process"
    \/ lock.gone = "page" /\ lock.owner = p

(* Mutant of Abandoned: a window that is gone still counts as the process that lives on. *)
AbandonedByPid(p) ==
    IF lock.state = "empty" THEN quiet ELSE lock.gone = "process"

(* By others the owner's PID is asked; the owner's process knows its windows. *)
Abandoned(p) ==
    IF lock.state = "empty" THEN quiet
    ELSE \/ lock.gone = "process"
         \/ lock.gone = "page" /\ lock.owner = p

(* A lock that is not abandoned ends the attempt to open. *)
ReadHeld(p) ==
    /\ at[p] = "look"
    /\ \/ lock.state = "free" /\ Goes(p, "create") /\ UNCHANGED looking
       \/ /\ lock.state # "free" /\ Abandoned(p)
          /\ Crowded \/ \A q \in Openers : at[q] \notin {"compare", "remove"}
          /\ looking' = looking \cup {p}
          /\ Goes(p, "compare")
       \/ lock.state # "free" /\ ~Abandoned(p) /\ Goes(p, "off") /\ UNCHANGED looking
    /\ UNCHANGED <<lock, quiet, fileVars, memVars, deaths>>

CompareHeld(p) ==
    /\ at[p] = "compare"
    /\ Goes(p, IF p \in looking THEN "remove" ELSE "create")
    /\ UNCHANGED <<lockVars, fileVars, memVars, deaths>>

RemoveHeld(p) ==
    /\ at[p] = "remove"
    /\ LockBecomes(Free)
    /\ Goes(p, "create")
    /\ UNCHANGED <<fileVars, memVars, deaths>>

Release(p) ==
    /\ at[p] = "release"
    /\ Goes(p, IF Owns(p) THEN "unlock" ELSE "off")
    /\ UNCHANGED <<lockVars, fileVars, memVars, deaths>>

Unlock(p) ==
    /\ at[p] = "unlock"
    /\ LockBecomes(Free)
    /\ Goes(p, "off")
    /\ UNCHANGED <<fileVars, memVars, deaths>>
--------------------------------------------------------------------------------
(* The plugin. *)

NewRecord == total < MaxRecords /\ total' = total + 1

(* The stamp is taken before the file is read. *)
AcquireFile(p) ==
    /\ at[p] = "locked"
    /\ IF wal = {}
       THEN fresh' = fresh \cup {p} /\ Goes(p, "load")
       ELSE Goes(p, "release") /\ UNCHANGED fresh
    /\ UNCHANGED <<lockVars, db, wal, paired, attached, durable, memVars, deaths>>

LoadCopy(p) ==
    /\ at[p] = "load"
    /\ copy' = [copy EXCEPT ![p] = db]
    /\ out' = [out EXCEPT ![p] = db]
    /\ Goes(p, "open")
    /\ UNCHANGED <<lockVars, fileVars, total, deaths>>

(* The copy goes on changing while it is written. *)
Change(p) ==
    /\ at[p] \in {"open", "replace", "stamp"}
    /\ NewRecord
    /\ copy' = [copy EXCEPT ![p] = @ \cup {total'}]
    /\ UNCHANGED <<lockVars, at, fileVars, out, deaths>>

MayWrite(p) == Owns(p) /\ wal = {} /\ p \in fresh

(* A copy that may not be written is dropped, and the file is opened anew. *)
Flush(p) ==
    /\ at[p] = "open" /\ copy[p] # out[p]
    /\ IF MayWrite(p)
       THEN out' = [out EXCEPT ![p] = copy[p]] /\ Goes(p, "replace") /\ UNCHANGED <<copy, fresh>>
       ELSE /\ copy' = [copy EXCEPT ![p] = {}]
            /\ out' = [out EXCEPT ![p] = {}]
            /\ fresh' = fresh \ {p}
            /\ Goes(p, "release")
    /\ UNCHANGED <<lockVars, db, wal, paired, attached, durable, total, deaths>>

(* Renaming puts another file in the place of the one that a CLI may have open. *)
ReplaceFile(p) ==
    /\ at[p] = "replace"
    /\ db' = out[p]
    /\ durable' = durable \cup out[p]
    /\ paired' = (wal = {} /\ attached = {})
    /\ fresh' = {} /\ attached' = {}
    /\ Goes(p, "stamp")
    /\ UNCHANGED <<lockVars, wal, memVars, deaths>>

StampFile(p) ==
    /\ at[p] = "stamp"
    /\ fresh' = fresh \cup {p}
    /\ Goes(p, "open")
    /\ UNCHANGED <<lockVars, db, wal, paired, attached, durable, memVars, deaths>>

(* Mutant of PluginClose: the copy is gone, its stamp is not. *)
PluginCloseKeepsStamp(p) ==
    /\ at[p] = "open" /\ copy[p] = out[p]
    /\ copy' = [copy EXCEPT ![p] = {}]
    /\ out' = [out EXCEPT ![p] = {}]
    /\ Goes(p, "release")
    /\ UNCHANGED <<lockVars, fileVars, total, deaths>>

(* Only a copy that is written is closed. *)
PluginClose(p) ==
    /\ at[p] = "open" /\ copy[p] = out[p]
    /\ copy' = [copy EXCEPT ![p] = {}]
    /\ out' = [out EXCEPT ![p] = {}]
    /\ fresh' = fresh \ {p}
    /\ Goes(p, "release")
    /\ UNCHANGED <<lockVars, db, wal, paired, attached, durable, total, deaths>>
--------------------------------------------------------------------------------
(* The CLI. *)

(* Mutant of OpenDatabase: the -wal file of a command that died is thrown away. *)
OpenDatabaseAfresh(p) ==
    /\ at[p] = "locked"
    /\ attached' = attached \cup {p}
    /\ wal' = {} /\ fresh' \in {fresh, {}}
    /\ Goes(p, "open")
    /\ UNCHANGED <<lockVars, db, paired, durable, memVars, deaths>>

(* Turning a file that is not yet in WAL mode to it writes its head. *)
OpenDatabase(p) ==
    /\ at[p] = "locked"
    /\ attached' = attached \cup {p}
    /\ fresh' \in {fresh, {}}
    /\ Goes(p, "open")
    /\ UNCHANGED <<lockVars, db, wal, paired, durable, memVars, deaths>>

(* A transaction goes to the -wal file. *)
Commit(p) ==
    /\ at[p] = "open"
    /\ NewRecord
    /\ wal' = wal \cup {total'}
    /\ durable' = durable \cup {total'}
    /\ UNCHANGED <<lockVars, at, db, paired, fresh, attached, copy, out, deaths>>

(* The last connection merges the -wal file and removes it, into the file it opened. *)
CloseDatabase(p) ==
    /\ at[p] = "open"
    /\ attached' = attached \ {p}
    /\ IF attached \ {p} = {}
       THEN /\ wal' = {} /\ paired' = TRUE
            /\ IF p \in attached /\ wal # {}
               THEN db' = db \cup wal /\ fresh' = {}
               ELSE UNCHANGED <<db, fresh>>
       ELSE UNCHANGED <<db, wal, paired, fresh>>
    /\ Goes(p, "release")
    /\ UNCHANGED <<lockVars, durable, memVars, deaths>>
--------------------------------------------------------------------------------
(* Death. *)

Dies(p) ==
    /\ deaths < MaxDeaths /\ deaths' = deaths + 1
    /\ Goes(p, "off")
    /\ looking' = looking \ {p}
    /\ fresh' = fresh \ {p}
    /\ attached' = attached \ {p}
    /\ copy' = [q \in Plugins |-> IF q = p THEN {} ELSE copy[q]]
    /\ out' = [q \in Plugins |-> IF q = p THEN {} ELSE out[q]]
    /\ UNCHANGED <<quiet, db, wal, paired, durable, total>>

Orphaned(p, what) ==
    IF lock.owner = p /\ lock.gone # "process" THEN [lock EXCEPT !.gone = what] ELSE lock

Crash(p) ==
    /\ at[p] # "off" \/ (p \in Plugins /\ lock.owner = p)
    /\ Dies(p)
    /\ lock' = Orphaned(p, "process")

(* The process stays, and with it the PID that the lock file names. *)
ReloadWindow(p) ==
    /\ at[p] # "off"
    /\ Dies(p)
    /\ lock' = Orphaned(p, "page")

(* The filling of a lock file takes no two minutes. *)
TwoMinutes ==
    /\ lock.state = "empty" /\ lock.gone # "no" /\ ~quiet
    /\ quiet' = TRUE
    /\ UNCHANGED <<lock, looking, at, fileVars, memVars, deaths>>
--------------------------------------------------------------------------------
Opening(p) == \/ CreateLockFile(p) \/ FillLockFile(p) \/ ReadHeld(p) \/ CompareHeld(p)
              \/ RemoveHeld(p) \/ Release(p) \/ Unlock(p)

Plugin(p) == AcquireFile(p) \/ LoadCopy(p) \/ Flush(p) \/ ReplaceFile(p) \/ StampFile(p)

Cli(p) == OpenDatabase(p) \/ CloseDatabase(p)

FileNext ==
    \/ \E p \in Openers : Claim(p) \/ Opening(p) \/ Crash(p)
    \/ \E p \in Plugins : Plugin(p) \/ Change(p) \/ PluginClose(p) \/ ReloadWindow(p)
    \/ \E p \in Clis : Cli(p) \/ Commit(p)
    \/ TwoMinutes

FileSpec == FileInit /\ [][FileNext]_stateFileVars

(* A process goes on, and one that was turned away comes again. *)
FairFileSpec ==
    /\ FileSpec
    /\ \A p \in Openers : WF_stateFileVars(Claim(p)) /\ SF_stateFileVars(Opening(p))
    /\ \A p \in Plugins : WF_stateFileVars(Plugin(p))
    /\ \A p \in Clis : WF_stateFileVars(Cli(p))
    /\ WF_stateFileVars(TwoMinutes)
--------------------------------------------------------------------------------
FileTypeOK ==
    /\ lock \in [state : {"free", "empty", "held"}, owner : Openers \cup {Nobody},
                 gone : {"no", "page", "process"}]
    /\ quiet \in BOOLEAN /\ paired \in BOOLEAN
    /\ at \in [Openers -> Places]
    /\ looking \subseteq {p \in Openers : at[p] \in {"compare", "remove"}}
    /\ fresh \subseteq {p \in Plugins : at[p] \in {"load", "open", "replace"}}
    /\ attached \subseteq {p \in Clis : at[p] = "open"}
    /\ db \subseteq 1..MaxRecords /\ wal \subseteq 1..MaxRecords /\ durable \subseteq 1..MaxRecords
    /\ copy \in [Plugins -> SUBSET (1..MaxRecords)] /\ out \in [Plugins -> SUBSET (1..MaxRecords)]
    /\ total \in 0..MaxRecords /\ deaths \in 0..MaxDeaths

(* One place opens the state database of a vault (the head of state-lock.ts).       *)
OneHolder ==
    \A p, q \in Openers : at[p] \in Holding /\ at[q] \in Holding => p = q

(* A record that reached the disk is lost to no other writer: a lost record makes   *)
(* the next push create its page again.                                             *)
RecordsKept == durable \subseteq db \cup (IF paired THEN wal ELSE {})

(* Whatever an owner was doing when it died, its lock does not stay for good, not   *)
(* even the empty file of one that died before it wrote who it was.                 *)
DeadLockGoes == (lock.gone # "no") ~> (lock.gone = "no")
================================================================================
