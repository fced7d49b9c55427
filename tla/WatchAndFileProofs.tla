--------------------------- MODULE WatchAndFileProofs ---------------------------
(***************************************************************************)
(* The two machines of MCWatchAndFile, for any values of their constants.  *)
(*                                                                         *)
(* WatchSync: for any number of notes and edits it never strands what      *)
(* waits and implements AutoSync.                                          *)
(*                                                                         *)
(* StateFile: while no two openers are at the removal of one dead lock at  *)
(* once, one place has the state database open, and no record that reached *)
(* the disk is lost: for any number of windows, commands, records and      *)
(* deaths.                                                                 *)
(***************************************************************************)
EXTENDS WatchSync, StateFile, TLAPS

(* WatchSync.                                                                *)

(* After stop() nothing waits, and nothing can be made to wait any more.     *)
StoppedIsEmpty == ~Up => pending = {} /\ ~full /\ ~queued /\ ~debounce

(* A sync was begun for something; the whole vault only on request.          *)
SyncHasCause ==
    /\ Syncing => inFlight.all \/ inFlight.batch # {}
    /\ full \/ inFlight.all => interval

(* The state DB is closed under no sync.                                     *)
ClosedIsQuiet == proc = "closed" => ~Syncing

WatchInv == TypeOK /\ NothingStranded /\ StoppedIsEmpty /\ SyncHasCause /\ ClosedIsQuiet

LEMMA SyncRecords ==
    /\ NoSync \in Sync
    /\ \A all \in BOOLEAN, batch \in SUBSET Paths :
          [all |-> all, batch |-> batch, aborted |-> FALSE, returned |-> FALSE] \in Sync
BY Zenon DEF NoSync, Sync

LEMMA WatchInit == Init => WatchInv
<1> SUFFICES ASSUME Init PROVE WatchInv
  OBVIOUS
<1>1. TypeOK
  <2>1. made \in 0..MaxEdits
    BY WatchAssumption DEF Init
  <2>2. inFlight \in Sync
    BY SyncRecords DEF Init
  <2> QED BY <2>1, <2>2 DEF Init, TypeOK
<1> QED
  BY <1>1 DEF Init, WatchInv, NothingStranded, StoppedIsEmpty, SyncHasCause, ClosedIsQuiet,
     Up, Syncing, NoSync

(* What executeSync leaves when it is entered with no sync running.          *)
LEMMA Executed ==
    ASSUME WatchInv, NEW all \in BOOLEAN, all \/ pending # {},
           Up, all => interval, ~queued', Execute(all, pending),
           UNCHANGED <<interval, proc, disk>>
    PROVE  WatchInv'
<1>1. inFlight' = [all |-> all, batch |-> pending, aborted |-> FALSE, returned |-> FALSE]
  BY DEF Execute
<1>2. ~full' /\ pending' = {} /\ debounce' = FALSE /\ queued' = FALSE
  BY DEF Execute
<1>3. TypeOK'
  <2>1. inFlight' \in Sync
    BY <1>1, SyncRecords DEF WatchInv, TypeOK
  <2> QED BY <1>2, <2>1 DEF Execute, WatchInv, TypeOK, disk
<1> QED
  BY <1>1, <1>2, <1>3 DEF WatchInv, NothingStranded, StoppedIsEmpty, SyncHasCause,
     ClosedIsQuiet, Syncing, NoSync, Up

(* A step of the people or of the sync that leaves the service's own state,  *)
(* or only says that the running sync was aborted or returned.               *)
LEMMA ServiceKept ==
    ASSUME WatchInv, TypeOK', UNCHANGED <<interval, debounce, pending, full, queued>>,
           Up' = Up, proc' = "closed" => ~Syncing',
           Syncing' = Syncing, inFlight'.all = inFlight.all, inFlight'.batch = inFlight.batch
    PROVE  WatchInv'
BY DEF WatchInv, NothingStranded, StoppedIsEmpty, SyncHasCause, ClosedIsQuiet

LEMMA WatchTypes ==
    ASSUME TypeOK, [Next]_vars
    PROVE  TypeOK'
<1> USE WatchAssumption DEF TypeOK
<1>1. ASSUME NEW p \in Paths, LocalEdit(p) \/ RemoteEdit(p)
      PROVE  TypeOK'
  BY <1>1 DEF LocalEdit, RemoteEdit, service
<1>2. ASSUME NEW p \in Paths, Report(p)
      PROVE  TypeOK'
  BY <1>2 DEF Report, HandleFileChange
<1>3. ASSUME NEW p \in Paths, SyncItem(p) \/ ItemFails(p)
      PROVE  TypeOK'
  BY <1>3 DEF SyncItem, ItemFails, service, disk
<1>4. ASSUME NEW all \in BOOLEAN, Execute(all, pending)
      PROVE  /\ inFlight' \in Sync /\ debounce' \in BOOLEAN /\ full' \in BOOLEAN
             /\ pending' \subseteq Paths /\ todo' \subseteq Paths
  BY <1>4, SyncRecords DEF Execute
<1>5. CASE DebounceFires
  BY <1>4, <1>5 DEF DebounceFires, disk
<1>6. CASE RequestFullSync
  BY <1>4, <1>6 DEF RequestFullSync, disk
<1>7. CASE Resume
  BY <1>4, <1>7, SyncRecords DEF Resume, disk
<1>8. CASE SyncReturns \/ SyncThrows
  <2>1. inFlight' \in Sync
    BY <1>8 DEF SyncReturns, SyncThrows, Sync
  <2>2. pending' \subseteq Paths
    BY <1>8 DEF SyncReturns, SyncThrows, GivenBack, Sync
  <2> QED BY <1>8, <2>1, <2>2 DEF SyncReturns, SyncThrows, disk
<1>9. CASE Stop \/ Close \/ ForcedExit
  BY <1>9 DEF Stop, Forget, Close, ForcedExit, service, disk
<1>10. CASE WatcherClosed
  BY <1>10 DEF WatcherClosed, Sync, disk
<1>11. CASE UNCHANGED vars
  BY <1>11 DEF vars, service, disk
<1> QED BY <1>1, <1>2, <1>3, <1>5, <1>6, <1>7, <1>8, <1>9, <1>10, <1>11 DEF Next

LEMMA WatchNext ==
    ASSUME WatchInv, [Next]_vars
    PROVE  WatchInv'
<1>0. TypeOK'
  BY WatchTypes DEF WatchInv
<1>1. ASSUME NEW p \in Paths, LocalEdit(p) \/ RemoteEdit(p) \/ SyncItem(p) \/ ItemFails(p)
      PROVE  WatchInv'
  BY <1>0, <1>1, ServiceKept
     DEF LocalEdit, RemoteEdit, SyncItem, ItemFails, service, disk, Up, Syncing, NoSync,
         WatchInv, ClosedIsQuiet
<1>2. ASSUME NEW p \in Paths, Report(p)
      PROVE  WatchInv'
  BY <1>0, <1>2 DEF Report, HandleFileChange, WatchInv, NothingStranded, StoppedIsEmpty,
     SyncHasCause, ClosedIsQuiet, Up, Syncing, NoSync
<1>3. CASE DebounceFires
  <2>1. Up /\ pending # {}
    BY <1>3 DEF DebounceFires, WatchInv, StoppedIsEmpty, NothingStranded
  <2>2. CASE Syncing
    BY <1>0, <1>3, <2>1, <2>2 DEF DebounceFires, WatchInv, NothingStranded, StoppedIsEmpty,
       SyncHasCause, ClosedIsQuiet, Up, Syncing, NoSync, disk
  <2>3. CASE ~Syncing
    <3>1. ~queued /\ full \in BOOLEAN /\ (full => interval)
      BY <2>3 DEF WatchInv, NothingStranded, TypeOK, SyncHasCause
    <3> QED BY <1>3, <2>1, <2>3, <3>1, Executed DEF DebounceFires
  <2> QED BY <2>2, <2>3
<1>4. CASE RequestFullSync
  <2>1. CASE Syncing
    BY <1>0, <1>4, <2>1 DEF RequestFullSync, WatchInv, NothingStranded, StoppedIsEmpty,
       SyncHasCause, ClosedIsQuiet, Up, Syncing, NoSync, disk
  <2>2. CASE ~Syncing
    <3>1. ~queued
      BY <2>2 DEF WatchInv, NothingStranded
    <3> QED BY <1>4, <2>2, <3>1, Executed DEF RequestFullSync
  <2> QED BY <2>1, <2>2
<1>5. CASE SyncReturns
  <2>1. Syncing' = Syncing
    BY <1>5 DEF SyncReturns, Running, Syncing, NoSync, WatchInv, TypeOK, Sync, SyncHasCause
  <2> QED
    BY <1>0, <1>5, <2>1, ServiceKept DEF SyncReturns, Running, Alive, Up, WatchInv, TypeOK, Sync
<1>6. CASE SyncThrows
  <2>1. Syncing /\ Syncing'
    BY <1>6 DEF SyncThrows, Running, Syncing, NoSync, WatchInv, TypeOK, Sync, SyncHasCause
  <2>2. inFlight'.all = inFlight.all /\ inFlight'.batch = inFlight.batch
    BY <1>6 DEF SyncThrows, WatchInv, TypeOK, Sync
  <2>3. pending \subseteq pending'
    BY <1>6 DEF SyncThrows, GivenBack
  <2> QED
    BY <1>0, <1>6, <2>1, <2>2, <2>3 DEF SyncThrows, Running, GivenBack, WatchInv,
       NothingStranded, StoppedIsEmpty, SyncHasCause, ClosedIsQuiet, Up, disk
<1>7. CASE Resume
  <2>1. CASE queued
    <3>1. Up /\ (full \/ pending # {}) /\ full \in BOOLEAN /\ (full => interval)
      BY <2>1 DEF WatchInv, NothingStranded, StoppedIsEmpty, TypeOK, SyncHasCause
    <3> QED BY <1>7, <2>1, <3>1, Executed DEF Resume
  <2>2. CASE ~queued
    <3>1. inFlight' = NoSync /\ ~Syncing' /\ ~full /\ ~full' /\ ~queued'
      BY <1>7, <2>2 DEF Resume, Syncing, WatchInv, NothingStranded
    <3> QED
      BY <1>0, <1>7, <2>2, <3>1 DEF Resume, WatchInv, NothingStranded, StoppedIsEmpty,
         SyncHasCause, ClosedIsQuiet, Up, NoSync, disk
  <2> QED BY <2>1, <2>2
<1>8. CASE Stop
  BY <1>0, <1>8 DEF Stop, Forget, WatchInv, NothingStranded, StoppedIsEmpty, SyncHasCause,
     ClosedIsQuiet, Up, Syncing, NoSync
<1>9. CASE WatcherClosed
  <2>1. Syncing' = Syncing /\ inFlight'.all = inFlight.all /\ inFlight'.batch = inFlight.batch
    BY <1>9 DEF WatcherClosed, Syncing, NoSync, WatchInv, TypeOK, Sync, SyncHasCause
  <2> QED BY <1>0, <1>9, <2>1, ServiceKept DEF WatcherClosed, Up
<1>10. CASE Close \/ ForcedExit
  BY <1>0, <1>10, ServiceKept DEF Close, ForcedExit, service, Up, Syncing, NoSync
<1>11. CASE UNCHANGED vars
  BY <1>0, <1>11, ServiceKept DEF vars, service, disk, Up, Syncing, NoSync, WatchInv,
     ClosedIsQuiet
<1> QED
  BY <1>1, <1>2, <1>3, <1>4, <1>5, <1>6, <1>7, <1>8, <1>9, <1>10, <1>11 DEF Next

(* Every state of the watch has the declared types.                          *)
THEOREM WatchTypeCorrect == Spec => []TypeOK
<1>1. WatchInv => TypeOK
  BY DEF WatchInv
<1> QED BY <1>1, WatchInit, WatchNext, PTL DEF Spec

(* Whatever waits, a timer or the running sync is on its way to fetch it, and *)
(* no timer fires for nothing (executeSync and its guard against a stale one).*)
THEOREM NothingIsStranded == Spec => []NothingStranded
<1>1. WatchInv => NothingStranded
  BY DEF WatchInv
<1> QED BY <1>1, WatchInit, WatchNext, PTL DEF Spec

LEMMA DoingSomething ==
    ASSUME WatchInv, Running
    PROVE  /\ Doing = [all |-> inFlight.all, batch |-> inFlight.batch]
           /\ Doing # Promise!Nothing
<1>1. Doing = [all |-> inFlight.all, batch |-> inFlight.batch]
  BY DEF Running, Alive, Doing
<1>2. inFlight.all \/ inFlight.batch # {}
  BY DEF Running, Syncing, NoSync, WatchInv, SyncHasCause
<1>3. Doing.all = inFlight.all /\ Doing.batch = inFlight.batch
  BY <1>1
<1>4. Promise!Nothing.all = FALSE /\ Promise!Nothing.batch = {}
  BY DEF Promise!Nothing
<1> QED BY <1>1, <1>2, <1>3, <1>4

LEMMA DoingNothing ==
    ASSUME inFlight.returned
    PROVE  Doing = Promise!Nothing
BY DEF Doing, Promise!Nothing

(* executeSync takes everything that waits.                                  *)
LEMMA ExecuteTakes ==
    ASSUME WatchInv, NEW all \in BOOLEAN, all \/ pending # {}, full => all, all => interval,
           Up, inFlight.returned, Execute(all, pending), UNCHANGED <<interval, proc>>
    PROVE  Promise!Next
<1>1. inFlight' = [all |-> all, batch |-> pending, aborted |-> FALSE, returned |-> FALSE]
  BY DEF Execute
<1>2. Doing' = [all |-> all, batch |-> pending]
  <2>1. inFlight'.returned = FALSE /\ proc' # "killed"
    BY <1>1 DEF Up
  <2> QED BY <1>1, <2>1 DEF Doing
<1>3. Promise!Take(all)
  BY <1>2, DoingNothing DEF Promise!Take, Doing, Execute, Up
<1> QED BY <1>3 DEF Promise!Next

(* A step AutoSync does not see.                                             *)
LEMMA Unseen ==
    ASSUME UNCHANGED <<interval, pending, full, proc>>, Doing' = Doing
    PROVE  UNCHANGED Promise!vars
BY DEF Promise!vars, Doing

LEMMA PromisedStep ==
    ASSUME WatchInv, [Next]_vars
    PROVE  [Promise!Next]_(Promise!vars)
<1>1. ASSUME NEW p \in Paths, LocalEdit(p) \/ RemoteEdit(p) \/ SyncItem(p) \/ ItemFails(p)
      PROVE  UNCHANGED Promise!vars
  BY <1>1, Unseen DEF LocalEdit, RemoteEdit, SyncItem, ItemFails, service, disk, Doing
<1>2. ASSUME NEW p \in Paths, Report(p)
      PROVE  [Promise!Next]_(Promise!vars)
  <2>1. Doing' = Doing
    BY <1>2 DEF Report, Doing
  <2>2. CASE Up
    <3>1. Promise!Want(p)
      BY <1>2, <2>1, <2>2 DEF Report, HandleFileChange, Promise!Want, Doing, Up
    <3> QED BY <3>1 DEF Promise!Next
  <2>3. CASE ~Up
    BY <1>2, <2>1, <2>3, Unseen DEF Report, HandleFileChange
  <2> QED BY <2>2, <2>3
<1>3. CASE DebounceFires
  <2>1. Up /\ pending # {}
    BY <1>3 DEF DebounceFires, WatchInv, StoppedIsEmpty, NothingStranded
  <2>2. CASE Syncing
    BY <1>3, <2>2, Unseen DEF DebounceFires, Doing
  <2>3. CASE ~Syncing
    <3>1. full \in BOOLEAN /\ (full => interval) /\ inFlight.returned
      BY <2>3 DEF WatchInv, TypeOK, SyncHasCause, Syncing, NoSync
    <3> QED BY <1>3, <2>1, <2>3, <3>1, ExecuteTakes DEF DebounceFires
  <2> QED BY <2>2, <2>3
<1>4. CASE RequestFullSync
  <2>1. CASE Syncing
    <3>1. Doing' = Doing
      BY <1>4, <2>1 DEF RequestFullSync, Doing
    <3>2. Promise!WantAll
      BY <1>4, <2>1, <3>1 DEF RequestFullSync, Promise!WantAll, Doing, Up
    <3> QED BY <3>2 DEF Promise!Next
  <2>2. CASE ~Syncing
    <3>1. inFlight.returned
      BY <2>2 DEF Syncing, NoSync
    <3> QED BY <1>4, <2>2, <3>1, ExecuteTakes DEF RequestFullSync
  <2> QED BY <2>1, <2>2
<1>5. ASSUME Running, inFlight' = [inFlight EXCEPT !.returned = TRUE]
      PROVE  Doing # Promise!Nothing /\ Doing' = Promise!Nothing
  <2>1. inFlight'.returned
    BY <1>5 DEF WatchInv, TypeOK, Sync
  <2> QED BY <1>5, <2>1, DoingSomething DEF Doing, Promise!Nothing
<1>6. CASE SyncReturns
  <2>1. Promise!Finish
    BY <1>5, <1>6 DEF SyncReturns, Promise!Finish, Doing
  <2> QED BY <2>1 DEF Promise!Next
<1>7. CASE SyncThrows
  <2>1. CASE Up
    <3>1. pending' = pending \cup Doing.batch
      BY <1>7, <2>1, DoingSomething DEF SyncThrows, GivenBack
    <3>2. Promise!GiveBack
      BY <1>5, <1>7, <2>1, <3>1 DEF SyncThrows, Promise!GiveBack, Doing, Up
    <3> QED BY <3>2 DEF Promise!Next
  <2>2. CASE ~Up
    <3>1. Promise!Finish
      BY <1>5, <1>7, <2>2 DEF SyncThrows, GivenBack, Promise!Finish, Doing
    <3> QED BY <3>1 DEF Promise!Next
  <2> QED BY <2>1, <2>2
<1>8. CASE Resume
  <2>1. CASE queued
    <3>1. Up /\ (full \/ pending # {}) /\ full \in BOOLEAN /\ (full => interval)
      BY <2>1 DEF WatchInv, NothingStranded, StoppedIsEmpty, TypeOK, SyncHasCause
    <3> QED BY <1>8, <2>1, <3>1, ExecuteTakes DEF Resume
  <2>2. CASE ~queued
    BY <1>8, <2>2, Unseen DEF Resume, Doing, NoSync
  <2> QED BY <2>1, <2>2
<1>9. CASE Stop
  <2>1. Doing' = Doing
    BY <1>9 DEF Stop, Doing, Up
  <2>2. Promise!Stop
    BY <1>9, <2>1 DEF Stop, Forget, Promise!Stop, Doing, Up
  <2> QED BY <2>2 DEF Promise!Next
<1>10. CASE WatcherClosed
  <2>1. inFlight'.all = inFlight.all /\ inFlight'.batch = inFlight.batch
        /\ inFlight'.returned = inFlight.returned
    BY <1>10 DEF WatcherClosed, WatchInv, TypeOK, Sync
  <2>2. Doing' = Doing
    BY <1>10, <2>1 DEF WatcherClosed, Doing
  <2> QED BY <1>10, <2>2 DEF WatcherClosed, Promise!vars, Doing
<1>11. CASE Close
  <2>1. Doing = Promise!Nothing /\ Doing' = Doing
    BY <1>11, DoingNothing DEF Close, Syncing, NoSync, service, Doing
  <2>2. Promise!Close
    BY <1>11, <2>1 DEF Close, service, Promise!Close, Doing
  <2> QED BY <2>2 DEF Promise!Next
<1>12. CASE ForcedExit
  <2>1. Doing' = Promise!Nothing
    BY <1>12 DEF ForcedExit, Doing, Promise!Nothing
  <2>2. Promise!Kill
    BY <1>12, <2>1 DEF ForcedExit, service, Promise!Kill, Doing
  <2> QED BY <2>2 DEF Promise!Next
<1>13. CASE UNCHANGED vars
  BY <1>13, Unseen DEF vars, service, Doing
<1> QED
  BY <1>1, <1>2, <1>3, <1>4, <1>6, <1>7, <1>8, <1>9, <1>10, <1>11, <1>12, <1>13 DEF Next

(* The service keeps AutoSync's promise: one sync at a time, nothing that was *)
(* reported forgotten, the whole vault only on request, nothing after stop(), *)
(* and the state DB closed under no sync.                                     *)
THEOREM WatchKeepsItsPromise == Spec => KeepsItsPromise
<1>1. Init => Promise!Init
  <2> SUFFICES ASSUME Init PROVE Promise!Init
    OBVIOUS
  <2>1. Doing = Promise!Nothing
    BY DoingNothing DEF Init, NoSync
  <2> QED BY <2>1 DEF Init, Promise!Init, Doing
<1> QED BY <1>1, WatchInit, WatchNext, PromisedStep, PTL DEF Spec, KeepsItsPromise, Promise!Spec

-----------------------------------------------------------------------------
(* StateFile.                                                                *)

Removing == {"compare", "remove"}
Owning   == Holding \cup {"release", "unlock"}
Copying  == {"open", "replace", "stamp"}

LockTypes ==
    /\ lock \in [state : {"free", "empty", "held"}, owner : Openers \cup {Nobody},
                 gone : {"no", "page", "process"}]
    /\ at \in [Openers -> Places]

(* What two minutes of silence say, and what a free lock is.                 *)
LockShape ==
    /\ quiet => lock.gone # "no"
    /\ lock.state = "free" => lock = Free

(* Who has the file open, or is about to let go of it, is named by the lock. *)
OwnersOwn == \A p \in Openers : at[p] \in Owning => Owns(p)

(* Who made the lock file and has not filled it yet finds it as it made it.  *)
FillersFill ==
    \A p \in Openers : at[p] = "fill" =>
        lock.state = "empty" /\ lock.owner = p /\ lock.gone = "no"

(* What an opener is about to remove is the lock of a dead owner.            *)
RemoversSafe ==
    \A p \in Openers :
        at[p] = "remove" \/ (at[p] = "compare" /\ p \in looking) => lock.gone # "no"

OneRemover ==
    \A p, q \in Openers : at[p] \in Removing /\ at[q] \in Removing => p = q

LockInv == LockTypes /\ LockShape /\ OwnersOwn /\ FillersFill /\ RemoversSafe /\ OneRemover

LEMMA PlacesApart ==
    /\ \A x \in Owning : x # "off" /\ x \notin Claiming
    /\ Owning \subseteq Places /\ Claiming \subseteq Places /\ "off" \in Places
    /\ Copying \subseteq Holding
BY DEF Owning, Holding, Claiming, Places, Copying

LEMMA LockInit == FileInit => LockInv
BY SMTT(30) DEF FileInit, LockInv, LockTypes, LockShape, OwnersOwn, FillersFill, RemoversSafe, OneRemover,
   Free, Places, Owning, Holding, Claiming, Removing

(* A step that leaves the lock alone and takes one opener among the owners,  *)
(* or out of them, keeps the invariant.                                      *)
LEMMA LockUntouched ==
    ASSUME LockInv, NEW p \in Openers, NEW place \in Places, UNCHANGED lockVars,
           Goes(p, place),
           place \in Owning => Owns(p),
           place \notin {"fill", "compare", "remove"}
    PROVE  LockInv'
<1>1. \A q \in Openers : at'[q] = IF q = p THEN place ELSE at[q]
  BY DEF Goes, LockInv, LockTypes
<1>2. LockTypes'
  BY DEF LockInv, LockTypes, Goes, lockVars
<1>3. LockShape'
  BY DEF LockInv, LockShape, lockVars
<1>4. OwnersOwn'
  BY <1>1 DEF LockInv, OwnersOwn, Owns, lockVars
<1>5. FillersFill'
  BY <1>1 DEF LockInv, FillersFill, lockVars
<1>6. RemoversSafe'
  BY <1>1 DEF LockInv, RemoversSafe, lockVars
<1>7. OneRemover'
  BY <1>1 DEF LockInv, OneRemover, Removing
<1> QED BY <1>2, <1>3, <1>4, <1>5, <1>6, <1>7 DEF LockInv

(* Putting a lock file there, filling it, or taking it away is safe when no  *)
(* one else owns the one that was there.                                     *)
LEMMA LockReplaced ==
    ASSUME LockInv, NEW p \in Openers, NEW place \in Places, NEW l,
           l \in [state : {"free", "empty", "held"}, owner : Openers \cup {Nobody},
                  gone : {"no", "page", "process"}],
           LockBecomes(l), Goes(p, place),
           l.gone = "no", l.state = "free" => l = Free,
           place \notin {"compare", "remove"},
           place \in Owning => l.state = "held" /\ l.owner = p,
           place = "fill" => l.state = "empty" /\ l.owner = p,
           \A q \in Openers \ {p} : at[q] \notin Owning \cup {"fill", "remove"}
    PROVE  LockInv'
<1>1. \A q \in Openers : at'[q] = IF q = p THEN place ELSE at[q]
  BY DEF Goes, LockInv, LockTypes
<1>2. lock' = l /\ quiet' = FALSE /\ looking' = {}
  BY DEF LockBecomes
<1>3. LockTypes'
  BY <1>2 DEF LockInv, LockTypes, Goes
<1>4. LockShape'
  BY <1>2 DEF LockShape
<1>5. OwnersOwn'
  BY <1>1, <1>2 DEF OwnersOwn, Owns
<1>6. FillersFill'
  BY <1>1, <1>2 DEF FillersFill
<1>7. RemoversSafe'
  BY <1>1, <1>2 DEF RemoversSafe
<1>8. OneRemover'
  BY <1>1 DEF LockInv, OneRemover, Removing
<1> QED BY <1>3, <1>4, <1>5, <1>6, <1>7, <1>8 DEF LockInv

(* Owners, fillers and removers exclude one another.                         *)
LEMMA OwnersExclude ==
    ASSUME LockInv, NEW p \in Openers, at[p] \in Owning \cup {"fill"},
           NEW q \in Openers \ {p}
    PROVE  at[q] \notin Owning \cup {"fill", "remove"}
BY DEF LockInv, OwnersOwn, FillersFill, RemoversSafe, Owns

LEMMA FreeExcludes ==
    ASSUME LockInv, lock.state = "free", NEW q \in Openers
    PROVE  at[q] \notin Owning \cup {"fill", "remove"}
BY DEF LockInv, LockShape, OwnersOwn, FillersFill, RemoversSafe, Owns, Free

LEMMA GoneExcludes ==
    ASSUME LockInv, lock.gone # "no", NEW q \in Openers
    PROVE  at[q] \notin Owning \cup {"fill"}
BY DEF LockInv, OwnersOwn, FillersFill, Owns

(* Looking at a dead lock, and looking again.                                *)
LEMMA LockLooked ==
    ASSUME ~Crowded, LockInv, NEW p \in Openers, ReadHeld(p) \/ CompareHeld(p)
    PROVE  LockInv'
<1>1. CASE ReadHeld(p)
  <2>1. CASE lock.state # "free" /\ Abandoned(p) /\ Goes(p, "compare") /\ looking' = looking \cup {p}
             /\ \A q \in Openers : at[q] \notin Removing
    <3>1. lock' = lock /\ quiet' = quiet /\ lock.gone # "no"
      BY <1>1, <2>1 DEF ReadHeld, Abandoned, LockInv, LockShape
    <3>2. \A q \in Openers : at'[q] = IF q = p THEN "compare" ELSE at[q]
      BY <2>1 DEF Goes, LockInv, LockTypes
    <3>3. LockTypes'
      BY <2>1, <3>1 DEF LockInv, LockTypes, Goes, Places, Claiming
    <3>4. LockShape'
      BY <3>1 DEF LockInv, LockShape
    <3>5. OwnersOwn' /\ FillersFill'
      BY <3>1, <3>2, PlacesApart DEF LockInv, OwnersOwn, FillersFill, Owns, Claiming
    <3>6. RemoversSafe'
      BY <3>1 DEF RemoversSafe
    <3>7. OneRemover'
      BY <2>1, <3>2 DEF OneRemover, Removing
    <3> QED BY <3>3, <3>4, <3>5, <3>6, <3>7 DEF LockInv
  <2>2. CASE UNCHANGED lockVars /\ Goes(p, "create")
    BY <2>2, LockUntouched, PlacesApart DEF Claiming
  <2>3. CASE UNCHANGED lockVars /\ Goes(p, "off")
    BY <2>3, LockUntouched, PlacesApart
  <2> QED BY <1>1, <2>1, <2>2, <2>3 DEF ReadHeld, lockVars, Removing
<1>2. CASE CompareHeld(p)
  <2>1. CASE p \in looking
    <3>1. UNCHANGED lockVars /\ lock.gone # "no"
      BY <1>2, <2>1 DEF CompareHeld, LockInv, RemoversSafe
    <3>2. \A q \in Openers : at'[q] = IF q = p THEN "remove" ELSE at[q]
      BY <1>2, <2>1 DEF CompareHeld, Goes, LockInv, LockTypes
    <3>3. LockTypes'
      BY <1>2, <2>1, <3>1 DEF CompareHeld, LockInv, LockTypes, Goes, Places, Claiming, lockVars
    <3>4. LockShape'
      BY <3>1 DEF LockInv, LockShape, lockVars
    <3>5. OwnersOwn' /\ FillersFill'
      BY <3>1, <3>2, PlacesApart DEF LockInv, OwnersOwn, FillersFill, Owns, Claiming, lockVars
    <3>6. RemoversSafe'
      BY <3>1 DEF RemoversSafe, lockVars
    <3>7. OneRemover'
      BY <1>2, <3>2 DEF CompareHeld, LockInv, OneRemover, Removing
    <3> QED BY <3>3, <3>4, <3>5, <3>6, <3>7 DEF LockInv
  <2>2. CASE p \notin looking
    BY <1>2, <2>2, LockUntouched, PlacesApart DEF CompareHeld, Claiming
  <2> QED BY <2>1, <2>2
<1> QED BY <1>1, <1>2

(* Making, filling, removing and unlinking the lock file.                    *)
LEMMA LockChanged ==
    ASSUME LockInv, NEW p \in Openers,
           CreateLockFile(p) \/ FillLockFile(p) \/ RemoveHeld(p) \/ Release(p) \/ Unlock(p)
    PROVE  LockInv'
<1>1. CASE CreateLockFile(p)
  <2>1. CASE lock.state = "free"
    <3>1. LockBecomes([state |-> "empty", owner |-> p, gone |-> "no"]) /\ Goes(p, "fill")
      BY <1>1, <2>1 DEF CreateLockFile
    <3> QED BY <2>1, <3>1, FreeExcludes, LockReplaced, PlacesApart DEF Claiming
  <2>2. CASE lock.state # "free"
    BY <1>1, <2>2, LockUntouched, PlacesApart DEF CreateLockFile, Claiming
  <2> QED BY <2>1, <2>2
<1>2. CASE FillLockFile(p)
  <2>1. lock.state = "empty" /\ lock.owner = p /\ lock.gone = "no"
    BY <1>2 DEF FillLockFile, LockInv, FillersFill
  <2>2. LockBecomes([lock EXCEPT !.state = "held"]) /\ Goes(p, "locked")
    BY <1>2, <2>1 DEF FillLockFile
  <2>3. \A q \in Openers \ {p} : at[q] \notin Owning \cup {"fill", "remove"}
    BY <1>2, OwnersExclude DEF FillLockFile
  <2>4. [lock EXCEPT !.state = "held"] \in
            [state : {"free", "empty", "held"}, owner : Openers \cup {Nobody},
             gone : {"no", "page", "process"}]
    BY DEF LockInv, LockTypes
  <2>5. /\ [lock EXCEPT !.state = "held"].state = "held"
        /\ [lock EXCEPT !.state = "held"].owner = p
        /\ [lock EXCEPT !.state = "held"].gone = "no"
    BY <2>1 DEF LockInv, LockTypes
  <2>6. "locked" \in Places /\ "locked" \notin {"compare", "remove", "fill"}
    BY DEF Places, Holding
  <2> QED BY <2>2, <2>3, <2>4, <2>5, <2>6, LockReplaced
<1>3. CASE RemoveHeld(p)
  <2>1. lock.gone # "no"
    BY <1>3 DEF RemoveHeld, LockInv, RemoversSafe
  <2>2. \A q \in Openers \ {p} : at[q] \notin Owning \cup {"fill", "remove"}
    BY <1>3, <2>1, GoneExcludes DEF RemoveHeld, LockInv, OneRemover, Removing
  <2>3. Free \in [state : {"free", "empty", "held"}, owner : Openers \cup {Nobody},
                  gone : {"no", "page", "process"}] /\ Free.gone = "no"
    BY DEF Free
  <2> QED BY <1>3, <2>2, <2>3, LockReplaced, PlacesApart DEF RemoveHeld, Claiming
<1>4. CASE Release(p)
  <2>1. "unlock" \in Places /\ "unlock" \notin {"fill", "compare", "remove"}
    BY DEF Places
  <2> QED BY <1>4, <2>1, LockUntouched, PlacesApart DEF Release
<1>5. CASE Unlock(p)
  <2>1. \A q \in Openers \ {p} : at[q] \notin Owning \cup {"fill", "remove"}
    BY <1>5, OwnersExclude DEF Unlock, Owning
  <2>2. Free \in [state : {"free", "empty", "held"}, owner : Openers \cup {Nobody},
                  gone : {"no", "page", "process"}] /\ Free.gone = "no"
    BY DEF Free
  <2> QED BY <1>5, <2>1, <2>2, LockReplaced, PlacesApart DEF Unlock
<1> QED BY <1>1, <1>2, <1>3, <1>4, <1>5

(* What an owner does to the database leaves its lock alone.                 *)
LEMMA LockOwnersStep ==
    ASSUME LockInv, NEW p \in Openers, NEW place \in Owning,
           at[p] \in Owning, Goes(p, place), UNCHANGED lockVars
    PROVE  LockInv'
<1>1. Owns(p)
  BY DEF LockInv, OwnersOwn
<1>2. place \notin {"fill", "compare", "remove"} /\ place \in Places
  BY PlacesApart DEF Claiming
<1> QED BY <1>1, <1>2, LockUntouched

LEMMA LockDies ==
    ASSUME LockInv, NEW p \in Openers, NEW what \in {"page", "process"},
           Dies(p), lock' = Orphaned(p, what)
    PROVE  LockInv'
<1>1. \A q \in Openers : at'[q] = IF q = p THEN "off" ELSE at[q]
  BY DEF Dies, Goes, LockInv, LockTypes
<1>2. quiet' = quiet /\ looking' = looking \ {p}
  BY DEF Dies
<1>3. LockTypes'
  BY PlacesApart DEF Dies, Goes, Orphaned, LockInv, LockTypes
<1>4. /\ lock'.state = lock.state /\ lock'.owner = lock.owner
      /\ lock'.gone = "no" => lock.gone = "no"
      /\ lock.owner # p => lock' = lock
  BY DEF Orphaned, LockInv, LockTypes
<1>5. LockShape'
  BY <1>2, <1>4, FileAssumption DEF LockInv, LockShape, Free, Nobody
<1>6. OwnersOwn' /\ FillersFill'
  BY <1>1, <1>4, PlacesApart DEF LockInv, OwnersOwn, FillersFill, Owns
<1>7. RemoversSafe'
  BY <1>1, <1>2, <1>4 DEF LockInv, RemoversSafe
<1>8. OneRemover'
  BY <1>1 DEF LockInv, OneRemover, Removing
<1> QED BY <1>3, <1>5, <1>6, <1>7, <1>8 DEF LockInv

LEMMA LockNext ==
    ASSUME ~Crowded, LockInv, [FileNext]_stateFileVars
    PROVE  LockInv'
<1>1. ASSUME NEW p \in Openers, Claim(p)
      PROVE  LockInv'
  BY <1>1, LockUntouched, PlacesApart DEF Claim, Claiming
<1>2. ASSUME NEW p \in Openers, Opening(p)
      PROVE  LockInv'
  BY <1>2, LockLooked, LockChanged DEF Opening
<1>3. ASSUME NEW p \in Plugins, Plugin(p)
      PROVE  LockInv'
  <2>1. p \in Openers
    BY DEF Openers
  <2>2. {"locked", "load", "open", "replace", "stamp", "release"} \subseteq Owning
    BY DEF Owning, Holding
  <2>3. CASE AcquireFile(p)
    BY <2>1, <2>2, <2>3, LockOwnersStep DEF AcquireFile
  <2>4. CASE LoadCopy(p)
    BY <2>1, <2>2, <2>4, LockOwnersStep DEF LoadCopy
  <2>5. CASE Flush(p)
    BY <2>1, <2>2, <2>5, LockOwnersStep DEF Flush
  <2>6. CASE ReplaceFile(p)
    BY <2>1, <2>2, <2>6, LockOwnersStep DEF ReplaceFile
  <2>7. CASE StampFile(p)
    BY <2>1, <2>2, <2>7, LockOwnersStep DEF StampFile
  <2> QED BY <1>3, <2>3, <2>4, <2>5, <2>6, <2>7 DEF Plugin
<1>4. ASSUME NEW p \in Plugins, PluginClose(p)
      PROVE  LockInv'
  <2>1. p \in Openers /\ {"open", "release"} \subseteq Owning
    BY DEF Openers, Owning, Holding
  <2> QED BY <1>4, <2>1, LockOwnersStep DEF PluginClose
<1>5. ASSUME NEW p \in Clis, Cli(p)
      PROVE  LockInv'
  <2>1. p \in Openers /\ {"locked", "open", "release"} \subseteq Owning
    BY DEF Openers, Owning, Holding
  <2> QED BY <1>5, <2>1, LockOwnersStep DEF Cli, OpenDatabase, CloseDatabase
<1>6. ASSUME UNCHANGED <<lockVars, at>>
      PROVE  LockInv'
  BY <1>6 DEF LockInv, LockTypes, LockShape, OwnersOwn, FillersFill, RemoversSafe, OneRemover,
     Owns, lockVars
<1>7. ASSUME NEW p \in Openers, Crash(p) \/ (p \in Plugins /\ ReloadWindow(p))
      PROVE  LockInv'
  BY <1>7, LockDies DEF Crash, ReloadWindow
<1>8. ASSUME TwoMinutes
      PROVE  LockInv'
  BY <1>8 DEF TwoMinutes, LockInv, LockTypes, LockShape, OwnersOwn, FillersFill, RemoversSafe,
     OneRemover, Owns
<1>9. ASSUME NEW p \in Openers, Change(p) \/ Commit(p)
      PROVE  UNCHANGED <<lockVars, at>>
  BY <1>9 DEF Change, Commit
<1> QED
  BY <1>1, <1>2, <1>3, <1>4, <1>5, <1>6, <1>7, <1>8, <1>9 DEF FileNext, Openers, stateFileVars

LEMMA LockAlone == LockInv => OneHolder
BY DEF LockInv, OwnersOwn, OneHolder, Owns, Owning

(* One place has the state database open: what the head of state-lock.ts says, as *)
(* long as no two openers are at the removal of one dead lock at once.            *)
THEOREM OneHolderAtATime ==
    ASSUME ~Crowded
    PROVE  FileSpec => []OneHolder
<1>1. FileInit => LockInv
  BY LockInit
<1>2. LockInv /\ [FileNext]_stateFileVars => LockInv'
  BY LockNext
<1>3. LockInv => OneHolder
  BY LockAlone
<1> QED BY <1>1, <1>2, <1>3, PTL DEF FileSpec
--------------------------------------------------------------------------------
(* The records.                                                              *)

Paired == paired = TRUE

(* A plugin has its file to itself, and its copy knows what is on the disk.  *)
CopiesKnow ==
    \A p \in Plugins :
        /\ at[p] \in {"load"} \cup Copying => wal = {}
        /\ at[p] \in Copying => durable \subseteq out[p] /\ out[p] \subseteq copy[p]

(* A CLI that has the database open has the file that bears the name.        *)
ClisAttached == \A p \in Clis : at[p] = "open" => p \in attached

RecordInv == FileTypeOK /\ Paired /\ RecordsKept /\ CopiesKnow /\ ClisAttached

LEMMA RecordInit == FileInit => RecordInv
<1> SUFFICES ASSUME FileInit PROVE RecordInv
  OBVIOUS
<1>1. copy \in [Plugins -> SUBSET (1..MaxRecords)] /\ out \in [Plugins -> SUBSET (1..MaxRecords)]
  BY DEF FileInit
<1>2. total \in 0..MaxRecords /\ deaths \in 0..MaxDeaths
  BY FileAssumption DEF FileInit
<1>3. lock \in [state : {"free", "empty", "held"}, owner : Openers \cup {Nobody},
                gone : {"no", "page", "process"}]
  BY DEF FileInit, Free
<1>4. at \in [Openers -> Places]
  BY DEF FileInit, Places
<1>5. FileTypeOK
  BY <1>1, <1>2, <1>3, <1>4 DEF FileInit, FileTypeOK
<1>6. CopiesKnow /\ ClisAttached /\ Paired /\ RecordsKept
  BY DEF FileInit, CopiesKnow, ClisAttached, Copying, Openers, Paired, RecordsKept
<1> QED BY <1>5, <1>6 DEF RecordInv

(* The sets of openers that stand at certain places follow a step of one.    *)
LockType == [state : {"free", "empty", "held"}, owner : Openers \cup {Nobody},
             gone : {"no", "page", "process"}]

LEMMA TypeInit == FileTypeOK => lock \in LockType
BY DEF FileTypeOK, LockType

LEMMA TypeOpening ==
    ASSUME FileTypeOK, NEW p \in Openers, Claim(p) \/ Opening(p)
    PROVE  FileTypeOK'
<1>1. Free \in LockType
  BY DEF Free, LockType
<1>2. [state |-> "empty", owner |-> p, gone |-> "no"] \in LockType
  BY DEF LockType
<1>3. [lock EXCEPT !.state = "held"] \in LockType
  BY DEF LockType, FileTypeOK
<1>4. lock' \in LockType /\ quiet' \in BOOLEAN
  BY <1>1, <1>2, <1>3, TypeInit DEF FileTypeOK, Claim, Opening, CreateLockFile, FillLockFile, ReadHeld,
     CompareHeld, RemoveHeld, Release, Unlock, LockBecomes, lockVars
<1>5. PICK place \in Places : Goes(p, place)
  BY DEF Claim, Opening, CreateLockFile, FillLockFile, ReadHeld, CompareHeld, RemoveHeld, Release,
     Unlock, Places, Claiming, Holding
<1>6. at' \in [Openers -> Places] /\ \A q \in Openers : at'[q] = IF q = p THEN place ELSE at[q]
  BY <1>5 DEF FileTypeOK, Goes
<1>7. UNCHANGED <<fileVars, memVars, deaths>>
  BY DEF Claim, Opening, CreateLockFile, FillLockFile, ReadHeld, CompareHeld, RemoveHeld, Release,
     Unlock
<1>8. at[p] \notin {"load", "open", "replace"}
  BY DEF Claim, Opening, CreateLockFile, FillLockFile, ReadHeld, CompareHeld, RemoveHeld, Release,
     Unlock
<1>9. fresh' \subseteq {q \in Plugins : at'[q] \in {"load", "open", "replace"}}
  BY <1>6, <1>7, <1>8 DEF FileTypeOK, fileVars, Openers
<1>10. attached' \subseteq {q \in Clis : at'[q] = "open"}
  BY <1>6, <1>7, <1>8 DEF FileTypeOK, fileVars, Openers
<1>11. looking' \subseteq {q \in Openers : at'[q] \in {"compare", "remove"}}
  <2>1. CASE looking' = {}
    BY <2>1
  <2>2. CASE looking' = looking /\ (p \in looking => place \in {"compare", "remove"})
    BY <1>6, <2>2 DEF FileTypeOK
  <2>3. CASE looking' = looking \cup {p} /\ place = "compare"
    BY <1>6, <2>3 DEF FileTypeOK
  <2>4. p \in looking => at[p] \in {"compare", "remove"}
    BY DEF FileTypeOK
  <2>5. at[p] # place => at' # at
    BY <1>6
  <2> QED
    BY <1>5, <1>6, <2>1, <2>2, <2>3, <2>4 DEF Claim, Opening, CreateLockFile, FillLockFile, ReadHeld,
       CompareHeld, RemoveHeld, Release, Unlock, LockBecomes, lockVars, Goes, FileTypeOK
<1> QED BY <1>4, <1>6, <1>7, <1>9, <1>10, <1>11 DEF FileTypeOK, LockType, fileVars, memVars

LEMMA TypePlugin ==
    ASSUME FileTypeOK, NEW p \in Plugins, Plugin(p) \/ Change(p) \/ PluginClose(p)
    PROVE  FileTypeOK'
<1>1. UNCHANGED lockVars
  BY DEF Plugin, AcquireFile, LoadCopy, Flush, ReplaceFile, StampFile, Change, PluginClose
<1>2. PICK place \in Places : at' = [at EXCEPT ![p] = place]
  <2>1. CASE Change(p)
    <3>1. at' = [at EXCEPT ![p] = at[p]] /\ at[p] \in Places
      BY <2>1 DEF Change, FileTypeOK, Openers
    <3> QED BY <3>1
  <2>2. CASE ~Change(p)
    BY <2>2 DEF Plugin, AcquireFile, LoadCopy, Flush, ReplaceFile, StampFile, PluginClose, Goes,
       Places, Holding
  <2> QED BY <2>1, <2>2
<1>3. at' \in [Openers -> Places] /\ \A q \in Openers : at'[q] = IF q = p THEN place ELSE at[q]
  BY <1>2 DEF FileTypeOK, Openers
<1>4. copy' \in [Plugins -> SUBSET (1..MaxRecords)] /\ out' \in [Plugins -> SUBSET (1..MaxRecords)]
  <2>1. total' \in 0..MaxRecords /\ (Change(p) => total' \in 1..MaxRecords)
    BY FileAssumption DEF Plugin, AcquireFile, LoadCopy, Flush, ReplaceFile, StampFile, Change,
       PluginClose, NewRecord, FileTypeOK, memVars
  <2>2. copy[p] \in SUBSET (1..MaxRecords) /\ out[p] \in SUBSET (1..MaxRecords)
    BY DEF FileTypeOK
  <2>3. CASE Change(p)
    <3>1. copy[p] \cup {total'} \in SUBSET (1..MaxRecords)
      BY <2>1, <2>2, <2>3
    <3> QED BY <2>3, <3>1 DEF Change, FileTypeOK
  <2>4. CASE Plugin(p) \/ PluginClose(p)
    BY <2>2, <2>4 DEF Plugin, AcquireFile, LoadCopy, Flush, ReplaceFile, StampFile, PluginClose,
       FileTypeOK, memVars
  <2> QED BY <2>3, <2>4
<1>5. total' \in 0..MaxRecords /\ deaths' \in 0..MaxDeaths
  BY FileAssumption DEF Plugin, AcquireFile, LoadCopy, Flush, ReplaceFile, StampFile, Change,
     PluginClose, NewRecord, FileTypeOK, memVars
<1>6. /\ db' \subseteq 1..MaxRecords /\ wal' \subseteq 1..MaxRecords
      /\ durable' \subseteq 1..MaxRecords /\ paired' \in BOOLEAN
  BY DEF Plugin, AcquireFile, LoadCopy, Flush, ReplaceFile, StampFile, Change,
     PluginClose, FileTypeOK, fileVars
<1>7. looking' \subseteq {q \in Openers : at'[q] \in {"compare", "remove"}}
  <2>1. at[p] \notin {"compare", "remove"}
    BY DEF Plugin, AcquireFile, LoadCopy, Flush, ReplaceFile, StampFile, Change, PluginClose
  <2> QED BY <1>1, <1>3, <2>1 DEF FileTypeOK, lockVars
<1>8. fresh' \subseteq {q \in Plugins : at'[q] \in {"load", "open", "replace"}}
  <2>1. p \in fresh' => at'[p] \in {"load", "open", "replace"}
    BY <1>3 DEF Plugin, AcquireFile, LoadCopy, Flush, ReplaceFile, StampFile, Change, PluginClose,
       Goes, FileTypeOK, fileVars, Openers
  <2>2. \A q \in Plugins \ {p} : q \in fresh' => q \in fresh
    BY DEF Plugin, AcquireFile, LoadCopy, Flush, ReplaceFile, StampFile, Change, PluginClose, fileVars
  <2>3. fresh' \subseteq Plugins
    BY DEF Plugin, AcquireFile, LoadCopy, Flush, ReplaceFile, StampFile, Change, PluginClose, fileVars,
       FileTypeOK
  <2> QED BY <1>3, <2>1, <2>2, <2>3 DEF FileTypeOK, Openers
<1>9. attached' \subseteq {q \in Clis : at'[q] = "open"}
  <2>1. attached' \subseteq attached /\ p \notin Clis
    BY FileAssumption DEF Plugin, AcquireFile, LoadCopy, Flush, ReplaceFile, StampFile, Change,
       PluginClose, fileVars
  <2> QED BY <1>3, <2>1 DEF FileTypeOK, Openers
<1> QED BY <1>1, <1>3, <1>4, <1>5, <1>6, <1>7, <1>8, <1>9 DEF FileTypeOK, lockVars

LEMMA TypeCli ==
    ASSUME FileTypeOK, NEW p \in Clis, Cli(p) \/ Commit(p)
    PROVE  FileTypeOK'
<1>1. UNCHANGED <<lockVars, copy, out, deaths>>
  BY DEF Cli, OpenDatabase, CloseDatabase, Commit, memVars
<1>2. PICK place \in Places : at' = [at EXCEPT ![p] = place]
  <2>1. CASE Commit(p)
    <3>1. at' = [at EXCEPT ![p] = at[p]] /\ at[p] \in Places
      BY <2>1 DEF Commit, FileTypeOK, Openers
    <3> QED BY <3>1
  <2>2. CASE Cli(p)
    BY <2>2 DEF Cli, OpenDatabase, CloseDatabase, Goes, Places, Holding
  <2> QED BY <2>1, <2>2
<1>3. at' \in [Openers -> Places] /\ \A q \in Openers : at'[q] = IF q = p THEN place ELSE at[q]
  BY <1>2 DEF FileTypeOK, Openers
<1>4. total' \in 0..MaxRecords /\ (Commit(p) => total' \in 1..MaxRecords)
  BY FileAssumption DEF Cli, OpenDatabase, CloseDatabase, Commit, NewRecord, FileTypeOK, memVars
<1>5. /\ db' \subseteq 1..MaxRecords /\ wal' \subseteq 1..MaxRecords
      /\ durable' \subseteq 1..MaxRecords /\ paired' \in BOOLEAN
  BY <1>4 DEF Cli, OpenDatabase, CloseDatabase, Commit, FileTypeOK, fileVars
<1>6. looking' \subseteq {q \in Openers : at'[q] \in {"compare", "remove"}}
  <2>1. at[p] \notin {"compare", "remove"}
    BY DEF Cli, OpenDatabase, CloseDatabase, Commit
  <2> QED BY <1>1, <1>3, <2>1 DEF FileTypeOK, lockVars
<1>7. fresh' \subseteq {q \in Plugins : at'[q] \in {"load", "open", "replace"}}
  <2>1. fresh' \subseteq fresh /\ p \notin Plugins
    BY FileAssumption DEF Cli, OpenDatabase, CloseDatabase, Commit, fileVars
  <2> QED BY <1>3, <2>1 DEF FileTypeOK, Openers
<1>8. attached' \subseteq {q \in Clis : at'[q] = "open"}
  <2>1. CASE OpenDatabase(p)
    <3>1. attached' = attached \cup {p} /\ at'[p] = "open"
      BY <2>1 DEF OpenDatabase, Goes, FileTypeOK, Openers
    <3> QED BY <1>3, <3>1 DEF FileTypeOK, Openers
  <2>2. CASE CloseDatabase(p)
    BY <1>3, <2>2 DEF CloseDatabase, FileTypeOK, Openers
  <2>3. CASE Commit(p)
    BY <2>3 DEF Commit, FileTypeOK
  <2> QED BY <2>1, <2>2, <2>3 DEF Cli
<1> QED BY <1>1, <1>3, <1>4, <1>5, <1>6, <1>7, <1>8 DEF FileTypeOK, lockVars

LEMMA TypeDeath ==
    ASSUME FileTypeOK, NEW p \in Openers, NEW what \in {"page", "process"},
           Dies(p), lock' = Orphaned(p, what)
    PROVE  FileTypeOK'
<1>1. at' \in [Openers -> Places] /\ \A q \in Openers : at'[q] = IF q = p THEN "off" ELSE at[q]
  BY DEF Dies, Goes, FileTypeOK, Places
<1>2. lock' \in LockType
  BY TypeInit DEF Orphaned, LockType
<1>3. copy' \in [Plugins -> SUBSET (1..MaxRecords)] /\ out' \in [Plugins -> SUBSET (1..MaxRecords)]
  BY DEF Dies, FileTypeOK
<1>4. /\ looking' \subseteq {q \in Openers : at'[q] \in {"compare", "remove"}}
      /\ fresh' \subseteq {q \in Plugins : at'[q] \in {"load", "open", "replace"}}
      /\ attached' \subseteq {q \in Clis : at'[q] = "open"}
  BY <1>1 DEF Dies, FileTypeOK, Openers
<1>5. deaths' \in 0..MaxDeaths
  BY FileAssumption DEF Dies, FileTypeOK
<1> QED BY <1>1, <1>2, <1>3, <1>4, <1>5 DEF FileTypeOK, LockType, Dies

LEMMA TypeNext == FileTypeOK /\ [FileNext]_stateFileVars => FileTypeOK'
<1> SUFFICES ASSUME FileTypeOK, [FileNext]_stateFileVars PROVE FileTypeOK'
  OBVIOUS
<1>1. ASSUME NEW p \in Openers, Claim(p) \/ Opening(p) PROVE FileTypeOK'
  BY <1>1, TypeOpening
<1>2. ASSUME NEW p \in Plugins, Plugin(p) \/ Change(p) \/ PluginClose(p) PROVE FileTypeOK'
  BY <1>2, TypePlugin
<1>3. ASSUME NEW p \in Clis, Cli(p) \/ Commit(p) PROVE FileTypeOK'
  BY <1>3, TypeCli
<1>4. ASSUME NEW p \in Openers, Crash(p) \/ (p \in Plugins /\ ReloadWindow(p)) PROVE FileTypeOK'
  BY <1>4, TypeDeath DEF Crash, ReloadWindow
<1>5. ASSUME TwoMinutes PROVE FileTypeOK'
  BY <1>5 DEF TwoMinutes, FileTypeOK, fileVars, memVars
<1>6. ASSUME UNCHANGED stateFileVars PROVE FileTypeOK'
  BY <1>6 DEF stateFileVars, lockVars, fileVars, memVars, FileTypeOK
<1> QED BY <1>1, <1>2, <1>3, <1>4, <1>5, <1>6 DEF FileNext, Openers

(* While one opener has the file, no other plugin copies and no CLI is open. *)
LEMMA Alone ==
    ASSUME OneHolder, NEW p \in Openers, at[p] \in Holding, NEW q \in Openers \ {p}
    PROVE  at[q] \notin {"load", "open"} \cup Copying
BY DEF OneHolder, Holding, Copying

(* A step that leaves the file alone, and takes no opener to where it has it. *)
LEMMA RecordUntouched ==
    ASSUME RecordInv, NEW p \in Openers, NEW place, Goes(p, place),
           place \notin {"load", "open"} \cup Copying,
           UNCHANGED <<fileVars, memVars>>
    PROVE  Paired' /\ RecordsKept' /\ CopiesKnow' /\ ClisAttached'
<1>1. \A q \in Openers : at'[q] = IF q = p THEN place ELSE at[q]
  BY DEF Goes, RecordInv, FileTypeOK
<1>2. CopiesKnow'
  BY <1>1 DEF RecordInv, CopiesKnow, fileVars, memVars, Openers
<1>3. ClisAttached'
  BY <1>1 DEF RecordInv, ClisAttached, fileVars, Openers
<1> QED BY <1>2, <1>3 DEF RecordInv, Paired, RecordsKept, fileVars

LEMMA RecordOpening ==
    ASSUME RecordInv, NEW p \in Openers, Claim(p) \/ Opening(p)
    PROVE  Paired' /\ RecordsKept' /\ CopiesKnow' /\ ClisAttached'
<1>1. PICK place \in {"off", "unlock", "locked"} \cup Claiming : Goes(p, place)
  BY DEF Claim, Opening, CreateLockFile, FillLockFile, ReadHeld, CompareHeld, RemoveHeld, Release,
     Unlock, Claiming
<1>2. UNCHANGED <<fileVars, memVars>>
  BY DEF Claim, Opening, CreateLockFile, FillLockFile, ReadHeld, CompareHeld, RemoveHeld, Release,
     Unlock
<1> QED BY <1>1, <1>2, RecordUntouched DEF Claiming, Copying

LEMMA RecordPlugin ==
    ASSUME RecordInv, OneHolder, NEW p \in Plugins, Plugin(p) \/ Change(p) \/ PluginClose(p)
    PROVE  Paired' /\ RecordsKept' /\ CopiesKnow' /\ ClisAttached'
<1>1. p \in Openers /\ p \notin Clis
  BY FileAssumption DEF Openers
<1>2. at[p] \in Holding
  BY DEF Plugin, AcquireFile, LoadCopy, Flush, ReplaceFile, StampFile, Change, PluginClose, Holding
<1>3. \A q \in Openers \ {p} : at'[q] = at[q] /\ at[q] \notin {"load", "open"} \cup Copying
  <2>1. \A q \in Openers \ {p} : at'[q] = at[q]
    BY DEF Plugin, AcquireFile, LoadCopy, Flush, ReplaceFile, StampFile, Change, PluginClose, Goes,
       RecordInv, FileTypeOK
  <2> QED BY <1>1, <1>2, <2>1, Alone
<1>4. ClisAttached'
  BY <1>1, <1>3 DEF ClisAttached, Openers
<1>5. attached = {}
  BY <1>1, <1>3 DEF RecordInv, FileTypeOK, Openers
<1>6. at[p] \in {"load"} \cup Copying => wal = {}
  BY DEF RecordInv, CopiesKnow
<1>7. at[p] \in Copying => durable \subseteq out[p] /\ out[p] \subseteq copy[p]
  BY DEF RecordInv, CopiesKnow
<1>8. SUFFICES Paired' /\ RecordsKept'
               /\ (at'[p] \in {"load"} \cup Copying => wal' = {})
               /\ (at'[p] \in Copying => durable' \subseteq out'[p] /\ out'[p] \subseteq copy'[p])
  BY <1>3, <1>4 DEF CopiesKnow, Openers, Copying
<1>9. \A place : Goes(p, place) => at'[p] = place
  BY <1>1 DEF Goes, RecordInv, FileTypeOK
<1>10. \A new : /\ copy' = [copy EXCEPT ![p] = new] => copy'[p] = new
                /\ out' = [out EXCEPT ![p] = new] => out'[p] = new
  BY DEF RecordInv, FileTypeOK
<1>11. CASE AcquireFile(p)
  BY <1>9, <1>11 DEF AcquireFile, Paired, RecordsKept, RecordInv, Copying
<1>12. CASE LoadCopy(p)
  BY <1>6, <1>9, <1>10, <1>12 DEF LoadCopy, Paired, RecordsKept, RecordInv, Copying, fileVars
<1>13. CASE Flush(p)
  BY <1>6, <1>7, <1>9, <1>10, <1>13 DEF Flush, Paired, RecordsKept, RecordInv, Copying
<1>14. CASE ReplaceFile(p)
  BY <1>5, <1>6, <1>7, <1>9, <1>14 DEF ReplaceFile, Paired, RecordsKept, RecordInv, Copying, memVars
<1>15. CASE StampFile(p)
  BY <1>6, <1>7, <1>9, <1>15 DEF StampFile, Paired, RecordsKept, RecordInv, Copying, memVars
<1>16. CASE Change(p)
  BY <1>6, <1>7, <1>10, <1>16 DEF Change, Paired, RecordsKept, RecordInv, Copying, fileVars
<1>17. CASE PluginClose(p)
  BY <1>9, <1>17 DEF PluginClose, Paired, RecordsKept, RecordInv, Copying
<1> QED BY <1>11, <1>12, <1>13, <1>14, <1>15, <1>16, <1>17 DEF Plugin

LEMMA RecordCli ==
    ASSUME RecordInv, OneHolder, NEW p \in Clis, Cli(p) \/ Commit(p)
    PROVE  Paired' /\ RecordsKept' /\ CopiesKnow' /\ ClisAttached'
<1>1. p \in Openers /\ p \notin Plugins
  BY FileAssumption DEF Openers
<1>2. at[p] \in Holding
  BY DEF Cli, OpenDatabase, CloseDatabase, Commit, Holding
<1>3. \A q \in Openers \ {p} : at'[q] = at[q] /\ at[q] \notin {"load", "open"} \cup Copying
  <2>1. \A q \in Openers \ {p} : at'[q] = at[q]
    BY DEF Cli, OpenDatabase, CloseDatabase, Commit, Goes, RecordInv, FileTypeOK
  <2> QED BY <1>1, <1>2, <2>1, Alone
<1>4. CopiesKnow'
  BY <1>1, <1>3 DEF CopiesKnow, Openers
<1>5. attached \ {p} = {}
  BY <1>3 DEF RecordInv, FileTypeOK, Openers
<1>6. at[p] = "open" => p \in attached
  BY DEF RecordInv, ClisAttached
<1>7. \A place : Goes(p, place) => at'[p] = place
  BY <1>1 DEF Goes, RecordInv, FileTypeOK
<1>8. ClisAttached'
  <2>1. at'[p] = "open" => p \in attached'
    BY <1>6, <1>7 DEF Cli, OpenDatabase, CloseDatabase, Commit
  <2> QED BY <1>3, <2>1 DEF ClisAttached, Openers
<1>9. CASE OpenDatabase(p)
  BY <1>4, <1>8, <1>9 DEF OpenDatabase, RecordInv, Paired, RecordsKept
<1>10. CASE CloseDatabase(p)
  BY <1>4, <1>5, <1>6, <1>8, <1>10 DEF CloseDatabase, RecordInv, Paired, RecordsKept
<1>11. CASE Commit(p)
  BY <1>4, <1>8, <1>11 DEF Commit, RecordInv, Paired, RecordsKept
<1> QED BY <1>9, <1>10, <1>11 DEF Cli

LEMMA RecordDeath ==
    ASSUME RecordInv, NEW p \in Openers, Dies(p)
    PROVE  Paired' /\ RecordsKept' /\ CopiesKnow' /\ ClisAttached'
<1>1. \A q \in Openers : at'[q] = IF q = p THEN "off" ELSE at[q]
  BY DEF Dies, Goes, RecordInv, FileTypeOK
<1>2. CopiesKnow'
  BY <1>1 DEF Dies, RecordInv, CopiesKnow, Openers, Copying
<1>3. ClisAttached'
  BY <1>1 DEF Dies, RecordInv, ClisAttached, Openers
<1> QED BY <1>2, <1>3 DEF Dies, RecordInv, Paired, RecordsKept

LEMMA RecordNext ==
    ASSUME RecordInv, OneHolder, [FileNext]_stateFileVars
    PROVE  RecordInv'
<1>1. FileTypeOK'
  BY TypeNext DEF RecordInv
<1>2. ASSUME NEW p \in Openers, Crash(p) \/ (p \in Plugins /\ ReloadWindow(p))
      PROVE  Paired' /\ RecordsKept' /\ CopiesKnow' /\ ClisAttached'
  BY <1>2, RecordDeath DEF Crash, ReloadWindow
<1>3. ASSUME TwoMinutes \/ UNCHANGED stateFileVars
      PROVE  Paired' /\ RecordsKept' /\ CopiesKnow' /\ ClisAttached'
  BY <1>3 DEF TwoMinutes, stateFileVars, fileVars, memVars, RecordInv, Paired, RecordsKept, CopiesKnow,
     ClisAttached
<1>4. Paired' /\ RecordsKept' /\ CopiesKnow' /\ ClisAttached'
  BY <1>2, <1>3, RecordOpening, RecordPlugin, RecordCli DEF FileNext, Openers
<1> QED BY <1>1, <1>4 DEF RecordInv

(* Every state has the declared types, whoever races for the lock.                *)
THEOREM StateFileTypes == FileSpec => []FileTypeOK
<1>1. FileInit => FileTypeOK
  BY RecordInit DEF RecordInv
<1> QED BY <1>1, TypeNext, PTL DEF FileSpec

(* No record that reached the disk is lost to another writer, whatever windows,   *)
(* commands and deaths come together, as long as no two openers are at the        *)
(* removal of one dead lock at once (state-lock.ts, the reasons at its head).     *)
THEOREM NoRecordIsLost ==
    ASSUME ~Crowded
    PROVE  FileSpec => []RecordsKept
<1>1. FileInit => LockInv /\ RecordInv
  BY LockInit, RecordInit
<1>2. (LockInv /\ RecordInv) /\ [FileNext]_stateFileVars => (LockInv /\ RecordInv)'
  BY LockNext, RecordNext, LockAlone
<1>3. LockInv /\ RecordInv => RecordsKept
  BY DEF RecordInv
<1> QED BY <1>1, <1>2, <1>3, PTL DEF FileSpec
=============================================================================
