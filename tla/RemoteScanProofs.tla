---------------------------- MODULE RemoteScanProofs ----------------------------
(***************************************************************************)
(* For any set of pages, any window, lag and budget, and any number of     *)
(* events and failures: the types of RemoteScan, and that a pull deletes   *)
(* nothing that stayed in the vault's reach, but for the children of a     *)
(* page that goes or could not be read; and the watermark passes nothing   *)
(* the vault lacks and could still find.                                   *)
(***************************************************************************)
EXTENDS RemoteScan, FiniteSetTheorems, TLAPS

USE DEF None, Places, Time
--------------------------------------------------------------------------------
(* Types. *)

(* The parts of TypeOK, by the groups of variables the actions leave alone together. *)
NotionTyped ==
    /\ now \in Time /\ parent \in [Pages -> Places]
    /\ edited \in [Pages -> Time] /\ shown \in [Pages -> Time]
    /\ trashed \subseteq Pages /\ events \in 0..MaxEvents
VaultTyped ==
    /\ seen \in [Pages -> Time] /\ under \in [Pages -> Places \cup {Nowhere}]
    /\ lastPull \in Time /\ cursor \in Pages \cup {Nowhere}
PhaseTyped == phase \in {"idle", "list", "ask", "askBelow", "apply", "retry"}
ScanTyped ==
    /\ full \in BOOLEAN /\ startedAt \in Time
    /\ toList \subseteq Pages \cup {Root} /\ pages \in [Pages -> Time] /\ heard \subseteq Pages
    /\ place \in [Pages -> Places \cup {Nowhere}]
    /\ toAsk \subseteq Pages /\ asked \subseteq Pages /\ unread \subseteq Pages
    /\ nextCursor \in Pages \cup {Nowhere}
WorkTyped ==
    /\ due \in [Pages -> Time] /\ doomed \subseteq Pages /\ queued \subseteq Pages
    /\ inBody \in [Pages -> Pages \cup {Nowhere}]
    /\ todo \subseteq Pages /\ failed \subseteq Pages
FaultsTyped == faults \in 0..MaxFaults
GhostsTyped == hidden \subseteq Pages /\ fresh \subseteq Pages /\ wasOut \subseteq Pages

AllTyped ==
    /\ NotionTyped /\ VaultTyped /\ PhaseTyped /\ ScanTyped /\ WorkTyped
    /\ FaultsTyped /\ GhostsTyped

LEMMA TypeParts == (TypeOK => AllTyped) /\ (AllTyped' => TypeOK')
BY DEF TypeOK, AllTyped, NotionTyped, VaultTyped, PhaseTyped, ScanTyped, WorkTyped, FaultsTyped,
       GhostsTyped

LEMMA PagesInReach == Out \subseteq Pages /\ Records \subseteq Pages /\ Recent \subseteq Pages
BY DEF Out, Records, Recent

LEMMA TreeTyped ==
    ASSUME NEW q
    PROVE  /\ \A up : Line(q, up) \subseteq Pages
           /\ Ancestors(q) \subseteq Pages /\ Below(q) \subseteq Pages
           /\ q \in Pages => Subtree(q) \subseteq Pages
           /\ Children(q) \subseteq Pages
BY DEF Line, Ancestors, Below, Subtree, Children

LEMMA FaultTyped == ASSUME FaultsTyped, NEW n \in Nat, Fault(n) PROVE FaultsTyped'
BY ScanAssumption DEF Fault, FaultsTyped

LEMMA ScanInit == Init => TypeOK
<1> SUFFICES ASSUME Init PROVE TypeOK
  OBVIOUS
<1>1. 0 \in Time /\ 1 \in Time
  BY ScanAssumption
<1>2. NotionTyped
  <2>1. now \in Time /\ trashed \subseteq Pages /\ events \in 0..MaxEvents
    BY <1>1, ScanAssumption DEF Init
  <2>2. parent \in [Pages -> Places]
    BY DEF Init
  <2>3. edited \in [Pages -> Time] /\ shown \in [Pages -> Time]
    BY <1>1 DEF Init
  <2> QED BY <2>1, <2>2, <2>3 DEF NotionTyped
<1>3. VaultTyped /\ ScanTyped /\ WorkTyped
  BY <1>1 DEF Init, VaultTyped, ScanTyped, WorkTyped
<1>4. PhaseTyped /\ FaultsTyped /\ GhostsTyped
  BY ScanAssumption DEF Init, PhaseTyped, FaultsTyped, GhostsTyped
<1> QED
  BY <1>2, <1>3, <1>4
     DEF TypeOK, NotionTyped, VaultTyped, PhaseTyped, ScanTyped, WorkTyped, FaultsTyped, GhostsTyped

LEMMA EventTyped ==
    ASSUME AllTyped, Event, NotionTyped', fresh' \subseteq Pages
    PROVE  AllTyped'
<1>1. Out' \subseteq Pages
  BY DEF Out
<1>2. GhostsTyped'
  BY <1>1 DEF Event, AllTyped, GhostsTyped
<1> QED
  BY <1>2
     DEF Event, vault, scan, work, AllTyped, VaultTyped, PhaseTyped, ScanTyped, WorkTyped, FaultsTyped

LEMMA EventCounted == ASSUME AllTyped, Event PROVE events' \in 0..MaxEvents /\ now' = now
BY ScanAssumption DEF Event, AllTyped, NotionTyped

LEMMA WorldTyped == ASSUME AllTyped, World PROVE AllTyped'
<1>1. ASSUME NEW p \in Pages, Create(p) \/ Edit(p) \/ Trash(p) \/ Restore(p)
      PROVE  AllTyped'
  <2>1. Event
    BY <1>1 DEF Create, Edit, Trash, Restore
  <2>2. NotionTyped'
    BY <1>1, <2>1, EventCounted DEF Create, Edit, Trash, Restore, AllTyped, NotionTyped
  <2>3. fresh' \subseteq Pages
    BY <1>1, TreeTyped DEF Create, Edit, Trash, Restore, AllTyped, GhostsTyped
  <2> QED BY <2>1, <2>2, <2>3, EventTyped
<1>2. ASSUME NEW p \in Pages, NEW q \in Places, Move(p, q)
      PROVE  AllTyped'
  <2>1. Event
    BY <1>2 DEF Move
  <2>2. NotionTyped'
    BY <1>2, <2>1, EventCounted DEF Move, AllTyped, NotionTyped
  <2>3. fresh' \subseteq Pages
    BY <1>2, TreeTyped DEF Move, AllTyped, GhostsTyped
  <2> QED BY <2>1, <2>2, <2>3, EventTyped
<1>3. CASE Tick
  <2>1. now' \in Time
    BY <1>3, ScanAssumption DEF Tick, AllTyped, NotionTyped
  <2>2. UNCHANGED <<parent, edited, shown, trashed, events, vault, phase, scan, work, faults, ghosts>>
    BY <1>3 DEF Tick
  <2> QED
    BY <2>1, <2>2
       DEF vault, scan, work, ghosts, AllTyped, NotionTyped, VaultTyped, PhaseTyped, ScanTyped,
           WorkTyped, FaultsTyped, GhostsTyped
<1>4. ASSUME NEW p \in Pages, Index(p)
      PROVE  AllTyped'
  BY <1>4
     DEF Index, vault, scan, work, ghosts, AllTyped, NotionTyped, VaultTyped, PhaseTyped, ScanTyped,
         WorkTyped, FaultsTyped, GhostsTyped
<1> QED BY <1>1, <1>2, <1>3, <1>4 DEF World

(* Notion's own state in the steps of a pull. *)
LEMMA NotionKept == ASSUME AllTyped, UNCHANGED notion PROVE NotionTyped'
BY DEF notion, AllTyped, NotionTyped

LEMMA StartTyped ==
    ASSUME AllTyped, StartFull \/ StartSome
    PROVE  AllTyped'
<1>1. ASSUME NEW kind \in BOOLEAN, Start(kind)
      PROVE  /\ NotionTyped' /\ VaultTyped' /\ hidden' \subseteq Pages /\ wasOut' \subseteq Pages
             /\ full' \in BOOLEAN /\ startedAt' \in Time
             /\ inBody' = inBody /\ todo' = todo /\ failed' = failed
  BY <1>1, NotionKept, PagesInReach
     DEF Start, vault, AllTyped, NotionTyped, VaultTyped, GhostsTyped
<1>2. CASE StartFull
  <2>1. Start(TRUE)
    BY <1>2 DEF StartFull
  <2>2. ScanTyped' /\ WorkTyped'
    BY <1>1, <1>2, <2>1 DEF StartFull, AllTyped, ScanTyped, WorkTyped
  <2> QED
    BY <1>1, <1>2, <2>1, <2>2 DEF StartFull, AllTyped, PhaseTyped, FaultsTyped, GhostsTyped
<1>3. ASSUME NEW lost \in SUBSET Pages, StartIncremental(lost)
      PROVE  AllTyped'
  <2>1. Start(FALSE)
    BY <1>3 DEF StartIncremental
  <2>2. FaultsTyped'
    <3>1. Cardinality(lost) \in Nat
      BY ScanAssumption, FS_Subset, FS_CardinalityType
    <3> QED BY <1>3, <3>1, FaultTyped DEF StartIncremental, AllTyped
  <2>3. SweepBatch(Recent) \subseteq Pages /\ LastAsked(Recent) \subseteq Pages
    BY DEF SweepBatch, LastAsked, Sweepable, Records
  <2>4. WorkTyped'
    <3>1. shown \in [Pages -> Time] /\ 0 \in Time
      BY ScanAssumption DEF AllTyped, NotionTyped
    <3>2. due' \in [Pages -> Time]
      BY <1>3, <3>1, Zenon DEF StartIncremental
    <3>3. UNCHANGED <<doomed, queued, inBody, todo, failed>>
      BY <1>3 DEF StartIncremental, Start
    <3> QED BY <3>2, <3>3 DEF AllTyped, WorkTyped
  <2>5. ScanTyped'
    BY <1>1, <1>3, <2>1, <2>3, PagesInReach
       DEF StartIncremental, AllTyped, NotionTyped, ScanTyped
  <2> QED
    BY <1>1, <1>3, <2>1, <2>2, <2>4, <2>5 DEF StartIncremental, AllTyped, PhaseTyped, GhostsTyped
<1> QED BY <1>2, <1>3 DEF StartSome

(* What a step leaves alone keeps its types. *)
LEMMA GroupsKept ==
    ASSUME AllTyped
    PROVE  /\ UNCHANGED vault => VaultTyped'
           /\ UNCHANGED phase => PhaseTyped'
           /\ UNCHANGED scan => ScanTyped'
           /\ UNCHANGED work => WorkTyped'
           /\ UNCHANGED faults => FaultsTyped'
           /\ UNCHANGED ghosts => GhostsTyped'
BY DEF vault, scan, work, ghosts, AllTyped, VaultTyped, PhaseTyped, ScanTyped, WorkTyped,
       FaultsTyped, GhostsTyped

LEMMA ListTyped ==
    ASSUME AllTyped,
           \/ \E n \in Pages \cup {Root} : ListNode(n) \/ SkipNode(n)
           \/ \E lost \in SUBSET Pages : SearchInstead(lost)
           \/ Compare
    PROVE  AllTyped'
<1>0. 0 \in Time /\ 1 \in Nat
  BY ScanAssumption
<1>1. ASSUME NEW n \in Pages \cup {Root}, ListNode(n)
      PROVE  AllTyped'
  <2>1. UNCHANGED <<notion, vault, phase, full, startedAt, toAsk, asked, unread, nextCursor, work,
                    faults, ghosts>>
    BY <1>1 DEF ListNode
  <2>2. pages' \in [Pages -> Time]
    BY <1>1 DEF ListNode, AllTyped, NotionTyped, ScanTyped
  <2>3. place' \in [Pages -> Places \cup {Nowhere}]
    BY <1>1 DEF ListNode, AllTyped, ScanTyped
  <2>4. toList' \subseteq Pages \cup {Root} /\ heard' \subseteq Pages
    BY <1>1, TreeTyped DEF ListNode, AllTyped, ScanTyped
  <2>5. ScanTyped'
    BY <2>1, <2>2, <2>3, <2>4 DEF AllTyped, ScanTyped
  <2> QED BY <2>1, <2>5, NotionKept, GroupsKept DEF AllTyped
<1>2. ASSUME NEW n \in Pages \cup {Root}, SkipNode(n)
      PROVE  AllTyped'
  <2>1. UNCHANGED <<notion, vault, phase, full, startedAt, pages, heard, place, toAsk, asked, unread,
                    nextCursor, work, hidden, wasOut>>
    BY <1>2 DEF SkipNode
  <2>2. FaultsTyped'
    BY <1>0, <1>2, FaultTyped DEF SkipNode, AllTyped
  <2>3. ScanTyped'
    BY <1>2, <2>1 DEF SkipNode, AllTyped, ScanTyped
  <2>4. GhostsTyped'
    BY <1>2, <2>1, TreeTyped DEF SkipNode, AllTyped, GhostsTyped
  <2> QED BY <2>1, <2>2, <2>3, <2>4, NotionKept, GroupsKept DEF AllTyped
<1>3. ASSUME NEW lost \in SUBSET Pages, SearchInstead(lost)
      PROVE  AllTyped'
  <2>1. UNCHANGED <<notion, vault, phase, full, startedAt, toAsk, asked, unread, nextCursor, work,
                    hidden, wasOut>>
    BY <1>3 DEF SearchInstead
  <2>2. FaultsTyped'
    <3>1. Cardinality(lost) \in Nat
      BY ScanAssumption, FS_Subset, FS_CardinalityType
    <3> QED BY <1>3, <3>1, FaultTyped DEF SearchInstead, AllTyped
  <2>3. pages' \in [Pages -> Time] /\ toList' = {}
    BY <1>3 DEF SearchInstead, AllTyped, NotionTyped, ScanTyped
  <2>4. place' \in [Pages -> Places \cup {Nowhere}] /\ heard' \subseteq Pages
    BY <1>3 DEF SearchInstead, AllTyped, NotionTyped, ScanTyped
  <2>5. fresh' \subseteq Pages
    BY <1>3 DEF SearchInstead, AllTyped, GhostsTyped
  <2>6. ScanTyped' /\ GhostsTyped'
    BY <2>1, <2>3, <2>4, <2>5 DEF AllTyped, ScanTyped, GhostsTyped
  <2> QED BY <2>1, <2>2, <2>6, NotionKept, GroupsKept DEF AllTyped
<1>4. CASE Compare
  <2>1. UNCHANGED <<notion, vault, full, startedAt, toList, pages, heard, place, unread,
                    nextCursor, doomed, queued, inBody, todo, failed, faults, ghosts>>
    BY <1>4 DEF Compare
  <2>2. due' \in [Pages -> Time]
    BY <1>0, <1>4 DEF Compare, AllTyped, ScanTyped
  <2>3. toAsk' \subseteq Pages /\ asked' \subseteq Pages
    BY <1>4, PagesInReach DEF Compare
  <2>4. ScanTyped' /\ WorkTyped'
    BY <2>1, <2>2, <2>3 DEF AllTyped, ScanTyped, WorkTyped
  <2>5. PhaseTyped'
    BY <1>4 DEF Compare, PhaseTyped
  <2> QED BY <2>1, <2>4, <2>5, NotionKept, GroupsKept DEF AllTyped
<1> QED BY <1>1, <1>2, <1>3, <1>4

LEMMA AskTyped ==
    ASSUME AllTyped, (\E p \in Pages : Ask(p) \/ AskFails(p)) \/ AskBelow
    PROVE  AllTyped'
<1>1. ASSUME NEW p \in Pages, Ask(p)
      PROVE  AllTyped'
  <2>1. UNCHANGED <<notion, vault, phase, full, startedAt, toList, pages, heard, asked, unread,
                    nextCursor, due, queued, inBody, todo, failed, faults, ghosts>>
    BY <1>1 DEF Ask
  <2>2. toAsk' \subseteq Pages /\ doomed' \subseteq Pages
    BY <1>1 DEF Ask, AllTyped, ScanTyped, WorkTyped
  <2>3. place' \in [Pages -> Places \cup {Nowhere}]
    BY <1>1 DEF Ask, AllTyped, NotionTyped, ScanTyped
  <2>4. ScanTyped' /\ WorkTyped'
    BY <2>1, <2>2, <2>3 DEF AllTyped, ScanTyped, WorkTyped
  <2> QED BY <2>1, <2>4, NotionKept, GroupsKept DEF AllTyped
<1>2. ASSUME NEW p \in Pages, AskFails(p)
      PROVE  AllTyped'
  <2>1. UNCHANGED <<notion, vault, phase, full, startedAt, toList, pages, heard, place, asked,
                    nextCursor, work, ghosts>>
    BY <1>2 DEF AskFails
  <2>2. FaultsTyped'
    BY <1>2, FaultTyped DEF AskFails, AllTyped
  <2>3. ScanTyped'
    BY <1>2, <2>1 DEF AskFails, AllTyped, ScanTyped
  <2> QED BY <2>1, <2>2, <2>3, NotionKept, GroupsKept DEF AllTyped
<1>3. CASE AskBelow
  <2>1. UNCHANGED <<notion, vault, full, startedAt, toList, pages, heard, place, unread,
                    nextCursor, work, faults, ghosts>>
    BY <1>3 DEF AskBelow
  <2>2. TrackedBelow \subseteq Pages
    BY PagesInReach DEF TrackedBelow
  <2>3. ScanTyped' /\ PhaseTyped'
    BY <1>3, <2>1, <2>2 DEF AskBelow, AllTyped, ScanTyped, PhaseTyped
  <2> QED BY <2>1, <2>3, NotionKept, GroupsKept DEF AllTyped
<1> QED BY <1>1, <1>2, <1>3

LEMMA DetectedTyped ==
    ASSUME AllTyped, NEW gone \in SUBSET Pages, Detected(gone)
    PROVE  AllTyped'
<1>1. UNCHANGED <<notion, seen, lastPull, cursor, full, startedAt, toList, pages, nextCursor, due,
                  inBody, failed, faults, hidden, fresh>>
  BY DEF Detected
<1>2. VaultTyped'
  <2>1. under' \in [Pages -> Places \cup {Nowhere}]
    BY DEF Detected, AllTyped, VaultTyped, ScanTyped
  <2> QED BY <1>1, <2>1 DEF AllTyped, VaultTyped
<1>3. ScanTyped'
  BY <1>1 DEF Detected, AllTyped, ScanTyped
<1>4. WorkTyped'
  BY <1>1 DEF Detected, AllTyped, WorkTyped
<1>5. PhaseTyped' /\ GhostsTyped' /\ FaultsTyped'
  BY <1>1 DEF Detected, AllTyped, PhaseTyped, GhostsTyped, FaultsTyped
<1> QED BY <1>1, <1>2, <1>3, <1>4, <1>5, NotionKept DEF AllTyped

LEMMA JudgeTyped == ASSUME AllTyped, Judge \/ SweepDone PROVE AllTyped'
<1>1. CASE Judge
  <2>1. (asked \ (doomed \cup unread)) \subseteq Pages /\ doomed \subseteq Pages
    BY DEF AllTyped, ScanTyped, WorkTyped
  <2> QED BY <1>1, <2>1, DetectedTyped DEF Judge
<1>2. CASE SweepDone
  <2>1. doomed \subseteq Pages
    BY DEF AllTyped, WorkTyped
  <2> QED BY <1>2, <2>1, DetectedTyped DEF SweepDone
<1> QED BY <1>1, <1>2

LEMMA ReceiveTyped == ASSUME AllTyped, NEW p \in Pages, Receive(p) PROVE AllTyped'
<1>0. 0 \in Time
  BY ScanAssumption
<1>1. UNCHANGED <<notion, lastPull, cursor, phase, full, startedAt, toList, heard, place, toAsk,
                  asked, unread, nextCursor, doomed, queued, failed, faults, wasOut>>
  BY DEF Receive
<1>2. seen' \in [Pages -> Time]
  BY DEF Receive, AllTyped, NotionTyped, VaultTyped, ScanTyped
<1>3. under' \in [Pages -> Places \cup {Nowhere}]
  BY DEF Receive, AllTyped, NotionTyped, VaultTyped
<1>4. pages' \in [Pages -> Time] /\ due' \in [Pages -> Time]
  BY <1>0 DEF Receive, AllTyped, ScanTyped, WorkTyped
<1>5. inBody' \in [Pages -> Pages \cup {Nowhere}]
  BY DEF Receive, AllTyped, WorkTyped
<1>6. todo' \subseteq Pages /\ hidden' \subseteq Pages /\ fresh' \subseteq Pages
  BY DEF Receive, AllTyped, WorkTyped, GhostsTyped
<1>7. VaultTyped' /\ ScanTyped'
  BY <1>1, <1>2, <1>3, <1>4 DEF AllTyped, VaultTyped, ScanTyped
<1>8. WorkTyped' /\ GhostsTyped'
  BY <1>1, <1>4, <1>5, <1>6 DEF AllTyped, WorkTyped, GhostsTyped
<1> QED BY <1>1, <1>7, <1>8, NotionKept, GroupsKept DEF AllTyped

LEMMA ApplyTyped ==
    ASSUME AllTyped,
           Retry \/ \E p \in Pages : Remove(p) \/ ItemFails(p) \/ TakeChild(p) \/ ChildUnread(p)
    PROVE  AllTyped'
<1>0. 0 \in Time
  BY ScanAssumption
<1>1. ASSUME NEW p \in Pages, Remove(p)
      PROVE  AllTyped'
  <2>1. UNCHANGED <<notion, lastPull, cursor, phase, scan, due, doomed, queued, inBody, failed,
                    faults, hidden, wasOut>>
    BY <1>1 DEF Remove
  <2>2. VaultTyped'
    BY <1>0, <1>1, <2>1 DEF Remove, AllTyped, VaultTyped
  <2>3. WorkTyped' /\ GhostsTyped'
    BY <1>1, <2>1 DEF Remove, AllTyped, WorkTyped, GhostsTyped
  <2> QED BY <2>1, <2>2, <2>3, NotionKept, GroupsKept DEF AllTyped
<1>2. ASSUME NEW p \in Pages, ItemFails(p)
      PROVE  AllTyped'
  <2>1. UNCHANGED <<notion, vault, phase, scan, due, doomed, queued, inBody, ghosts>>
    BY <1>2 DEF ItemFails
  <2>2. FaultsTyped'
    BY <1>2, FaultTyped DEF ItemFails, AllTyped
  <2>3. WorkTyped'
    BY <1>2, <2>1 DEF ItemFails, AllTyped, WorkTyped
  <2> QED BY <2>1, <2>2, <2>3, NotionKept, GroupsKept DEF AllTyped
<1>3. ASSUME NEW p \in Pages, TakeChild(p)
      PROVE  AllTyped'
  <2>1. UNCHANGED <<notion, vault, phase, full, startedAt, toList, heard, place, toAsk, asked, unread,
                    nextCursor, doomed, failed, faults, ghosts>>
    BY <1>3 DEF TakeChild
  <2>2. due' \in [Pages -> Time] /\ pages' \in [Pages -> Time] /\ todo' \subseteq Pages
    BY <1>3 DEF TakeChild, AllTyped, NotionTyped, ScanTyped, WorkTyped
  <2>3. queued' \subseteq Pages /\ inBody' \in [Pages -> Pages \cup {Nowhere}]
    BY <1>3 DEF TakeChild, AllTyped, WorkTyped
  <2>4. ScanTyped' /\ WorkTyped'
    BY <2>1, <2>2, <2>3 DEF AllTyped, ScanTyped, WorkTyped
  <2> QED BY <2>1, <2>4, NotionKept, GroupsKept DEF AllTyped
<1>4. ASSUME NEW p \in Pages, ChildUnread(p)
      PROVE  AllTyped'
  <2>1. UNCHANGED <<notion, vault, phase, scan, due, doomed, todo, failed, hidden, wasOut>>
    BY <1>4 DEF ChildUnread
  <2>2. FaultsTyped'
    BY <1>4, FaultTyped DEF ChildUnread, AllTyped
  <2>3. WorkTyped' /\ GhostsTyped'
    BY <1>4, <2>1 DEF ChildUnread, AllTyped, WorkTyped, GhostsTyped
  <2> QED BY <2>1, <2>2, <2>3, NotionKept, GroupsKept DEF AllTyped
<1>5. CASE Retry
  <2>1. UNCHANGED <<notion, vault, scan, due, doomed, queued, inBody, faults, ghosts>>
    BY <1>5 DEF Retry
  <2>2. WorkTyped' /\ PhaseTyped'
    BY <1>5, <2>1 DEF Retry, AllTyped, WorkTyped, PhaseTyped
  <2> QED BY <2>1, <2>2, NotionKept, GroupsKept DEF AllTyped
<1> QED BY <1>1, <1>2, <1>3, <1>4, <1>5

LEMMA WatermarkTyped == AllTyped => NextWatermark \subseteq Time
BY DEF NextWatermark, AllTyped, ScanTyped, WorkTyped

LEMMA EndTyped == ASSUME AllTyped, Finish \/ Cancel \/ Abandon PROVE AllTyped'
<1>0. 0 \in Time
  BY ScanAssumption
<1>1. ASSUME EndPull
      PROVE  /\ NotionTyped' /\ PhaseTyped' /\ ScanTyped' /\ WorkTyped' /\ wasOut' \subseteq Pages
  BY <1>0, <1>1, NotionKept DEF EndPull, PhaseTyped, ScanTyped, WorkTyped
<1>2. ASSUME Finalize, UNCHANGED <<seen, under>>
      PROVE  EndPull /\ VaultTyped'
  <2>1. lastPull' \in Time
    BY <1>2, WatermarkTyped DEF Finalize
  <2>2. cursor' \in Pages \cup {Nowhere}
    BY <1>2 DEF Finalize, AllTyped, VaultTyped, ScanTyped
  <2> QED BY <1>2, <2>1, <2>2 DEF Finalize, AllTyped, VaultTyped
<1>3. FaultsTyped'
  <2>1. CASE Cancel \/ Abandon
    BY <2>1, FaultTyped DEF Cancel, Abandon, AllTyped
  <2>2. CASE Finish
    BY <2>2, GroupsKept DEF Finish
  <2> QED BY <2>1, <2>2
<1>4. EndPull /\ VaultTyped'
  BY <1>2, GroupsKept DEF Finish, Cancel, Abandon
<1>5. hidden' \subseteq Pages /\ fresh' \subseteq Pages
  BY DEF Finish, Cancel, Abandon, LeaveBehind, InHand, AllTyped, GhostsTyped
<1> QED BY <1>1, <1>3, <1>4, <1>5 DEF AllTyped, GhostsTyped

LEMMA ScanNext == ASSUME TypeOK, [Next]_vars PROVE TypeOK'
<1>0. AllTyped
  BY TypeParts
<1>1. CASE World
  BY <1>0, <1>1, WorldTyped, TypeParts
<1>2. CASE StartFull \/ StartSome
  BY <1>0, <1>2, StartTyped, TypeParts
<1>3. CASE PullStep
  BY <1>0, <1>3, ListTyped, AskTyped, JudgeTyped, ReceiveTyped, ApplyTyped, EndTyped, TypeParts
     DEF PullStep
<1>4. CASE Faulty
  BY <1>0, <1>4, ListTyped, AskTyped, ApplyTyped, EndTyped, TypeParts DEF Faulty
<1>5. CASE \E lost \in SUBSET Pages : SearchInstead(lost)
  BY <1>0, <1>5, ListTyped, TypeParts
<1>6. CASE UNCHANGED vars
  BY <1>0, <1>6, NotionKept, GroupsKept, TypeParts DEF vars, AllTyped
<1> QED BY <1>1, <1>2, <1>3, <1>4, <1>5, <1>6 DEF Next

(* Every variable of the scan keeps its type, in every order of events and failures *)
(* (detectRemote and executePull).                                                   *)
THEOREM ScanTypes == Spec => []TypeOK
<1>1. TypeOK /\ [Next]_vars => TypeOK'
  BY ScanNext
<1> QED BY <1>1, ScanInit, PTL DEF Spec
--------------------------------------------------------------------------------
(* What is found deleted. *)

Detecting == phase \in {"list", "ask", "askBelow"}

(* What is out of reach while a pull detects has been noted as such. *)
OutIsKnown == Detecting => Out \subseteq wasOut

(* A full scan asks for the records no listing showed, and has read a parent for each   *)
(* page that answered; one outside the vault is the parent of a page that was outside. *)
AnswersRead ==
    phase = "ask" /\ full =>
        /\ asked = {} \/ asked = Records \ heard
        /\ toAsk \subseteq asked
        /\ \A p \in asked \ (toAsk \cup doomed \cup unread) :
              place[p] \in Places /\ (place[p] = Elsewhere => p \in wasOut)

ScanInv == TypeOK /\ OutIsKnown /\ AnswersRead

LEMMA LineOfOne ==
    ASSUME NEW p \in Pages, parent[p] \notin Pages
    PROVE  Line(p, parent) \subseteq {p}
<1> SUFFICES ASSUME NEW q \in Line(p, parent) PROVE q = p
  OBVIOUS
<1>1. {p} \in SUBSET Pages /\ p \in {p}
      /\ \A r \in {p} : parent[r] \in Pages => parent[r] \in {p}
  OBVIOUS
<1> QED BY <1>1 DEF Line

LEMMA ElsewhereIsOut ==
    ASSUME NEW p \in Pages, parent[p] = Elsewhere
    PROVE  p \in Out
<1>1. \A q \in Line(p, parent) : parent[q] # Root
  BY LineOfOne, PlacesAssumption DEF Root, Elsewhere
<1> QED BY <1>1 DEF Out, InScope

LEMMA GoneIsOut == \A p \in Pages : Gone(p) => p \in Out
BY DEF Out, InScope, Alive

LEMMA OutKept == ASSUME UNCHANGED <<parent, edited, trashed>> PROVE Out' = Out
BY DEF Out, InScope, Alive, Born, Gone, Line

(* A page that is judged to go, though it answered. *)
LEMMA JudgedGone ==
    ASSUME ScanInv, phase = "ask", full, toAsk = {},
           NEW answered, answered = asked \ (doomed \cup unread),
           NEW p \in answered \ Staying(answered)
    PROVE  \/ p \in wasOut
           \/ place[p] \in Pages /\ (\/ place[p] \in (answered \ Staying(answered)) \cup doomed \cup unread
                                      \/ ~Tracked(place[p]))
<1> DEFINE Closed(S) == \A q \in answered : place[q] \in {Root} \cup heard \cup S => q \in S
<1>1. PICK S \in SUBSET answered : Closed(S) /\ p \notin S
  BY DEF Staying
<1>2. place[p] \notin {Root} \cup heard \cup S
  BY <1>1
<1>3. place[p] \in Places /\ (place[p] = Elsewhere => p \in wasOut)
  BY DEF ScanInv, AnswersRead
<1>4. CASE place[p] = Elsewhere
  BY <1>3, <1>4
<1>5. CASE place[p] \in Pages
  <2>1. place[p] \notin Staying(answered)
    BY <1>1, <1>2 DEF Staying
  <2>2. asked = Records \ heard
    BY DEF ScanInv, AnswersRead
  <2>3. CASE place[p] \in asked
    BY <1>5, <2>1, <2>3
  <2>4. CASE place[p] \notin asked
    BY <1>2, <1>5, <2>2, <2>4 DEF Records
  <2> QED BY <2>3, <2>4
<1> QED BY <1>2, <1>3, <1>4, <1>5

LEMMA InvInit == Init => ScanInv
BY ScanInit DEF Init, ScanInv, OutIsKnown, AnswersRead, Detecting

(* Steps that leave Notion and the answers alone. *)
LEMMA AnswersKept ==
    ASSUME AnswersRead, UNCHANGED <<phase, full, asked, toAsk, seen, heard, place, doomed, unread>>,
           wasOut \subseteq wasOut'
    PROVE  AnswersRead'
<1>1. Records' = Records
  BY DEF Records, Tracked
<1> QED BY <1>1 DEF AnswersRead

LEMMA InvNext == ASSUME ScanInv, [Next]_vars PROVE ScanInv'
<1>0. TypeOK /\ TypeOK' /\ AllTyped
  BY ScanNext, TypeParts DEF ScanInv
<1>1. ASSUME Event, fresh' \in SUBSET Pages
      PROVE  OutIsKnown' /\ AnswersRead'
  <2>1. UNCHANGED <<seen, phase, full, asked, toAsk, heard, place, doomed, unread>>
    BY <1>1 DEF Event, vault, scan, work
  <2>2. wasOut \subseteq wasOut' /\ (Detecting => Out' \subseteq wasOut')
    BY <1>1 DEF Event, Detecting
  <2> QED BY <2>1, <2>2, AnswersKept DEF ScanInv, OutIsKnown, Detecting
<1>2. CASE World
  <2>1. CASE Event
    BY <1>0, <1>1, <2>1 DEF TypeOK, ScanInv
  <2>2. CASE Tick \/ \E p \in Pages : Index(p)
    <3>1. UNCHANGED <<parent, edited, trashed, vault, phase, scan, work, ghosts>>
      BY <2>2 DEF Tick, Index
    <3>2. Out' = Out
      BY <3>1, OutKept
    <3> QED
      BY <1>0, <3>1, <3>2, AnswersKept
         DEF ScanInv, OutIsKnown, Detecting, vault, scan, work, ghosts
  <2> QED BY <1>2, <2>1, <2>2 DEF World, Create, Edit, Move, Trash, Restore
<1>3. ASSUME UNCHANGED notion PROVE Out' = Out
  BY <1>3, OutKept DEF notion
<1>4. CASE StartFull \/ StartSome
  <2>1. UNCHANGED notion /\ wasOut' = Out
    BY <1>4 DEF StartFull, StartSome, StartIncremental, Start
  <2>2. phase' = "list" \/ full' = FALSE
    BY <1>4 DEF StartFull, StartSome, StartIncremental, Start
  <2> QED BY <1>0, <1>3, <2>1, <2>2 DEF ScanInv, OutIsKnown, AnswersRead
<1>5. CASE \/ \E n \in Pages \cup {Root} : ListNode(n) \/ SkipNode(n)
           \/ \E lost \in SUBSET Pages : SearchInstead(lost)
  <2>1. UNCHANGED notion /\ wasOut' = wasOut /\ phase' = phase /\ phase = "list"
    BY <1>5 DEF ListNode, SkipNode, SearchInstead, Listing, ghosts
  <2> QED BY <1>0, <1>3, <2>1 DEF ScanInv, OutIsKnown, AnswersRead, Detecting
<1>6. CASE Compare
  <2>1. UNCHANGED <<notion, wasOut, heard, seen>> /\ phase = "list"
    BY <1>6 DEF Compare, Listing, ghosts, vault
  <2>2. Records' = Records
    BY <2>1 DEF Records, Tracked
  <2>3. AnswersRead'
    BY <1>6, <2>1, <2>2 DEF Compare, AnswersRead
  <2> QED BY <1>0, <1>3, <2>1, <2>3 DEF ScanInv, OutIsKnown, Detecting
<1>7. ASSUME NEW p \in Pages, Ask(p) PROVE ScanInv'
  <2>1. UNCHANGED <<notion, seen, phase, full, asked, heard, unread, wasOut>> /\ p \in toAsk
        /\ Asking /\ toAsk' = toAsk \ {p}
    BY <1>7 DEF Ask, vault, ghosts
  <2>2. Records' = Records
    BY <2>1 DEF Records, Tracked
  <2>3. parent[p] \in Places /\ (parent[p] = Elsewhere => p \in wasOut)
    BY <1>0, <2>1, ElsewhereIsOut
       DEF AllTyped, NotionTyped, ScanInv, OutIsKnown, Detecting, Asking
  <2>4. ASSUME phase = "ask", full, NEW q \in asked \ (toAsk' \cup doomed' \cup unread)
        PROVE  place'[q] \in Places /\ (place'[q] = Elsewhere => q \in wasOut)
    <3>1. CASE q = p
      <4>1. ~Gone(p) /\ place'[p] = parent[p]
        BY <1>0, <1>7, <2>4, <3>1 DEF Ask, AllTyped, ScanTyped
      <4> QED BY <2>3, <3>1, <4>1
    <3>2. CASE q # p
      <4>1. place'[q] = place[q] /\ q \notin toAsk /\ q \notin doomed
        BY <1>7, <1>0, <2>1, <2>4, <3>2 DEF Ask, AllTyped, ScanTyped
      <4> QED BY <2>4, <4>1 DEF ScanInv, AnswersRead
    <3> QED BY <3>1, <3>2
  <2>5. AnswersRead'
    BY <2>1, <2>2, <2>4 DEF AnswersRead, ScanInv
  <2> QED BY <1>0, <1>3, <2>1, <2>5 DEF ScanInv, OutIsKnown, Detecting
<1>8. ASSUME NEW p \in Pages, AskFails(p) PROVE ScanInv'
  <2>1. UNCHANGED <<notion, seen, phase, full, asked, heard, place, doomed, wasOut>>
        /\ toAsk' = toAsk \ {p} /\ unread' = unread \cup {p}
    BY <1>8 DEF AskFails, vault, work, ghosts
  <2>2. Records' = Records
    BY <2>1 DEF Records, Tracked
  <2>3. AnswersRead'
    BY <2>1, <2>2 DEF AnswersRead, ScanInv
  <2> QED BY <1>0, <1>3, <2>1, <2>3 DEF ScanInv, OutIsKnown, Detecting
<1>9. CASE AskBelow
  <2>1. UNCHANGED <<notion, wasOut>> /\ phase' = "askBelow" /\ phase = "ask"
    BY <1>9 DEF AskBelow, ghosts
  <2> QED BY <1>0, <1>3, <2>1 DEF ScanInv, OutIsKnown, AnswersRead, Detecting
<1>10. CASE Judge \/ SweepDone
  <2>1. phase' = "apply"
    BY <1>10 DEF Judge, SweepDone, Detected
  <2> QED BY <1>0, <2>1 DEF ScanInv, OutIsKnown, AnswersRead, Detecting
<1>11. CASE \/ \E p \in Pages : Receive(p) \/ Remove(p) \/ TakeChild(p) \/ ItemFails(p) \/ ChildUnread(p)
            \/ Retry \/ Finish \/ Cancel \/ Abandon
  <2>1. phase' \in {"idle", "apply", "retry"}
    BY <1>11
       DEF Receive, Remove, TakeChild, ItemFails, ChildUnread, Retry, Finish, Cancel, Abandon,
           Finalize, EndPull, Applying
  <2> QED BY <1>0, <2>1 DEF ScanInv, OutIsKnown, AnswersRead, Detecting
<1>12. CASE UNCHANGED vars
  BY <1>0, <1>3, <1>12, AnswersKept
     DEF vars, vault, scan, work, ghosts, ScanInv, OutIsKnown, Detecting
<1> QED
  BY <1>2, <1>4, <1>5, <1>6, <1>7, <1>8, <1>9, <1>10, <1>11, <1>12 DEF Next, PullStep, Faulty

(* confirmedDeletions and sweepDeletions delete a note only for a page that was outside the *)
(* vault at some time since the pull began, or below a page that goes, that the vault does  *)
(* not have, or that could not be read.                                                     *)
THEOREM DeletionsHaveCause == Spec => DoomedOnlyIfOut
<1>1. ASSUME ScanInv, [Next]_vars, NEW p \in doomed' \ doomed
      PROVE  p \in wasOut \/ (place[p] \in Pages
                              /\ (place[p] \in doomed' \cup unread \/ ~Tracked(place[p])))
  <2>1. ASSUME NEW q \in Pages, Ask(q)
        PROVE  p \in wasOut
    <3>1. Gone(q) /\ p = q /\ Asking
      BY <1>1, <2>1 DEF Ask
    <3> QED BY <1>1, <3>1, GoneIsOut DEF ScanInv, OutIsKnown, Asking, Detecting
  <2>2. CASE Judge
    <3> DEFINE answered == asked \ (doomed \cup unread)
    <3>1. /\ doomed' = doomed \cup (answered \ Staying(answered))
          /\ phase = "ask" /\ full /\ toAsk = {}
      BY <2>2 DEF Judge, Detected
    <3>2. p \in answered \ Staying(answered)
      BY <1>1, <3>1
    <3> HIDE DEF answered
    <3>3. \/ p \in wasOut
          \/ place[p] \in Pages
             /\ (\/ place[p] \in (answered \ Staying(answered)) \cup doomed \cup unread
                 \/ ~Tracked(place[p]))
      BY <1>1, <3>1, <3>2, JudgedGone DEF answered
    <3> QED BY <3>1, <3>3
  <2>3. CASE SweepDone
    BY <1>1, <2>3 DEF SweepDone, Detected
  <2>4. CASE ~(Judge \/ SweepDone \/ \E q \in Pages : Ask(q))
    <3>1. doomed' \subseteq doomed
      BY <1>1, <2>4
         DEF Next, vars, World, Create, Edit, Move, Trash, Restore, Event, Tick, Index, StartFull,
             StartSome, StartIncremental, Start, PullStep, Faulty, ListNode, SkipNode, SearchInstead,
             Compare, AskFails, AskBelow, Receive, Remove, ItemFails, TakeChild, ChildUnread, Retry,
             Finish, Cancel, Abandon, Finalize, EndPull, work
    <3> QED BY <1>1, <3>1
  <2> QED BY <2>1, <2>2, <2>3, <2>4
<1>2. ScanInv /\ [Next]_vars =>
        [\A p \in doomed' \ doomed :
            p \in wasOut \/ (place[p] \in Pages
                             /\ (place[p] \in doomed' \cup unread \/ ~Tracked(place[p])))]_vars
  BY <1>1
<1>3. ScanInv /\ [Next]_vars => ScanInv'
  BY InvNext
<1> QED BY <1>2, <1>3, InvInit, PTL DEF Spec, DoomedOnlyIfOut
--------------------------------------------------------------------------------
(* Where a change hides from the next pull.                                            *)
(*                                                                                     *)
(* WatermarkPromise speaks of the time between two pulls.  While one runs, a change is *)
(* on its way: in a listing still to come, held as an object, due, or shown by a body. *)

(* Edited so long before the pull began that search knew it then. *)
Old(p) == edited[p] + Window <= startedAt

(* The vault should have it: it has the page, or the one above it. *)
Owed(p) == InScope(p) /\ seen[p] < edited[p] /\ (Tracked(p) \/ Known(p))

(* What this pull need not find; a full one finds what earlier ones did not. *)
HiddenNow == IF full THEN fresh ELSE hidden \cup fresh
Judging == phase \in {"ask", "askBelow"} \/ Applying

(* The index of search is at most Lag behind, and the watermark is no later than the pull. *)
ClocksAgree ==
    /\ \A p \in Pages : /\ shown[p] <= edited[p] /\ edited[p] <= now
                        /\ shown[p] < edited[p] => now <= edited[p] + Lag
    /\ startedAt <= now /\ lastPull <= now
    /\ phase # "idle" => lastPull <= startedAt

BornBelowBorn == \A p \in Pages : Born(p) /\ parent[p] \in Pages => Born(parent[p])

(* An object that is held shows the last edit that is old. *)
PagesHeld ==
    /\ phase = "idle" => pages = None
    /\ phase = "list" => full
    /\ \A p \in Pages : /\ pages[p] <= edited[p]
                        /\ Old(p) /\ pages[p] > 0 => pages[p] = edited[p]

(* The traversal has listed a page, or will come to it. *)
ListReaches ==
    phase = "list" =>
        \A p \in Pages : InScope(p) /\ Old(p) /\ p \notin fresh =>
            pages[p] > 0 \/ \E n \in toList : p \in Below(n)

AskedAreRecords ==
    /\ ~Applying => inBody = [p \in Pages |-> Nowhere]
    /\ phase \in {"idle", "list"} => doomed = {}
    /\ phase \in {"ask", "askBelow"} => toAsk \subseteq asked /\ asked \cup doomed \subseteq Records

(* A child a body shows is new and not queued; what was queued and is no longer due was *)
(* received, or was out of reach.                                                       *)
HandsApart ==
    Applying => \A p \in Pages :
        /\ due[p] > 0 => p \in queued
        /\ inBody[p] # Nowhere =>
              /\ p \notin queued /\ ~Tracked(p)
              /\ parent[p] = inBody[p] \/ p \in fresh
        /\ p \in queued /\ due[p] = 0 /\ ~Tracked(p) /\ InScope(p) => p \in fresh \/ ~Old(p)

(* What the vault should have of an old change is due, or shown by a body. *)
ChangesDue ==
    Judging => \A p \in Pages :
        /\ due[p] <= edited[p]
        /\ Owed(p) /\ Old(p) /\ p \notin HiddenNow => due[p] > 0 \/ inBody[p] # Nowhere

(* WatermarkPromise, and what holds in its place while a pull runs. *)
InReach ==
    lastPull > 0 => \A p \in Pages : Owed(p) =>
        \/ edited[p] + Window > lastPull
        \/ p \in hidden \cup fresh
        \/ Applying /\ p \in InHand

WatermarkInv ==
    /\ ClocksAgree /\ BornBelowBorn /\ PagesHeld /\ ListReaches /\ AskedAreRecords
    /\ HandsApart /\ ChangesDue /\ InReach

LEMMA Numbers ==
    ASSUME TypeOK
    PROVE  /\ now \in Nat /\ lastPull \in Nat /\ startedAt \in Nat
           /\ Window \in Nat /\ Lag \in Nat /\ Lag < Window
           /\ \A p \in Pages : /\ edited[p] \in Nat /\ shown[p] \in Nat /\ seen[p] \in Nat
                               /\ pages[p] \in Nat /\ due[p] \in Nat
BY ScanAssumption DEF TypeOK

(* The line of p is the least set that holds p and the parents of its members. *)
LEMMA LineLeast ==
    ASSUME NEW p \in Pages, NEW up, NEW S \in SUBSET Pages, p \in S,
           \A r \in S : up[r] \in Pages => up[r] \in S
    PROVE  Line(p, up) \subseteq S
BY DEF Line

LEMMA LineClosed ==
    ASSUME NEW p \in Pages, NEW up
    PROVE  /\ p \in Line(p, up) /\ Line(p, up) \subseteq Pages
           /\ \A r \in Line(p, up) : up[r] \in Pages => up[r] \in Line(p, up)
BY DEF Line

LEMMA LineUp ==
    ASSUME NEW p \in Pages, NEW up, NEW r \in Line(p, up), r # p
    PROVE  \E m \in Line(p, up) : up[m] = r
<1> SUFFICES ASSUME \A m \in Line(p, up) : up[m] # r PROVE FALSE
    OBVIOUS
<1> DEFINE S == Line(p, up) \ {r}
<1>1. S \in SUBSET Pages /\ p \in S /\ \A m \in S : up[m] \in Pages => up[m] \in S
    BY LineClosed
<1>2. Line(p, up) \subseteq S
    BY <1>1, LineLeast
<1> QED
    BY <1>2

LEMMA LineSame ==
    ASSUME NEW p \in Pages, NEW up, NEW up2, \A r \in Line(p, up) : up2[r] = up[r]
    PROVE  Line(p, up2) = Line(p, up)
<1>1. Line(p, up2) \subseteq Line(p, up)
    <2>1. /\ Line(p, up) \in SUBSET Pages /\ p \in Line(p, up)
          /\ \A r \in Line(p, up) : up2[r] \in Pages => up2[r] \in Line(p, up)
        BY LineClosed
    <2> QED
        BY <2>1, LineLeast
<1>2. Line(p, up) \subseteq Line(p, up2)
    <2> DEFINE S == Line(p, up) \cap Line(p, up2)
    <2>1. S \in SUBSET Pages /\ p \in S /\ \A r \in S : up[r] \in Pages => up[r] \in S
        BY LineClosed
    <2>2. Line(p, up) \subseteq S
        BY <2>1, LineLeast
    <2> QED
        BY <2>2
<1> QED
    BY <1>1, <1>2

LEMMA OffLine ==
    ASSUME NEW p \in Pages, NEW r \in Pages, r \notin Subtree(p)
    PROVE  p \notin Line(r, parent) /\ r # p
<1>1. r # p /\ r \notin Below(p)
    BY DEF Subtree
<1>2. ASSUME p \in Line(r, parent) PROVE FALSE
    BY <1>1, <1>2, LineUp DEF Below
<1> QED
    BY <1>1, <1>2

(* A page below n is a child of n, or below one; what is above a page in reach is alive. *)
LEMMA BelowByChild ==
    ASSUME TypeOK, BornBelowBorn, NEW p \in Pages, NEW n, InScope(p), p \in Below(n)
    PROVE  p \in Children(n) \/ \E m \in Children(n) : p \in Below(m)
<1>1. PICK m \in Line(p, parent) : parent[m] = n
    BY DEF Below
<1>2. m \in Pages
    BY LineClosed
<1>3. m \in Children(n)
    <2>1. Born(m)
        <3> DEFINE S == {q \in Pages : Born(q)}
        <3>1. S \in SUBSET Pages /\ p \in S /\ \A r \in S : parent[r] \in Pages => parent[r] \in S
            BY DEF InScope, Alive, BornBelowBorn
        <3>2. Line(p, parent) \subseteq S
            BY <3>1, LineLeast
        <3> QED
            BY <3>2
    <2>2. Line(m, parent) \subseteq Line(p, parent)
        <3>1. /\ Line(p, parent) \in SUBSET Pages
              /\ \A r \in Line(p, parent) : parent[r] \in Pages => parent[r] \in Line(p, parent)
            BY LineClosed
        <3> QED
            BY <1>2, <3>1, LineLeast
    <2>3. ~Gone(m)
        BY <2>2 DEF InScope, Alive, Gone
    <2> QED
        BY <1>1, <1>2, <2>1, <2>3 DEF Children, Alive
<1>4. CASE m = p
    BY <1>3, <1>4
<1>5. CASE m # p
    <2>1. \E q \in Line(p, parent) : parent[q] = m
        BY <1>5, LineUp
    <2> QED
        BY <1>3, <2>1 DEF Below
<1> QED
    BY <1>4, <1>5

(* Where the line of a page stays as it is, so does its place. *)
LEMMA ScopeKept ==
    ASSUME NEW r \in Pages, \A q \in Line(r, parent) : parent'[q] = parent[q],
           Line(r, parent) \cap trashed' = Line(r, parent) \cap trashed, edited'[r] = edited[r]
    PROVE  /\ InScope(r)' <=> InScope(r)
           /\ parent'[r] = parent[r]
           /\ \A n : r \in Below(n)' <=> r \in Below(n)
<1>1. Line(r, parent') = Line(r, parent)
    BY LineSame
<1>2. r \in Line(r, parent)
    BY LineClosed
<1> QED
    BY <1>1, <1>2 DEF InScope, Alive, Born, Gone, Below

(* The edit time of a page stays, or becomes that of the clock. *)
LEMMA EditsForward ==
    ASSUME TypeOK, World, ClocksAgree, NEW r \in Pages
    PROVE  edited'[r] = edited[r] \/ (edited'[r] = now' /\ edited[r] <= now')
<1>1. edited \in [Pages -> Time] /\ edited[r] <= now
    BY DEF TypeOK, ClocksAgree
<1>2. ASSUME NEW p \in Pages, Create(p) \/ Edit(p)
      PROVE  edited'[r] = edited[r] \/ (edited'[r] = now' /\ edited[r] <= now')
    <2>1. now' = now /\ edited' = [edited EXCEPT ![p] = now]
        BY <1>2 DEF Create, Edit, Event
    <2> QED
        BY <1>1, <2>1
<1>3. ASSUME NEW p \in Pages, Trash(p) \/ Restore(p) \/ Index(p) \/ \E q \in Places : Move(p, q)
      PROVE  edited' = edited
    BY <1>3 DEF Trash, Restore, Move, Index
<1>4. Tick => edited' = edited
    BY DEF Tick
<1> QED
    BY <1>2, <1>3, <1>4 DEF World

(* What people do to a page that is in reach: it is edited now, stays where it is, or is a *)
(* note's page that an incremental pull sees moved.  Any other is one of fresh.            *)
LEMMA WorldShows ==
    ASSUME TypeOK, World, NEW r \in Pages, InScope(r)', r \notin fresh'
    PROVE  \/ edited'[r] = now'
           \/ edited'[r] = edited[r] /\ InScope(r) /\ Tracked(r) /\ ~full
           \/ /\ edited'[r] = edited[r] /\ InScope(r) /\ parent'[r] = parent[r]
              /\ \A n : r \in Below(n) => r \in Below(n)'
<1>1. edited \in [Pages -> Time]
    BY DEF TypeOK
<1>2. ASSUME NEW p \in Pages, Create(p) \/ Edit(p), edited'[r] # now'
      PROVE  /\ edited'[r] = edited[r] /\ InScope(r) /\ parent'[r] = parent[r]
             /\ \A n : r \in Below(n) => r \in Below(n)'
    <2>1. /\ now' = now /\ edited' = [edited EXCEPT ![p] = now]
          /\ parent' = parent /\ trashed' = trashed
        BY <1>2 DEF Create, Edit, Event
    <2>2. edited'[r] = edited[r]
        BY <1>1, <1>2, <2>1
    <2> QED
        BY <2>1, <2>2, ScopeKept
<1>3. ASSUME NEW p \in Pages, Trash(p)
      PROVE  /\ edited'[r] = edited[r] /\ InScope(r) /\ parent'[r] = parent[r]
             /\ \A n : r \in Below(n) => r \in Below(n)'
    <2>1. parent' = parent /\ edited' = edited /\ trashed \subseteq trashed'
        BY <1>3 DEF Trash
    <2> QED
        BY <2>1 DEF InScope, Alive, Born, Gone, Below
<1>4. ASSUME NEW p \in Pages, Restore(p)
      PROVE  /\ edited'[r] = edited[r] /\ InScope(r) /\ parent'[r] = parent[r]
             /\ \A n : r \in Below(n) => r \in Below(n)'
    <2>1. parent' = parent /\ edited' = edited /\ trashed' = trashed \ {p} /\ r \notin Subtree(p)
        BY <1>4 DEF Restore
    <2>2. p \notin Line(r, parent)
        BY <2>1, OffLine
    <2>3. Line(r, parent) \cap trashed' = Line(r, parent) \cap trashed
        BY <2>1, <2>2
    <2> QED
        BY <2>1, <2>3, ScopeKept
<1>5. ASSUME NEW p \in Pages, NEW q \in Places, Move(p, q)
      PROVE  \/ edited'[r] = edited[r] /\ InScope(r) /\ Tracked(r) /\ ~full
             \/ /\ edited'[r] = edited[r] /\ InScope(r) /\ parent'[r] = parent[r]
                /\ \A n : r \in Below(n) => r \in Below(n)'
    <2>1. /\ edited' = edited /\ trashed' = trashed /\ parent' = [parent EXCEPT ![p] = q]
          /\ fresh' = fresh \cup {s \in Subtree(p) : full \/ s \in Out \/ ~Tracked(s)}
        BY <1>5 DEF Move
    <2>2. CASE r \in Subtree(p)
        BY <2>1, <2>2 DEF Out
    <2>3. CASE r \notin Subtree(p)
        <3>1. \A s \in Line(r, parent) : s \in Pages /\ s # p
            BY <2>3, OffLine, LineClosed
        <3>2. \A s \in Line(r, parent) : parent'[s] = parent[s]
            BY <2>1, <3>1 DEF TypeOK
        <3> QED
            BY <2>1, <3>2, ScopeKept
    <2> QED
        BY <2>2, <2>3
<1>6. CASE Tick \/ \E p \in Pages : Index(p)
    <2>1. parent' = parent /\ edited' = edited /\ trashed' = trashed
        BY <1>6 DEF Tick, Index
    <2> QED
        BY <2>1, ScopeKept
<1> QED
    BY <1>2, <1>3, <1>4, <1>5, <1>6 DEF World

LEMMA WorldLeaves ==
    ASSUME World
    PROVE  /\ UNCHANGED <<vault, phase, scan, work, hidden>>
           /\ fresh \subseteq fresh'
BY DEF World, Create, Edit, Move, Trash, Restore, Event, Tick, Index, ghosts

LEMMA WorldClocks == ASSUME TypeOK, ClocksAgree, World PROVE ClocksAgree'
<1>0. Time \subseteq Nat
    BY ScanAssumption
<1>1. /\ now \in Nat /\ lastPull \in Nat /\ startedAt \in Nat /\ Lag \in Nat
      /\ edited \in [Pages -> Time] /\ shown \in [Pages -> Time] /\ Time \subseteq Nat
    BY <1>0, Numbers DEF TypeOK
<1>2. ASSUME NEW p \in Pages, Create(p) \/ Edit(p) PROVE ClocksAgree'
    <2>1. /\ now' = now /\ edited' = [edited EXCEPT ![p] = now] /\ shown' = shown
          /\ startedAt' = startedAt /\ lastPull' = lastPull /\ phase' = phase
        BY <1>2, WorldLeaves DEF World, Create, Edit, Event, vault, scan
    <2>2. \A r \in Pages : /\ shown'[r] <= edited'[r] /\ edited'[r] <= now'
                           /\ shown'[r] < edited'[r] => now' <= edited'[r] + Lag
        <3> SUFFICES ASSUME NEW r \in Pages
                     PROVE  /\ shown'[r] <= edited'[r] /\ edited'[r] <= now'
                            /\ shown'[r] < edited'[r] => now' <= edited'[r] + Lag
            OBVIOUS
        <3>1. /\ shown[r] \in Nat /\ edited[r] \in Nat
              /\ shown[r] <= edited[r] /\ edited[r] <= now
              /\ shown[r] < edited[r] => now <= edited[r] + Lag
            BY <1>1 DEF ClocksAgree
        <3>2. edited'[r] = IF r = p THEN now ELSE edited[r]
            BY <1>1, <2>1
        <3> QED
            BY <1>1, <2>1, <3>1, <3>2
    <2> QED
        BY <2>1, <2>2 DEF ClocksAgree
<1>3. ASSUME NEW p \in Pages, Index(p) PROVE ClocksAgree'
    <2>1. /\ shown' = [shown EXCEPT ![p] = edited[p]]
          /\ UNCHANGED <<now, edited, startedAt, lastPull, phase>>
        BY <1>3 DEF Index, vault, scan
    <2>2. \A r \in Pages : /\ shown'[r] <= edited'[r] /\ edited'[r] <= now'
                           /\ shown'[r] < edited'[r] => now' <= edited'[r] + Lag
        <3> SUFFICES ASSUME NEW r \in Pages
                     PROVE  /\ shown'[r] <= edited'[r] /\ edited'[r] <= now'
                            /\ shown'[r] < edited'[r] => now' <= edited'[r] + Lag
            OBVIOUS
        <3>1. /\ shown[r] \in Nat /\ edited[r] \in Nat
              /\ shown[r] <= edited[r] /\ edited[r] <= now
              /\ shown[r] < edited[r] => now <= edited[r] + Lag
            BY <1>1 DEF ClocksAgree
        <3>2. shown'[r] = IF r = p THEN edited[r] ELSE shown[r]
            BY <1>1, <2>1
        <3> QED
            BY <1>1, <2>1, <3>1, <3>2
    <2> QED
        BY <2>1, <2>2 DEF ClocksAgree
<1>4. CASE Tick
    <2>1. /\ now' = now + 1 /\ \A r \in Pages : shown[r] < edited[r] => now < edited[r] + Lag
          /\ UNCHANGED <<shown, edited, startedAt, lastPull, phase>>
        BY <1>4 DEF Tick, vault, scan
    <2> QED
        BY <1>1, <2>1 DEF ClocksAgree
<1>5. ASSUME NEW p \in Pages, Trash(p) \/ Restore(p) \/ \E q \in Places : Move(p, q)
      PROVE  ClocksAgree'
    <2>1. UNCHANGED <<now, shown, edited, startedAt, lastPull, phase>>
        BY <1>5 DEF Trash, Restore, Move, Event, vault, scan
    <2> QED
        BY <2>1 DEF ClocksAgree
<1> QED
    BY <1>2, <1>3, <1>4, <1>5 DEF World

LEMMA WorldBorn == ASSUME TypeOK, ClocksAgree, BornBelowBorn, World PROVE BornBelowBorn'
<1>0. Time \subseteq Nat
    BY ScanAssumption
<1>1. /\ now \in Nat /\ edited \in [Pages -> Time] /\ Time \subseteq Nat
      /\ parent \in [Pages -> Places]
    BY <1>0, Numbers DEF TypeOK
<1>2. ASSUME NEW p \in Pages, Create(p) PROVE BornBelowBorn'
    <2>1. /\ edited' = [edited EXCEPT ![p] = now] /\ parent' = parent
          /\ parent[p] = Root \/ Born(parent[p])
        BY <1>2 DEF Create, Alive
    <2>2. Root \notin Pages
        BY PlacesAssumption
    <2>3. CASE now = 0
        <3>1. \A r \in Pages : edited[r] = 0
            BY <1>1, <2>3 DEF ClocksAgree
        <3>2. edited' = edited
            BY <1>1, <2>1, <2>3, <3>1
        <3> QED
            BY <2>1, <3>2 DEF BornBelowBorn, Born
    <2>4. CASE now > 0
        <3>1. \A r \in Pages : Born(r)' <=> (r = p \/ Born(r))
            BY <1>1, <2>1, <2>4 DEF Born
        <3> QED
            BY <2>1, <2>2, <3>1 DEF BornBelowBorn
    <2> QED
        BY <1>1, <2>3, <2>4
<1>3. ASSUME NEW p \in Pages, Edit(p) PROVE BornBelowBorn'
    <2>1. /\ edited' = [edited EXCEPT ![p] = now] /\ parent' = parent /\ Born(p) /\ edited[p] < now
        BY <1>3 DEF Edit, Alive
    <2>2. \A r \in Pages : Born(r)' <=> Born(r)
        BY <1>1, <2>1 DEF Born
    <2> QED
        BY <2>1, <2>2 DEF BornBelowBorn
<1>4. ASSUME NEW p \in Pages, NEW q \in Places, Move(p, q) PROVE BornBelowBorn'
    <2>1. /\ edited' = edited /\ parent' = [parent EXCEPT ![p] = q]
          /\ q \in Pages => Born(q)
        BY <1>4 DEF Move, Alive
    <2> QED
        BY <1>1, <2>1 DEF BornBelowBorn, Born
<1>5. CASE Tick \/ \E p \in Pages : Trash(p) \/ Restore(p) \/ Index(p)
    <2>1. UNCHANGED <<edited, parent>>
        BY <1>5 DEF Tick, Trash, Restore, Index
    <2> QED
        BY <2>1 DEF BornBelowBorn, Born
<1> QED
    BY <1>2, <1>3, <1>4, <1>5 DEF World

LEMMA AfterIsRecent ==
    ASSUME NEW t \in Nat, NEW s \in Nat, NEW l \in Nat, NEW w \in Nat, w > 0, s <= t, l <= t
    PROVE  ~(t + w <= s) /\ t + w > l
OBVIOUS

LEMMA WorldKeeps == ASSUME TypeOK, TypeOK', WatermarkInv, World PROVE WatermarkInv'
<1>1. ClocksAgree' /\ BornBelowBorn'
    BY WorldClocks, WorldBorn DEF WatermarkInv
<1>2. /\ UNCHANGED <<seen, lastPull, phase, full, startedAt, toList, pages, toAsk, asked, due, doomed,
                     queued, inBody, hidden>>
      /\ fresh \subseteq fresh'
    BY WorldLeaves DEF vault, scan, work
<1>3. Records' = Records /\ (\A p : Tracked(p)' <=> Tracked(p))
    BY <1>2 DEF Records, Tracked
<1>4. \A r \in Pages : /\ edited[r] <= edited'[r]
                       /\ edited'[r] # edited[r] => edited'[r] = now'
    BY Numbers, EditsForward DEF WatermarkInv
<1>5. \A r \in Pages : edited'[r] = now' =>
            ~Old(r)' /\ (edited'[r] + Window > lastPull')
    <2> SUFFICES ASSUME NEW r \in Pages, edited'[r] = now'
                 PROVE  ~(edited'[r] + Window <= startedAt') /\ edited'[r] + Window > lastPull'
        BY DEF Old
    <2>1. now' \in Nat /\ startedAt' \in Nat /\ lastPull' \in Nat /\ Window \in Nat /\ Window > 0
        BY ScanAssumption DEF TypeOK
    <2>2. startedAt' <= now' /\ lastPull' <= now'
        BY <1>1 DEF ClocksAgree
    <2>3. ~(now' + Window <= startedAt') /\ now' + Window > lastPull'
        BY ONLY <2>1, <2>2, AfterIsRecent
    <2> QED
        BY <2>3
<1>6. \A r \in Pages : edited'[r] = edited[r] => (Old(r)' <=> Old(r))
    BY <1>2 DEF Old
<1>7. PagesHeld'
    <2> SUFFICES ASSUME NEW p \in Pages
                 PROVE  pages[p] <= edited'[p] /\ (Old(p)' /\ pages[p] > 0 => pages[p] = edited'[p])
        BY <1>2 DEF WatermarkInv, PagesHeld
    <2>1. pages[p] <= edited[p] /\ (Old(p) /\ pages[p] > 0 => pages[p] = edited[p])
        BY DEF WatermarkInv, PagesHeld
    <2>2. pages[p] <= edited'[p]
        <3>1. pages[p] \in Nat /\ edited[p] \in Nat /\ edited'[p] \in Nat
            BY ScanAssumption DEF TypeOK
        <3> QED
            BY <1>4, <2>1, <3>1
    <2> QED
        BY <1>4, <1>5, <1>6, <2>1, <2>2
<1>8. ListReaches'
    <2> SUFFICES ASSUME phase = "list", NEW p \in Pages, InScope(p)', Old(p)', p \notin fresh'
                 PROVE  pages[p] > 0 \/ \E n \in toList : p \in Below(n)'
        BY <1>2 DEF ListReaches
    <2>1. full
        BY DEF WatermarkInv, PagesHeld
    <2>2. /\ edited'[p] = edited[p] /\ InScope(p)
          /\ \A n : p \in Below(n) => p \in Below(n)'
        BY <1>5, <2>1, WorldShows
    <2>3. pages[p] > 0 \/ \E n \in toList : p \in Below(n)
        BY <1>2, <1>6, <2>2 DEF WatermarkInv, ListReaches
    <2> QED
        BY <2>2, <2>3
<1>9. AskedAreRecords'
    BY <1>2, <1>3 DEF WatermarkInv, AskedAreRecords, Applying
<1>10. HandsApart'
    <2> SUFFICES ASSUME Applying, NEW p \in Pages
                 PROVE  /\ due[p] > 0 => p \in queued
                        /\ inBody[p] # Nowhere =>
                              /\ p \notin queued /\ ~Tracked(p)
                              /\ parent'[p] = inBody[p] \/ p \in fresh'
                        /\ p \in queued /\ due[p] = 0 /\ ~Tracked(p) /\ InScope(p)'
                              => p \in fresh' \/ ~Old(p)'
        BY <1>2, <1>3 DEF HandsApart, Applying
    <2>1. /\ due[p] > 0 => p \in queued
          /\ inBody[p] # Nowhere =>
                /\ p \notin queued /\ ~Tracked(p)
                /\ parent[p] = inBody[p] \/ p \in fresh
          /\ p \in queued /\ due[p] = 0 /\ ~Tracked(p) /\ InScope(p) => p \in fresh \/ ~Old(p)
        BY DEF WatermarkInv, HandsApart
    <2>2. ASSUME ~Tracked(p), parent'[p] # parent[p] PROVE p \in fresh'
        <3>1. PICK m \in Pages, q \in Places : Move(m, q)
            BY <2>2 DEF World, Create, Edit, Trash, Restore, Tick, Index
        <3>2. p = m
            BY <2>2, <3>1 DEF Move, TypeOK
        <3> QED
            BY <2>2, <3>1, <3>2 DEF Move, Subtree
    <2>3. ASSUME p \in queued, due[p] = 0, ~Tracked(p), InScope(p)', p \notin fresh', Old(p)'
          PROVE  FALSE
        <3>1. edited'[p] = edited[p] /\ InScope(p)
            BY <1>5, <2>3, WorldShows
        <3> QED
            BY <1>2, <1>6, <2>1, <2>3, <3>1
    <2> QED
        BY <1>2, <2>1, <2>2, <2>3
<1>11. ASSUME NEW p \in Pages, Owed(p)', edited'[p] # now', p \notin fresh'
       PROVE  /\ Owed(p) /\ edited'[p] = edited[p]
              /\ ~Tracked(p) => parent'[p] = parent[p]
    <2>1. InScope(p)' /\ seen[p] < edited'[p]
        BY <1>2, <1>11 DEF Owed
    <2>2. \/ edited'[p] = edited[p] /\ InScope(p) /\ Tracked(p) /\ ~full
          \/ edited'[p] = edited[p] /\ InScope(p) /\ parent'[p] = parent[p]
        BY <1>11, <2>1, WorldShows
    <2>3. CASE Tracked(p)
        BY <2>1, <2>2, <2>3 DEF Owed
    <2>4. CASE ~Tracked(p)
        <3>1. Known(p)'
            BY <1>3, <1>11, <2>4 DEF Owed
        <3>2. parent'[p] = parent[p]
            BY <2>2, <2>4
        <3>3. Known(p)
            BY <1>3, <3>1, <3>2 DEF Known
        <3> QED
            BY <2>1, <2>2, <3>2, <3>3 DEF Owed
    <2> QED
        BY <2>3, <2>4
<1>12. ChangesDue'
    <2> SUFFICES ASSUME Judging, NEW p \in Pages
                 PROVE  /\ due[p] <= edited'[p]
                        /\ Owed(p)' /\ Old(p)' /\ p \notin HiddenNow' => due[p] > 0 \/ inBody[p] # Nowhere
        BY <1>2 DEF ChangesDue, Judging, Applying
    <2>1. /\ due[p] <= edited[p]
          /\ Owed(p) /\ Old(p) /\ p \notin HiddenNow => due[p] > 0 \/ inBody[p] # Nowhere
        BY DEF WatermarkInv, ChangesDue
    <2>2. due[p] <= edited'[p]
        <3>1. due[p] \in Nat /\ edited[p] \in Nat /\ edited'[p] \in Nat
            BY ScanAssumption DEF TypeOK
        <3> QED
            BY <1>4, <2>1, <3>1
    <2>3. ASSUME Owed(p)', Old(p)', p \notin HiddenNow' PROVE due[p] > 0 \/ inBody[p] # Nowhere
        <3>1. p \notin fresh' /\ p \notin HiddenNow
            BY <1>2, <2>3 DEF HiddenNow
        <3>2. Owed(p) /\ edited'[p] = edited[p]
            BY <1>5, <1>11, <2>3, <3>1
        <3> QED
            BY <1>6, <2>1, <2>3, <3>1, <3>2
    <2> QED
        BY <2>2, <2>3
<1>13. InReach'
    <2> SUFFICES ASSUME lastPull > 0, NEW p \in Pages, Owed(p)', p \notin hidden \cup fresh',
                        edited'[p] # now'
                 PROVE  edited'[p] + Window > lastPull \/ (Applying /\ p \in InHand')
        BY <1>2, <1>5 DEF InReach, Applying
    <2>1. /\ Owed(p) /\ edited'[p] = edited[p]
          /\ ~Tracked(p) => parent'[p] = parent[p]
        BY <1>11
    <2>2. \/ edited[p] + Window > lastPull
          \/ p \in hidden \cup fresh
          \/ Applying /\ p \in InHand
        BY <1>2, <2>1 DEF WatermarkInv, InReach
    <2>3. p \in InHand => p \in InHand'
        BY <1>2, <1>3, <2>1 DEF InHand, Known
    <2>4. p \notin hidden \cup fresh
        BY <1>2
    <2> QED
        BY <2>1, <2>2, <2>3, <2>4
<1> QED
    BY <1>1, <1>7, <1>8, <1>9, <1>10, <1>12, <1>13 DEF WatermarkInv

(* A step of the pull leaves the tree and its clocks alone. *)
LEMMA NotionStays ==
    ASSUME UNCHANGED notion
    PROVE  /\ UNCHANGED <<now, parent, edited, shown, trashed>>
           /\ BornBelowBorn => BornBelowBorn'
           /\ \A r : InScope(r)' <=> InScope(r)
           /\ \A n : Below(n)' = Below(n)
<1>1. UNCHANGED <<now, parent, edited, shown, trashed>>
    BY DEF notion
<1> QED
    BY <1>1 DEF BornBelowBorn, Born, InScope, Alive, Gone, Below, Line

(* Where the vault stays as it is, and what is held of it. *)
LEMMA ReachKept ==
    ASSUME InReach, UNCHANGED <<notion, seen, lastPull>>,
           hidden \cup fresh \subseteq hidden' \cup fresh',
           Applying => Applying' /\ InHand \subseteq hidden' \cup fresh' \cup InHand'
    PROVE  InReach'
<1>1. \A p : Owed(p)' <=> Owed(p)
    BY NotionStays DEF Owed, Tracked, Known
<1> SUFFICES ASSUME lastPull > 0, NEW p \in Pages, Owed(p)
             PROVE  \/ edited[p] + Window > lastPull
                    \/ p \in hidden' \cup fresh'
                    \/ Applying' /\ p \in InHand'
    BY <1>1, NotionStays DEF InReach
<1>2. \/ edited[p] + Window > lastPull
      \/ p \in hidden \cup fresh
      \/ Applying /\ p \in InHand
    BY DEF InReach
<1> QED
    BY <1>2

LEMMA StartKeeps ==
    ASSUME TypeOK, TypeOK', WatermarkInv, StartFull \/ StartSome
    PROVE  WatermarkInv'
<1>1. /\ UNCHANGED notion /\ UNCHANGED vault /\ inBody' = inBody /\ phase = "idle"
      /\ startedAt' = now /\ hidden' = hidden \cup fresh /\ pages' = pages /\ doomed' = doomed
      /\ UNCHANGED <<seen, lastPull>>
    BY DEF StartFull, StartSome, StartIncremental, Start, vault
<1>2. phase' \in {"list", "ask"} /\ (phase' = "list" => full')
    BY DEF StartFull, StartSome, StartIncremental, Start
<1>3. pages = None /\ doomed = {} /\ inBody = [p \in Pages |-> Nowhere]
    BY <1>1 DEF WatermarkInv, PagesHeld, AskedAreRecords, Applying
<1>4. /\ now \in Nat /\ Window \in Nat /\ Lag \in Nat /\ Lag < Window
      /\ \A p \in Pages : edited[p] \in Nat /\ shown[p] \in Nat /\ seen[p] \in Nat
    BY Numbers
<1>5. ClocksAgree'
    <2>1. lastPull <= now /\ now <= now
        BY <1>4 DEF WatermarkInv, ClocksAgree
    <2> QED
        BY <1>1, <2>1, NotionStays DEF WatermarkInv, ClocksAgree
<1>6. BornBelowBorn'
    BY <1>1, NotionStays DEF WatermarkInv
<1>7. PagesHeld'
    <2>1. \A p \in Pages : pages'[p] = 0 /\ 0 <= edited[p] /\ ~(0 > 0)
        BY <1>1, <1>3, <1>4
    <2> QED
        BY <1>1, <1>2, <2>1, NotionStays DEF PagesHeld
<1>8. Records' = Records
    BY <1>1 DEF Records, Tracked
<1>9. HandsApart' /\ ~Applying'
    BY <1>2 DEF HandsApart, Applying
<1>10. CASE StartFull
    <2>1. phase' = "list" /\ toList' = {Root} /\ fresh' = {}
        BY <1>10 DEF StartFull
    <2>2. ListReaches'
        BY <1>1, <2>1, NotionStays DEF ListReaches, InScope, Below
    <2>3. AskedAreRecords' /\ ChangesDue'
        BY <1>1, <1>3, <2>1 DEF AskedAreRecords, ChangesDue, Judging, Applying
    <2>4. InReach'
        BY <1>1, <2>1, ReachKept DEF WatermarkInv, Applying
    <2> QED
        BY <1>5, <1>6, <1>7, <1>9, <2>2, <2>3, <2>4 DEF WatermarkInv
<1>11. ASSUME NEW lost \in SUBSET Pages, StartIncremental(lost) PROVE WatermarkInv'
    <2> DEFINE new == {p \in Recent : ~Tracked(p)}
    <2>1. /\ phase' = "ask" /\ full' = FALSE /\ fresh' = lost /\ lastPull > 0
          /\ due' = [p \in Pages |->
                        IF p \in Accepted(new \ lost) \cup {q \in Recent : Tracked(q) /\ shown[q] > seen[q]}
                        THEN shown[p] ELSE 0]
          /\ toAsk' = SweepBatch(Recent) /\ asked' = SweepBatch(Recent)
        BY <1>11 DEF StartIncremental, Start
    <2>2. ListReaches'
        BY <2>1 DEF ListReaches
    <2>3. AskedAreRecords'
        <3>1. SweepBatch(Recent) \subseteq Records
            BY DEF SweepBatch, Sweepable
        <3> QED
            BY <1>1, <1>3, <1>8, <2>1, <3>1 DEF AskedAreRecords
    <2>4. InReach'
        BY <1>1, ReachKept DEF WatermarkInv, Applying
    <2>5. ASSUME NEW p \in Pages PROVE due'[p] <= edited[p]
        <3>1. due'[p] = shown[p] \/ due'[p] = 0
            BY <2>1
        <3>2. shown[p] <= edited[p]
            BY DEF WatermarkInv, ClocksAgree
        <3> QED
            BY <1>4, <3>1, <3>2
    <2>6. ASSUME NEW p \in Pages, Owed(p), edited[p] + Window <= now, p \notin hidden \cup fresh \cup lost
          PROVE  due'[p] > 0
        <3>1. edited[p] + Window > lastPull
            BY <1>1, <2>1, <2>6 DEF WatermarkInv, InReach, Applying
        <3>2. shown[p] = edited[p]
            <4>1. shown[p] <= edited[p] /\ (shown[p] < edited[p] => now <= edited[p] + Lag)
                BY DEF WatermarkInv, ClocksAgree
            <4> QED
                BY <1>4, <2>6, <4>1
        <3>3. Alive(p) /\ edited[p] > 0 /\ seen[p] < edited[p] /\ (Tracked(p) \/ Known(p))
            BY <2>6 DEF Owed, InScope, Alive, Born
        <3>4. p \in Recent
            BY <3>1, <3>2, <3>3 DEF Recent
        <3>5. CASE Tracked(p)
            BY <2>1, <3>2, <3>3, <3>4, <3>5
        <3>6. CASE ~Tracked(p)
            <4>1. p \in new \ lost /\ Known(p)
                BY <2>6, <3>3, <3>4, <3>6
            <4> HIDE DEF new
            <4>2. p \in Accepted(new \ lost)
                BY <4>1 DEF Accepted
            <4> QED
                BY <2>1, <3>2, <3>3, <4>2
        <3> QED
            BY <3>5, <3>6
    <2>7. ChangesDue'
        <3>1. \A p : Owed(p)' <=> Owed(p)
            BY <1>1, NotionStays DEF Owed, Tracked, Known
        <3>2. HiddenNow' = hidden \cup fresh \cup lost
            BY <1>1, <2>1 DEF HiddenNow
        <3>3. \A p \in Pages : Old(p)' => edited[p] + Window <= now
            BY <1>1, NotionStays DEF Old
        <3> QED
            BY <1>1, <2>5, <2>6, <3>1, <3>2, <3>3, NotionStays DEF ChangesDue
    <2> QED
        BY <1>5, <1>6, <1>7, <1>9, <2>2, <2>3, <2>4, <2>7 DEF WatermarkInv
<1> QED
    BY <1>10, <1>11 DEF StartSome

(* What the steps of a detection leave alone. *)
LEMMA DetectionKeeps ==
    ASSUME WatermarkInv, UNCHANGED <<notion, seen, lastPull, startedAt, full, hidden>>,
           ~Applying, phase # "idle", phase' # "idle"
    PROVE  ClocksAgree' /\ BornBelowBorn' /\ (fresh \subseteq fresh' => InReach')
<1>1. ClocksAgree' /\ BornBelowBorn'
    BY NotionStays DEF WatermarkInv, ClocksAgree
<1>2. ASSUME fresh \subseteq fresh' PROVE InReach'
    <2>1. hidden \cup fresh \subseteq hidden' \cup fresh'
        BY <1>2
    <2> QED
        BY <2>1, ReachKept DEF WatermarkInv
<1> QED
    BY <1>1, <1>2

LEMMA ListKeeps ==
    ASSUME TypeOK, TypeOK', WatermarkInv,
           \/ \E n \in Pages \cup {Root} : ListNode(n) \/ SkipNode(n)
           \/ \E lost \in SUBSET Pages : SearchInstead(lost)
    PROVE  WatermarkInv'
<1>1. /\ UNCHANGED <<notion, seen, lastPull, startedAt, full, hidden, phase, inBody, doomed>>
      /\ phase = "list" /\ fresh \subseteq fresh'
    BY DEF ListNode, SkipNode, SearchInstead, Listing, vault, work, ghosts
<1>2. ~Applying /\ ~Applying' /\ ~Judging'
    BY <1>1 DEF Applying, Judging
<1>3. ClocksAgree' /\ BornBelowBorn' /\ InReach'
    BY <1>1, <1>2, DetectionKeeps
<1>4. AskedAreRecords' /\ HandsApart' /\ ChangesDue'
    BY <1>1, <1>2 DEF WatermarkInv, AskedAreRecords, HandsApart, ChangesDue
<1>5. /\ Window \in Nat /\ Lag \in Nat /\ Lag < Window /\ startedAt \in Nat /\ now \in Nat
      /\ \A p \in Pages : edited[p] \in Nat /\ shown[p] \in Nat /\ pages[p] \in Nat
    BY Numbers
<1>6. \A p \in Pages : Old(p)' <=> Old(p)
    BY <1>1, NotionStays DEF Old
<1>7. full /\ \A p \in Pages : pages[p] <= edited[p] /\ (Old(p) /\ pages[p] > 0 => pages[p] = edited[p])
    BY <1>1 DEF WatermarkInv, PagesHeld
<1>8. \A p \in Pages : Old(p) => shown[p] = edited[p]
    <2> SUFFICES ASSUME NEW p \in Pages, edited[p] + Window <= startedAt PROVE shown[p] = edited[p]
        BY DEF Old
    <2>1. /\ shown[p] <= edited[p] /\ startedAt <= now
          /\ shown[p] < edited[p] => now <= edited[p] + Lag
        BY DEF WatermarkInv, ClocksAgree
    <2> QED
        BY <1>5, <2>1
<1>9. \A p \in Pages : InScope(p) => edited[p] > 0
    BY DEF InScope, Alive, Born
<1>10. ASSUME NEW p \in Pages, InScope(p), Old(p), p \notin fresh
       PROVE  pages[p] > 0 \/ \E n \in toList : p \in Below(n)
    BY <1>1, <1>10 DEF WatermarkInv, ListReaches
<1>11. ASSUME PagesHeld',
              \A p \in Pages : InScope(p) /\ Old(p) /\ p \notin fresh' =>
                    pages'[p] > 0 \/ \E n \in toList' : p \in Below(n)
       PROVE  WatermarkInv'
    <2>1. ListReaches'
        BY <1>1, <1>6, <1>11, NotionStays DEF ListReaches
    <2> QED
        BY <1>3, <1>4, <1>11, <2>1 DEF WatermarkInv
<1>12. ASSUME NEW n \in Pages \cup {Root}, ListNode(n) PROVE WatermarkInv'
    <2>1. /\ toList' = (toList \ {n}) \cup Children(n) /\ fresh' = fresh
          /\ pages' = [p \in Pages |-> IF p \in Children(n) /\ pages[p] = 0 THEN edited[p] ELSE pages[p]]
        BY <1>12 DEF ListNode, ghosts
    <2>2. PagesHeld'
        <3> SUFFICES ASSUME NEW p \in Pages
                     PROVE  pages'[p] <= edited[p] /\ (Old(p) /\ pages'[p] > 0 => pages'[p] = edited[p])
            BY <1>1, <1>6, <1>7, NotionStays DEF PagesHeld
        <3>1. pages'[p] = pages[p] \/ pages'[p] = edited[p]
            BY <2>1
        <3> QED
            BY <1>5, <1>7, <3>1
    <2>3. ASSUME NEW p \in Pages, InScope(p), Old(p), p \notin fresh'
          PROVE  pages'[p] > 0 \/ \E m \in toList' : p \in Below(m)
        <3>1. CASE pages[p] > 0
            BY <2>1, <3>1
        <3>2. CASE p \in Below(n)
            <4>1. p \in Children(n) \/ \E m \in Children(n) : p \in Below(m)
                BY <2>3, <3>2, BelowByChild DEF WatermarkInv
            <4>2. p \in Children(n) => pages'[p] > 0
                BY <1>5, <1>9, <2>1, <2>3
            <4> QED
                BY <2>1, <4>1, <4>2
        <3>3. CASE \E m \in toList : m # n /\ p \in Below(m)
            BY <2>1, <3>3
        <3> QED
            BY <1>10, <2>1, <2>3, <3>1, <3>2, <3>3
    <2> QED
        BY <1>11, <2>2, <2>3
<1>13. ASSUME NEW n \in Pages \cup {Root}, SkipNode(n) PROVE WatermarkInv'
    <2>1. toList' = toList \ {n} /\ fresh' = fresh \cup Below(n) /\ pages' = pages
        BY <1>13 DEF SkipNode
    <2>2. PagesHeld'
        BY <1>1, <1>6, <1>7, <2>1, NotionStays DEF PagesHeld
    <2>3. ASSUME NEW p \in Pages, InScope(p), Old(p), p \notin fresh'
          PROVE  pages'[p] > 0 \/ \E m \in toList' : p \in Below(m)
        BY <1>10, <2>1, <2>3
    <2> QED
        BY <1>11, <2>2, <2>3
<1>14. ASSUME NEW lost \in SUBSET Pages, SearchInstead(lost) PROVE WatermarkInv'
    <2> DEFINE found == {p \in Pages : InScope(p) /\ \A q \in Ancestors(p) \cup {p} :
                                                 shown[q] > 0 /\ q \notin lost}
    <2>1. /\ toList' = {}
          /\ pages' = [p \in Pages |-> IF p \in found THEN shown[p] ELSE pages[p]]
          /\ fresh' = fresh \cup {p \in Pages : InScope(p) /\ shown[p] > 0 /\ p \notin found}
        BY <1>14 DEF SearchInstead
    <2>2. \A p \in found : shown[p] > 0
        OBVIOUS
    <2> HIDE DEF found
    <2>3. PagesHeld'
        <3> SUFFICES ASSUME NEW p \in Pages
                     PROVE  pages'[p] <= edited[p] /\ (Old(p) /\ pages'[p] > 0 => pages'[p] = edited[p])
            BY <1>1, <1>6, <1>7, NotionStays DEF PagesHeld
        <3>1. pages'[p] = pages[p] \/ pages'[p] = shown[p]
            BY <2>1
        <3>2. shown[p] <= edited[p]
            BY DEF WatermarkInv, ClocksAgree
        <3> QED
            BY <1>7, <1>8, <3>1, <3>2
    <2>4. ASSUME NEW p \in Pages, InScope(p), Old(p), p \notin fresh'
          PROVE  pages'[p] > 0
        <3>1. shown[p] > 0
            BY <1>8, <1>9, <2>4
        <3>2. p \in found
            BY <2>1, <2>4, <3>1
        <3> QED
            BY <2>1, <3>1, <3>2
    <2> QED
        BY <1>11, <2>3, <2>4
<1> QED
    BY <1>12, <1>13, <1>14

LEMMA CompareKeeps == ASSUME TypeOK, TypeOK', WatermarkInv, Compare PROVE WatermarkInv'
<1>1. /\ UNCHANGED <<notion, seen, lastPull, startedAt, full, hidden, fresh, inBody, doomed, pages>>
      /\ phase = "list" /\ phase' = "ask" /\ toList = {} /\ asked' = toAsk'
      /\ toAsk' = (IF lastPull > 0 THEN Records \ heard ELSE {})
      /\ due' = [p \in Pages |-> IF pages[p] > seen[p] THEN pages[p] ELSE 0]
    BY DEF Compare, Listing, vault, ghosts
<1>2. ~Applying /\ ~Applying' /\ doomed = {} /\ full
    BY <1>1 DEF Applying, WatermarkInv, AskedAreRecords, PagesHeld
<1>3. ClocksAgree' /\ BornBelowBorn' /\ InReach'
    BY <1>1, <1>2, DetectionKeeps
<1>4. Records' = Records /\ (\A p : Tracked(p)' <=> Tracked(p)) /\ (\A p \in Pages : Old(p)' <=> Old(p))
    BY <1>1, NotionStays DEF Records, Tracked, Old
<1>5. AskedAreRecords'
    BY <1>1, <1>2, <1>4 DEF WatermarkInv, AskedAreRecords
<1>6. PagesHeld' /\ ListReaches' /\ HandsApart'
    BY <1>1, <1>2, <1>4, NotionStays DEF WatermarkInv, PagesHeld, ListReaches, HandsApart
<1>7. \A p \in Pages : pages[p] \in Nat /\ seen[p] \in Nat /\ edited[p] \in Nat
    BY Numbers
<1>8. \A p \in Pages : pages[p] <= edited[p] /\ (Old(p) /\ pages[p] > 0 => pages[p] = edited[p])
    BY DEF WatermarkInv, PagesHeld
<1>9. \A p \in Pages : due'[p] <= edited[p]
    BY <1>1, <1>7, <1>8
<1>10. ASSUME NEW p \in Pages, Owed(p), Old(p), p \notin fresh PROVE due'[p] > 0
    <2>1. pages[p] > 0
        BY <1>1, <1>10 DEF WatermarkInv, ListReaches, Owed
    <2> QED
        BY <1>1, <1>7, <1>8, <1>10, <2>1 DEF Owed
<1>11. ChangesDue'
    <2>1. \A p : Owed(p)' <=> Owed(p)
        BY <1>1, NotionStays DEF Owed, Tracked, Known
    <2>2. HiddenNow' = fresh
        BY <1>1, <1>2 DEF HiddenNow
    <2> QED
        BY <1>1, <1>4, <1>9, <1>10, <2>1, <2>2, NotionStays DEF ChangesDue
<1> QED
    BY <1>3, <1>5, <1>6, <1>11 DEF WatermarkInv

LEMMA AskKeeps ==
    ASSUME TypeOK, TypeOK', WatermarkInv, (\E p \in Pages : Ask(p) \/ AskFails(p)) \/ AskBelow
    PROVE  WatermarkInv'
<1>1. /\ UNCHANGED <<notion, seen, lastPull, startedAt, full, hidden, fresh, inBody, pages, due>>
      /\ phase \in {"ask", "askBelow"} /\ phase' \in {"ask", "askBelow"}
    BY DEF Ask, AskFails, AskBelow, Asking, vault, ghosts, work
<1>2. ~Applying /\ ~Applying' /\ Judging /\ Judging'
    BY <1>1 DEF Applying, Judging
<1>3. ClocksAgree' /\ BornBelowBorn' /\ InReach'
    BY <1>1, <1>2, DetectionKeeps
<1>4. Records' = Records /\ (\A p : Tracked(p)' <=> Tracked(p)) /\ (\A p \in Pages : Old(p)' <=> Old(p))
    BY <1>1, NotionStays DEF Records, Tracked, Old
<1>5. toAsk \subseteq asked /\ asked \cup doomed \subseteq Records
    BY <1>1 DEF WatermarkInv, AskedAreRecords
<1>6. toAsk' \subseteq asked' /\ asked' \cup doomed' \subseteq Records
    <2>1. TrackedBelow \subseteq Records
        BY DEF TrackedBelow
    <2> QED
        BY <1>5, <2>1 DEF Ask, AskFails, AskBelow, work
<1>7. AskedAreRecords'
    BY <1>1, <1>2, <1>4, <1>6 DEF WatermarkInv, AskedAreRecords
<1>8. PagesHeld' /\ ListReaches' /\ HandsApart'
    BY <1>1, <1>2, <1>4, NotionStays DEF WatermarkInv, PagesHeld, ListReaches, HandsApart
<1>9. ChangesDue'
    <2>1. \A p : Owed(p)' <=> Owed(p)
        BY <1>1, NotionStays DEF Owed, Tracked, Known
    <2>2. HiddenNow' = HiddenNow
        BY <1>1 DEF HiddenNow
    <2> QED
        BY <1>1, <1>2, <1>4, <2>1, <2>2, NotionStays DEF WatermarkInv, ChangesDue
<1> QED
    BY <1>3, <1>7, <1>8, <1>9 DEF WatermarkInv

LEMMA DetectedKeeps ==
    ASSUME TypeOK, TypeOK', WatermarkInv, Judge \/ SweepDone
    PROVE  WatermarkInv'
<1>1. PICK gone \in SUBSET Records : Detected(gone)
    <2>1. phase \in {"ask", "askBelow"}
        BY DEF Judge, SweepDone
    <2>2. asked \cup doomed \subseteq Records
        BY <2>1 DEF WatermarkInv, AskedAreRecords
    <2> QED
        BY <2>2 DEF Judge, SweepDone
<1>2. /\ UNCHANGED <<notion, seen, lastPull, startedAt, full, hidden, fresh, inBody, pages, due>>
      /\ phase \in {"ask", "askBelow"} /\ phase' = "apply"
      /\ queued' = {p \in Pages : due[p] > 0} \cup gone
    BY <1>1 DEF Detected, Judge, SweepDone
<1>3. ~Applying /\ Applying' /\ Judging /\ Judging'
    BY <1>2 DEF Applying, Judging
<1>4. ClocksAgree' /\ BornBelowBorn' /\ InReach'
    BY <1>2, <1>3, DetectionKeeps
<1>5. (\A p : Tracked(p)' <=> Tracked(p)) /\ (\A p \in Pages : Old(p)' <=> Old(p))
    BY <1>2, NotionStays DEF Tracked, Old
<1>6. AskedAreRecords' /\ PagesHeld' /\ ListReaches'
    BY <1>2, <1>3, <1>5, NotionStays DEF WatermarkInv, AskedAreRecords, PagesHeld, ListReaches
<1>7. HandsApart'
    <2>1. \A p \in Pages : inBody[p] = Nowhere
        BY <1>3 DEF WatermarkInv, AskedAreRecords
    <2>2. \A p \in Pages : p \in gone => Tracked(p)
        BY <1>1 DEF Records
    <2>3. \A p \in Pages : due[p] \in Nat
        BY Numbers
    <2> QED
        BY <1>2, <1>5, <2>1, <2>2, <2>3 DEF HandsApart
<1>8. ChangesDue'
    <2>1. \A p : Owed(p)' <=> Owed(p)
        BY <1>2, NotionStays DEF Owed, Tracked, Known
    <2>2. HiddenNow' = HiddenNow
        BY <1>2 DEF HiddenNow
    <2> QED
        BY <1>2, <1>3, <1>5, <2>1, <2>2, NotionStays DEF WatermarkInv, ChangesDue
<1> QED
    BY <1>4, <1>6, <1>7, <1>8 DEF WatermarkInv

(* What the steps that apply the changes leave alone. *)
LEMMA ApplyLeaves ==
    ASSUME UNCHANGED <<notion, lastPull, startedAt, full>>, Applying, Applying'
    PROVE  /\ Judging /\ Judging' /\ phase # "idle" /\ phase' # "idle" /\ phase # "list" /\ phase' # "list"
           /\ UNCHANGED <<now, parent, edited, shown>>
           /\ WatermarkInv => ClocksAgree' /\ BornBelowBorn' /\ ListReaches' /\ AskedAreRecords'
           /\ \A p : (Old(p)' <=> Old(p)) /\ (InScope(p)' <=> InScope(p))
<1>1. Judging /\ Judging' /\ phase # "idle" /\ phase' # "idle" /\ phase # "list" /\ phase' # "list"
    BY DEF Applying, Judging
<1>2. ListReaches' /\ AskedAreRecords'
    BY <1>1 DEF ListReaches, AskedAreRecords, Applying
<1> QED
    BY <1>1, <1>2, NotionStays DEF WatermarkInv, ClocksAgree, Old

LEMMA ReceiveKeeps ==
    ASSUME TypeOK, TypeOK', WatermarkInv, NEW p \in Pages, Receive(p)
    PROVE  WatermarkInv'
<1>1. /\ UNCHANGED <<notion, lastPull, startedAt, full, queued, phase>>
      /\ Applying /\ Applying' /\ due[p] > 0
    BY DEF Receive, Applying
<1>2. /\ due' = [due EXCEPT ![p] = 0]
      /\ seen' = [seen EXCEPT ![p] = IF ~Tracked(p) /\ pages[p] > 0 THEN pages[p] ELSE edited[p]]
      /\ inBody' = [q \in Pages |-> IF q \in Children(p) \ queued /\ ~Tracked(q) THEN p ELSE inBody[q]]
      /\ pages' = [pages EXCEPT ![p] = 0]
      /\ hidden' = hidden \ {p} /\ fresh' = fresh \ {p}
    BY DEF Receive
<1>3. /\ due \in [Pages -> Time] /\ seen \in [Pages -> Time] /\ pages \in [Pages -> Time]
    BY DEF TypeOK
<1>4. /\ Window \in Nat /\ startedAt \in Nat /\ lastPull \in Nat
      /\ \A r \in Pages : edited[r] \in Nat /\ pages[r] \in Nat /\ due[r] \in Nat /\ seen[r] \in Nat
    BY Numbers
<1>5. /\ Judging /\ Judging' /\ phase # "idle" /\ phase' # "idle" /\ phase # "list" /\ phase' # "list"
      /\ UNCHANGED <<now, parent, edited, shown>>
      /\ ClocksAgree' /\ BornBelowBorn' /\ ListReaches' /\ AskedAreRecords'
      /\ \A r : (Old(r)' <=> Old(r)) /\ (InScope(r)' <=> InScope(r))
    BY <1>1, ApplyLeaves
<1>6. \A r \in Pages : r # p => /\ due'[r] = due[r] /\ seen'[r] = seen[r] /\ pages'[r] = pages[r]
                                /\ (Tracked(r)' <=> Tracked(r))
                                /\ (r \in hidden' <=> r \in hidden) /\ (r \in fresh' <=> r \in fresh)
    BY <1>2, <1>3 DEF Tracked
<1>7. due'[p] = 0 /\ pages'[p] = 0
    BY <1>2, <1>3
<1>8. pages[p] <= edited[p] /\ (Old(p) /\ pages[p] > 0 => pages[p] = edited[p]) /\ due[p] <= edited[p]
    BY <1>5 DEF WatermarkInv, PagesHeld, ChangesDue
<1>9. Tracked(p)' /\ (Old(p) => seen'[p] = edited[p])
    <2>1. seen'[p] = IF ~Tracked(p) /\ pages[p] > 0 THEN pages[p] ELSE edited[p]
        BY <1>2, <1>3
    <2>2. edited[p] > 0
        BY <1>1, <1>4, <1>8
    <2> QED
        BY <1>8, <2>1, <2>2 DEF Tracked
<1>10. edited[p] + Window > startedAt => edited[p] + Window > lastPull
    <2>1. lastPull <= startedAt
        BY <1>5 DEF WatermarkInv, ClocksAgree
    <2> QED
        BY <1>4, <2>1
<1>11. ~Old(p) => edited[p] + Window > lastPull
    BY <1>4, <1>10 DEF Old
<1>12. PagesHeld'
    <2>1. \A r \in Pages : /\ pages'[r] <= edited[r]
                           /\ Old(r) /\ pages'[r] > 0 => pages'[r] = edited[r]
        <3>1. 0 <= edited[p] /\ ~(0 > 0)
            BY <1>4
        <3> QED
            BY <1>6, <1>7, <3>1 DEF WatermarkInv, PagesHeld
    <2> QED
        BY <1>5, <2>1 DEF PagesHeld
<1>13. p \in queued /\ inBody[p] = Nowhere
    BY <1>1 DEF WatermarkInv, HandsApart
<1>14. inBody'[p] = Nowhere
    BY <1>2, <1>13
<1>15. HandsApart'
    <2> SUFFICES ASSUME NEW r \in Pages
                 PROVE  /\ due'[r] > 0 => r \in queued
                        /\ inBody'[r] # Nowhere =>
                              /\ r \notin queued /\ ~Tracked(r)'
                              /\ parent[r] = inBody'[r] \/ r \in fresh'
                        /\ r \in queued /\ due'[r] = 0 /\ ~Tracked(r)' /\ InScope(r)
                              => r \in fresh' \/ ~Old(r)
        BY <1>1, <1>5 DEF HandsApart
    <2>1. CASE r = p
        BY <1>7, <1>9, <1>14, <2>1
    <2>2. CASE r # p
        <3>1. /\ due[r] > 0 => r \in queued
              /\ inBody[r] # Nowhere =>
                    /\ r \notin queued /\ ~Tracked(r)
                    /\ parent[r] = inBody[r] \/ r \in fresh
              /\ r \in queued /\ due[r] = 0 /\ ~Tracked(r) /\ InScope(r) => r \in fresh \/ ~Old(r)
            BY <1>1 DEF WatermarkInv, HandsApart
        <3>2. \/ inBody'[r] = inBody[r]
              \/ inBody'[r] = p /\ parent[r] = p /\ r \notin queued /\ ~Tracked(r)
            BY <1>2 DEF Children
        <3> QED
            BY <1>6, <2>2, <3>1, <3>2
    <2> QED
        BY <2>1, <2>2
<1>16. ASSUME NEW r \in Pages, r # p, Owed(r)'
       PROVE  \/ Owed(r)
              \/ ~Tracked(r) /\ (due'[r] > 0 \/ inBody'[r] # Nowhere \/ r \in fresh' \/ ~Old(r))
    <2>1. InScope(r) /\ seen[r] < edited[r] /\ (Tracked(r) \/ Known(r)')
        BY <1>5, <1>6, <1>16 DEF Owed
    <2>2. CASE Tracked(r) \/ Known(r)
        BY <2>1, <2>2 DEF Owed
    <2>3. CASE ~Tracked(r) /\ ~Known(r)
        <3>1. parent[r] = p
            BY <1>5, <1>6, <2>1, <2>3 DEF Known
        <3>2. r \in Children(p)
            BY <2>1, <3>1 DEF Children, InScope
        <3>3. CASE r \notin queued
            <4>1. inBody'[r] = p /\ p # Nowhere
                BY <1>2, <2>3, <3>2, <3>3, PlacesAssumption
            <4> QED
                BY <2>3, <4>1
        <3>4. CASE r \in queued
            <4>1. due[r] = 0 => r \in fresh \/ ~Old(r)
                BY <1>1, <2>1, <2>3, <3>4 DEF WatermarkInv, HandsApart
            <4> QED
                BY <1>4, <1>6, <1>16, <2>3, <4>1
        <3> QED
            BY <3>3, <3>4
    <2> QED
        BY <2>2, <2>3
<1>17. ChangesDue'
    <2> SUFFICES ASSUME NEW r \in Pages
                 PROVE  /\ due'[r] <= edited[r]
                        /\ Owed(r)' /\ Old(r) /\ r \notin HiddenNow' => due'[r] > 0 \/ inBody'[r] # Nowhere
        BY <1>5 DEF ChangesDue
    <2>1. CASE r = p
        <3>1. ~(Owed(p)' /\ Old(p))
            BY <1>4, <1>5, <1>9 DEF Owed
        <3>2. 0 <= edited[p]
            BY <1>4
        <3> QED
            BY <1>7, <2>1, <3>1, <3>2
    <2>2. CASE r # p
        <3>1. /\ due[r] <= edited[r]
              /\ Owed(r) /\ Old(r) /\ r \notin HiddenNow => due[r] > 0 \/ inBody[r] # Nowhere
            BY <1>5 DEF WatermarkInv, ChangesDue
        <3>2. (r \in HiddenNow' <=> r \in HiddenNow) /\ (r \in fresh' => r \in HiddenNow')
            BY <1>1, <1>6, <2>2 DEF HiddenNow
        <3>3. inBody[r] # Nowhere => inBody'[r] # Nowhere
            BY <1>2, PlacesAssumption
        <3> QED
            BY <1>6, <1>16, <2>2, <3>1, <3>2, <3>3
    <2> QED
        BY <2>1, <2>2
<1>18. InReach'
    <2> SUFFICES ASSUME lastPull > 0, NEW r \in Pages, Owed(r)'
                 PROVE  \/ edited[r] + Window > lastPull
                        \/ r \in hidden' \cup fresh'
                        \/ Applying' /\ r \in InHand'
        BY <1>1, <1>5 DEF InReach
    <2>1. CASE r = p
        <3>1. ~Old(p)
            BY <1>4, <1>5, <1>9, <2>1 DEF Owed
        <3> QED
            BY <1>11, <2>1, <3>1
    <2>2. ASSUME r # p, ~Tracked(r), due'[r] > 0 \/ inBody'[r] # Nowhere PROVE r \in InHand'
        <3>1. ~Tracked(r)' /\ Known(r)'
            BY <1>6, <2>2 DEF Owed
        <3> QED
            BY <2>2, <3>1 DEF InHand
    <2>3. CASE r # p /\ Owed(r)
        <3>1. \/ edited[r] + Window > lastPull
              \/ r \in hidden \cup fresh
              \/ r \in InHand
            BY <2>3 DEF WatermarkInv, InReach
        <3>2. inBody[r] # Nowhere => inBody'[r] # Nowhere
            BY <1>2, PlacesAssumption
        <3>3. r \in InHand => ~Tracked(r) /\ (due'[r] > 0 \/ inBody'[r] # Nowhere)
            BY <1>6, <2>3, <3>2 DEF InHand
        <3> QED
            BY <1>1, <1>6, <2>2, <2>3, <3>1, <3>3
    <2>4. CASE r # p /\ ~Owed(r)
        <3>1. ~Tracked(r) /\ (due'[r] > 0 \/ inBody'[r] # Nowhere \/ r \in fresh' \/ ~Old(r))
            BY <1>16, <2>4
        <3>2. ~Old(r) => edited[r] + Window > lastPull
            <4>1. lastPull <= startedAt
                BY <1>5 DEF WatermarkInv, ClocksAgree
            <4> QED
                BY <1>4, <4>1 DEF Old
        <3> QED
            BY <1>1, <2>2, <2>4, <3>1, <3>2
    <2> QED
        BY <2>1, <2>3, <2>4
<1> QED
    BY <1>5, <1>12, <1>15, <1>17, <1>18 DEF WatermarkInv

LEMMA RemoveKeeps ==
    ASSUME TypeOK, TypeOK', WatermarkInv, NEW p \in Pages, Remove(p)
    PROVE  WatermarkInv'
<1>1. /\ UNCHANGED <<notion, lastPull, startedAt, full, queued, phase, due, inBody, pages, hidden>>
      /\ Applying /\ Applying'
      /\ seen' = [seen EXCEPT ![p] = 0] /\ fresh' = fresh \cup ({p} \ Out)
    BY DEF Remove, Applying, scan
<1>2. /\ Judging /\ Judging' /\ phase # "idle" /\ phase' # "idle" /\ phase # "list" /\ phase' # "list"
      /\ UNCHANGED <<now, parent, edited, shown>>
      /\ ClocksAgree' /\ BornBelowBorn' /\ ListReaches' /\ AskedAreRecords'
      /\ \A r : (Old(r)' <=> Old(r)) /\ (InScope(r)' <=> InScope(r))
    BY <1>1, ApplyLeaves
<1>3. seen \in [Pages -> Time]
    BY DEF TypeOK
<1>4. ~Tracked(p)' /\ (\A r \in Pages : Tracked(r)' => Tracked(r))
      /\ (\A r \in Pages : r # p => seen'[r] = seen[r] /\ (Tracked(r)' <=> Tracked(r)))
    BY <1>1, <1>3 DEF Tracked
<1>5. InScope(p) => p \in fresh'
    BY <1>1 DEF Out
<1>6. ASSUME NEW r \in Pages, Owed(r)' PROVE r \in fresh' \/ Owed(r)
    <2>1. CASE r = p
        BY <1>2, <1>5, <1>6, <2>1 DEF Owed
    <2>2. CASE r # p
        <3>1. Known(r)' => Known(r)
            BY <1>2, <1>4 DEF Known
        <3> QED
            BY <1>2, <1>4, <1>6, <2>2, <3>1 DEF Owed
    <2> QED
        BY <2>1, <2>2
<1>7. PagesHeld'
    BY <1>1, <1>2 DEF WatermarkInv, PagesHeld
<1>8. HandsApart'
    <2> SUFFICES ASSUME NEW r \in Pages
                 PROVE  /\ due[r] > 0 => r \in queued
                        /\ inBody[r] # Nowhere =>
                              /\ r \notin queued /\ ~Tracked(r)'
                              /\ parent[r] = inBody[r] \/ r \in fresh'
                        /\ r \in queued /\ due[r] = 0 /\ ~Tracked(r)' /\ InScope(r)
                              => r \in fresh' \/ ~Old(r)
        BY <1>1, <1>2 DEF HandsApart
    <2>1. /\ due[r] > 0 => r \in queued
          /\ inBody[r] # Nowhere =>
                /\ r \notin queued /\ ~Tracked(r)
                /\ parent[r] = inBody[r] \/ r \in fresh
          /\ r \in queued /\ due[r] = 0 /\ ~Tracked(r) /\ InScope(r) => r \in fresh \/ ~Old(r)
        BY <1>1 DEF WatermarkInv, HandsApart
    <2> QED
        BY <1>1, <1>4, <1>5, <2>1
<1>9. ChangesDue'
    <2>1. fresh \subseteq fresh' /\ hidden' = hidden /\ full' = full
        BY <1>1
    <2>2. HiddenNow \subseteq HiddenNow' /\ fresh' \subseteq HiddenNow'
        BY <2>1 DEF HiddenNow
    <2> QED
        BY <1>1, <1>2, <1>6, <2>2 DEF WatermarkInv, ChangesDue
<1>10. InReach'
    <2> SUFFICES ASSUME lastPull > 0, NEW r \in Pages, Owed(r)', r \notin hidden \cup fresh'
                 PROVE  edited[r] + Window > lastPull \/ r \in InHand'
        BY <1>1, <1>2 DEF InReach
    <2>1. Owed(r) /\ r \notin hidden \cup fresh
        BY <1>1, <1>6
    <2>2. edited[r] + Window > lastPull \/ r \in InHand
        BY <2>1 DEF WatermarkInv, InReach
    <2>3. ASSUME r \in InHand PROVE r \in InHand'
        <3>1. ~Tracked(r)'
            BY <1>4, <2>3 DEF InHand
        <3>2. Known(r)'
            BY <3>1 DEF Owed
        <3> QED
            BY <1>1, <2>3, <3>1, <3>2 DEF InHand
    <2> QED
        BY <2>2, <2>3
<1> QED
    BY <1>2, <1>7, <1>8, <1>9, <1>10 DEF WatermarkInv

LEMMA ItemKeeps ==
    ASSUME TypeOK, TypeOK', WatermarkInv, Retry \/ \E p \in Pages : ItemFails(p)
    PROVE  WatermarkInv'
<1>1. /\ UNCHANGED <<notion, seen, lastPull, startedAt, full, queued, due, inBody, pages, hidden, fresh>>
      /\ Applying /\ Applying'
    BY DEF Retry, ItemFails, Applying, vault, scan, ghosts
<1>2. /\ Judging /\ Judging' /\ phase # "idle" /\ phase' # "idle" /\ phase # "list" /\ phase' # "list"
      /\ UNCHANGED <<now, parent, edited, shown>>
      /\ ClocksAgree' /\ BornBelowBorn' /\ ListReaches' /\ AskedAreRecords'
      /\ \A r : (Old(r)' <=> Old(r)) /\ (InScope(r)' <=> InScope(r))
    BY <1>1, ApplyLeaves
<1>3. \A r : (Tracked(r)' <=> Tracked(r)) /\ (Owed(r)' <=> Owed(r))
    BY <1>1, <1>2 DEF Owed, Tracked, Known
<1>4. InHand' = InHand /\ HiddenNow' = HiddenNow
    BY <1>1, <1>2 DEF InHand, Known, Tracked, HiddenNow
<1>5. PagesHeld' /\ HandsApart'
    BY <1>1, <1>2, <1>3 DEF WatermarkInv, PagesHeld, HandsApart
<1>6. ChangesDue' /\ InReach'
    BY <1>1, <1>2, <1>3, <1>4 DEF WatermarkInv, ChangesDue, InReach
<1> QED
    BY <1>2, <1>5, <1>6 DEF WatermarkInv

LEMMA ChildKeeps ==
    ASSUME TypeOK, TypeOK', WatermarkInv, NEW c \in Pages, TakeChild(c) \/ ChildUnread(c)
    PROVE  WatermarkInv'
<1>1. /\ UNCHANGED <<notion, seen, lastPull, startedAt, full, phase, hidden>>
      /\ Applying /\ Applying' /\ inBody[c] # Nowhere /\ fresh \subseteq fresh'
      /\ queued' = queued \cup {c} /\ inBody' = [inBody EXCEPT ![c] = Nowhere]
    BY DEF TakeChild, ChildUnread, Applying, Undiscovered, vault, scan, ghosts
<1>2. /\ Judging /\ Judging' /\ phase # "idle" /\ phase' # "idle" /\ phase # "list" /\ phase' # "list"
      /\ UNCHANGED <<now, parent, edited, shown>>
      /\ ClocksAgree' /\ BornBelowBorn' /\ ListReaches' /\ AskedAreRecords'
      /\ \A r : (Old(r)' <=> Old(r)) /\ (InScope(r)' <=> InScope(r))
    BY <1>1, ApplyLeaves
<1>3. \A r : (Tracked(r)' <=> Tracked(r)) /\ (Owed(r)' <=> Owed(r)) /\ (Known(r)' <=> Known(r))
    BY <1>1, <1>2 DEF Owed, Tracked, Known
<1>4. due \in [Pages -> Time] /\ pages \in [Pages -> Time] /\ inBody \in [Pages -> Pages \cup {Nowhere}]
    BY DEF TypeOK
<1>5. \A r \in Pages : edited[r] \in Nat
    BY Numbers
<1>6. c \notin queued /\ ~Tracked(c) /\ (parent[c] = inBody[c] \/ c \in fresh)
    BY <1>1 DEF WatermarkInv, HandsApart
<1>7. \/ due'[c] = edited[c] /\ edited[c] > 0 /\ pages'[c] = edited[c]
      \/ due'[c] = due[c] /\ pages'[c] = pages[c] /\ (c \in fresh' \/ ~InScope(c))
    <2>1. CASE ChildUnread(c)
        BY <2>1 DEF ChildUnread, scan
    <2>2. CASE TakeChild(c) /\ Alive(c) /\ parent[c] = inBody[c]
        BY <1>4, <2>2 DEF TakeChild, Alive, Born
    <2>3. CASE TakeChild(c) /\ ~(Alive(c) /\ parent[c] = inBody[c])
        BY <1>1, <1>6, <2>3 DEF TakeChild, InScope
    <2> QED
        BY <2>1, <2>2, <2>3
<1>8. \A r \in Pages : r # c => due'[r] = due[r] /\ pages'[r] = pages[r] /\ inBody'[r] = inBody[r]
    BY <1>1, <1>4 DEF TakeChild, ChildUnread, scan
<1>9. inBody'[c] = Nowhere
    BY <1>1, <1>4
<1>10. PagesHeld'
    <2>1. \A r \in Pages : pages'[r] <= edited[r] /\ (Old(r) /\ pages'[r] > 0 => pages'[r] = edited[r])
        BY <1>5, <1>7, <1>8 DEF WatermarkInv, PagesHeld
    <2> QED
        BY <1>2, <2>1 DEF PagesHeld
<1>11. HandsApart'
    <2> SUFFICES ASSUME NEW r \in Pages
                 PROVE  /\ due'[r] > 0 => r \in queued'
                        /\ inBody'[r] # Nowhere =>
                              /\ r \notin queued' /\ ~Tracked(r)
                              /\ parent[r] = inBody'[r] \/ r \in fresh'
                        /\ r \in queued' /\ due'[r] = 0 /\ ~Tracked(r) /\ InScope(r)
                              => r \in fresh' \/ ~Old(r)
        BY <1>2, <1>3 DEF HandsApart
    <2>1. CASE r = c
        BY <1>1, <1>5, <1>7, <1>9, <2>1
    <2>2. CASE r # c
        BY <1>1, <1>8, <2>2 DEF WatermarkInv, HandsApart
    <2> QED
        BY <2>1, <2>2
<1>12. HiddenNow \subseteq HiddenNow' /\ fresh' \subseteq HiddenNow'
    BY <1>1 DEF HiddenNow
<1>13. ChangesDue'
    <2> SUFFICES ASSUME NEW r \in Pages
                 PROVE  /\ due'[r] <= edited[r]
                        /\ Owed(r) /\ Old(r) /\ r \notin HiddenNow' => due'[r] > 0 \/ inBody'[r] # Nowhere
        BY <1>2, <1>3 DEF ChangesDue
    <2>1. /\ due[r] <= edited[r]
          /\ Owed(r) /\ Old(r) /\ r \notin HiddenNow => due[r] > 0 \/ inBody[r] # Nowhere
        BY <1>2 DEF WatermarkInv, ChangesDue
    <2>2. CASE r = c
        BY <1>5, <1>7, <1>12, <2>1, <2>2 DEF Owed
    <2>3. CASE r # c
        BY <1>8, <1>12, <2>1, <2>3
    <2> QED
        BY <2>2, <2>3
<1>14. InReach'
    <2> SUFFICES ASSUME lastPull > 0, NEW r \in Pages, Owed(r), r \notin hidden \cup fresh'
                 PROVE  edited[r] + Window > lastPull \/ r \in InHand'
        BY <1>1, <1>2, <1>3 DEF InReach
    <2>1. edited[r] + Window > lastPull \/ r \in InHand
        BY <1>1 DEF WatermarkInv, InReach
    <2>2. ASSUME r \in InHand PROVE r \in InHand'
        <3>1. due'[r] > 0 \/ inBody'[r] # Nowhere
            BY <1>7, <1>8, <2>2 DEF InHand, Owed
        <3> QED
            BY <1>3, <2>2, <3>1 DEF InHand
    <2> QED
        BY <2>1, <2>2
<1> QED
    BY <1>2, <1>10, <1>11, <1>13, <1>14 DEF WatermarkInv

LEMMA EndKeeps ==
    ASSUME TypeOK, TypeOK', WatermarkInv, Finish \/ Cancel \/ Abandon
    PROVE  WatermarkInv'
<1>1. /\ UNCHANGED <<notion, seen>> /\ phase # "idle" /\ phase' = "idle" /\ startedAt' = 0
      /\ pages' = None /\ doomed' = {} /\ inBody' = [p \in Pages |-> Nowhere]
    BY DEF Finish, Cancel, Abandon, Finalize, EndPull, Applying, vault
<1>2. /\ Window \in Nat /\ startedAt \in Nat /\ lastPull \in Nat /\ now \in Nat
      /\ \A r \in Pages : edited[r] \in Nat /\ due[r] \in Nat
    BY Numbers
<1>3. ~Applying' /\ ~Judging'
    BY <1>1 DEF Applying, Judging
<1>4. /\ UNCHANGED <<now, parent, edited, shown>> /\ BornBelowBorn'
      /\ \A r : (Owed(r)' <=> Owed(r))
    BY <1>1, NotionStays DEF WatermarkInv, Owed, Tracked, Known
<1>5. \/ (Finish \/ Cancel) /\ Applying /\ lastPull' \in NextWatermark
      \/ Abandon /\ lastPull' = lastPull
    BY DEF Finish, Cancel, Abandon, Finalize, vault
<1>6. ASSUME Finish \/ Cancel
      PROVE  /\ Applying /\ lastPull' \in Nat /\ lastPull' <= startedAt
             /\ \A r \in Pages : due[r] > 0 => lastPull' <= due[r]
    BY <1>2, <1>6 DEF Finish, Cancel, Finalize, NextWatermark
<1>7. startedAt <= now /\ lastPull <= now /\ lastPull <= startedAt
    BY <1>1 DEF WatermarkInv, ClocksAgree
<1>8. ClocksAgree'
    <2>1. lastPull' <= now /\ 0 <= now
        BY <1>2, <1>5, <1>6, <1>7
    <2> QED
        BY <1>1, <1>4, <2>1 DEF WatermarkInv, ClocksAgree
<1>9. PagesHeld'
    <2>1. \A r \in Pages : pages'[r] = 0 /\ 0 <= edited[r] /\ ~(0 > 0)
        BY <1>1, <1>2
    <2> QED
        BY <1>1, <1>4, <2>1 DEF PagesHeld
<1>10. ListReaches' /\ AskedAreRecords' /\ HandsApart' /\ ChangesDue'
    BY <1>1, <1>3 DEF ListReaches, AskedAreRecords, HandsApart, ChangesDue
<1>11. ASSUME Finish \/ Cancel, NEW r \in Pages, Owed(r), r \notin HiddenNow
       PROVE  edited[r] + Window > lastPull' \/ (due[r] = 0 /\ inBody[r] # Nowhere)
    <2>1. Judging
        BY <1>6, <1>11 DEF Judging
    <2>2. /\ due[r] <= edited[r]
          /\ Old(r) => due[r] > 0 \/ inBody[r] # Nowhere
        BY <1>11, <2>1 DEF WatermarkInv, ChangesDue
    <2>3. CASE ~Old(r)
        BY <1>2, <1>6, <1>11, <2>3 DEF Old
    <2>4. CASE due[r] > 0
        <3>1. Window > 0
            BY ScanAssumption
        <3> QED
            BY <1>2, <1>6, <1>11, <2>2, <2>4, <3>1
    <2> QED
        BY <1>2, <2>2, <2>3, <2>4
<1>12. InReach'
    <2> SUFFICES ASSUME NEW r \in Pages, Owed(r), lastPull' > 0
                 PROVE  edited[r] + Window > lastPull' \/ r \in hidden' \cup fresh'
        BY <1>4 DEF InReach
    <2>1. CASE Finish
        <3>1. fresh' = fresh /\ hidden' = (IF full THEN {} ELSE hidden) /\ Undiscovered = {}
            BY <2>1 DEF Finish
        <3>2. inBody[r] = Nowhere
            BY <1>6, <2>1, <3>1 DEF Undiscovered, WatermarkInv, HandsApart
        <3> QED
            BY <1>11, <2>1, <3>1, <3>2 DEF HiddenNow
    <2>2. CASE Cancel
        <3>1. /\ hidden' = hidden
              /\ fresh' = fresh \cup {p \in {q \in InHand : due[q] = 0} : edited[p] + Window <= lastPull'}
            BY <2>2 DEF Cancel, LeaveBehind
        <3>2. CASE r \in HiddenNow
            BY <3>1, <3>2 DEF HiddenNow
        <3>3. CASE edited[r] + Window > lastPull'
            BY <3>3
        <3>4. CASE due[r] = 0 /\ inBody[r] # Nowhere /\ ~(edited[r] + Window > lastPull')
            <4>1. ~Tracked(r)
                BY <1>6, <2>2, <3>4 DEF WatermarkInv, HandsApart
            <4>2. r \in InHand
                BY <3>4, <4>1 DEF InHand, Owed
            <4>3. edited[r] + Window <= lastPull'
                BY <1>2, <1>6, <2>2, <3>4
            <4>4. r \in {q \in InHand : due[q] = 0}
                BY <3>4, <4>2
            <4> QED
                BY <3>1, <4>3, <4>4
        <3> QED
            BY <1>11, <2>2, <3>2, <3>3, <3>4
    <2>3. CASE Abandon
        <3>1. /\ hidden' = hidden /\ fresh' = fresh \cup {p \in InHand : edited[p] + Window <= lastPull'}
              /\ lastPull' = lastPull
            BY <2>3 DEF Abandon, LeaveBehind, vault
        <3>2. \/ edited[r] + Window > lastPull
              \/ r \in hidden \cup fresh
              \/ r \in InHand
            BY <3>1 DEF WatermarkInv, InReach
        <3>3. CASE r \in InHand /\ ~(edited[r] + Window > lastPull)
            <4>1. edited[r] + Window <= lastPull'
                BY <1>2, <3>1, <3>3
            <4> QED
                BY <3>1, <3>3, <4>1
        <3> QED
            BY <3>1, <3>2, <3>3
    <2> QED
        BY <2>1, <2>2, <2>3
<1> QED
    BY <1>4, <1>8, <1>9, <1>10, <1>12 DEF WatermarkInv

LEMMA WatermarkNext == ASSUME TypeOK, TypeOK', WatermarkInv, [Next]_vars PROVE WatermarkInv'
<1>1. CASE UNCHANGED vars
    <2>1. /\ UNCHANGED <<notion, seen, lastPull, startedAt, full, queued, due, inBody, pages, hidden,
                         fresh, phase, toList, toAsk, asked, doomed>>
        BY <1>1 DEF vars, vault, scan, work, ghosts
    <2>2. \A r : /\ (Tracked(r)' <=> Tracked(r)) /\ (Owed(r)' <=> Owed(r)) /\ (Known(r)' <=> Known(r))
                 /\ (Old(r)' <=> Old(r)) /\ (InScope(r)' <=> InScope(r))
        BY <2>1, NotionStays DEF Owed, Tracked, Known, Old
    <2>3. InHand' = InHand /\ HiddenNow' = HiddenNow /\ Records' = Records
          /\ (Applying' <=> Applying) /\ (Judging' <=> Judging)
        BY <2>1, <2>2 DEF InHand, HiddenNow, Records, Applying, Judging
    <2>4. ClocksAgree' /\ BornBelowBorn' /\ PagesHeld' /\ ListReaches' /\ AskedAreRecords'
        BY <2>1, <2>2, <2>3, NotionStays
           DEF WatermarkInv, ClocksAgree, PagesHeld, ListReaches, AskedAreRecords
    <2>5. HandsApart' /\ ChangesDue' /\ InReach'
        BY <2>1, <2>2, <2>3, NotionStays DEF WatermarkInv, HandsApart, ChangesDue, InReach
    <2> QED
        BY <2>4, <2>5 DEF WatermarkInv
<1>2. CASE World
    BY <1>2, WorldKeeps
<1>3. CASE StartFull \/ StartSome
    BY <1>3, StartKeeps
<1>4. CASE PullStep
    BY <1>4, ListKeeps, CompareKeeps, AskKeeps, DetectedKeeps, ReceiveKeeps, RemoveKeeps, ItemKeeps,
       ChildKeeps, EndKeeps DEF PullStep
<1>5. CASE Faulty
    BY <1>5, ListKeeps, AskKeeps, ItemKeeps, ChildKeeps, EndKeeps DEF Faulty
<1>6. CASE \E lost \in SUBSET Pages : SearchInstead(lost)
    BY <1>6, ListKeeps
<1> QED
    BY <1>1, <1>2, <1>3, <1>4, <1>5, <1>6 DEF Next

LEMMA WatermarkInit == Init => WatermarkInv
<1> SUFFICES ASSUME Init PROVE WatermarkInv
    OBVIOUS
<1>1. phase = "idle" /\ lastPull = 0 /\ startedAt = 0 /\ now = 1 /\ shown = edited
      /\ pages = [p \in Pages |-> 0] /\ doomed = {} /\ inBody = [p \in Pages |-> Nowhere]
    BY DEF Init
<1>2. \A p \in Pages : edited[p] \in {0, 1}
    BY DEF Init
<1>3. ClocksAgree
    BY <1>1, <1>2 DEF ClocksAgree
<1>4. PagesHeld
    BY <1>1, <1>2 DEF PagesHeld
<1>5. BornBelowBorn
    BY DEF Init, BornBelowBorn
<1> QED
    BY <1>1, <1>3, <1>4, <1>5
       DEF WatermarkInv, ListReaches, AskedAreRecords, HandsApart, ChangesDue, InReach, Judging, Applying

(* last_pull_at keeps its promise (nextPullWatermark, incrementalSearchSince): between two     *)
(* pulls, whatever the vault lacks is in the window of the next search, comes with a page the  *)
(* vault does not have yet, or is one of those a swallowed read, a move or a pull cut off hid. *)
THEOREM WatermarkIsKept == Spec => []WatermarkPromise
<1>1. TypeOK /\ WatermarkInv => WatermarkPromise
    <2> SUFFICES ASSUME TypeOK, WatermarkInv, phase = "idle", lastPull > 0, NEW p \in Pages, Missing(p)
                 PROVE  \/ edited[p] + Window > lastPull
                        \/ p \in hidden \cup fresh
                        \/ \E q \in Ancestors(p) : ~Tracked(q)
        BY DEF WatermarkPromise
    <2>1. CASE Tracked(p) \/ Known(p)
        BY <2>1 DEF WatermarkInv, InReach, Owed, Missing, Applying
    <2>2. CASE ~Tracked(p) /\ ~Known(p)
        <3>1. parent[p] # Root
            BY <2>2 DEF Known
        <3>2. parent[p] \in Pages
            <4>1. ASSUME parent[p] \notin Pages PROVE FALSE
                BY <3>1, <4>1, LineOfOne DEF Missing, InScope
            <4> QED
                BY <4>1
        <3>3. ~Tracked(parent[p])
            BY <2>2, <3>2 DEF Known
        <3>4. parent[p] \in Line(p, parent)
            BY <3>2, LineClosed
        <3>5. CASE parent[p] # p
            BY <3>3, <3>4, <3>5 DEF Ancestors
        <3>6. CASE parent[p] = p
            <4>1. {p} \in SUBSET Pages /\ \A r \in {p} : parent[r] \in Pages => parent[r] \in {p}
                BY <3>6
            <4>2. Line(p, parent) \subseteq {p}
                BY <4>1, LineLeast
            <4> QED
                BY <3>1, <4>2 DEF Missing, InScope
        <3> QED
            BY <3>5, <3>6
    <2> QED
        BY <2>1, <2>2
<1>2. TypeOK /\ TypeOK' /\ WatermarkInv /\ [Next]_vars => WatermarkInv'
    BY WatermarkNext
<1> QED
    BY <1>1, <1>2, WatermarkInit, ScanTypes, PTL DEF Spec
================================================================================
