------------------------------ MODULE RemoteScan -------------------------------
(***************************************************************************)
(* How a pull finds out what happened in Notion and what it writes down    *)
(* when it is done: RemoteDetector, the traversal and the searches of      *)
(* NotionClient, the deletion sweep, RemoteMoveFollower, and executePull   *)
(* from the choice of the scan to finalize.                                *)
(*                                                                         *)
(* A step is one request, or what runs between two.  The strategy is       *)
(* remote-first, where every change and every deletion is taken; what the  *)
(* other strategies do with a note is in NoteSync.                         *)
(***************************************************************************)
EXTENDS Naturals, FiniteSets, Sequences

CONSTANTS
    Pages,      \* the pages of the workspace
    IdOrder,    \* the pages in the order of their ids
    Window,     \* INCREMENTAL_SAFETY_WINDOW_MS, in units of time
    Lag,        \* how long search may take to index an edit
    Budget,     \* DELETION_SWEEP_BUDGET
    MaxTime,    \* bound: the clock
    MaxEvents,  \* bound: what people do in Notion
    MaxFaults,  \* bound: requests that fail, cancellations and crashes
    Movable     \* pages people may move

ASSUME ScanAssumption ==
    /\ IsFiniteSet(Pages) /\ Movable \subseteq Pages
    /\ IdOrder \in Seq(Pages) /\ {IdOrder[i] : i \in 1..Len(IdOrder)} = Pages
    /\ {Window, Lag, MaxEvents, MaxFaults} \subseteq Nat
    /\ {Budget, MaxTime} \subseteq Nat \ {0}
    /\ Lag < Window

Root == "root"            \* notion.rootPageId
Elsewhere == "elsewhere"  \* any place outside the vault, the top of the workspace too
Nowhere == "nowhere"      \* no parent was read
ASSUME PlacesAssumption == {Root, Elsewhere, Nowhere} \cap Pages = {}

Places == Pages \cup {Root, Elsewhere}
Time == 0..MaxTime        \* 0: never

VARIABLES
    now,        \* the clock
    parent,     \* the parent of each page in Notion
    edited,     \* last_edited_time; 0 before the page exists
    shown,      \* the edit time search knows; 0 when it does not know the page
    trashed,    \* pages put in the trash themselves
    events,     \* what people did so far
    seen,       \* the edit time of each record; 0 when the page has no record
    under,      \* notionParentId of each record
    lastPull,   \* last_pull_at; 0 before the first pull
    cursor,     \* deletion_sweep_cursor
    phase,      \* where the pull is: idle, list, ask, askBelow, apply, retry
    full,       \* the scan is a full one
    startedAt,  \* the time of its start
    toList,     \* traversal: nodes whose children are still to be read
    pages,      \* _pages: the edit time of the page objects it holds; 0 when it holds none
    heard,      \* pages a listing or a search showed alive
    place,      \* the parent this pull read for a page
    toAsk,      \* tracked pages it has still to ask for
    asked,      \* tracked pages it has asked for
    unread,     \* reads that failed
    nextCursor, \* _sweepCursor
    due,        \* the edit time of the changes not yet applied; 0 when there is none
    doomed,     \* pages found deleted
    queued,     \* _queued
    inBody,     \* _bodyChildren: the page whose body lists it
    todo,       \* the changes the running pass has still to handle
    failed,     \* retryQueue
    faults,     \* how many requests failed so far
    hidden,     \* ghost: pages no search will show this vault, found before this pull
    fresh,      \* ghost: the same, found since this pull began
    wasOut      \* ghost: pages that were outside the vault since this pull began

notion == <<now, parent, edited, shown, trashed, events>>
vault == <<seen, under, lastPull, cursor>>
scan == <<full, startedAt, toList, pages, heard, place, toAsk, asked, unread, nextCursor>>
work == <<due, doomed, queued, inBody, todo, failed>>
ghosts == <<hidden, fresh, wasOut>>
vars == <<notion, vault, phase, scan, work, faults, ghosts>>

None == [p \in Pages |-> 0]
--------------------------------------------------------------------------------
(* The tree of pages. *)

Born(p) == edited[p] > 0

(* p and the pages above it: what every set has that holds p and the parents of its members. *)
Line(p, up) ==
    {q \in Pages : \A S \in SUBSET Pages :
        (p \in S /\ \A r \in S : up[r] \in Pages => up[r] \in S) => q \in S}

Ancestors(p) == Line(p, parent) \ {p}
Below(q) == {p \in Pages : \E r \in Line(p, parent) : parent[r] = q}
Subtree(q) == Below(q) \cup {q}

(* In the trash with whatever it hangs under. *)
Gone(p) == Line(p, parent) \cap trashed # {}
Alive(p) == Born(p) /\ ~Gone(p)
InScope(p) == Alive(p) /\ \E q \in Line(p, parent) : parent[q] = Root
Out == {p \in Pages : ~InScope(p)}

Tracked(p) == seen[p] > 0
Records == {p \in Pages : Tracked(p)}

Init ==
    /\ now = 1
    /\ parent \in [Pages -> Pages \cup {Root}]
    /\ Below(Root) = Pages
    /\ edited \in [Pages -> {0, 1}]
    /\ \A p \in Pages : Born(p) /\ parent[p] \in Pages => Born(parent[p])
    /\ shown = edited /\ trashed = {} /\ events = 0
    /\ seen = None /\ under = [p \in Pages |-> Nowhere]
    /\ lastPull = 0 /\ cursor = Nowhere
    /\ phase = "idle" /\ full = FALSE /\ startedAt = 0
    /\ toList = {} /\ pages = None /\ heard = {} /\ place = [p \in Pages |-> Nowhere]
    /\ toAsk = {} /\ asked = {} /\ unread = {} /\ nextCursor = Nowhere
    /\ due = None /\ doomed = {} /\ queued = {}
    /\ inBody = [p \in Pages |-> Nowhere] /\ todo = {} /\ failed = {}
    /\ faults = 0
    /\ hidden = {} /\ fresh = {} /\ wasOut = {}
--------------------------------------------------------------------------------
(* People, and the index of Notion's search. *)

Event ==
    /\ events < MaxEvents
    /\ events' = events + 1
    /\ wasOut' = IF phase \in {"list", "ask", "askBelow"} THEN wasOut \cup Out' ELSE wasOut
    /\ UNCHANGED <<now, vault, phase, scan, work, faults, hidden>>

Create(p) ==
    /\ ~Born(p)
    /\ parent[p] = Root \/ (parent[p] \in Pages /\ Alive(parent[p]))
    /\ edited' = [edited EXCEPT ![p] = now]
    /\ UNCHANGED <<parent, shown, trashed, fresh>>
    /\ Event

Edit(p) ==
    /\ Alive(p) /\ edited[p] < now
    /\ edited' = [edited EXCEPT ![p] = now]
    /\ UNCHANGED <<parent, shown, trashed, fresh>>
    /\ Event

(* pages.move leaves the edit time as it is. *)
Move(p, q) ==
    /\ p \in Movable /\ Alive(p) /\ q # parent[p]
    /\ q \in Pages => (Alive(q) /\ q \notin Subtree(p))
    /\ parent' = [parent EXCEPT ![p] = q]
    /\ fresh' = fresh \cup {r \in Subtree(p) : full \/ r \in Out \/ ~Tracked(r)}
    /\ UNCHANGED <<edited, shown, trashed>>
    /\ Event

Trash(p) ==
    /\ Alive(p)
    /\ trashed' = trashed \cup {p}
    /\ UNCHANGED <<parent, edited, shown, fresh>>
    /\ Event

Restore(p) ==
    /\ p \in trashed
    /\ trashed' = trashed \ {p}
    /\ fresh' = fresh \cup Subtree(p)
    /\ UNCHANGED <<parent, edited, shown>>
    /\ Event

Index(p) ==
    /\ shown[p] < edited[p]
    /\ shown' = [shown EXCEPT ![p] = edited[p]]
    /\ UNCHANGED <<now, parent, edited, trashed, events, vault, phase, scan, work, faults, ghosts>>

Tick ==
    /\ now < MaxTime
    /\ \A p \in Pages : shown[p] < edited[p] => now < edited[p] + Lag
    /\ now' = now + 1
    /\ UNCHANGED <<parent, edited, shown, trashed, events, vault, phase, scan, work, faults, ghosts>>
--------------------------------------------------------------------------------
(* Starting a pull. *)

Fault(n) == faults + n <= MaxFaults /\ faults' = faults + n

Start(kind) ==
    /\ phase = "idle"
    /\ full' = kind
    /\ startedAt' = now
    /\ wasOut' = Out
    /\ hidden' = hidden \cup fresh
    /\ UNCHANGED <<notion, vault, inBody, todo, failed>>

(* The first pull, a forced one, and each one the interval has made due. *)
StartFull ==
    /\ Start(TRUE)
    /\ phase' = "list"
    /\ toList' = {Root}
    /\ fresh' = {}
    /\ UNCHANGED <<pages, heard, place, toAsk, asked, unread, nextCursor, due, doomed, queued, faults>>

Known(p) == parent[p] = Root \/ (parent[p] \in Pages /\ Tracked(parent[p]))

(* Mutant of Recent: the search begins at the watermark itself. *)
RecentSinceWatermark == {p \in Pages : Alive(p) /\ shown[p] > 0 /\ shown[p] > lastPull}

(* What search shows: the trash never, and only what is indexed. *)
Recent == {p \in Pages : Alive(p) /\ shown[p] > 0 /\ shown[p] + Window > lastPull}

(* New pages below the root, below a tracked page, or below one of each other. *)
Accepted(new) ==
    {p \in new : \A S \in SUBSET new :
        (\A q \in new : (Known(q) \/ parent[q] \in S) => q \in S) => p \in S}

Position(p) == CHOOSE i \in 1..Len(IdOrder) : IdOrder[i] = p
Sweepable(skip) == Records \ skip

(* Mutant of SweepAfter: the sweep begins at the first record each time. *)
SweepAfterNone(skip) == 0

(* The position the sweep goes on behind: that of the cursor, when not all can be asked for. *)
SweepAfter(skip) ==
    IF cursor = Nowhere \/ Cardinality(Sweepable(skip)) <= Budget THEN 0 ELSE Position(cursor)

(* The records by position from there on, and around the end. *)
Turn(p, skip) == Position(p) + (IF Position(p) > SweepAfter(skip) THEN 0 ELSE Len(IdOrder))

SweepBatch(skip) ==
    {p \in Sweepable(skip) :
        Cardinality({q \in Sweepable(skip) : Turn(q, skip) < Turn(p, skip)}) < Budget}

LastAsked(skip) ==
    {p \in SweepBatch(skip) : \A q \in SweepBatch(skip) : Turn(q, skip) <= Turn(p, skip)}

(* An incremental pull: one search for what was edited since last_pull_at, the window *)
(* before it included.  A new page whose parent cannot be read, one of lost, is       *)
(* dropped without a word.                                                            *)
StartIncremental(lost) ==
    LET new == {p \in Recent : ~Tracked(p)}
        changed == Accepted(new \ lost) \cup {p \in Recent : Tracked(p) /\ shown[p] > seen[p]}
    IN  /\ Start(FALSE)
        /\ lastPull > 0 /\ Records # {}
        /\ lost \subseteq new /\ Fault(Cardinality(lost))
        /\ phase' = "ask"
        /\ due' = [p \in Pages |-> IF p \in changed THEN shown[p] ELSE 0]
        /\ heard' = Recent
        /\ place' = [p \in Pages |-> IF p \in Recent THEN parent[p] ELSE Nowhere]
        /\ toAsk' = SweepBatch(Recent) /\ asked' = SweepBatch(Recent)
        /\ nextCursor' \in IF Sweepable(Recent) = {} THEN {Nowhere} ELSE LastAsked(Recent)
        /\ fresh' = lost
        /\ UNCHANGED <<toList, pages, unread, doomed, queued>>
--------------------------------------------------------------------------------
(* The traversal of a full scan, node by node, and what follows it. *)

Children(q) == {p \in Pages : parent[p] = q /\ Alive(p)}

Listing == phase = "list"

(* A page listed before keeps the edit time it was first listed with. *)
ListNode(n) ==
    /\ Listing /\ n \in toList
    /\ toList' = (toList \ {n}) \cup Children(n)
    /\ pages' = [p \in Pages |-> IF p \in Children(n) /\ pages[p] = 0 THEN edited[p] ELSE pages[p]]
    /\ heard' = heard \cup Children(n)
    /\ place' = [p \in Pages |-> IF p \in Children(n) THEN n ELSE place[p]]
    /\ UNCHANGED <<notion, vault, phase, full, startedAt, toAsk, asked, unread, nextCursor, work,
                   faults, ghosts>>

(* A node that cannot be read is skipped with all that hangs below it. *)
SkipNode(n) ==
    /\ Listing /\ n \in toList
    /\ Fault(1)
    /\ toList' = toList \ {n}
    /\ fresh' = fresh \cup Below(n)
    /\ UNCHANGED <<notion, vault, phase, full, startedAt, pages, heard, place, toAsk, asked, unread,
                   nextCursor, work, hidden, wasOut>>

(* The traversal costs too much: what search leads to the root is added, and what the *)
(* traversal had not reached stays out.  Search follows the parents only through pages *)
(* it shows, and not through those whose block cannot be read.                         *)
SearchInstead(lost) ==
    LET found == {p \in Pages : InScope(p) /\ \A q \in Ancestors(p) \cup {p} :
                                                 shown[q] > 0 /\ q \notin lost}
    IN  /\ Listing /\ toList # {}
        /\ lost \subseteq {p \in Pages : InScope(p)} /\ Fault(Cardinality(lost))
        /\ toList' = {}
        /\ pages' = [p \in Pages |-> IF p \in found THEN shown[p] ELSE pages[p]]
        /\ heard' = heard \cup found
        /\ place' = [p \in Pages |-> IF p \in found THEN parent[p] ELSE place[p]]
        /\ fresh' = fresh \cup {p \in Pages : InScope(p) /\ shown[p] > 0 /\ p \notin found}
        /\ UNCHANGED <<notion, vault, phase, full, startedAt, toAsk, asked, unread, nextCursor, work,
                       hidden, wasOut>>

(* What was listed against the records: new pages, edited pages, and the records to ask for. *)
Compare ==
    LET unlisted == Records \ heard
    IN  /\ Listing /\ toList = {}
        /\ phase' = "ask"
        /\ due' = [p \in Pages |-> IF pages[p] > seen[p] THEN pages[p] ELSE 0]
        /\ toAsk' = IF lastPull > 0 THEN unlisted ELSE {}
        /\ asked' = toAsk'
        /\ UNCHANGED <<notion, vault, full, startedAt, toList, pages, heard, place, unread,
                       nextCursor, doomed, queued, inBody, todo, failed, faults, ghosts>>
--------------------------------------------------------------------------------
(* Asking for single pages.  Only an answer makes a deletion. *)

Asking == phase \in {"ask", "askBelow"}

(* Mutant of Ask: a page that is not shown is deleted without asking. *)
AskNobody(p) ==
    /\ Asking /\ p \in toAsk
    /\ toAsk' = toAsk \ {p}
    /\ doomed' = doomed \cup {p}
    /\ UNCHANGED <<notion, vault, phase, full, startedAt, toList, pages, heard, asked, unread, place,
                   nextCursor, due, queued, inBody, todo, failed, faults, ghosts>>

Ask(p) ==
    /\ Asking /\ p \in toAsk
    /\ toAsk' = toAsk \ {p}
    /\ doomed' = IF Gone(p) THEN doomed \cup {p} ELSE doomed
    /\ place' = IF full /\ ~Gone(p) THEN [place EXCEPT ![p] = parent[p]] ELSE place
    /\ UNCHANGED <<notion, vault, phase, full, startedAt, toList, pages, heard, asked, unread,
                   nextCursor, due, queued, inBody, todo, failed, faults, ghosts>>

AskFails(p) ==
    /\ Asking /\ p \in toAsk
    /\ Fault(1)
    /\ toAsk' = toAsk \ {p}
    /\ unread' = unread \cup {p}
    /\ UNCHANGED <<notion, vault, phase, full, startedAt, toList, pages, heard, place, asked,
                   nextCursor, work, ghosts>>

(* The detection is done: pages that moved are moved in the vault, if their new parent *)
(* is in it, and the changes are queued.  What no later step reads is forgotten.       *)
Detected(gone) ==
    /\ phase' = "apply"
    /\ doomed' = gone
    /\ under' = [p \in Pages |->
                    IF Tracked(p) /\ p \in heard
                       /\ (place[p] = Root \/ (place[p] \in Pages /\ Tracked(place[p])))
                    THEN place[p] ELSE under[p]]
    /\ todo' = {p \in Pages : due[p] > 0} \cup gone
    /\ queued' = todo'
    /\ toAsk' = {} /\ asked' = {} /\ unread' = {} /\ heard' = {}
    /\ place' = [p \in Pages |-> Nowhere] /\ wasOut' = {}
    /\ UNCHANGED <<notion, seen, lastPull, cursor, full, startedAt, toList, pages, nextCursor, due,
                   inBody, failed, faults, hidden, fresh>>

(* A page that is alive stays if its parent was listed, or is one that stays. *)
Staying(answered) ==
    {p \in answered : \A S \in SUBSET answered :
        (\A q \in answered : place[q] \in {Root} \cup heard \cup S => q \in S) => p \in S}

(* A full scan judges the answers. *)
Judge ==
    LET answered == asked \ (doomed \cup unread)
    IN  /\ phase = "ask" /\ full /\ toAsk = {}
        /\ Detected(doomed \cup (answered \ Staying(answered)))

(* An incremental one asks for what it has under the pages that are gone. *)
TrackedBelow == {p \in Records : Line(p, under) \cap doomed # {}} \ (asked \cup heard)

AskBelow ==
    LET below == TrackedBelow
    IN  /\ phase = "ask" /\ ~full /\ toAsk = {} /\ below # {}
        /\ phase' = "askBelow"
        /\ toAsk' = below /\ asked' = asked \cup below
        /\ UNCHANGED <<notion, vault, full, startedAt, toList, pages, heard, place, unread,
                       nextCursor, work, faults, ghosts>>

SweepDone ==
    /\ ~full /\ toAsk = {}
    /\ phase = "askBelow" \/ (phase = "ask" /\ TrackedBelow = {})
    /\ Detected(doomed)
--------------------------------------------------------------------------------
(* Applying the changes: a pass, the children the bodies show, and a second pass. *)

Applying == phase \in {"apply", "retry"}

(* A new page is written with the edit time of the object the detection holds, if it   *)
(* holds one; any other is read again.  The body that comes with it lists its children. *)
Receive(p) ==
    /\ Applying /\ p \in todo /\ due[p] > 0
    /\ todo' = todo \ {p}
    /\ due' = [due EXCEPT ![p] = 0]
    /\ seen' = [seen EXCEPT ![p] = IF ~Tracked(p) /\ pages[p] > 0 THEN pages[p] ELSE edited[p]]
    /\ under' = IF Tracked(p) THEN under ELSE [under EXCEPT ![p] = parent[p]]
    /\ inBody' = [q \in Pages |-> IF q \in Children(p) \ queued /\ ~Tracked(q) THEN p ELSE inBody[q]]
    /\ pages' = [pages EXCEPT ![p] = 0]
    /\ hidden' = hidden \ {p} /\ fresh' = fresh \ {p}
    /\ UNCHANGED <<notion, lastPull, cursor, phase, full, startedAt, toList, heard, place, toAsk,
                   asked, unread, nextCursor, doomed, queued, failed, faults, wasOut>>

(* The note and its record go; a page that is in the vault's reach by now is out of its sight. *)
Remove(p) ==
    /\ Applying /\ p \in todo \cap doomed
    /\ todo' = todo \ {p}
    /\ seen' = [seen EXCEPT ![p] = 0]
    /\ under' = [under EXCEPT ![p] = Nowhere]
    /\ fresh' = fresh \cup ({p} \ Out)
    /\ UNCHANGED <<notion, lastPull, cursor, phase, scan, due, doomed, queued, inBody, failed,
                   faults, hidden, wasOut>>

(* What fails in the first pass is tried once more in the second. *)
ItemFails(p) ==
    /\ Applying /\ p \in todo
    /\ Fault(1)
    /\ todo' = todo \ {p}
    /\ failed' = IF phase = "apply" THEN failed \cup {p} ELSE failed
    /\ UNCHANGED <<notion, vault, phase, scan, due, doomed, queued, inBody, ghosts>>

Undiscovered == {p \in Pages : inBody[p] # Nowhere /\ ~Tracked(p)}

TakeChild(c) ==
    /\ Applying /\ todo = {} /\ c \in Undiscovered
    /\ queued' = queued \cup {c} /\ inBody' = [inBody EXCEPT ![c] = Nowhere]
    /\ IF Alive(c) /\ parent[c] = inBody[c]
       THEN /\ due' = [due EXCEPT ![c] = edited[c]]
            /\ pages' = [pages EXCEPT ![c] = edited[c]]
            /\ todo' = {c}
       ELSE UNCHANGED <<due, pages, todo>>
    /\ UNCHANGED <<notion, vault, phase, full, startedAt, toList, heard, place, toAsk, asked, unread,
                   nextCursor, doomed, failed, faults, ghosts>>

ChildUnread(c) ==
    /\ Applying /\ todo = {} /\ c \in Undiscovered
    /\ Fault(1)
    /\ queued' = queued \cup {c} /\ inBody' = [inBody EXCEPT ![c] = Nowhere]
    /\ fresh' = fresh \cup {c}
    /\ UNCHANGED <<notion, vault, phase, scan, due, doomed, todo, failed, hidden, wasOut>>

Retry ==
    /\ phase = "apply" /\ todo = {} /\ Undiscovered = {} /\ failed # {}
    /\ phase' = "retry"
    /\ todo' = failed
    /\ failed' = {}
    /\ UNCHANGED <<notion, vault, scan, due, doomed, queued, inBody, faults, ghosts>>

EndPull ==
    /\ phase' = "idle" /\ full' = FALSE /\ startedAt' = 0
    /\ toList' = {} /\ pages' = None /\ heard' = {} /\ place' = [p \in Pages |-> Nowhere]
    /\ toAsk' = {} /\ asked' = {} /\ unread' = {} /\ nextCursor' = Nowhere
    /\ due' = None /\ doomed' = {} /\ queued' = {}
    /\ inBody' = [p \in Pages |-> Nowhere] /\ todo' = {} /\ failed' = {}
    /\ wasOut' = {}
    /\ UNCHANGED notion

(* Mutant of NextWatermark: the window is added to the mark. *)
WatermarkAhead == {startedAt + Window}

(* Mutant of NextWatermark: what was not applied does not hold the watermark. *)
WatermarkAtStart == {startedAt}

(* Where the next pull begins: at the start of this one, or at the earliest change *)
(* that was not applied.                                                           *)
NextWatermark ==
    LET times == {startedAt} \cup {due[p] : p \in {q \in Pages : due[q] > 0}}
    IN  {t \in times : \A u \in times : t <= u}

Finalize ==
    /\ lastPull' \in NextWatermark
    /\ cursor' = IF full THEN cursor ELSE nextCursor
    /\ EndPull

(* A full pull has received all it was shown. *)
Finish ==
    /\ Applying /\ todo = {} /\ Undiscovered = {} /\ failed = {}
    /\ Finalize
    /\ hidden' = IF full THEN {} ELSE hidden
    /\ UNCHANGED <<seen, under, faults, fresh>>

(* New pages this pull still has to receive, though it has the page above them. *)
InHand ==
    {p \in Pages : Known(p) /\ ~Tracked(p) /\ (due[p] > 0 \/ inBody[p] # Nowhere)}

(* A pull that is cut off forgets them, and no search shows those behind the watermark. *)
LeaveBehind(some) == fresh' = fresh \cup {p \in some : edited[p] + Window <= lastPull'}

(* The user cancels while changes are applied: the pull is finalized as it stands.  What *)
(* was detected holds the watermark; what was only read in a body does not.              *)
Cancel ==
    /\ Applying
    /\ Fault(1)
    /\ Finalize /\ LeaveBehind({p \in InHand : due[p] = 0})
    /\ UNCHANGED <<seen, under, hidden>>

(* A cancelled detection, an error that ends the pull, or the end of the process. *)
Abandon ==
    /\ phase # "idle"
    /\ Fault(1)
    /\ EndPull
    /\ UNCHANGED <<vault, hidden>>
    /\ LeaveBehind(InHand)

World == \/ \E p \in Pages : Create(p) \/ Edit(p) \/ Trash(p) \/ Restore(p)
         \/ \E p \in Pages, q \in Places : Move(p, q)
         \/ Tick
         \/ \E p \in Pages : Index(p)

StartSome == \E lost \in SUBSET Pages : StartIncremental(lost)

PullStep ==
    \/ \E n \in Pages \cup {Root} : ListNode(n)
    \/ Compare
    \/ \E p \in Pages : Ask(p) \/ Receive(p) \/ Remove(p) \/ TakeChild(p)
    \/ Judge \/ AskBelow \/ SweepDone
    \/ Retry \/ Finish

Faulty ==
    \/ \E n \in Pages \cup {Root} : SkipNode(n)
    \/ \E p \in Pages : AskFails(p) \/ ItemFails(p) \/ ChildUnread(p)
    \/ Cancel \/ Abandon

Next == World \/ StartFull \/ StartSome \/ PullStep \/ Faulty
        \/ \E lost \in SUBSET Pages : SearchInstead(lost)

Spec == Init /\ [][Next]_vars

(* A pull that is not due for a full scan, unless it has to be one. *)
StartScheduled ==
    \/ (lastPull = 0 \/ Records = {}) /\ StartFull
    \/ StartIncremental({})

(* The index of search and a started pull go on.  Pulls are started again and again; none *)
(* but the first, and those that find nothing tracked, needs to be a full one.           *)
FairSpec ==
    /\ Spec
    /\ WF_vars(\E p \in Pages : Index(p))
    /\ WF_vars(PullStep) /\ WF_vars(StartScheduled)
--------------------------------------------------------------------------------
TypeOK ==
    /\ now \in Time /\ parent \in [Pages -> Places]
    /\ edited \in [Pages -> Time] /\ shown \in [Pages -> Time]
    /\ trashed \subseteq Pages /\ events \in 0..MaxEvents
    /\ seen \in [Pages -> Time] /\ under \in [Pages -> Places \cup {Nowhere}]
    /\ lastPull \in Time /\ cursor \in Pages \cup {Nowhere}
    /\ phase \in {"idle", "list", "ask", "askBelow", "apply", "retry"}
    /\ full \in BOOLEAN /\ startedAt \in Time
    /\ toList \subseteq Pages \cup {Root} /\ pages \in [Pages -> Time] /\ heard \subseteq Pages
    /\ place \in [Pages -> Places \cup {Nowhere}]
    /\ toAsk \subseteq Pages /\ asked \subseteq Pages /\ unread \subseteq Pages
    /\ nextCursor \in Pages \cup {Nowhere}
    /\ due \in [Pages -> Time] /\ doomed \subseteq Pages /\ queued \subseteq Pages
    /\ inBody \in [Pages -> Pages \cup {Nowhere}]
    /\ todo \subseteq Pages /\ failed \subseteq Pages /\ faults \in 0..MaxFaults
    /\ hidden \subseteq Pages /\ fresh \subseteq Pages /\ wasOut \subseteq Pages

Missing(p) == InScope(p) /\ seen[p] < edited[p]

(* Between two pulls, a change the vault has not received is in reach of the next     *)
(* incremental one, or comes with a page above it that the vault does not have, or is *)
(* one of those that a read that was swallowed, a move, or a pull that was cut off    *)
(* between a page and its children hid.                                               *)
WatermarkPromise ==
    phase = "idle" /\ lastPull > 0 =>
        \A p \in Pages :
            Missing(p) => \/ edited[p] + Window > lastPull
                          \/ p \in hidden \cup fresh
                          \/ \E q \in Ancestors(p) : ~Tracked(q)

(* A page is found deleted only if it was outside the vault at some time since the pull *)
(* began, or if the parent read for it is itself one that goes, that the vault does not *)
(* have, or that could not be read.                                                     *)
DoomedOnlyIfOut ==
    [][\A p \in doomed' \ doomed :
          p \in wasOut \/ (place[p] \in Pages
                           /\ (place[p] \in doomed' \cup unread \/ ~Tracked(place[p])))]_vars

(* Once people rest, no note is left of a page that is gone, though no pull need be a *)
(* full one.                                                                          *)
DeletionsNoticed == <>[](\A p \in Records : ~Gone(p))

(* Once people rest, the vault has all that incremental pulls can reach. *)
ReachableReceived ==
    <>[](lastPull > 0 /\ Records # {} =>
            \A p \in Pages : Missing(p) => p \in hidden \cup fresh)
================================================================================
