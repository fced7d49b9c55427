------------------------------ MODULE LocalMoves ------------------------------
(***************************************************************************)
(* Notes that are renamed or moved in the vault, and the push that tells   *)
(* Notion: ChangeDetector lists the files and pairs a tracked path without *)
(* a file with a file without a record, LocalPlanner writes the new path   *)
(* into the state DB with an operation that remembers the last place known *)
(* to Notion, and PagePusher moves and renames the page and closes the     *)
(* operation.  People go on renaming and editing between any two steps.    *)
(*                                                                         *)
(* A place is a folder and a name: the page's parent and its title.          *)
(***************************************************************************)
EXTENDS FiniteSets, Naturals

CONSTANTS
    Notes, Dirs, Names,
    Pages,          \* ids of Notion pages; one is used again when its page is gone
    MaxChanges,     \* bound: renames, edits, creations and deletions in the vault
    MaxMisses       \* bound: failed requests and crashes

ASSUME MovesAssumption ==
    /\ Notes \subseteq Pages
    /\ "same" \notin Dirs \cup Names
    /\ MaxChanges \in Nat /\ MaxMisses \in Nat

VARIABLES
    hinting,    \* the plugin, which hears of renames; FALSE: the command line
    where,      \* place of each note in the vault
    version,    \* edits of each note
    changed,    \* changes in the vault so far
    misses,     \* failed requests and crashes so far
    hints,      \* rename hints: place -> place it was renamed from
    onNotion,   \* the pages of Notion
    tracked,    \* the state DB: a page's record, its open move operation in origin
    listing,    \* files the scan listed, with the text their stat stands for; or NoListing
    plan,       \* LocalPlan, NoPlan before the scan's end and after the adoption
    tasks,      \* the changes this push has still to apply
    severed,    \* ghost: notes whose history the scan cannot know
    torn,       \* ghost: pages renamed again while a move of theirs was half done
    calm        \* ghost: nothing changed and nothing failed since the last push began

world == <<hinting, where, version, changed>>
notion == <<onNotion, misses>>
state == <<hints, tracked, torn>>
work == <<listing, plan, tasks>>
movesVars == <<world, notion, state, work, severed, calm>>

Paths == Dirs \X Names
Nowhere == <<>>
Dir(p) == p[1]
Name(p) == p[2]
Texts == Notes \X (0..MaxChanges)

Gone == [live |-> FALSE]
NotionPage == [text: Texts, dir: Dirs, name: Names]
Untracked == [live |-> FALSE]
Tracking == [path: Paths, text: Texts, dir: Dirs, origin: Paths \cup {Nowhere}]

Text(n) == <<n, version[n]>>
NotesAt(p) == {n \in Notes : where[n] = p}
Files == {p \in Paths : NotesAt(p) # {}}
TextAt(p) == Text(CHOOSE n \in NotesAt(p) : TRUE)

Records == {g \in Pages : tracked[g] # Untracked}
RecordAt(p) == {g \in Records : tracked[g].path = p}
PlaceOf(g) == <<onNotion[g].dir, onNotion[g].name>>
(* Where Notion was last known to have the page. *)
LastKnown(g) == IF tracked[g].origin = Nowhere THEN tracked[g].path ELSE tracked[g].origin

NoListing == {Nowhere}
Listed == {f[1] : f \in listing}
NoPlan == [hints |-> "none"]
Planning == listing # NoListing \/ plan # NoPlan

(* Some notes are in the vault, synced, and the page of each goes by its name. *)
MovesInit ==
    /\ hinting \in BOOLEAN
    /\ where \in [Notes -> Paths \cup {Nowhere}]
    /\ \A m, n \in Notes : m # n /\ where[m] = where[n] => where[m] = Nowhere
    /\ version = [n \in Notes |-> 0]
    /\ changed = 0 /\ misses = 0
    /\ hints = [p \in Paths |-> Nowhere]
    /\ onNotion = [g \in Pages |->
         IF g \in Notes /\ where[g] # Nowhere
         THEN [text |-> <<g, 0>>, dir |-> Dir(where[g]), name |-> Name(where[g])]
         ELSE Gone]
    /\ tracked = [g \in Pages |->
         IF g \in Notes /\ where[g] # Nowhere
         THEN [path |-> where[g], text |-> <<g, 0>>, dir |-> Dir(where[g]), origin |-> Nowhere]
         ELSE Untracked]
    /\ listing = NoListing /\ plan = NoPlan /\ tasks = {}
    /\ severed = {} /\ torn = {} /\ calm = FALSE
--------------------------------------------------------------------------------
(* People and the plugin's rename events. *)

VaultChange == changed < MaxChanges /\ changed' = changed + 1 /\ calm' = FALSE

(* recordRenameHint: a -> b -> c is c <- a, and a note that is back needs no hint. *)
Recorded(from, to) ==
    LET origin == IF hints[from] = Nowhere THEN from ELSE hints[from]
    IN  IF hints[from] = Nowhere /\ hints[to] # Nowhere
        THEN hints
        ELSE [hints EXCEPT ![from] = Nowhere,
                           ![to] = IF origin = to THEN Nowhere ELSE origin]

HasRecord(g, n) == g \in Records /\ tracked[g].text[1] = n

Creating == {j.at : j \in {k \in tasks \cup IF plan = NoPlan THEN {} ELSE plan.changes :
                             k.kind = "created"}}
Adopting == IF plan = NoPlan THEN {} ELSE {r[2] : r \in plan.pairs}

(* The notes a scan will not be able to follow: one that comes to a place the state *)
(* DB still holds for another, or where this push is about to create a page; one    *)
(* that comes to where another was renamed from: the hint may be taken for its own; *)
(* one renamed after the files were listed and before the hints are read: its hint  *)
(* is dropped unused; one renamed from where it is about to be adopted: its hint    *)
(* still begins at a path its record has left; without hints, one both renamed and  *)
(* edited since the last sync.                                                      *)
SeveredBy(n, from, to) ==
    {m \in Notes :
        \/ \E g \in Records : ~HasRecord(g, n) /\ to \in {tracked[g].path, tracked[g].origin}
                              /\ (m = n \/ HasRecord(g, m))
        \/ \E p \in Paths \ {from} : hints[p] = to /\ (m = n \/ where[m] = p)
        \/ m = n /\ from # to /\ (listing # NoListing \/ to \in Creating)
        \/ m = n /\ {from, to} \cap Adopting # {}
        \/ m = n /\ from # to /\ ~hinting /\ \E g \in Records :
              HasRecord(g, n) /\ tracked[g].text # Text(n)}

Rename(n, to) ==
    /\ VaultChange
    /\ where[n] # Nowhere /\ NotesAt(to) = {}
    /\ where' = [where EXCEPT ![n] = to]
    /\ hints' = IF hinting THEN Recorded(where[n], to) ELSE hints
    /\ severed' = severed \cup SeveredBy(n, where[n], to)
    /\ UNCHANGED <<hinting, version, notion, tracked, torn, work>>

EditNote(n) ==
    /\ VaultChange
    /\ where[n] # Nowhere
    /\ version' = [version EXCEPT ![n] = @ + 1]
    /\ severed' = IF ~hinting /\ \E g \in Records : HasRecord(g, n) /\ tracked[g].path # where[n]
                  THEN severed \cup {n} ELSE severed
    /\ UNCHANGED <<hinting, where, notion, state, work>>

(* A note that was deleted does not come back. *)
CreateNote(n, p) ==
    /\ VaultChange
    /\ where[n] = Nowhere /\ version[n] = 0 /\ \A g \in Pages : ~HasRecord(g, n)
    /\ n \notin severed
    /\ NotesAt(p) = {}
    /\ where' = [where EXCEPT ![n] = p]
    /\ severed' = severed \cup SeveredBy(n, p, p)
    /\ UNCHANGED <<hinting, version, notion, state, work>>

DeleteNote(n) ==
    /\ VaultChange
    /\ where[n] # Nowhere
    /\ where' = [where EXCEPT ![n] = Nowhere]
    /\ hints' = IF hinting THEN [hints EXCEPT ![where[n]] = Nowhere] ELSE hints
    /\ severed' = severed \cup {n}
    /\ UNCHANGED <<hinting, version, notion, tracked, torn, work>>
--------------------------------------------------------------------------------
(* The scan. *)

ListFiles ==
    /\ listing = NoListing /\ plan = NoPlan /\ tasks = {}
    /\ listing' = {<<p, TextAt(p)>> : p \in Files}
    /\ calm' = TRUE
    /\ UNCHANGED <<world, notion, state, plan, tasks, severed>>

Missing == {g \in Records : tracked[g].path \notin Listed}
UntrackedFiles == {p \in Listed : RecordAt(p) = {}}
Sending(g) == tracked[g].origin \notin {Nowhere, tracked[g].path}

(* Mutant of MustRead: only size and mtime decide. *)
MustReadByStat == {f[1] : f \in {l \in listing : \E g \in RecordAt(l[1]) :
                               tracked[g].text # l[2]}}

(* A file whose size and mtime were those of the last sync is not read, unless a move *)
(* of it has still to be sent: a rename changes neither.                              *)
MustRead == {f[1] : f \in {l \in listing : \E g \in RecordAt(l[1]) :
                               Sending(g) \/ tracked[g].text # l[2]}}

(* Pairs of a missing record and an untracked file, no note and no file in two. *)
OneToOne(R) == \A r, q \in R : (r[1] = q[1]) <=> (r[2] = q[2])
Matchings(R) == {S \in SUBSET R : OneToOne(S)}
Fullest(R) == {S \in Matchings(R) : \A r \in R \ S : ~OneToOne(S \cup {r})}

(* What the hint of file p, or a move that was never sent, says of its origin. *)
Claimed(p) ==
    LET at(q) == {g \in Missing : q # Nowhere /\ tracked[g].path = q}
        of(q) == {g \in Missing : q # Nowhere /\ tracked[g].origin = q}
    IN  IF at(hints[p]) # {} THEN at(hints[p])
        ELSE IF of(hints[p]) # {} THEN of(hints[p]) ELSE of(p)

ByHint == {r \in Missing \X UntrackedFiles : r[1] \in Claimed(r[2])}
ByText(S) ==
    {r \in Missing \X UntrackedFiles :
        /\ tracked[r[1]].text = TextAt(r[2])
        /\ \A q \in S : q[1] # r[1] /\ q[2] # r[2]}
Alike(S) ==
    {r \in Missing \X UntrackedFiles :
        /\ tracked[r[1]].text[1] = TextAt(r[2])[1]
        /\ Dir(tracked[r[1]].path) = Dir(r[2]) \/ Name(tracked[r[1]].path) = Name(r[2])
        /\ \A q \in S : q[1] # r[1] /\ q[2] # r[2]}

(* pairLocalMoves.  Which of two files a note gets depends on their names, and whether *)
(* two texts are alike on their words: any choice.                                     *)
Pairings ==
    UNION {{S \cup T : T \in Matchings(Alike(S))} :
           S \in UNION {{H \cup T : T \in Fullest(ByText(H))} : H \in Fullest(ByHint)}}

Task(kind, at, from, text) ==
    [kind |-> kind, at |-> at, from |-> from, text |-> text,
     step |-> "start", dir |-> "same", name |-> "same", again |-> FALSE]

NoText == <<>>

(* ChangeDetector.assemble *)
Changes(pairs) ==
    {Task("created", p, Nowhere, TextAt(p)) : p \in {q \in UntrackedFiles : \A r \in pairs : r[2] # q}}
    \cup {Task("deleted", tracked[g].path, Nowhere, NoText) :
             g \in {h \in Missing : \A r \in pairs : r[1] # h}}
    \cup {Task("moved", r[2], LastKnown(r[1]), TextAt(r[2])) :
             r \in {q \in pairs : LastKnown(q[1]) # q[2]}}
    \cup {Task("modified", r[2], Nowhere, TextAt(r[2])) :
             r \in {q \in pairs : LastKnown(q[1]) = q[2] /\ tracked[q[1]].text # TextAt(q[2])}}
    \cup {Task("moved", tracked[g].path, tracked[g].origin, TextAt(tracked[g].path)) :
             g \in {h \in Records : tracked[h].path \in MustRead /\ Sending(h)}}
    \cup {Task("modified", tracked[g].path, Nowhere, TextAt(tracked[g].path)) :
             g \in {h \in Records : /\ tracked[h].path \in MustRead /\ ~Sending(h)
                                    /\ tracked[h].text # TextAt(tracked[h].path)}}

(* A file that has gone since it was listed fails the push when it has to be read. *)
MakePlan ==
    /\ listing # NoListing
    /\ listing' = NoListing
    /\ IF UntrackedFiles \cup MustRead \subseteq Files
       THEN \E pairs \in Pairings :
              plan' = [hints |-> hints, pairs |-> pairs, changes |-> Changes(pairs)]
       ELSE UNCHANGED plan
    /\ UNCHANGED <<world, notion, state, tasks, severed, calm>>

(* Mutant of Adopted: every adoption starts its operation from the path it leaves. *)
AdoptedAnew(g, to) ==
    [tracked[g] EXCEPT !.path = to, !.origin = tracked[g].path]

(* LocalPlanner.moveRecord: the operation keeps the place Notion was told of, and is *)
(* closed when the note is back there.                                               *)
Adopted(g, to) ==
    [tracked[g] EXCEPT !.path = to,
                       !.origin = IF LastKnown(g) = to THEN Nowhere ELSE LastKnown(g)]

(* Mutant of Pruned: hints written while the scan ran are dropped too. *)
PrunedAll == [p \in Paths |-> Nowhere]

(* Only the hints this run has read. *)
Pruned == [p \in Paths |-> IF hints[p] = plan.hints[p] THEN Nowhere ELSE hints[p]]

(* LocalPlanner.adoptLocalMoves, one transaction. *)
Adopt ==
    /\ plan # NoPlan
    /\ plan' = NoPlan
    /\ tasks' = plan.changes
    /\ hints' = Pruned
    /\ tracked' = [g \in Pages |->
          IF \E r \in plan.pairs : r[1] = g
          THEN Adopted(g, (CHOOSE r \in plan.pairs : r[1] = g)[2])
          ELSE IF g \in Records /\ tracked[g].origin = tracked[g].path
               THEN [tracked[g] EXCEPT !.origin = Nowhere] ELSE tracked[g]]
    /\ torn' = torn \cup {g \in {r[1] : r \in plan.pairs} : PlaceOf(g) # LastKnown(g)}
    /\ UNCHANGED <<world, notion, listing, severed, calm>>
--------------------------------------------------------------------------------
(* The push, one change of a note at a time; those that failed once go last. *)

Ready(j) == j \in tasks /\ (j.again => \A k \in tasks : k.again)
TaskDone(j) == tasks' = tasks \ {j}
OnTo(j, next) == tasks' = (tasks \ {j}) \cup {next}
On(j, kind, step) == Ready(j) /\ j.kind = kind /\ j.step = step
DuringPush == UNCHANGED <<world, misses, hints, torn, listing, plan, severed, calm>>

(* pushUpdate sends the file as it is now. *)
SendFile(g, p) ==
    /\ p \in Files
    /\ onNotion' = [onNotion EXCEPT ![g].text = TextAt(p)]
    /\ tracked' = [tracked EXCEPT ![g].text = TextAt(p)]

(* The ids Notion has not given to a page yet; a bound where there are few. *)
Unused == {g \in Pages : onNotion[g] = Gone /\ tracked[g] = Untracked}

(* A path that has a record by now is updated. *)
PushCreate(j) ==
    /\ On(j, "created", "start") /\ j.at \in Files
    /\ IF RecordAt(j.at) # {}
       THEN \E g \in RecordAt(j.at) : SendFile(g, j.at)
       ELSE LET g == CHOOSE h \in Unused : TRUE
            IN  /\ Unused # {}
                /\ onNotion' = [onNotion EXCEPT ![g] = [text |-> TextAt(j.at),
                                                dir |-> Dir(j.at), name |-> Name(j.at)]]
                /\ tracked' = [tracked EXCEPT ![g] =
                        [path |-> j.at, text |-> TextAt(j.at), dir |-> Dir(j.at), origin |-> Nowhere]]
    /\ TaskDone(j) /\ DuringPush

PushUpdate(j) ==
    /\ On(j, "modified", "start")
    /\ \E g \in RecordAt(j.at) : SendFile(g, j.at)
    /\ TaskDone(j) /\ DuringPush

(* pushDelete does not look whether the file is still missing. *)
PushDelete(j) ==
    /\ On(j, "deleted", "start")
    /\ IF RecordAt(j.at) = {}
       THEN UNCHANGED <<onNotion, tracked>>
       ELSE \E g \in RecordAt(j.at) :
              /\ onNotion' = [onNotion EXCEPT ![g] = Gone]
              /\ tracked' = [tracked EXCEPT ![g] = Untracked]
    /\ TaskDone(j) /\ DuringPush

(* titleAfterMove: a title that follows the old name follows the new one. *)
NewName(g, from, to) ==
    IF onNotion[g].name = Name(from) /\ Name(to) # Name(from) THEN Name(to) ELSE "same"

(* pushMove reads the record, the operation and the page. *)
StartMove(j) ==
    /\ On(j, "moved", "start")
    /\ \E g \in RecordAt(j.at) :
         LET from == IF tracked[g].origin = Nowhere THEN j.from ELSE tracked[g].origin
             dir  == IF Dir(j.at) = tracked[g].dir THEN "same" ELSE Dir(j.at)
         IN  OnTo(j, [j EXCEPT !.step = "parent", !.dir = dir, !.name = NewName(g, from, j.at)])
    /\ UNCHANGED <<onNotion, tracked>> /\ DuringPush

MovePage(j) ==
    /\ On(j, "moved", "parent")
    /\ OnTo(j, [j EXCEPT !.step = "title"])
    /\ \E g \in RecordAt(j.at) :
         onNotion' = IF j.dir = "same" THEN onNotion ELSE [onNotion EXCEPT ![g].dir = j.dir]
    /\ UNCHANGED tracked /\ DuringPush

SetTitle(j) ==
    /\ On(j, "moved", "title")
    /\ OnTo(j, [j EXCEPT !.step = "store"])
    /\ \E g \in RecordAt(j.at) :
         onNotion' = IF j.name = "same" THEN onNotion ELSE [onNotion EXCEPT ![g].name = j.name]
    /\ UNCHANGED tracked /\ DuringPush

(* Mutant of StoredParent: a page that stays where it is loses its parent. *)
StoredParentOrNone(g, j) == j.dir

StoredParent(g, j) == IF j.dir = "same" THEN tracked[g].dir ELSE j.dir

(* relocatePage's transaction; a note that was edited too is then sent. *)
StoreMove(j) ==
    /\ On(j, "moved", "store")
    /\ \E g \in RecordAt(j.at) :
         /\ tracked' = [tracked EXCEPT ![g].origin = Nowhere,
                                       ![g].dir = StoredParent(g, j)]
         /\ IF tracked[g].text = j.text THEN TaskDone(j) ELSE OnTo(j, [j EXCEPT !.step = "body"])
    /\ UNCHANGED onNotion /\ DuringPush

SendMoved(j) ==
    /\ On(j, "moved", "body")
    /\ \E g \in RecordAt(j.at) : SendFile(g, j.at)
    /\ TaskDone(j) /\ DuringPush

(* Tried once more from the beginning, then left to the next push. *)
FailedOnce(j) ==
    IF j.again THEN TaskDone(j)
    ELSE OnTo(j, [j EXCEPT !.step = "start", !.dir = "same", !.name = "same", !.again = TRUE])

(* A request fails, or only its answer is lost: then the step before has been taken. *)
Misses(j) ==
    /\ misses < MaxMisses
    /\ misses' = misses + 1
    /\ Ready(j) /\ FailedOnce(j) /\ calm' = FALSE
    /\ UNCHANGED <<world, onNotion, state, listing, plan, severed>>

(* The file to send is not there any more. *)
FileIsGone(j) ==
    /\ Ready(j)
    /\ j.at \notin Files
    /\ j.step = "body" \/ (j.step = "start" /\ j.kind \in {"created", "modified"})
    /\ FailedOnce(j) /\ calm' = FALSE
    /\ UNCHANGED <<world, notion, state, listing, plan, severed>>

PushDies ==
    /\ misses < MaxMisses
    /\ misses' = misses + 1
    /\ Planning \/ tasks # {}
    /\ listing' = NoListing /\ plan' = NoPlan /\ tasks' = {} /\ calm' = FALSE
    /\ UNCHANGED <<world, onNotion, state, severed>>

People ==
    \/ \E n \in Notes, p \in Paths : Rename(n, p) \/ CreateNote(n, p)
    \/ \E n \in Notes : EditNote(n) \/ DeleteNote(n)

PushStep ==
    \E j \in tasks :
        \/ PushCreate(j) \/ PushUpdate(j) \/ PushDelete(j)
        \/ StartMove(j) \/ MovePage(j) \/ SetTitle(j) \/ StoreMove(j) \/ SendMoved(j)
        \/ FileIsGone(j)

MovesNext ==
    \/ People
    \/ ListFiles \/ MakePlan \/ Adopt \/ PushStep
    \/ (\E j \in tasks : Misses(j)) \/ PushDies

MovesSpec == MovesInit /\ [][MovesNext]_movesVars

--------------------------------------------------------------------------------
MovesTypeOK ==
    /\ hinting \in BOOLEAN
    /\ where \in [Notes -> Paths \cup {Nowhere}]
    /\ version \in [Notes -> 0..MaxChanges]
    /\ changed \in 0..MaxChanges /\ misses \in 0..MaxMisses
    /\ hints \in [Paths -> Paths \cup {Nowhere}]
    /\ onNotion \in [Pages -> NotionPage \cup {Gone}]
    /\ tracked \in [Pages -> Tracking \cup {Untracked}]
    /\ severed \subseteq Notes /\ torn \subseteq Pages

(* However a note is renamed and edited, and whatever fails in between, the scan ties *)
(* it to its page: no second page is made for it and its page is not trashed.         *)
NoteKeepsItsPage ==
    \A n \in Notes \ severed :
        /\ \A g, h \in Pages : HasRecord(g, n) /\ HasRecord(h, n) => g = h
        /\ \A g \in Pages : onNotion[g] # Gone /\ onNotion[g].text[1] = n => HasRecord(g, n)
        /\ \A j \in tasks : j.kind = "deleted" => \A g \in RecordAt(j.at) : ~HasRecord(g, n)

(* A page without an open operation is where the state DB has its note, and one with *)
(* an open operation has not left the way from the place Notion was last told of.    *)
PageWhereRecorded ==
    \A g \in Records \ torn :
        /\ tracked[g].origin = Nowhere => PlaceOf(g) = tracked[g].path
        /\ onNotion[g].dir \in {Dir(LastKnown(g)), Dir(tracked[g].path)}
        /\ onNotion[g].name \in {Name(LastKnown(g)), Name(tracked[g].path)}

(* One push that nothing disturbs, whatever was left half done before it, brings every *)
(* note's page to the note's place with its text.                                      *)
CalmPushArrives ==
    calm /\ ~Planning /\ tasks = {} =>
        \A n \in Notes \ severed :
            where[n] # Nowhere =>
                \E g \in Records : /\ onNotion[g].text = Text(n)
                                   /\ g \in torn \/ PlaceOf(g) = where[n]
================================================================================
