------------------------------ MODULE FolderPages ------------------------------
(***************************************************************************)
(* The pages of folders.  A push that makes pages for new notes sees first *)
(* that each folder above them has one (FolderPlacement.prepareFolders):   *)
(* the page of its folder note, a page made for the folder alone, or that  *)
(* of the note beside it that has its name.  Then the notes are created    *)
(* side by side (PagePusher.pushCreate), and what failed is tried again.   *)
(* Answers get lost, the process dies, pushes are limited to some paths,   *)
(* and people add notes at any time: a folder note, too, to a folder that  *)
(* has a page already.                                                     *)
(*                                                                         *)
(* A path is a sequence of names: x/y.md is <<x, y>>, and so is the folder *)
(* x/y.  Databases, renames, pulls and what is in a page are not here, and *)
(* what two searches do to each other is in InterruptedCreate.             *)
(***************************************************************************)
EXTENDS Naturals, Sequences

CONSTANTS
    NoteSets,      \* the notes people write are one of these sets of paths
    MaxMishaps     \* bound: requests that fail and deaths

ASSUME FoldersAssumption ==
    /\ \A p \in UNION NoteSets : p \in Seq({p[i] : i \in DOMAIN p}) /\ p # <<>>
    /\ MaxMishaps \in Nat

VARIABLES
    toWrite,    \* the notes people will write, of NoteSets
    inVault,    \* those they have written
    made,       \* the pages made, in the order a parent lists them: parent, title, for whom
    pageId,     \* notion_page_id of each record; 0: null, or no record
    openCreate, \* the parent in the open create operation of a note, as a set
    pushing,    \* no, recover, prepare, pool
    toRecover,  \* the operations this recovery has still to look at
    newNotes,   \* the notes this pass has to create
    toPrepare,  \* folders it has still to see to
    unprepared, \* unpreparedFolders
    atFolder,   \* the folder whose note is being pushed first
    early,      \* pushed: the notes pushed before the pool
    making,     \* where pushCreate of each note is, and under which page it makes it
    secondPass,
    mishaps,
    smooth      \* ghost: the last push was of all notes, nothing failed, nobody wrote since it began

noteVars == <<toWrite, inVault>>
records == <<pageId, openCreate>>
onePass == <<newNotes, toPrepare, unprepared, atFolder, early, making>>
folderVars == <<noteVars, made, records, onePass, pushing, toRecover, secondPass, mishaps, smooth>>

Top == <<>>      \* the top of the vault
RootPage == 0    \* rootPageId
Off == [at |-> "off", under |-> RootPage]

TitleOf(p) == p[Len(p)]
FolderOf(p) == SubSeq(p, 1, Len(p) - 1)
Above(p) == {SubSeq(p, 1, i) : i \in 1..(Len(p) - 1)}

FolderNote(f) == Append(f, TitleOf(f))
IsFolderNote(p) == FolderOf(p) # Top /\ p = FolderNote(FolderOf(p))

NotePaths == UNION NoteSets
FolderPaths == UNION {Above(p) : p \in NotePaths}

(* The records: of a note, and of a folder that has a page of its own. *)
File(p) == <<"file", p>>
Alone(f) == <<"folder", f>>
Owners == {File(p) : p \in NotePaths} \cup {Alone(f) : f \in FolderPaths}

HasPage(r) == r \in Owners /\ pageId[r] # 0
Claims == {pageId[r] : r \in Owners}

(* The page of a folder, as a set: empty while it has none. *)
PageAt(f) ==
    IF f = Top THEN {RootPage}
    ELSE IF HasPage(File(FolderNote(f))) THEN {pageId[File(FolderNote(f))]}
    ELSE IF HasPage(Alone(f)) THEN {pageId[Alone(f)]}
    ELSE IF HasPage(File(f)) THEN {pageId[File(f)]}
    ELSE {}

(* Mutant of ParentOf: what has no place goes below the root. *)
ParentOrRoot(p) ==
    LET f == FolderOf(p)
        above == PageAt(IF IsFolderNote(p) /\ PageAt(f) = {} THEN FolderOf(f) ELSE f) IN
    IF above = {} THEN {RootPage} ELSE above

(* Where a new note goes; nowhere while its folder has no page.  A folder  *)
(* note without a place of the folder stands where the folder would.       *)
ParentOf(p) ==
    LET f == FolderOf(p) IN
    IF ~IsFolderNote(p) THEN PageAt(f)
    ELSE IF HasPage(Alone(f)) THEN {}
    ELSE IF PageAt(f) = {} THEN PageAt(FolderOf(f))
    ELSE PageAt(f)

(* findChildPageByTitle: the first child of that title that no record names. *)
Unclaimed(parent, title) ==
    {i \in DOMAIN made : made[i].parent = parent /\ made[i].title = title /\ i \notin Claims}
FirstOf(S) == CHOOSE i \in S : \A j \in S : i <= j

FoldersInit ==
    /\ toWrite \in NoteSets
    /\ inVault = {}
    /\ made = <<>>
    /\ pageId = [r \in Owners |-> 0]
    /\ openCreate = [p \in NotePaths |-> {}]
    /\ pushing = "no" /\ toRecover = {} /\ secondPass = FALSE
    /\ newNotes = {} /\ toPrepare = {} /\ unprepared = {} /\ atFolder = Top /\ early = {}
    /\ making = [p \in NotePaths |-> Off]
    /\ mishaps = 0 /\ smooth = FALSE
--------------------------------------------------------------------------------
WritesNote(p) ==
    /\ p \in toWrite \ inVault
    /\ inVault' = inVault \cup {p}
    /\ smooth' = FALSE
    /\ UNCHANGED <<toWrite, made, records, onePass, pushing, toRecover, secondPass, mishaps>>

Mishap == mishaps < MaxMishaps /\ mishaps' = mishaps + 1 /\ smooth' = FALSE
Calm == UNCHANGED <<mishaps, smooth>>
--------------------------------------------------------------------------------
(* What a push begins with: recoverInterruptedPushOps. *)

StartsPush ==
    /\ pushing = "no"
    /\ pushing' = "recover"
    /\ toRecover' = {p \in NotePaths : openCreate[p] # {}}
    /\ smooth' = TRUE
    /\ UNCHANGED <<noteVars, made, records, onePass, secondPass, mishaps>>

(* Of the parent that the operation names, not of the one the note would have now. *)
RecoversNote(p) ==
    /\ pushing = "recover" /\ p \in toRecover
    /\ toRecover' = toRecover \ {p}
    /\ \E parent \in openCreate[p] :
          LET found == Unclaimed(parent, TitleOf(p)) IN
          pageId' = [pageId EXCEPT ![File(p)] = IF found = {} THEN 0 ELSE FirstOf(found)]
    /\ openCreate' = [openCreate EXCEPT ![p] = {}]
    /\ Calm
    /\ UNCHANGED <<noteVars, made, onePass, pushing, secondPass>>

(* A list that cannot be read is not an empty list: the operation stays. *)
CannotRecover(p) ==
    /\ pushing = "recover" /\ p \in toRecover
    /\ toRecover' = toRecover \ {p}
    /\ Mishap
    /\ UNCHANGED <<noteVars, made, records, onePass, pushing, secondPass>>

BeginsPass(S) ==
    /\ newNotes' = S
    /\ toPrepare' = UNION {Above(p) : p \in S}
    /\ unprepared' = {} /\ atFolder' = Top /\ early' = {}
    /\ making' = [p \in NotePaths |-> Off]

(* All that is new, or what the push was limited to. *)
BeginsFirstPass ==
    /\ pushing = "recover" /\ toRecover = {}
    /\ LET changes == {p \in inVault : ~HasPage(File(p))} IN
       \E S \in SUBSET changes : BeginsPass(S) /\ smooth' = (smooth /\ S = changes)
    /\ pushing' = "prepare"
    /\ UNCHANGED <<noteVars, made, records, toRecover, secondPass, mishaps>>
--------------------------------------------------------------------------------
(* prepareFolders: one folder after the other, the upper ones first. *)

SeesTo(f) ==
    /\ pushing = "prepare" /\ atFolder = Top
    /\ f \in toPrepare /\ \A g \in toPrepare : Len(f) <= Len(g)
    /\ UNCHANGED <<noteVars, openCreate, newNotes, pushing, toRecover, secondPass>>

Through(f) == toPrepare' = toPrepare \ {f} /\ UNCHANGED <<atFolder, early, making>>
WithPage(f) == Through(f) /\ UNCHANGED unprepared
WithoutPage(f) == Through(f) /\ unprepared' = unprepared \cup {f}

InheritsReason(f) ==
    /\ SeesTo(f) /\ Above(f) \cap unprepared # {}
    /\ WithoutPage(f) /\ Calm
    /\ UNCHANGED <<made, pageId>>

Prepares(f) == SeesTo(f) /\ Above(f) \cap unprepared = {}

(* The note beside the folder, or else its folder note, is pushed before the others.  A *)
(* note that was pushed first for the folder above, and failed, does not come here: the *)
(* folder inherits the reason.                                                          *)
NoteToPushFirst(f) ==
    IF PageAt(f) # {} THEN {} ELSE IF f \in newNotes THEN {f} ELSE {FolderNote(f)} \cap newNotes

PushesFirst(f) ==
    /\ Prepares(f)
    /\ \E p \in NoteToPushFirst(f) :
          /\ early' = early \cup {p}
          /\ making' = [making EXCEPT ![p].at = "start"]
    /\ atFolder' = f
    /\ Calm
    /\ UNCHANGED <<made, pageId, toPrepare, unprepared>>

HasPushedFirst ==
    /\ atFolder # Top
    /\ \A p \in early : making[p].at \in {"done", "failed"}
    /\ atFolder' = Top
    /\ toPrepare' = toPrepare \ {atFolder}
    /\ unprepared' = unprepared \cup (IF PageAt(atFolder) = {} THEN {atFolder} ELSE {})
    /\ Calm
    /\ UNCHANGED <<noteVars, made, records, newNotes, early, making, pushing, toRecover, secondPass>>

(* adoptFolderPage *)
MayAdopt(f) ==
    /\ FolderNote(f) \in newNotes
    /\ HasPage(Alone(f)) /\ ~HasPage(File(FolderNote(f)))
    /\ openCreate[FolderNote(f)] = {}

Adopts(f) ==
    /\ Prepares(f) /\ MayAdopt(f)
    /\ pageId' = [pageId EXCEPT ![File(FolderNote(f))] = pageId[Alone(f)], ![Alone(f)] = 0]
    /\ WithPage(f) /\ Calm
    /\ UNCHANGED made

HasPlace(f) ==
    /\ Prepares(f) /\ ~MayAdopt(f)
    /\ PageAt(f) # {}
    /\ WithPage(f) /\ Calm
    /\ UNCHANGED <<made, pageId>>

(* ensureFolderPage: not while the page of the folder note may exist. *)
MayMake(f) ==
    /\ PageAt(f) = {} /\ NoteToPushFirst(f) = {}
    /\ FolderNote(f) \in NotePaths => openCreate[FolderNote(f)] = {}

WaitsForNote(f) ==
    /\ Prepares(f)
    /\ PageAt(f) = {} /\ NoteToPushFirst(f) = {} /\ ~MayMake(f)
    /\ WithoutPage(f) /\ Calm
    /\ UNCHANGED <<made, pageId>>

FindsFolderPage(f) ==
    /\ Prepares(f) /\ MayMake(f)
    /\ \E parent \in PageAt(FolderOf(f)) :
          LET found == Unclaimed(parent, TitleOf(f)) IN
          found # {} /\ pageId' = [pageId EXCEPT ![Alone(f)] = FirstOf(found)]
    /\ WithPage(f) /\ Calm
    /\ UNCHANGED made

(* Mutant of MakesFolderPage: nobody looks for the page of an attempt whose answer was lost. *)
MakesFolderPageUnseen(f) ==
    /\ Prepares(f) /\ MayMake(f)
    /\ \E parent \in PageAt(FolderOf(f)) :
          made' = Append(made, [parent |-> parent, title |-> TitleOf(f), for |-> Alone(f)])
    /\ \/ /\ pageId' = [pageId EXCEPT ![Alone(f)] = Len(made')]
          /\ WithPage(f) /\ Calm
       \/ WithoutPage(f) /\ Mishap /\ UNCHANGED pageId

(* There is no journal of it: when the answer is lost, so is the page's number. *)
MakesFolderPage(f) ==
    /\ Prepares(f) /\ MayMake(f)
    /\ \E parent \in PageAt(FolderOf(f)) :
          /\ Unclaimed(parent, TitleOf(f)) = {}
          /\ made' = Append(made, [parent |-> parent, title |-> TitleOf(f), for |-> Alone(f)])
    /\ \/ /\ pageId' = [pageId EXCEPT ![Alone(f)] = Len(made')]
          /\ WithPage(f) /\ Calm
       \/ WithoutPage(f) /\ Mishap /\ UNCHANGED pageId

FolderFails(f) ==
    /\ Prepares(f) /\ MayMake(f)
    /\ WithoutPage(f) /\ Mishap
    /\ UNCHANGED <<made, pageId>>
--------------------------------------------------------------------------------
(* pushCreate *)

BeginsPool ==
    /\ pushing = "prepare" /\ toPrepare = {} /\ atFolder = Top
    /\ pushing' = "pool"
    /\ making' = [p \in NotePaths |->
                     IF p \in newNotes \ early THEN [Off EXCEPT !.at = "start"] ELSE making[p]]
    /\ Calm
    /\ UNCHANGED <<noteVars, made, records, newNotes, toPrepare, unprepared, atFolder, early,
                   toRecover, secondPass>>

Makes(p, step) ==
    /\ making[p].at = step
    /\ UNCHANGED <<noteVars, newNotes, toPrepare, unprepared, atFolder, early, pushing, toRecover,
                   secondPass>>

MakingIs(p, step) == making' = [making EXCEPT ![p].at = step]

(* A note that was given the page of its folder is updated instead. *)
IsUpdated(p) ==
    /\ Makes(p, "start")
    /\ HasPage(File(p))
    /\ MakingIs(p, "done") /\ Calm
    /\ UNCHANGED <<made, records>>

HasNoParent(p) ==
    /\ Makes(p, "start")
    /\ ~HasPage(File(p)) /\ ParentOf(p) = {}
    /\ MakingIs(p, "failed") /\ Calm
    /\ UNCHANGED <<made, records>>

(* An open operation stays as it is: it names the parent of the first attempt. *)
OpensCreate(p) ==
    /\ Makes(p, "start")
    /\ ~HasPage(File(p))
    /\ \E parent \in ParentOf(p) :
          IF openCreate[p] = {}
          THEN /\ openCreate' = [openCreate EXCEPT ![p] = {parent}]
               /\ making' = [making EXCEPT ![p] = [at |-> "create", under |-> parent]]
          ELSE /\ making' = [making EXCEPT ![p] = [at |-> "search", under |-> parent]]
               /\ UNCHANGED openCreate
    /\ Calm
    /\ UNCHANGED <<made, pageId>>

Mapped(p, i) ==
    /\ pageId' = [pageId EXCEPT ![File(p)] = i]
    /\ openCreate' = [openCreate EXCEPT ![p] = {}]
    /\ MakingIs(p, "done")

SearchesNote(p) ==
    /\ Makes(p, "search")
    /\ LET found == Unclaimed(making[p].under, TitleOf(p)) IN
       IF found # {} THEN Mapped(p, FirstOf(found)) ELSE MakingIs(p, "create") /\ UNCHANGED records
    /\ Calm
    /\ UNCHANGED made

CreatesNote(p) ==
    /\ Makes(p, "create")
    /\ made' = Append(made, [parent |-> making[p].under, title |-> TitleOf(p), for |-> File(p)])
    /\ \/ Mapped(p, Len(made')) /\ Calm
       \/ MakingIs(p, "failed") /\ Mishap /\ UNCHANGED records

NoteFails(p) ==
    /\ \E step \in {"search", "create"} : Makes(p, step)
    /\ MakingIs(p, "failed") /\ Mishap
    /\ UNCHANGED <<made, records>>

(* What failed is tried once more, from the folders on. *)
EndsPass ==
    /\ pushing = "pool"
    /\ \A p \in newNotes : making[p].at \in {"done", "failed"}
    /\ LET failed == {p \in newNotes : making[p].at = "failed"} IN
       IF failed # {} /\ ~secondPass
       THEN pushing' = "prepare" /\ secondPass' = TRUE /\ BeginsPass(failed)
       ELSE pushing' = "no" /\ secondPass' = FALSE /\ BeginsPass({})
    /\ Calm
    /\ UNCHANGED <<noteVars, made, records, toRecover>>

Dies ==
    /\ pushing # "no"
    /\ Mishap
    /\ pushing' = "no" /\ toRecover' = {} /\ secondPass' = FALSE /\ BeginsPass({})
    /\ UNCHANGED <<noteVars, made, records>>
--------------------------------------------------------------------------------
Preparing(f) ==
    \/ InheritsReason(f) \/ PushesFirst(f) \/ Adopts(f) \/ HasPlace(f)
    \/ WaitsForNote(f) \/ FindsFolderPage(f) \/ MakesFolderPage(f) \/ FolderFails(f)

CreatingNote(p) ==
    \/ IsUpdated(p) \/ HasNoParent(p) \/ OpensCreate(p) \/ SearchesNote(p) \/ CreatesNote(p)
    \/ NoteFails(p)

FoldersNext ==
    \/ \E p \in NotePaths : WritesNote(p) \/ RecoversNote(p) \/ CannotRecover(p) \/ CreatingNote(p)
    \/ \E f \in FolderPaths : Preparing(f)
    \/ StartsPush \/ BeginsFirstPass \/ HasPushedFirst \/ BeginsPool \/ EndsPass \/ Dies

FoldersSpec == FoldersInit /\ [][FoldersNext]_folderVars
--------------------------------------------------------------------------------
FoldersTypeOK ==
    /\ toWrite \in NoteSets /\ inVault \subseteq toWrite
    /\ \A i \in DOMAIN made : made[i].parent \in 0..(i - 1) /\ made[i].for \in Owners
    /\ pageId \in [Owners -> 0..Len(made)]
    /\ openCreate \in [NotePaths -> SUBSET (0..Len(made))]
    /\ pushing \in {"no", "recover", "prepare", "pool"}
    /\ toRecover \cup newNotes \cup early \subseteq NotePaths
    /\ toPrepare \cup unprepared \cup {atFolder} \subseteq FolderPaths \cup {Top}
    /\ \A p \in NotePaths : making[p].at \in {"off", "start", "search", "create", "done", "failed"}
    /\ mishaps \in 0..MaxMishaps

(* A page for v would be one for w made again: the same note or folder, or the folder of the note. *)
Again(w, v) == w = v \/ \E f \in FolderPaths : w = File(FolderNote(f)) /\ v = Alone(f)

(* The records of a folder: that of its own page, and that of its folder note. *)
SameFolder(r, s) == \E f \in FolderPaths : {r, s} \subseteq {File(FolderNote(f)), Alone(f)}

(* A page has become that of something else than v and the note or folder that goes with it. *)
GivenAway(i, v) == \E r \in Owners : pageId[r] = i /\ r # v /\ ~SameFolder(r, v)

(* A page is made a second time for the same note or for the same folder, or for a folder   *)
(* after its folder note, only if the first one has become the page of something else: no   *)
(* lost answer, death, limited push or retry leaves a page behind and makes another.        *)
NoPageMadeTwice ==
    \A j \in DOMAIN made : \A i \in 1..(j - 1) :
        Again(made[i].for, made[j].for) => GivenAway(i, made[j].for)

(* Whatever went wrong before, a push of everything that nothing disturbs gives every note  *)
(* its page, below the page of its folder: a folder note is the page of its folder, which   *)
(* is below that of the folder above, also if the folder had a page before it had the note. *)
CalmPushPlaces ==
    pushing = "no" /\ smooth =>
        \A p \in inVault :
            /\ HasPage(File(p))
            /\ LET home == IF IsFolderNote(p) THEN FolderOf(FolderOf(p)) ELSE FolderOf(p) IN
               PageAt(home) = {made[pageId[File(p)]].parent}
================================================================================
