--------------------------- MODULE ConflictResolution ---------------------------
(***************************************************************************)
(* One note in conflict (strategy manual): how a pull makes it one, how the*)
(* resolve command and the plugin list it, ask, write the answer and send  *)
(* it to Notion, and what people change meanwhile in the file and in the   *)
(* page.  A text is the set of edits it holds; Marks are the conflict      *)
(* markers a merge leaves in it.  Pull and push are whole steps here, for  *)
(* no other operation runs beside a resolution: their own steps are the    *)
(* matter of NoteSync.                                                     *)
(***************************************************************************)
EXTENDS Naturals

CONSTANTS
    Marks,      \* the conflict markers of a merge
    Absent,     \* no file; no fingerprint
    NoRecord,   \* the note is not tracked
    MaxWritten, \* bound: edits of the file and of the page
    MaxTrouble  \* bound: failed requests and deaths

Edits == 1..MaxWritten
TextSets == SUBSET (Edits \cup {Marks})
NoteRecords == [base : TextSets, time : Nat, print : TextSets \cup {Absent}, sure : BOOLEAN,
                status : {"synced", "conflict"}]

ASSUME ConflictAssumption ==
    /\ MaxWritten \in Nat /\ MaxTrouble \in Nat
    /\ Marks \notin Nat /\ NoRecord \notin NoteRecords
    /\ \A t \in TextSets : t # Absent

Choices == {"local", "remote", "merge", "duplicate"}
Why == {"choice", "trash", "race", "minute", "between", "reread", "marks", "death", "seen"}

VARIABLES
    uploads,  \* config.sync.direction # "pull"
    note,     \* the file
    copies,   \* the edits in its .conflict copies
    page,     \* text, time (the minute of its last edit), gone (trash)
    rec,      \* base, time, print, sure (the stamp is settled), status
    list,     \* the Conflict that was listed, the answer, what is sent and its fingerprint
    stage,    \* where the resolution is
    written,  \* edits so far
    trouble,  \* failed requests and deaths so far
    gave,     \* ghost: edits given up, by what made them go
    unsent    \* ghost: a text stored as `base` that no page holds, and why

people   == <<written, note, page>>
ghosts   == <<gave, unsent>>
conflictVars == <<uploads, people, copies, rec, list, stage, trouble, ghosts>>

Blank == [local |-> {}, remote |-> {}, time |-> 0, gone |-> FALSE, base |-> {},
          answer |-> "local", marked |-> FALSE, sent |-> {}, print |-> {}]
None == [why |-> "choice", text |-> Absent]

ConflictInit ==
    /\ uploads \in BOOLEAN
    /\ note = {} /\ copies = {}
    /\ page = [text |-> {}, time |-> 0, gone |-> FALSE]
    /\ rec = [base |-> {}, time |-> 0, print |-> {}, sure |-> TRUE, status |-> "synced"]
    /\ list = Blank /\ stage = "idle"
    /\ written = 0 /\ trouble = 0
    /\ gave = [w \in Why |-> {}] /\ unsent = None

Tracked == rec # NoRecord

(* verdict: the stamp is the recorded one and no later edit can carry it. *)
Unchanged == rec.sure /\ rec.time = page.time

(* The resolution is over; what was listed is forgotten. *)
Rests == stage' = "idle" /\ list' = Blank

GivesUp(why, S) == [gave EXCEPT ![why] = @ \cup (S \ {Marks})]
GivesUpBoth(w, S, v, T) ==
    [gave EXCEPT ![w] = @ \cup (S \ {Marks}), ![v] = @ \cup (T \ {Marks})]

(* What goes because `base` is a text no page holds. *)
GivesUpUnsent(S) == IF rec.base = unsent.text THEN GivesUp(unsent.why, S) ELSE gave
--------------------------------------------------------------------------------
(* People. *)

OneMore == /\ written < MaxWritten /\ written' = written + 1

EditsFile ==
    /\ note # Absent /\ OneMore
    /\ note' = note \cup {written'}
    /\ UNCHANGED <<uploads, page, copies, rec, list, stage, trouble, ghosts>>

(* A person takes the markers out and keeps both sides. *)
FixesMarks ==
    /\ note # Absent /\ Marks \in note
    /\ note' = note \ {Marks}
    /\ UNCHANGED <<uploads, page, written, copies, rec, list, stage, trouble, ghosts>>

(* Two edits of one minute have one stamp, unless the stamp was settled. *)
EditsPage(sameMinute) ==
    /\ ~page.gone /\ OneMore
    /\ sameMinute => ~(Tracked /\ Unchanged)
    /\ page' = [page EXCEPT !.text = @ \cup {written'},
                            !.time = IF sameMinute THEN @ ELSE @ + 1]
    /\ UNCHANGED <<uploads, note, copies, rec, list, stage, trouble, ghosts>>

TrashesPage ==
    /\ ~page.gone
    /\ page' = [page EXCEPT !.gone = TRUE]
    /\ gave' = GivesUp("trash", page.text)
    /\ UNCHANGED <<uploads, note, written, copies, rec, list, stage, trouble, unsent>>
--------------------------------------------------------------------------------
(* Pull and push. *)

Modified == note # rec.base
Same == note = page.text
Moved == page.text # rec.base /\ page.text # rec.print

(* The note takes the page's text, or has it already. *)
PullsText(sure) ==
    /\ ~Modified \/ Same
    /\ note' = page.text
    /\ rec' = [base |-> page.text, time |-> page.time, print |-> page.text,
               sure |-> sure, status |-> "synced"]
    /\ gave' = GivesUpUnsent(note \ page.text)
    /\ unsent' = None

PullsNothing(sure) ==
    /\ Modified /\ ~Same /\ ~Moved
    /\ rec' = [rec EXCEPT !.time = page.time, !.print = page.text, !.sure = sure]
    /\ UNCHANGED <<note, ghosts>>

PullsConflict ==
    /\ Modified /\ ~Same /\ Moved
    /\ rec' = [rec EXCEPT !.status = "conflict"]
    /\ UNCHANGED <<note, ghosts>>

PullsPage ==
    /\ stage = "idle" /\ Tracked /\ ~page.gone /\ ~Unchanged
    /\ \/ \E sure \in BOOLEAN : PullsText(sure) \/ PullsNothing(sure)
       \/ PullsConflict
    /\ UNCHANGED <<uploads, page, written, copies, list, stage, trouble>>

PullsDeletion ==
    /\ stage = "idle" /\ Tracked /\ page.gone
    /\ IF Modified
         THEN /\ rec' = [rec EXCEPT !.status = "conflict"]
              /\ UNCHANGED <<note, gave>>
         ELSE /\ note' = Absent /\ rec' = NoRecord
              /\ gave' = GivesUpUnsent(note)
    /\ UNCHANGED <<uploads, page, written, copies, list, stage, trouble, unsent>>

(* A pull that has nothing to look at. *)
PullsNone ==
    /\ stage = "idle" /\ (Tracked => Unchanged)
    /\ UNCHANGED conflictVars

(* The page holds the text, and the record knows: this run cannot tell its own edit *)
(* from a later one of the same minute.                                             *)
Shared(text, time) ==
    [base |-> text, time |-> time, print |-> text, sure |-> FALSE, status |-> "synced"]

Creates ==
    /\ ~Tracked /\ note # Absent
    /\ page' = [text |-> note, time |-> page.time + 1, gone |-> FALSE]
    /\ rec' = Shared(note, page'.time)
    /\ UNCHANGED <<uploads, note, written, copies, trouble, ghosts>>

PushesNew == stage = "idle" /\ uploads /\ Creates /\ Rests

Pushes ==
    /\ stage = "idle" /\ uploads /\ Tracked /\ ~page.gone
    /\ rec.status # "conflict" /\ Modified
    /\ Unchanged \/ rec.print = page.text
    /\ page' = [page EXCEPT !.text = note, !.time = @ + 1]
    /\ rec' = Shared(note, page'.time)
    /\ unsent' = None
    /\ UNCHANGED <<uploads, note, written, copies, list, stage, trouble, gave>>
--------------------------------------------------------------------------------
(* Listing. *)

ListsFile ==
    /\ stage = "idle" /\ Tracked /\ rec.status = "conflict"
    /\ list' = [Blank EXCEPT !.local = note, !.base = rec.base]
    /\ stage' = "presence"
    /\ UNCHANGED <<uploads, people, copies, rec, trouble, ghosts>>

AsksPresence ==
    /\ stage = "presence"
    /\ list' = [list EXCEPT !.gone = page.gone, !.time = page.time]
    /\ stage' = IF page.gone THEN "ask" ELSE "body"
    /\ UNCHANGED <<uploads, people, copies, rec, trouble, ghosts>>

ReadsBody ==
    /\ stage = "body"
    /\ list' = [list EXCEPT !.remote = page.text]
    /\ stage' = IF list.local = page.text THEN "stale" ELSE "ask"
    /\ UNCHANGED <<uploads, people, copies, rec, trouble, ghosts>>

(* recordUnverified: the next pull looks. *)
Unverified(r) == [r EXCEPT !.time = list.time, !.print = Absent, !.sure = FALSE]

ClearsStale ==
    /\ stage = "stale"
    /\ rec' = Unverified([rec EXCEPT !.base = list.local, !.status = "synced"])
    /\ unsent' = None
    /\ Rests
    /\ UNCHANGED <<uploads, people, copies, trouble, gave>>

(* Nobody answers, or the answer is to leave it. *)
LeavesIt ==
    /\ stage = "ask"
    /\ Rests
    /\ UNCHANGED <<uploads, people, copies, rec, trouble, ghosts>>
--------------------------------------------------------------------------------
(* The resolver. *)

Chooses(c) ==
    /\ stage = "ask"
    /\ list.gone => c \in {"local", "remote"}
    /\ list' = [list EXCEPT !.answer = c]
    /\ stage' = CASE list.gone -> "untrack"
                  [] ~list.gone /\ c = "local" -> "store"
                  [] OTHER -> "write"
    /\ UNCHANGED <<uploads, people, copies, rec, trouble, ghosts>>

(* resolveRemoteDeletion, removeTrackedNote *)
Untracks ==
    /\ stage = "untrack"
    /\ rec' = NoRecord /\ unsent' = None
    /\ IF list.answer = "remote"
         THEN /\ note' = Absent
              /\ gave' = GivesUpBoth("choice", list.local, "race", note \ list.local)
         ELSE UNCHANGED <<note, gave>>
    /\ IF list.answer = "local" /\ uploads THEN stage' = "create" /\ UNCHANGED list ELSE Rests
    /\ UNCHANGED <<uploads, page, written, copies, trouble>>

CreatesAgain == stage = "create" /\ Creates /\ Rests

WritesRemote ==
    /\ stage = "write" /\ list.answer = "remote"
    /\ note' = list.remote
    /\ gave' = GivesUpBoth("choice", list.local \ list.remote,
                           "race", (note \ list.local) \ list.remote)
    /\ stage' = "store"
    /\ UNCHANGED <<uploads, page, written, copies, rec, list, trouble, unsent>>

(* threeWayMerge: what one side took out of the base goes, what one side put in comes. *)
(* Where both changed one region, both texts stay, between markers.                    *)
Clean == (list.local \cap list.remote) \cup ((list.local \cup list.remote) \ list.base)
Overlap == list.local # list.base /\ list.remote # list.base

WritesMerged ==
    /\ stage = "write" /\ list.answer = "merge"
    /\ \E marked \in {FALSE, Overlap}, more \in SUBSET (list.local \cup list.remote) :
         /\ ~marked => more = {}
         /\ note' = IF marked THEN Clean \cup more \cup {Marks} ELSE Clean
         /\ list' = [list EXCEPT !.marked = marked, !.sent = note']
    /\ LET gone == (list.local \cup list.remote) \ note' IN
         gave' = [GivesUpUnsent(gone) EXCEPT
                    !["race"] = @ \cup (((note \ list.local) \ note') \ {Marks})]
    /\ stage' = "store"
    /\ UNCHANGED <<uploads, page, written, copies, rec, trouble, unsent>>

(* freeConflictCopyPath *)
WritesCopy ==
    /\ stage = "write" /\ list.answer = "duplicate"
    /\ copies' = copies \cup list.remote
    /\ stage' = "store"
    /\ UNCHANGED <<uploads, people, rec, list, trouble, ghosts>>

Result ==
    CASE list.answer = "remote" -> list.remote
      [] list.answer = "merge"  -> list.sent
      [] OTHER                  -> list.local

(* Mutant of Onward: whatever the direction, what was chosen is sent. *)
OnwardAlways == "upload"

(* propagateResolution: only seen in the direction "pull". *)
Onward == IF uploads THEN "upload" ELSE "seen"

(* updateHash and updateStatus, and for "remote" recordUnverified.  A merge that left *)
(* markers stays a conflict, but its text is the base all the same.                   *)
Stores ==
    /\ stage = "store"
    /\ LET r == [rec EXCEPT !.base = Result,
                            !.status = IF list.marked THEN @ ELSE "synced"] IN
         rec' = IF list.answer = "remote" THEN Unverified(r) ELSE r
    /\ IF list.answer = "remote" \/ list.marked
         THEN Rests
         ELSE stage' = Onward /\ UNCHANGED list
    /\ unsent' = IF list.marked THEN [why |-> "marks", text |-> Result]
                 ELSE IF list.answer = "remote" THEN None ELSE unsent
    /\ UNCHANGED <<uploads, people, copies, trouble, gave>>
--------------------------------------------------------------------------------
(* To Notion. *)

(* pushUpdate reads the file, *)
ReadsFile ==
    /\ stage = "upload" /\ note # Absent
    /\ list' = [list EXCEPT !.sent = note, !.print = note]
    /\ stage' = "send"
    /\ UNCHANGED <<uploads, people, copies, rec, trouble, ghosts>>

(* replaces the text of a page that is alive, whatever it is, *)
Sends ==
    /\ stage = "send" /\ ~page.gone
    /\ page' = [page EXCEPT !.text = list.sent, !.time = @ + 1]
    /\ gave' = GivesUpBoth("choice", ((page.text \cap list.remote) \ list.sent) \ copies,
                           "race", (page.text \ list.remote) \ list.sent)
    /\ stage' = "sent"
    /\ UNCHANGED <<uploads, note, written, copies, rec, list, trouble, unsent>>

(* reads it back if it has filled something in after the body, or the answer was cut, *)
ReadsBack ==
    /\ stage = "sent"
    /\ list' = [list EXCEPT !.print = page.text]
    /\ UNCHANGED <<uploads, people, copies, rec, stage, trouble, ghosts>>

(* and records what it sent, the fingerprint it has, and the stamp the page has now. *)
RecordsSent ==
    /\ stage = "sent"
    /\ rec' = [Shared(list.sent, page.time) EXCEPT !.print = list.print]
    /\ gave' = GivesUp("reread", list.print \ list.sent)
    /\ unsent' = None
    /\ Rests
    /\ UNCHANGED <<uploads, people, copies, trouble>>

SeenBase == [why |-> "seen", text |-> rec.base]

(* Mutant of LaterSeen: the page as it is now is what was seen. *)
LaterSeenNow == [rec EXCEPT !.time = page.time, !.print = page.text, !.sure = TRUE]

LaterSeen == Unverified(rec)

(* recordRemoteSeen asks for the stamp.  A later minute than the listed one is not seen; *)
SeesLater ==
    /\ stage = "seen" /\ page.time # list.time
    /\ rec' = LaterSeen
    /\ unsent' = SeenBase
    /\ Rests
    /\ UNCHANGED <<uploads, people, copies, trouble, gave>>

(* an edit of the listed minute has the listed stamp. *)
SeesListed ==
    /\ stage = "seen" /\ page.time = list.time
    /\ stage' = "vouch"
    /\ UNCHANGED <<uploads, people, copies, rec, list, trouble, ghosts>>

(* Then it asks for the body, which may be of a later minute than the stamp it records. *)
RecordsSeen ==
    /\ stage = "vouch"
    /\ \E sure \in BOOLEAN :
          rec' = [rec EXCEPT !.time = list.time, !.print = page.text, !.sure = sure]
    /\ gave' = GivesUpBoth("choice", list.remote \ rec.base,
                           IF page.time = list.time THEN "minute" ELSE "between",
                           page.text \ list.remote)
    /\ unsent' = SeenBase
    /\ Rests
    /\ UNCHANGED <<uploads, people, copies, trouble>>

(* Mutant of Reopened: the status alone is set back. *)
ReopenedByStatus == [rec EXCEPT !.status = "conflict"]

Reopened == [rec EXCEPT !.base = list.base, !.status = "conflict"]

(* After the resolver stored its result. *)
Stored == stage \in {"upload", "send", "sent", "seen", "vouch"}
Asking == Stored \/ stage \in {"presence", "body", "write", "create"}

(* A request or a write fails.  livePage refuses a page in the trash, and its body may *)
(* be refused.                                                                         *)
Fails ==
    /\ \/ Asking /\ trouble < MaxTrouble /\ trouble' = trouble + 1
       \/ page.gone /\ stage \in {"body", "send", "sent", "vouch"} /\ UNCHANGED trouble
    /\ rec' = IF Stored THEN Reopened ELSE rec
    /\ Rests
    /\ UNCHANGED <<uploads, people, copies, ghosts>>

(* The process dies.  The result is stored and Notion does not have it. *)
AnswerDies ==
    /\ stage # "idle" /\ trouble < MaxTrouble /\ trouble' = trouble + 1
    /\ unsent' = IF Stored
                   THEN [why |-> "death", text |-> rec.base] ELSE unsent
    /\ Rests
    /\ UNCHANGED <<uploads, people, copies, rec, gave>>

ConflictNext ==
    \/ EditsFile \/ FixesMarks \/ TrashesPage
    \/ \E sameMinute \in BOOLEAN : EditsPage(sameMinute)
    \/ PullsPage \/ PullsDeletion \/ PullsNone \/ PushesNew \/ Pushes
    \/ ListsFile \/ AsksPresence \/ ReadsBody \/ ClearsStale \/ LeavesIt
    \/ \E c \in Choices : Chooses(c)
    \/ Untracks \/ CreatesAgain \/ WritesRemote \/ WritesMerged \/ WritesCopy \/ Stores
    \/ ReadsFile \/ Sends \/ ReadsBack \/ RecordsSent
    \/ SeesLater \/ SeesListed \/ RecordsSeen \/ Fails \/ AnswerDies

ConflictSpec == ConflictInit /\ [][ConflictNext]_conflictVars
--------------------------------------------------------------------------------
PageStates == [text : TextSets, time : Nat, gone : BOOLEAN]
Listings == [local : TextSets, remote : TextSets, time : Nat, gone : BOOLEAN, base : TextSets,
             answer : Choices, marked : BOOLEAN, sent : TextSets, print : TextSets]
Stages == {"idle", "presence", "body", "stale", "ask", "untrack", "create", "write", "store",
           "upload", "send", "sent", "seen", "vouch"}

(* Types, and where a resolution can be: the record it began with stays a conflict *)
(* until the result is stored, is gone only when the note is made anew, and nothing *)
(* goes to Notion in the direction "pull" (conflict-workflow.ts:276).              *)
ConflictTypeOK ==
    /\ uploads \in BOOLEAN
    /\ note \in TextSets \cup {Absent} /\ copies \in SUBSET (Edits \cup {Marks})
    /\ page \in PageStates
    /\ rec \in NoteRecords \cup {NoRecord}
    /\ list \in Listings
    /\ stage \in Stages
    /\ written \in 0..MaxWritten /\ trouble \in 0..MaxTrouble
    /\ gave \in [Why -> SUBSET Edits]
    /\ unsent \in [why : Why, text : TextSets \cup {Absent}]
    /\ Tracked => note # Absent
    /\ stage \notin {"idle", "create"} => Tracked
    /\ stage \notin {"idle", "create"} /\ ~Stored => rec.status = "conflict"
    /\ stage = "create" => ~Tracked
    /\ stage \in {"upload", "send", "sent", "create"} => uploads

AllGiven == UNION {gave[w] : w \in Why}

(* Every edit anybody made is in the note, in the page, in a .conflict copy, or was *)
(* given up: by the answer, by trashing the page, or in one of the ways `gave` names. *)
NoEditLost ==
    1..written \subseteq
        (IF note = Absent THEN {} ELSE note)
        \cup (IF page.gone THEN {} ELSE page.text)
        \cup copies \cup AllGiven

(* What the record says it saw, a pull has brought: an edit of the page the next pull *)
(* will not look at is in the note's base or was given up (conflict-workflow.ts:321). *)
SeenIsReceived ==
    stage = "idle" /\ Tracked /\ rec.status = "synced" /\ ~page.gone /\ Unchanged =>
        page.text \ {Marks} \subseteq rec.base \cup AllGiven

(* "A note that keeps its conflict markers stays a conflict; a person resolves it" *)
(* (conflict-workflow.ts:271): no pull and no second answer takes its edits away.  *)
MarkedNoteWaits == gave["marks"] = {}
================================================================================
