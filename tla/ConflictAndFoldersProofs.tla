----------------------- MODULE ConflictAndFoldersProofs ------------------------
(*****************************************************************************)
(* Two machines of the vault against Notion, for any values of their constants.*)
(*                                                                           *)
(* ConflictResolution: while a conflict is listed, answered, written and sent,*)
(* and people edit and trash meanwhile, no edit goes but by a cause that is  *)
(* noted, and what the record says it has seen has been received: for any    *)
(* number of edits, failures and deaths.                                     *)
(*                                                                           *)
(* FolderPages: no page is made a second time, and a push that nothing       *)
(* disturbs leaves every note in its place, for any notes and any number of  *)
(* failures and deaths, if no folder gets both a folder note and a note beside*)
(* it that has its name.                                                     *)
(*****************************************************************************)
EXTENDS ConflictResolution, FolderPages, SequenceTheorems, WellFoundedInduction, TLAPS

(* ConflictResolution.                                                       *)

(* The edits of a side that is there, and those that were given up. *)
InNote == IF note = Absent THEN {} ELSE note
OnPage == IF page.gone THEN {} ELSE page.text
Given == AllGiven \cup {Marks}

Listed == stage \notin {"idle", "create"}

(* Times only grow, and a settled stamp that stands vouches for the text. *)
TimesAgree ==
    /\ list.time <= page.time
    /\ Tracked => rec.time <= page.time /\ (Unchanged => rec.print = page.text)

(* A note is untracked, and a deletion shown, only when the page is gone. *)
GoneIsGiven ==
    /\ page.gone => page.text \subseteq Given
    /\ ~Tracked => page.gone
    /\ Listed /\ list.gone => page.gone
    /\ stage = "untrack" => list.gone
    /\ stage = "body" => ~list.gone

(* What the record names is in the note, *)
NoteHolds ==
    Tracked => /\ rec.base \subseteq InNote \cup Given
               /\ rec.print # Absent => rec.print \subseteq InNote \cup Given

(* and on the page, unless `unsent` says that it never got there. *)
BaseHeld == Tracked /\ ~Stored => (rec.base = unsent.text \/ rec.base \subseteq OnPage \cup Given)

(* The base that was listed is the record's until the result is stored. *)
ListedBase ==
    Listed =>
        /\ list.base \subseteq InNote \cup Given
        /\ list.base \subseteq list.local \cup Given
        /\ ~Stored => rec.base = list.base
        /\ Stored => (list.base = unsent.text \/ list.base \subseteq OnPage \cup Given)

(* The texts that were listed go on being held until the answer is written, *)
LocalHeld ==
    stage \in {"presence", "body", "stale", "ask", "untrack", "write"} =>
        list.local \subseteq InNote \cup {Marks}

RemoteHeld ==
    stage \in {"stale", "write", "store"} \/ (stage = "ask" /\ ~list.gone) =>
        /\ list.remote \subseteq OnPage \cup Given
        /\ list.base = unsent.text \/ list.base \subseteq list.remote \cup Given
        /\ ~list.gone
        /\ stage = "stale" => list.local = list.remote

(* then the result is, *)
ResultHeld ==
    /\ stage = "store" =>
         /\ Result \subseteq InNote \cup {Marks}
         /\ list.answer # "remote" => list.base \subseteq Result \cup Given
    /\ Stored => list.base \subseteq rec.base \cup Given /\ list.answer # "remote"

(* and what is sent, which has all that both sides had. *)
SentHeld ==
    /\ stage \in {"send", "sent"} => list.sent \subseteq InNote \cup {Marks}
    /\ stage = "sent" => list.sent \subseteq OnPage \cup Given
    /\ (Stored \/ stage = "store") /\ list.answer # "remote" =>
          list.local \cap list.remote \subseteq InNote \cup {Marks}
    /\ stage \in {"send", "sent"} => list.local \cap list.remote \subseteq list.sent \cup {Marks}

(* What the record saw, a pull has brought, or it was given up. *)
SeenInBase ==
    Tracked /\ rec.print # Absent =>
        /\ rec.print \subseteq rec.base \cup Given
        /\ Stored => rec.print \subseteq list.base \cup Given

ConflictInv ==
    /\ ConflictTypeOK
    /\ TimesAgree /\ GoneIsGiven
    /\ NoteHolds /\ BaseHeld /\ SeenInBase
    /\ ListedBase /\ LocalHeld /\ RemoteHeld /\ ResultHeld /\ SentHeld
    /\ NoEditLost
--------------------------------------------------------------------------------
(* What is noted as given up. *)

(* One cause takes a set of edits. *)
LEMMA OneGiven ==
    ASSUME gave \in [Why -> SUBSET Edits], NEW w \in Why, NEW S \in TextSets,
           gave' = GivesUp(w, S)
    PROVE  /\ gave' \in [Why -> SUBSET Edits]
           /\ AllGiven' = AllGiven \cup (S \ {Marks})
<1>1. S \ {Marks} \subseteq Edits
  BY DEF TextSets
<1>2. \A v \in Why : gave'[v] = IF v = w THEN gave[v] \cup (S \ {Marks}) ELSE gave[v]
  BY DEF GivesUp
<1>3. gave' \in [Why -> SUBSET Edits]
  BY <1>1 DEF GivesUp
<1>4. ASSUME NEW e PROVE e \in AllGiven' <=> e \in AllGiven \cup (S \ {Marks})
  BY <1>2 DEF AllGiven
<1> QED BY <1>3, <1>4

(* The answer takes a set, and a cause besides it takes another. *)
LEMMA BothGiven ==
    ASSUME gave \in [Why -> SUBSET Edits], NEW v \in {"race", "minute", "between"},
           NEW S \in TextSets, NEW T \in TextSets,
           gave' = GivesUpBoth("choice", S, v, T)
    PROVE  /\ gave' \in [Why -> SUBSET Edits]
           /\ AllGiven' = AllGiven \cup (S \ {Marks}) \cup (T \ {Marks})
<1>1. S \ {Marks} \subseteq Edits /\ T \ {Marks} \subseteq Edits
  BY DEF TextSets
<1>2. "choice" \in Why /\ v \in Why /\ v # "choice"
  BY DEF Why
<1>3. /\ \A u \in Why \ {"choice", v} : gave'[u] = gave[u]
      /\ gave'["choice"] = gave["choice"] \cup (S \ {Marks})
      /\ gave'[v] = gave[v] \cup (T \ {Marks})
  BY <1>2 DEF GivesUpBoth
<1>4. gave' \in [Why -> SUBSET Edits]
  BY <1>1 DEF GivesUpBoth
<1>5. ASSUME NEW e PROVE e \in AllGiven' <=> e \in AllGiven \cup (S \ {Marks}) \cup (T \ {Marks})
  BY <1>2, <1>3 DEF AllGiven
<1> QED BY <1>4, <1>5

(* What goes because no page holds it. *)
LEMMA UnsentGiven ==
    ASSUME gave \in [Why -> SUBSET Edits], NEW S \in TextSets, unsent.why \in Why,
           gave' = GivesUpUnsent(S)
    PROVE  /\ gave' \in [Why -> SUBSET Edits]
           /\ AllGiven' = IF rec.base = unsent.text THEN AllGiven \cup (S \ {Marks}) ELSE AllGiven
<1>1. CASE rec.base = unsent.text
  BY <1>1, OneGiven DEF GivesUpUnsent
<1>2. CASE rec.base # unsent.text
  BY <1>2 DEF GivesUpUnsent, AllGiven
<1> QED BY <1>1, <1>2

(* What a merge drops of either side, and what it did not know of. *)
LEMMA MergeGiven ==
    ASSUME gave \in [Why -> SUBSET Edits], NEW S \in TextSets, NEW T \in TextSets,
           unsent.why \in Why,
           gave' = [GivesUpUnsent(S) EXCEPT !["race"] = @ \cup (T \ {Marks})]
    PROVE  AllGiven' = (IF rec.base = unsent.text THEN AllGiven \cup (S \ {Marks}) ELSE AllGiven)
                         \cup (T \ {Marks})
<1>1. "race" \in Why
  BY DEF Why
<1>2. CASE rec.base = unsent.text
  <2>1. PICK v \in Why : GivesUpUnsent(S) = [gave EXCEPT ![v] = @ \cup (S \ {Marks})]
    BY <1>2 DEF GivesUpUnsent, GivesUp
  <2>2. gave' = [[gave EXCEPT ![v] = @ \cup (S \ {Marks})] EXCEPT !["race"] = @ \cup (T \ {Marks})]
    BY <2>1
  <2>3. \A w \in Why : /\ gave[w] \subseteq gave'[w]
                       /\ gave'[w] \subseteq gave[w] \cup (S \ {Marks}) \cup (T \ {Marks})
    BY <2>2
  <2>4. S \ {Marks} \subseteq gave'[v] /\ T \ {Marks} \subseteq gave'["race"]
    BY <1>1, <2>2
  <2>5. ASSUME NEW e PROVE e \in AllGiven' <=> e \in AllGiven \cup (S \ {Marks}) \cup (T \ {Marks})
    BY <1>1, <2>3, <2>4 DEF AllGiven
  <2> QED BY <1>2, <2>5
<1>3. CASE rec.base # unsent.text
  <2>0. gave' = [gave EXCEPT !["race"] = @ \cup (T \ {Marks})]
    BY <1>3 DEF GivesUpUnsent
  <2>1. /\ \A w \in Why \ {"race"} : gave'[w] = gave[w]
        /\ gave'["race"] = gave["race"] \cup (T \ {Marks})
    BY <1>1, <2>0
  <2>2. \A w \in Why : gave[w] \subseteq gave'[w] /\ gave'[w] \subseteq gave[w] \cup (T \ {Marks})
    BY <2>1
  <2>3. T \ {Marks} \subseteq gave'["race"]
    BY <1>1, <2>1
  <2>4. ASSUME NEW e PROVE e \in AllGiven' <=> e \in AllGiven \cup (T \ {Marks})
    BY <1>1, <2>2, <2>3 DEF AllGiven
  <2> QED BY <1>3, <2>4
<1> QED BY <1>2, <1>3

(* Nothing is. *)
LEMMA NoneGiven == UNCHANGED gave => AllGiven' = AllGiven
  BY DEF AllGiven
--------------------------------------------------------------------------------
(* The types. *)

(* Texts are closed under what the steps make of them. *)
LEMMA TextFacts ==
    /\ {} \in TextSets /\ Absent \notin TextSets
    /\ \A S, T \in TextSets : S \cup T \in TextSets /\ S \cap T \in TextSets /\ S \ T \in TextSets
    /\ \A S \in TextSets : S \cup {Marks} \in TextSets /\ S \ {Marks} \in TextSets
    /\ \A S \in TextSets, e \in Edits : S \cup {e} \in TextSets
    /\ \A S \in TextSets : \A T : T \subseteq S => T \in TextSets
    /\ \A S \in TextSets : S \in SUBSET (Edits \cup {Marks})
<1>1. \A t \in TextSets : t # Absent
  BY ConflictAssumption
<1> QED BY <1>1 DEF TextSets

(* A tracked note has a record, with these fields. *)
LEMMA RecordFacts ==
    /\ NoRecord \notin NoteRecords
    /\ \A r \in NoteRecords : /\ r.base \in TextSets /\ r.time \in Nat
                         /\ r.print \in TextSets \cup {Absent} /\ r.sure \in BOOLEAN
                         /\ r.status \in {"synced", "conflict"}
    /\ \A b \in TextSets, t \in Nat, p \in TextSets \cup {Absent}, s \in BOOLEAN,
          c \in {"synced", "conflict"} :
        [base |-> b, time |-> t, print |-> p, sure |-> s, status |-> c] \in NoteRecords
<1>1. NoRecord \notin NoteRecords
  BY ConflictAssumption
<1> QED BY <1>1 DEF NoteRecords

(* What a record becomes is a record. *)
LEMMA RecordChanges ==
    ASSUME NEW r \in NoteRecords
    PROVE  /\ \A c \in {"synced", "conflict"} : [r EXCEPT !.status = c] \in NoteRecords
           /\ \A b \in TextSets, c \in {"synced", "conflict"} :
                [r EXCEPT !.base = b, !.status = c] \in NoteRecords
           /\ \A t \in Nat, p \in TextSets \cup {Absent}, s \in BOOLEAN :
                [r EXCEPT !.time = t, !.print = p, !.sure = s] \in NoteRecords
<1> QED BY DEF NoteRecords

(* The listing before anything is read, and the record of a text both sides have. *)
LEMMA NewOnes ==
    /\ Blank \in Listings /\ None.why \in Why /\ None \in [why : Why, text : TextSets \cup {Absent}]
    /\ \A t \in TextSets, n \in Nat : Shared(t, n) \in NoteRecords
<1>1. Blank \in Listings /\ None.why \in Why /\ None \in [why : Why, text : TextSets \cup {Absent}]
  BY TextFacts DEF Blank, None, Listings, Choices, Why
<1>2. \A t \in TextSets, n \in Nat : Shared(t, n) \in NoteRecords
  BY DEF Shared, NoteRecords
<1> QED BY <1>1, <1>2

(* What a page becomes is a page. *)
LEMMA PageChanges ==
    \A p \in PageStates, t \in TextSets :
        /\ p.time + 1 \in Nat
        /\ [p EXCEPT !.text = t] \in PageStates
        /\ [p EXCEPT !.text = t, !.time = p.time + 1] \in PageStates
<1>1. SUFFICES ASSUME NEW p \in PageStates, NEW t \in TextSets
      PROVE /\ p.time + 1 \in Nat
            /\ [p EXCEPT !.text = t] \in PageStates
            /\ [p EXCEPT !.text = t, !.time = p.time + 1] \in PageStates
  OBVIOUS
<1>2. p.time + 1 \in Nat
  BY DEF PageStates
<1>3. [p EXCEPT !.text = t] \in PageStates
  BY DEF PageStates
<1>4. \A n \in Nat : [p EXCEPT !.text = t, !.time = n] \in PageStates
  BY DEF PageStates
<1> QED BY <1>2, <1>3, <1>4

(* The types of the fields. *)
LEMMA FieldFacts ==
    ASSUME ConflictTypeOK
    PROVE  /\ page.text \in TextSets /\ page.time \in Nat /\ page.gone \in BOOLEAN
           /\ list.local \in TextSets /\ list.remote \in TextSets /\ list.base \in TextSets
           /\ list.sent \in TextSets /\ list.print \in TextSets /\ list.time \in Nat /\ list.gone \in BOOLEAN
           /\ list.answer \in Choices /\ list.marked \in BOOLEAN
           /\ Tracked => rec \in NoteRecords /\ note \in TextSets
           /\ note # Absent => note \in TextSets
           /\ unsent.why \in Why /\ unsent.text \in TextSets \cup {Absent}
           /\ Tracked => rec.base \in TextSets /\ rec.time \in Nat /\ rec.sure \in BOOLEAN
                          /\ rec.print \in TextSets \cup {Absent}
           /\ Result \in TextSets
<1>1. /\ page.text \in TextSets /\ page.time \in Nat /\ page.gone \in BOOLEAN
  BY DEF ConflictTypeOK, PageStates
<1>2. /\ list.local \in TextSets /\ list.remote \in TextSets /\ list.base \in TextSets
      /\ list.sent \in TextSets /\ list.print \in TextSets /\ list.time \in Nat /\ list.gone \in BOOLEAN
      /\ list.answer \in Choices /\ list.marked \in BOOLEAN
  BY DEF ConflictTypeOK, Listings
<1>3. /\ Tracked => rec \in NoteRecords /\ note \in TextSets
      /\ note # Absent => note \in TextSets
      /\ unsent.why \in Why /\ unsent.text \in TextSets \cup {Absent}
  BY DEF ConflictTypeOK, Tracked
<1>4. Tracked => /\ rec.base \in TextSets /\ rec.time \in Nat /\ rec.sure \in BOOLEAN
                 /\ rec.print \in TextSets \cup {Absent}
  BY <1>3, RecordFacts
<1>5. Result \in TextSets
  BY <1>2 DEF Result
<1> QED BY <1>1, <1>2, <1>3, <1>4, <1>5

(* Every step keeps the types, and what each stage of a resolution has. *)
LEMMA TypeStep == ConflictTypeOK /\ [ConflictNext]_conflictVars => ConflictTypeOK'
<1> SUFFICES ASSUME ConflictTypeOK, [ConflictNext]_conflictVars PROVE ConflictTypeOK'
  OBVIOUS
<1> USE FieldFacts, ConflictAssumption
    DEF ConflictTypeOK, Stages, Stored, Tracked, people, ghosts, PageStates
<1>1. CASE EditsFile
  <2>1. written' \in Edits /\ written' \in 0..MaxWritten
    BY <1>1 DEF EditsFile, OneMore, Edits
  <2>2. note' \in TextSets
    BY <1>1, <2>1, TextFacts DEF EditsFile
  <2> QED BY <1>1, <2>1, <2>2, TextFacts DEF EditsFile
<1>2. CASE FixesMarks
  <2>1. note' \in TextSets /\ note' # Absent
    BY <1>2, TextFacts DEF FixesMarks
  <2> QED BY <1>2, <2>1 DEF FixesMarks
<1>3. CASE TrashesPage
  <2>1. gave' \in [Why -> SUBSET Edits]
    BY <1>3, OneGiven DEF TrashesPage, Why
  <2>2. page' \in PageStates
    BY <1>3 DEF TrashesPage
  <2> QED BY <1>3, <2>1, <2>2 DEF TrashesPage
<1>4. ASSUME NEW sameMinute \in BOOLEAN, EditsPage(sameMinute) PROVE ConflictTypeOK'
  <2>1. written' \in Edits /\ written' \in 0..MaxWritten
    BY <1>4 DEF EditsPage, OneMore, Edits
  <2>2. page.text \cup {written'} \in TextSets
    BY <2>1, TextFacts
  <2>3. page' \in PageStates
    BY <1>4, <2>2, PageChanges DEF EditsPage
  <2> QED BY <1>4, <2>1, <2>3 DEF EditsPage
<1>5. CASE PullsPage
  <2>1. PICK sure \in BOOLEAN : PullsText(sure) \/ PullsNothing(sure) \/ PullsConflict
    BY <1>5 DEF PullsPage
  <2>2. stage = "idle" /\ Tracked /\ UNCHANGED <<uploads, page, written, copies, list, stage, trouble>>
    BY <1>5 DEF PullsPage
  <2>3. CASE PullsText(sure)
    <3>1. note \ page.text \in TextSets
      BY <2>2, TextFacts
    <3>2. gave' \in [Why -> SUBSET Edits]
      BY <2>3, <3>1, UnsentGiven DEF PullsText
    <3>3. rec' \in NoteRecords
      BY <2>3, RecordFacts DEF PullsText
    <3> QED BY <2>2, <2>3, <3>2, <3>3, TextFacts, NewOnes DEF PullsText
  <2>4. CASE PullsNothing(sure)
    <3>1. rec' \in NoteRecords
      BY <2>2, <2>4, RecordChanges DEF PullsNothing
    <3> QED BY <2>2, <2>4, <3>1 DEF PullsNothing
  <2>5. CASE PullsConflict
    <3>1. rec' \in NoteRecords
      BY <2>2, <2>5, RecordChanges DEF PullsConflict
    <3> QED BY <2>2, <2>5, <3>1 DEF PullsConflict
  <2> QED BY <2>1, <2>3, <2>4, <2>5
<1>6. CASE PullsDeletion
  <2>1. stage = "idle" /\ Tracked /\ UNCHANGED <<uploads, page, written, copies, list, stage, trouble, unsent>>
    BY <1>6 DEF PullsDeletion
  <2>2. CASE Modified
    <3>1. rec' \in NoteRecords
      BY <1>6, <2>1, <2>2, RecordChanges DEF PullsDeletion
    <3> QED BY <1>6, <2>1, <2>2, <3>1 DEF PullsDeletion
  <2>3. CASE ~Modified
    <3>1. gave' \in [Why -> SUBSET Edits]
      BY <1>6, <2>1, <2>3, UnsentGiven DEF PullsDeletion
    <3> QED BY <1>6, <2>1, <2>3, <3>1 DEF PullsDeletion
  <2> QED BY <2>2, <2>3
<1>7. CASE PullsNone
  BY <1>7 DEF PullsNone, conflictVars
<1>8. CASE PushesNew
  <2>1. note # Absent /\ page' = [text |-> note, time |-> page.time + 1, gone |-> FALSE]
    BY <1>8 DEF PushesNew, Creates
  <2>2. page' \in PageStates /\ page'.time \in Nat
    BY <2>1
  <2>3. rec' \in NoteRecords
    BY <1>8, <2>1, <2>2, NewOnes DEF PushesNew, Creates
  <2> QED BY <1>8, <2>1, <2>2, <2>3, NewOnes DEF PushesNew, Creates, Rests
<1>9. CASE Pushes
  <2>1. Tracked /\ page' = [page EXCEPT !.text = note, !.time = page.time + 1]
    BY <1>9 DEF Pushes
  <2>2. page' \in PageStates /\ page'.time \in Nat
    BY <2>1, PageChanges
  <2>3. rec' \in NoteRecords
    BY <1>9, <2>1, <2>2, NewOnes DEF Pushes
  <2> QED BY <1>9, <2>2, <2>3, NewOnes DEF Pushes
<1>10. CASE ListsFile
  <2>1. Tracked /\ list' = [Blank EXCEPT !.local = note, !.base = rec.base]
    BY <1>10 DEF ListsFile
  <2>2. list' \in Listings
    BY <2>1, NewOnes DEF Listings
  <2> QED BY <1>10, <2>2 DEF ListsFile
<1>11. CASE AsksPresence
  <2>1. list' \in Listings
    BY <1>11 DEF AsksPresence, Listings
  <2> QED BY <1>11, <2>1 DEF AsksPresence
<1>12. CASE ReadsBody
  <2>1. list' \in Listings
    BY <1>12 DEF ReadsBody, Listings
  <2> QED BY <1>12, <2>1 DEF ReadsBody
<1>13. CASE ClearsStale
  <2>1. rec' = [[rec EXCEPT !.base = list.local, !.status = "synced"]
                  EXCEPT !.time = list.time, !.print = Absent, !.sure = FALSE]
    BY <1>13 DEF ClearsStale, Unverified
  <2>2. Tracked
    BY <1>13 DEF ClearsStale
  <2>3. [rec EXCEPT !.base = list.local, !.status = "synced"] \in NoteRecords
    BY <2>2, RecordChanges
  <2>4. rec' \in NoteRecords
    BY <2>1, <2>3, RecordChanges
  <2> QED BY <1>13, <2>2, <2>4, NewOnes, RecordFacts DEF ClearsStale, Rests
<1>14. CASE LeavesIt
  BY <1>14, NewOnes DEF LeavesIt, Rests
<1>15. ASSUME NEW c \in Choices, Chooses(c) PROVE ConflictTypeOK'
  <2>1. list' \in Listings
    BY <1>15 DEF Chooses, Listings
  <2>2. stage = "ask" /\ stage' \in {"untrack", "store", "write"}
    BY <1>15 DEF Chooses
  <2> QED BY <1>15, <2>1, <2>2 DEF Chooses
<1>16. CASE Untracks
  <2>1. Tracked
    BY <1>16 DEF Untracks
  <2>2. gave' \in [Why -> SUBSET Edits]
    <3>1. CASE list.answer = "remote"
      <4>1. note \ list.local \in TextSets
        BY <2>1, TextFacts
      <4>2. gave' = GivesUpBoth("choice", list.local, "race", note \ list.local)
        BY <1>16, <3>1 DEF Untracks
      <4> QED BY <4>1, <4>2, BothGiven DEF Why
    <3> QED BY <1>16, <3>1 DEF Untracks
  <2>3. list' \in Listings
    BY <1>16, NewOnes DEF Untracks, Rests
  <2>4. note' \in TextSets \cup {Absent} /\ rec' = NoRecord /\ unsent' \in [why : Why, text : TextSets \cup {Absent}]
    BY <1>16, NewOnes DEF Untracks
  <2>5. stage' = "idle" \/ (stage' = "create" /\ uploads)
    BY <1>16 DEF Untracks, Rests
  <2> QED BY <1>16, <2>2, <2>3, <2>4, <2>5 DEF Untracks
<1>17. CASE CreatesAgain
  <2>1. note # Absent /\ page' = [text |-> note, time |-> page.time + 1, gone |-> FALSE]
    BY <1>17 DEF CreatesAgain, Creates
  <2>2. page' \in PageStates /\ page'.time \in Nat
    BY <2>1
  <2>3. rec' \in NoteRecords
    BY <1>17, <2>1, <2>2, NewOnes DEF CreatesAgain, Creates
  <2> QED BY <1>17, <2>1, <2>2, <2>3, NewOnes DEF CreatesAgain, Creates, Rests
<1>18. CASE WritesRemote
  <2>1. list.local \ list.remote \in TextSets /\ (note \ list.local) \ list.remote \in TextSets
    BY <1>18, TextFacts DEF WritesRemote
  <2>2. gave' \in [Why -> SUBSET Edits]
    BY <1>18, <2>1, BothGiven DEF WritesRemote, Why
  <2> QED BY <1>18, <2>2, TextFacts DEF WritesRemote
<1>19. CASE WritesMerged
  <2>1. PICK marked \in {FALSE, Overlap}, more \in SUBSET (list.local \cup list.remote) :
           /\ note' = IF marked THEN Clean \cup more \cup {Marks} ELSE Clean
           /\ list' = [list EXCEPT !.marked = marked, !.sent = note']
    BY <1>19 DEF WritesMerged
  <2>2. stage = "write" /\ stage' = "store" /\ Tracked /\ marked \in BOOLEAN
        /\ UNCHANGED <<uploads, page, written, copies, rec, trouble, unsent>>
    BY <1>19 DEF WritesMerged, Overlap
  <2>3. list.local \cup list.remote \in TextSets
    BY TextFacts
  <2>4. Clean \subseteq list.local \cup list.remote
    BY DEF Clean
  <2>5. Clean \in TextSets /\ Clean \cup more \in TextSets
    BY <2>3, <2>4, TextFacts
  <2>6. note' \in TextSets
    BY <2>1, <2>5, TextFacts
  <2>7. list' \in Listings
    BY <2>1, <2>2, <2>6 DEF Listings
  <2>8. gave' \in [Why -> SUBSET Edits]
    <3> DEFINE lost == (list.local \cup list.remote) \ note'
    <3>1. lost \in TextSets /\ (note \ list.local) \ note' \in TextSets
      BY <2>2, <2>3, TextFacts
    <3>2. GivesUpUnsent(lost) \in [Why -> SUBSET Edits]
      <4>1. lost \ {Marks} \subseteq Edits
        BY <3>1 DEF TextSets
      <4> QED BY <4>1 DEF GivesUpUnsent, GivesUp
    <3>3. PICK g \in [Why -> SUBSET Edits] :
             gave' = [g EXCEPT !["race"] = @ \cup (((note \ list.local) \ note') \ {Marks})]
      BY <1>19, <3>2 DEF WritesMerged
    <3>4. ((note \ list.local) \ note') \ {Marks} \subseteq Edits
      BY <3>1, TextFacts
    <3> QED BY <3>3, <3>4 DEF Why
  <2> QED BY <2>2, <2>6, <2>7, <2>8, TextFacts
<1>20. CASE WritesCopy
  <2>1. copies' \in SUBSET (Edits \cup {Marks})
    BY <1>20, TextFacts DEF WritesCopy
  <2> QED BY <1>20, <2>1 DEF WritesCopy
<1>21. CASE Stores
  <2> DEFINE r == [rec EXCEPT !.base = Result, !.status = IF list.marked THEN @ ELSE "synced"]
  <2>1. Tracked /\ rec.status = "conflict" /\ stage = "store"
    BY <1>21 DEF Stores
  <2>2. r \in NoteRecords
    <3>1. PICK c \in {"synced", "conflict"} : r = [rec EXCEPT !.base = Result, !.status = c]
      BY <2>1
    <3> QED BY <2>1, <3>1, RecordChanges
  <2>3. Unverified(r) \in NoteRecords
    BY <2>2, RecordChanges DEF Unverified
  <2>4. rec' \in NoteRecords
    BY <1>21, <2>2, <2>3 DEF Stores
  <2>5. unsent' \in [why : Why, text : TextSets \cup {Absent}]
    BY <1>21, NewOnes DEF Stores, Why
  <2>6. /\ stage' \in {"idle", "upload", "seen"} /\ list' \in Listings
        /\ stage' = "upload" => uploads
    BY <1>21, NewOnes DEF Stores, Rests, Onward
  <2> QED BY <1>21, <2>1, <2>4, <2>5, <2>6, RecordFacts DEF Stores
<1>22. CASE ReadsFile
  <2>1. list' \in Listings
    BY <1>22 DEF ReadsFile, Listings
  <2> QED BY <1>22, <2>1 DEF ReadsFile
<1>23. CASE Sends
  <2>1. /\ ((page.text \cap list.remote) \ list.sent) \ copies \in TextSets
        /\ (page.text \ list.remote) \ list.sent \in TextSets
    BY TextFacts
  <2>2. gave' \in [Why -> SUBSET Edits]
    BY <1>23, <2>1, BothGiven DEF Sends, Why
  <2>3. page' \in PageStates
    <3>1. page' = [page EXCEPT !.text = list.sent, !.time = page.time + 1]
      BY <1>23 DEF Sends
    <3> QED BY <3>1, PageChanges
  <2> QED BY <1>23, <2>2, <2>3 DEF Sends
<1>24. CASE RecordsSent
  <2>1. /\ rec' = [Shared(list.sent, page.time) EXCEPT !.print = list.print]
        /\ gave' = GivesUp("reread", list.print \ list.sent)
    BY <1>24 DEF RecordsSent
  <2>2. list.print \ list.sent \in TextSets /\ "reread" \in Why
    BY TextFacts DEF Why
  <2>3. rec' \in NoteRecords
    BY <2>1, <2>2 DEF Shared, NoteRecords
  <2>4. gave' \in [Why -> SUBSET Edits]
    BY <2>1, <2>2, OneGiven
  <2> QED BY <1>24, <2>3, <2>4, NewOnes, RecordFacts DEF RecordsSent, Rests
<1>25. CASE SeesLater \/ RecordsSeen
  <2>1. Tracked /\ list.remote \ rec.base \in TextSets /\ page.text \ list.remote \in TextSets
    BY <1>25, TextFacts DEF SeesLater, RecordsSeen
  <2>2. rec' \in NoteRecords
    <3>1. \/ \E sure \in BOOLEAN :
               rec' = [rec EXCEPT !.time = list.time, !.print = page.text, !.sure = sure]
          \/ rec' = [rec EXCEPT !.time = list.time, !.print = Absent, !.sure = FALSE]
      BY <1>25 DEF SeesLater, LaterSeen, RecordsSeen, Unverified
    <3>2. CASE rec' = [rec EXCEPT !.time = list.time, !.print = Absent, !.sure = FALSE]
      BY <2>1, <3>2, RecordChanges
    <3>3. ASSUME NEW sure \in BOOLEAN,
                 rec' = [rec EXCEPT !.time = list.time, !.print = page.text, !.sure = sure]
          PROVE  rec' \in NoteRecords
      BY <2>1, <3>3, RecordChanges
    <3> QED BY <3>1, <3>2, <3>3
  <2>3. gave' \in [Why -> SUBSET Edits]
    BY <1>25, <2>1, BothGiven DEF SeesLater, RecordsSeen
  <2>4. unsent' \in [why : Why, text : TextSets \cup {Absent}]
    <3>1. rec.base \in TextSets \cup {Absent} /\ "seen" \in Why
      BY <2>1, FieldFacts DEF Why
    <3>2. SeenBase \in [why : Why, text : TextSets \cup {Absent}]
      BY <3>1 DEF SeenBase
    <3>3. unsent' = SeenBase
      BY <1>25 DEF SeesLater, RecordsSeen
    <3> QED BY <3>2, <3>3
  <2> QED BY <1>25, <2>2, <2>3, <2>4, NewOnes, RecordFacts DEF SeesLater, RecordsSeen, Rests
<1>30. CASE ReadsBack
  <2>1. list' \in Listings
    BY <1>30 DEF ReadsBack, Listings
  <2> QED BY <1>30, <2>1 DEF ReadsBack
<1>29. CASE SeesListed
  BY <1>29 DEF SeesListed
<1>26. CASE Fails
  <2>1. rec' \in NoteRecords \cup {NoRecord} /\ (rec' = NoRecord => rec = NoRecord)
    <3>1. CASE Stored
      <4>1. rec \in NoteRecords /\ list.base \in TextSets
        BY <3>1
      <4>2. rec' = [rec EXCEPT !.base = list.base, !.status = "conflict"]
        BY <1>26, <3>1 DEF Fails, Reopened
      <4>3. rec' \in NoteRecords
        BY <4>1, <4>2, RecordChanges
      <4> QED BY <4>3, RecordFacts
    <3> QED BY <1>26, <3>1 DEF Fails
  <2>2. trouble' \in 0..MaxTrouble
    BY <1>26 DEF Fails
  <2> QED BY <1>26, <2>1, <2>2, NewOnes DEF Fails, Rests
<1>27. CASE AnswerDies
  <2>1. unsent' \in [why : Why, text : TextSets \cup {Absent}]
    BY <1>27 DEF AnswerDies, Why
  <2> QED BY <1>27, <2>1, NewOnes DEF AnswerDies, Rests
<1>28. CASE UNCHANGED conflictVars
  BY <1>28 DEF conflictVars
<1> QED
  BY <1>1, <1>2, <1>3, <1>4, <1>5, <1>6, <1>7, <1>8, <1>9, <1>10, <1>11, <1>12, <1>13, <1>14,
     <1>15, <1>16, <1>17, <1>18, <1>19, <1>20, <1>21, <1>22, <1>23, <1>24, <1>25, <1>26, <1>27,
     <1>28, <1>29, <1>30 DEF ConflictNext
--------------------------------------------------------------------------------
(* What people do, and the steps of a resolution. *)

(* While people edit, what was held goes on being held. *)
LEMMA GoesOnHeld ==
    ASSUME ConflictInv, UNCHANGED <<rec, list, stage, unsent>>,
           InNote \subseteq InNote' \cup {Marks}, OnPage \subseteq OnPage' \cup Given',
           Given \subseteq Given'
    PROVE  /\ NoteHolds' /\ BaseHeld' /\ SeenInBase'
           /\ ListedBase' /\ LocalHeld' /\ RemoteHeld' /\ ResultHeld' /\ SentHeld'
<1> USE DEF ConflictInv, Tracked, Stored, Listed
<1>1. Marks \in Given' /\ Result' = Result
  BY DEF Given, Result
<1>2. NoteHolds'
  BY <1>1 DEF NoteHolds
<1>3. BaseHeld'
  BY <1>1 DEF BaseHeld
<1>4. SeenInBase'
  BY <1>1 DEF SeenInBase
<1>5. ListedBase'
  BY <1>1 DEF ListedBase
<1>6. LocalHeld'
  BY <1>1 DEF LocalHeld
<1>7. RemoteHeld'
  BY <1>1 DEF RemoteHeld
<1>8. ResultHeld'
  BY <1>1 DEF ResultHeld
<1>9. SentHeld'
  BY <1>1 DEF SentHeld
<1> QED BY <1>2, <1>3, <1>4, <1>5, <1>6, <1>7, <1>8, <1>9

(* Where no resolution is under way, nothing is listed. *)
LEMMA NothingListed ==
    stage' = "idle" => ListedBase' /\ LocalHeld' /\ RemoteHeld' /\ ResultHeld' /\ SentHeld'
BY DEF ListedBase, LocalHeld, RemoteHeld, ResultHeld, SentHeld, Listed, Stored

(* An edit that was somewhere is where it was, in the .conflict copy, or given up. *)
LEMMA StillThere ==
    ASSUME NoEditLost, written' = written,
           InNote \cup OnPage \cup copies \subseteq InNote' \cup OnPage' \cup copies' \cup Given',
           Given \subseteq Given', Marks \notin Nat, written \in Nat
    PROVE  NoEditLost'
<1>1. \A e \in 1..written : e # Marks
  OBVIOUS
<1> QED BY <1>1 DEF NoEditLost, InNote, OnPage, Given

(* The facts the proofs below need of the types. *)
LEMMA NoteFacts ==
    ASSUME ConflictTypeOK
    PROVE  /\ Tracked => InNote = note
           /\ note # Absent => InNote = note
           /\ ~page.gone => OnPage = page.text
           /\ page.gone => OnPage = {}
           /\ Listed => Tracked
           /\ Marks \in Given /\ AllGiven \subseteq Given /\ Marks \notin Nat /\ written \in Nat
BY ConflictAssumption DEF ConflictTypeOK, InNote, OnPage, Given, Listed

LEMMA EditsFileKeeps == ASSUME ConflictInv, ConflictTypeOK', EditsFile PROVE ConflictInv'
<1> USE NoteFacts DEF ConflictInv, ghosts
<1>1. AllGiven' = AllGiven /\ Given' = Given /\ OnPage' = OnPage
  BY NoneGiven DEF EditsFile, Given, OnPage
<1>2. note # Absent /\ note' = note \cup {written'} /\ note' # Absent
  BY TextFacts, FieldFacts DEF EditsFile, OneMore, ConflictTypeOK, Edits
<1>3. InNote' = InNote \cup {written'}
  BY <1>2 DEF InNote
<1>4. TimesAgree' /\ GoneIsGiven'
  BY <1>1 DEF EditsFile, TimesAgree, GoneIsGiven, Tracked, Unchanged, Listed
<1>5. NoEditLost'
  <2>1. written \in Nat /\ written' = written + 1 /\ UNCHANGED <<page, copies>>
    BY DEF EditsFile, OneMore
  <2>2. ASSUME NEW e \in 1..written' PROVE e = written' \/ e \in 1..written
    BY <2>1
  <2> QED BY <1>1, <1>3, <2>1, <2>2 DEF NoEditLost, InNote, OnPage
<1> QED BY <1>1, <1>3, <1>4, <1>5, GoesOnHeld DEF EditsFile

LEMMA FixesMarksKeeps == ASSUME ConflictInv, ConflictTypeOK', FixesMarks PROVE ConflictInv'
<1> USE NoteFacts DEF ConflictInv, ghosts
<1>1. AllGiven' = AllGiven /\ Given' = Given /\ OnPage' = OnPage
  BY NoneGiven DEF FixesMarks, Given, OnPage
<1>2. note # Absent /\ note' = note \ {Marks} /\ note' # Absent
  BY TextFacts, FieldFacts DEF FixesMarks
<1>3. InNote' = InNote \ {Marks}
  BY <1>2 DEF InNote
<1>4. TimesAgree' /\ GoneIsGiven'
  BY <1>1 DEF FixesMarks, TimesAgree, GoneIsGiven, Tracked, Unchanged, Listed
<1>5. NoEditLost'
  <2>1. InNote \cup OnPage \cup copies \subseteq InNote' \cup OnPage' \cup copies' \cup Given'
    BY <1>1, <1>3 DEF FixesMarks
  <2> QED BY <1>1, <2>1, StillThere DEF FixesMarks
<1> QED BY <1>1, <1>3, <1>4, <1>5, GoesOnHeld DEF FixesMarks

LEMMA EditsPageKeeps ==
    ASSUME ConflictInv, ConflictTypeOK', NEW sameMinute \in BOOLEAN, EditsPage(sameMinute)
    PROVE  ConflictInv'
<1> USE NoteFacts DEF ConflictInv, ghosts
<1>1. AllGiven' = AllGiven /\ Given' = Given /\ InNote' = InNote
  BY NoneGiven DEF EditsPage, Given, InNote
<1>2. /\ page'.text = page.text \cup {written'} /\ ~page.gone /\ ~page'.gone
      /\ page'.time = IF sameMinute THEN page.time ELSE page.time + 1
  BY DEF EditsPage, ConflictTypeOK, PageStates
<1>3. OnPage' = OnPage \cup {written'}
  BY <1>2 DEF OnPage
<1>4. TimesAgree'
  <2>1. list' = list /\ rec' = rec /\ (sameMinute => ~(Tracked /\ Unchanged))
    BY DEF EditsPage
  <2> QED BY <1>2, <2>1, FieldFacts DEF TimesAgree, Tracked, Unchanged
<1>5. GoneIsGiven'
  BY <1>2 DEF EditsPage, GoneIsGiven, Tracked, Listed
<1>6. NoEditLost'
  <2>1. written \in Nat /\ written' = written + 1 /\ UNCHANGED <<note, copies>>
    BY DEF EditsPage, OneMore
  <2>2. ASSUME NEW e \in 1..written' PROVE e = written' \/ e \in 1..written
    BY <2>1
  <2> QED BY <1>1, <1>3, <2>1, <2>2 DEF NoEditLost, InNote, OnPage
<1> QED BY <1>1, <1>3, <1>4, <1>5, <1>6, GoesOnHeld DEF EditsPage

LEMMA TrashesPageKeeps == ASSUME ConflictInv, ConflictTypeOK', TrashesPage PROVE ConflictInv'
<1> USE NoteFacts DEF ConflictInv
<1>1. AllGiven' = AllGiven \cup (page.text \ {Marks})
  BY FieldFacts, OneGiven DEF TrashesPage, Why, ConflictTypeOK
<1>2. InNote' = InNote /\ Given' = Given \cup page.text
  BY <1>1 DEF TrashesPage, Given, InNote
<1>3. page'.text = page.text /\ page'.time = page.time /\ page'.gone
  BY DEF TrashesPage, ConflictTypeOK, PageStates
<1>4. OnPage \subseteq Given'
  BY <1>2 DEF OnPage
<1>5. TimesAgree' /\ GoneIsGiven'
  BY <1>2, <1>3 DEF TrashesPage, TimesAgree, GoneIsGiven, Tracked, Unchanged, Listed
<1>6. NoEditLost'
  <2>1. InNote \cup OnPage \cup copies \subseteq InNote' \cup OnPage' \cup copies' \cup Given'
    BY <1>2, <1>4 DEF TrashesPage
  <2> QED BY <1>2, <2>1, StillThere DEF TrashesPage
<1> QED BY <1>2, <1>4, <1>5, <1>6, GoesOnHeld DEF TrashesPage
--------------------------------------------------------------------------------
(* Pulls and pushes. *)

(* What the record is, after it is made anew, and after some of its fields are set. *)
LEMMA NewRecord ==
    ASSUME NEW t \in TextSets, NEW n \in Nat, rec' = Shared(t, n)
    PROVE  /\ rec'.base = t /\ rec'.time = n /\ rec'.print = t /\ ~rec'.sure
           /\ rec' \in NoteRecords /\ Tracked'
BY NewOnes, RecordFacts DEF Shared, Tracked

LEMMA StatusRecord ==
    ASSUME rec \in NoteRecords, rec' = [rec EXCEPT !.status = "conflict"]
    PROVE  /\ rec'.base = rec.base /\ rec'.time = rec.time /\ rec'.print = rec.print
           /\ rec'.sure = rec.sure /\ Tracked'
<1>1. /\ rec'.base = rec.base /\ rec'.time = rec.time /\ rec'.print = rec.print
      /\ rec'.sure = rec.sure
  BY DEF NoteRecords
<1> QED BY <1>1, RecordChanges, RecordFacts DEF Tracked

LEMMA SeenRecord ==
    ASSUME NEW r \in NoteRecords, NEW n \in Nat, NEW p \in TextSets \cup {Absent},
           NEW s \in BOOLEAN, rec' = [r EXCEPT !.time = n, !.print = p, !.sure = s]
    PROVE  /\ rec'.base = r.base /\ rec'.time = n /\ rec'.print = p /\ rec'.sure = s
           /\ Tracked'
<1>1. /\ rec'.base = r.base /\ rec'.time = n /\ rec'.print = p /\ rec'.sure = s
      /\ rec' \in NoteRecords
  BY DEF NoteRecords
<1> QED BY <1>1, RecordFacts DEF Tracked

(* Where no resolution is under way, six things are left to say. *)
LEMMA AtRest ==
    ASSUME stage' = "idle", ConflictTypeOK', TimesAgree', GoneIsGiven', NoteHolds', BaseHeld',
           SeenInBase', NoEditLost'
    PROVE  ConflictInv'
BY NothingListed DEF ConflictInv

LEMMA PullsPageKeeps == ASSUME ConflictInv, ConflictTypeOK', PullsPage PROVE ConflictInv'
<1> USE NoteFacts, FieldFacts DEF ConflictInv
<1>1. /\ Tracked /\ stage = "idle" /\ stage' = "idle" /\ ~page.gone
      /\ UNCHANGED <<page, written, copies, list, stage>>
  BY DEF PullsPage
<1>2. OnPage' = OnPage /\ OnPage = page.text
  BY <1>1 DEF OnPage
<1>3. ASSUME NEW sure \in BOOLEAN, PullsText(sure) PROVE ConflictInv'
  <2>1. /\ note' = page.text /\ Tracked' /\ unsent' = None
        /\ rec'.base = page.text /\ rec'.time = page.time /\ rec'.print = page.text
    <3>1. /\ note' = page.text /\ unsent' = None
          /\ rec' = [base |-> page.text, time |-> page.time, print |-> page.text,
                     sure |-> sure, status |-> "synced"]
      BY <1>3 DEF PullsText
    <3>2. rec' \in NoteRecords
      BY <3>1, RecordFacts
    <3> QED BY <3>1, <3>2, RecordFacts DEF Tracked
  <2>2. InNote' = page.text
    BY <2>1, TextFacts DEF InNote
  <2>3. note \ page.text \in TextSets
    BY <1>1, TextFacts
  <2>4. /\ AllGiven \subseteq AllGiven'
        /\ rec.base = unsent.text => (note \ page.text) \ {Marks} \subseteq AllGiven'
    <3>1. gave' = GivesUpUnsent(note \ page.text)
      BY <1>3 DEF PullsText
    <3>2. gave \in [Why -> SUBSET Edits] /\ unsent.why \in Why
      BY DEF ConflictTypeOK
    <3> QED BY ONLY <2>3, <3>1, <3>2, UnsentGiven
  <2>5. Given \subseteq Given' /\ (rec.base = unsent.text => note \ page.text \subseteq Given')
    BY <2>4 DEF Given
  <2>6. note \subseteq page.text \cup Given'
    <3>1. CASE note = page.text
      BY <3>1
    <3>2. CASE note = rec.base
      BY <1>1, <1>2, <2>5, <3>2 DEF BaseHeld, Stored
    <3> QED BY <1>3, <3>1, <3>2 DEF PullsText, Modified, Same
  <2>7. TimesAgree'
    BY <1>1, <2>1 DEF TimesAgree
  <2>8. GoneIsGiven'
    BY <1>1, <2>1 DEF GoneIsGiven, Listed
  <2>9. NoteHolds' /\ BaseHeld' /\ SeenInBase'
    BY <1>1, <1>2, <2>1, <2>2 DEF NoteHolds, BaseHeld, SeenInBase, Stored
  <2>10. NoEditLost'
    BY <1>1, <1>2, <2>2, <2>5, <2>6, StillThere
  <2> QED BY <1>1, <2>7, <2>8, <2>9, <2>10, AtRest
<1>4. ASSUME NEW sure \in BOOLEAN, PullsNothing(sure) PROVE ConflictInv'
  <2>1. /\ Tracked' /\ unsent' = unsent /\ note' = note /\ gave' = gave
        /\ rec'.base = rec.base /\ rec'.time = page.time /\ rec'.print = page.text
    <3>1. rec' = [rec EXCEPT !.time = page.time, !.print = page.text, !.sure = sure]
      BY <1>4 DEF PullsNothing
    <3>2. rec \in NoteRecords /\ page.time \in Nat /\ page.text \in TextSets \cup {Absent}
      BY <1>1
    <3>3. /\ rec'.base = rec.base /\ rec'.time = page.time /\ rec'.print = page.text /\ Tracked'
      BY ONLY <3>1, <3>2, SeenRecord, sure \in BOOLEAN
    <3> QED BY <1>1, <1>4, <3>3 DEF PullsNothing, ghosts
  <2>2. InNote' = InNote /\ AllGiven' = AllGiven /\ Given' = Given
    BY <2>1, NoneGiven DEF InNote, Given
  <2>3. page.text = rec.base \/ (page.text = rec.print /\ rec.print # Absent)
    BY <1>4, TextFacts DEF PullsNothing, Moved
  <2>4. TimesAgree'
    BY <1>1, <2>1 DEF TimesAgree
  <2>5. GoneIsGiven'
    BY <1>1, <2>1 DEF GoneIsGiven, Listed
  <2>6. NoteHolds' /\ BaseHeld' /\ SeenInBase'
    BY <1>1, <1>2, <2>1, <2>2, <2>3 DEF NoteHolds, BaseHeld, SeenInBase, Stored
  <2>7. NoEditLost'
    BY <1>1, <1>2, <2>2, StillThere
  <2> QED BY <1>1, <2>4, <2>5, <2>6, <2>7, AtRest
<1>5. ASSUME PullsConflict PROVE ConflictInv'
  <2>1. /\ Tracked' /\ unsent' = unsent /\ note' = note /\ gave' = gave
        /\ rec'.base = rec.base /\ rec'.time = rec.time /\ rec'.print = rec.print
        /\ rec'.sure = rec.sure
    BY <1>1, <1>5, StatusRecord DEF PullsConflict, ghosts
  <2>2. InNote' = InNote /\ AllGiven' = AllGiven /\ Given' = Given
    BY <2>1, NoneGiven DEF InNote, Given
  <2>4. TimesAgree'
    BY <1>1, <2>1 DEF TimesAgree, Unchanged
  <2>5. GoneIsGiven'
    BY <1>1, <2>1 DEF GoneIsGiven, Listed
  <2>6. NoteHolds' /\ BaseHeld' /\ SeenInBase'
    BY <1>1, <1>2, <2>1, <2>2 DEF NoteHolds, BaseHeld, SeenInBase, Stored
  <2>7. NoEditLost'
    BY <1>1, <1>2, <2>2, StillThere
  <2> QED BY <1>1, <2>4, <2>5, <2>6, <2>7, AtRest
<1> QED BY <1>3, <1>4, <1>5 DEF PullsPage

LEMMA PullsDeletionKeeps == ASSUME ConflictInv, ConflictTypeOK', PullsDeletion PROVE ConflictInv'
<1> USE NoteFacts, FieldFacts DEF ConflictInv
<1>1. /\ Tracked /\ stage = "idle" /\ stage' = "idle" /\ page.gone
      /\ UNCHANGED <<page, written, copies, list, stage, unsent>>
  BY DEF PullsDeletion
<1>2. OnPage' = OnPage /\ OnPage = {}
  BY <1>1 DEF OnPage
<1>3. CASE Modified
  <2>1. /\ Tracked' /\ note' = note /\ gave' = gave
        /\ rec'.base = rec.base /\ rec'.time = rec.time /\ rec'.print = rec.print
        /\ rec'.sure = rec.sure
    BY <1>1, <1>3, StatusRecord DEF PullsDeletion
  <2>2. InNote' = InNote /\ AllGiven' = AllGiven /\ Given' = Given
    BY <2>1, NoneGiven DEF InNote, Given
  <2>3. TimesAgree'
    BY <1>1, <2>1 DEF TimesAgree, Unchanged
  <2>4. GoneIsGiven'
    BY <1>1, <2>1, <2>2 DEF GoneIsGiven, Listed
  <2>5. NoteHolds' /\ BaseHeld' /\ SeenInBase'
    BY <1>1, <1>2, <2>1, <2>2 DEF NoteHolds, BaseHeld, SeenInBase, Stored
  <2>6. NoEditLost'
    BY <1>1, <1>2, <2>2, StillThere
  <2> QED BY <1>1, <2>3, <2>4, <2>5, <2>6, AtRest
<1>4. CASE ~Modified
  <2>1. ~Tracked' /\ note = rec.base /\ gave' = GivesUpUnsent(note)
    BY <1>4 DEF PullsDeletion, Modified, Tracked
  <2>2. /\ AllGiven \subseteq AllGiven'
        /\ rec.base = unsent.text => note \ {Marks} \subseteq AllGiven'
    BY <1>1, <2>1, UnsentGiven DEF ConflictTypeOK
  <2>3. Given \subseteq Given' /\ (rec.base = unsent.text => note \subseteq Given')
    BY <2>2 DEF Given
  <2>4. note \subseteq Given'
    BY <1>1, <1>2, <2>1, <2>3 DEF BaseHeld, Stored
  <2>5. TimesAgree' /\ NoteHolds' /\ BaseHeld' /\ SeenInBase'
    BY <1>1, <2>1 DEF TimesAgree, NoteHolds, BaseHeld, SeenInBase
  <2>6. GoneIsGiven'
    BY <1>1, <2>3 DEF GoneIsGiven, Listed
  <2>7. NoEditLost'
    BY <1>1, <1>2, <2>3, <2>4, StillThere
  <2> QED BY <1>1, <2>5, <2>6, <2>7, AtRest
<1> QED BY <1>3, <1>4

(* A page is made only where no page was left. *)
LEMMA CreatesKeeps ==
    ASSUME ConflictInv, ConflictTypeOK', Creates, stage' = "idle", list' = Blank PROVE ConflictInv'
<1> USE NoteFacts, FieldFacts DEF ConflictInv
<1>1. /\ note # Absent /\ note' = note /\ written' = written /\ copies' = copies /\ gave' = gave
      /\ page'.text = note /\ page'.time = page.time + 1 /\ ~page'.gone
      /\ rec' = Shared(note, page'.time) /\ ~Tracked
  BY DEF Creates, ghosts
<1>2. InNote' = note /\ OnPage' = note /\ InNote = note /\ AllGiven' = AllGiven /\ Given' = Given
  BY <1>1, NoneGiven DEF InNote, OnPage, Given
<1>3. rec'.base = note /\ rec'.print = note /\ ~rec'.sure /\ rec'.time = page'.time /\ Tracked'
  <2>1. note \in TextSets /\ page'.time \in Nat
    BY <1>1, PageChanges DEF ConflictTypeOK
  <2> QED BY <1>1, <2>1, NewRecord
<1>4. OnPage \subseteq Given
  BY <1>1 DEF GoneIsGiven
<1>5. TimesAgree'
  BY <1>1, <1>3 DEF TimesAgree, Unchanged, Blank, ConflictTypeOK, PageStates
<1>6. GoneIsGiven'
  BY <1>1, <1>3 DEF GoneIsGiven, Listed
<1>7. NoteHolds' /\ BaseHeld' /\ SeenInBase'
  BY <1>2, <1>3 DEF NoteHolds, BaseHeld, SeenInBase, Stored
<1>8. NoEditLost'
  BY <1>1, <1>2, <1>4, StillThere
<1> QED BY <1>5, <1>6, <1>7, <1>8, AtRest

LEMMA PushesKeeps == ASSUME ConflictInv, ConflictTypeOK', Pushes PROVE ConflictInv'
<1> USE NoteFacts, FieldFacts DEF ConflictInv
<1>1. /\ Tracked /\ note' = note /\ UNCHANGED <<written, copies, gave, list>>
      /\ stage = "idle" /\ stage' = "idle"
      /\ page' = [page EXCEPT !.text = note, !.time = page.time + 1] /\ ~page.gone
      /\ rec' = Shared(note, page'.time) /\ (Unchanged \/ rec.print = page.text)
  BY DEF Pushes
<1>2. page'.text = note /\ page'.time = page.time + 1 /\ ~page'.gone
  BY <1>1 DEF ConflictTypeOK, PageStates
<1>3. InNote' = note /\ OnPage' = note /\ InNote = note /\ AllGiven' = AllGiven /\ Given' = Given
  BY <1>1, <1>2, NoneGiven, TextFacts DEF InNote, OnPage, Given
<1>4. rec'.base = note /\ rec'.print = note /\ ~rec'.sure /\ rec'.time = page'.time /\ Tracked'
  <2>1. note \in TextSets /\ page'.time \in Nat
    BY <1>1, <1>2, PageChanges DEF ConflictTypeOK
  <2> QED BY <1>1, <2>1, NewRecord
<1>5. OnPage \subseteq InNote \cup Given
  <2>1. rec.print = page.text /\ rec.print # Absent
    BY <1>1, TextFacts DEF TimesAgree
  <2> QED BY <1>1, <2>1 DEF NoteHolds
<1>6. TimesAgree'
  BY <1>1, <1>2, <1>4 DEF TimesAgree, Unchanged
<1>7. GoneIsGiven'
  BY <1>1, <1>2, <1>4 DEF GoneIsGiven, Listed
<1>8. NoteHolds' /\ BaseHeld' /\ SeenInBase'
  BY <1>1, <1>3, <1>4 DEF NoteHolds, BaseHeld, SeenInBase, Stored
<1>9. NoEditLost'
  BY <1>1, <1>3, <1>5, StillThere
<1> QED BY <1>1, <1>6, <1>7, <1>8, <1>9, AtRest
--------------------------------------------------------------------------------
(* The steps of a resolution. *)

(* Where note, page and what was given up stay, so does every edit. *)
LEMMA NothingMoves ==
    ASSUME ConflictInv, UNCHANGED <<note, page, written, gave>>, copies \subseteq copies'
    PROVE  /\ InNote' = InNote /\ OnPage' = OnPage /\ AllGiven' = AllGiven /\ Given' = Given
           /\ NoEditLost'
<1>1. InNote' = InNote /\ OnPage' = OnPage /\ AllGiven' = AllGiven /\ Given' = Given
  BY NoneGiven DEF InNote, OnPage, Given
<1> QED BY <1>1, StillThere, NoteFacts DEF ConflictInv

LEMMA ListsFileKeeps == ASSUME ConflictInv, ConflictTypeOK', ListsFile PROVE ConflictInv'
<1> USE FieldFacts, NoteFacts DEF ConflictInv, Tracked, Stored, Listed
<1>1. /\ Tracked /\ stage = "idle" /\ stage' = "presence" /\ rec' = rec /\ page' = page
      /\ UNCHANGED <<note, written, copies, gave, unsent>>
  BY DEF ListsFile, people, ghosts
<1>2. list'.local = note /\ list'.base = rec.base /\ list'.time = 0 /\ ~list'.gone
  BY DEF ListsFile, Blank
<1>3. InNote' = InNote /\ OnPage' = OnPage /\ Given' = Given /\ NoEditLost'
  BY <1>1, NothingMoves
<1>4. TimesAgree'
  BY <1>1, <1>2 DEF TimesAgree, Unchanged
<1>5. GoneIsGiven'
  BY <1>1, <1>2, <1>3 DEF GoneIsGiven
<1>6. NoteHolds' /\ BaseHeld' /\ SeenInBase'
  BY <1>1, <1>3 DEF NoteHolds, BaseHeld, SeenInBase
<1>7. ListedBase' /\ LocalHeld'
  BY <1>1, <1>2, <1>3 DEF ListedBase, LocalHeld, NoteHolds
<1>8. RemoteHeld' /\ ResultHeld' /\ SentHeld'
  BY <1>1 DEF RemoteHeld, ResultHeld, SentHeld
<1> QED BY <1>3, <1>4, <1>5, <1>6, <1>7, <1>8

LEMMA AsksPresenceKeeps == ASSUME ConflictInv, ConflictTypeOK', AsksPresence PROVE ConflictInv'
<1> USE FieldFacts, NoteFacts DEF ConflictInv, Tracked, Stored, Listed
<1>1. /\ stage = "presence" /\ rec' = rec /\ page' = page
      /\ UNCHANGED <<note, written, copies, gave, unsent>>
      /\ stage' = IF page.gone THEN "ask" ELSE "body"
  BY DEF AsksPresence, people, ghosts
<1>2. list'.local = list.local /\ list'.base = list.base /\ list'.time = page.time /\ list'.gone = page.gone
  BY DEF AsksPresence, ConflictTypeOK, Listings
<1>3. InNote' = InNote /\ OnPage' = OnPage /\ Given' = Given /\ NoEditLost'
  BY <1>1, NothingMoves
<1>4. TimesAgree'
  BY <1>1, <1>2 DEF TimesAgree, Unchanged
<1>5. GoneIsGiven'
  BY <1>1, <1>2, <1>3 DEF GoneIsGiven
<1>6. NoteHolds' /\ BaseHeld' /\ SeenInBase'
  BY <1>1, <1>3 DEF NoteHolds, BaseHeld, SeenInBase
<1>7. ListedBase' /\ LocalHeld'
  BY <1>1, <1>2, <1>3 DEF ListedBase, LocalHeld
<1>8. RemoteHeld' /\ ResultHeld' /\ SentHeld'
  BY <1>1, <1>2 DEF RemoteHeld, ResultHeld, SentHeld
<1> QED BY <1>3, <1>4, <1>5, <1>6, <1>7, <1>8

LEMMA ReadsBodyKeeps == ASSUME ConflictInv, ConflictTypeOK', ReadsBody PROVE ConflictInv'
<1> USE FieldFacts, NoteFacts DEF ConflictInv, Tracked, Stored, Listed
<1>1. /\ stage = "body" /\ rec' = rec /\ page' = page
      /\ UNCHANGED <<note, written, copies, gave, unsent>>
      /\ stage' = IF list.local = page.text THEN "stale" ELSE "ask"
  BY DEF ReadsBody, people, ghosts
<1>2. /\ list'.local = list.local /\ list'.base = list.base /\ list'.time = list.time
      /\ list'.gone = list.gone /\ list'.remote = page.text
  BY DEF ReadsBody, ConflictTypeOK, Listings
<1>3. InNote' = InNote /\ OnPage' = OnPage /\ Given' = Given /\ NoEditLost'
  BY <1>1, NothingMoves
<1>4. TimesAgree'
  BY <1>1, <1>2 DEF TimesAgree, Unchanged
<1>5. GoneIsGiven'
  BY <1>1, <1>2, <1>3 DEF GoneIsGiven
<1>6. NoteHolds' /\ BaseHeld' /\ SeenInBase'
  BY <1>1, <1>3 DEF NoteHolds, BaseHeld, SeenInBase
<1>7. ListedBase' /\ LocalHeld'
  BY <1>1, <1>2, <1>3 DEF ListedBase, LocalHeld
<1>8. page.text \subseteq OnPage \cup Given
  BY DEF GoneIsGiven
<1>9. list.base = unsent.text \/ list.base \subseteq OnPage \cup Given
  BY <1>1 DEF BaseHeld, ListedBase
<1>10. RemoteHeld'
  BY <1>1, <1>2, <1>3, <1>8, <1>9 DEF RemoteHeld, OnPage, GoneIsGiven
<1>11. ResultHeld' /\ SentHeld'
  BY <1>1 DEF ResultHeld, SentHeld
<1> QED BY <1>3, <1>4, <1>5, <1>6, <1>7, <1>10, <1>11

LEMMA ClearsStaleKeeps == ASSUME ConflictInv, ConflictTypeOK', ClearsStale PROVE ConflictInv'
<1> USE FieldFacts, NoteFacts DEF ConflictInv, Listed
<1>1. /\ stage = "stale" /\ stage' = "idle" /\ page' = page /\ list' = Blank
      /\ UNCHANGED <<note, written, copies, gave>> /\ Tracked
      /\ rec' = [[rec EXCEPT !.base = list.local, !.status = "synced"]
                   EXCEPT !.time = list.time, !.print = Absent, !.sure = FALSE]
  BY DEF ClearsStale, Unverified, people, Rests
<1>2. rec'.base = list.local /\ rec'.time = list.time /\ rec'.print = Absent /\ ~rec'.sure /\ Tracked'
  <2>1. PICK q : q = [rec EXCEPT !.base = list.local, !.status = "synced"]
    OBVIOUS
  <2>2. q \in NoteRecords /\ q.base = list.local
    <3>1. rec \in NoteRecords /\ list.local \in TextSets /\ "synced" \in {"synced", "conflict"}
      BY <1>1
    <3> QED BY ONLY <2>1, <3>1 DEF NoteRecords
  <2>3. rec' = [q EXCEPT !.time = list.time, !.print = Absent, !.sure = FALSE]
    BY <1>1, <2>1
  <2> QED BY <2>2, <2>3, SeenRecord
<1>3. InNote' = InNote /\ OnPage' = OnPage /\ Given' = Given /\ NoEditLost'
  BY <1>1, NothingMoves
<1>4. TimesAgree'
  BY <1>1, <1>2 DEF TimesAgree, Unchanged, Blank
<1>5. GoneIsGiven'
  BY <1>1, <1>2, <1>3 DEF GoneIsGiven
<1>6. NoteHolds' /\ SeenInBase'
  BY <1>1, <1>2, <1>3 DEF NoteHolds, SeenInBase, LocalHeld
<1>7. BaseHeld'
  BY <1>1, <1>2, <1>3 DEF BaseHeld, RemoteHeld
<1> QED BY <1>1, <1>3, <1>4, <1>5, <1>6, <1>7, AtRest

LEMMA LeavesItKeeps == ASSUME ConflictInv, ConflictTypeOK', LeavesIt PROVE ConflictInv'
<1> USE FieldFacts, NoteFacts DEF ConflictInv, Tracked, Stored
<1>1. /\ stage = "ask" /\ stage' = "idle" /\ list' = Blank /\ rec' = rec /\ page' = page
      /\ UNCHANGED <<note, written, copies, gave, unsent>>
  BY DEF LeavesIt, people, ghosts, Rests
<1>2. InNote' = InNote /\ OnPage' = OnPage /\ Given' = Given /\ NoEditLost'
  BY <1>1, NothingMoves
<1>3. TimesAgree'
  BY <1>1 DEF TimesAgree, Unchanged, Blank
<1>4. GoneIsGiven'
  BY <1>1, <1>2 DEF GoneIsGiven, Listed
<1>5. NoteHolds' /\ BaseHeld' /\ SeenInBase'
  BY <1>1, <1>2 DEF NoteHolds, BaseHeld, SeenInBase
<1> QED BY <1>1, <1>2, <1>3, <1>4, <1>5, AtRest

LEMMA ChoosesKeeps ==
    ASSUME ConflictInv, ConflictTypeOK', NEW c \in Choices, Chooses(c) PROVE ConflictInv'
<1> USE FieldFacts, NoteFacts DEF ConflictInv, Tracked, Stored, Listed
<1>1. /\ stage = "ask" /\ rec' = rec /\ page' = page
      /\ UNCHANGED <<note, written, copies, gave, unsent>>
      /\ stage' = IF list.gone THEN "untrack" ELSE IF c = "local" THEN "store" ELSE "write"
  BY DEF Chooses, people, ghosts
<1>2. /\ list'.local = list.local /\ list'.base = list.base /\ list'.time = list.time
      /\ list'.gone = list.gone /\ list'.remote = list.remote /\ list'.answer = c
  BY DEF Chooses, ConflictTypeOK, Listings
<1>3. InNote' = InNote /\ OnPage' = OnPage /\ Given' = Given /\ NoEditLost'
  BY <1>1, NothingMoves
<1>4. TimesAgree'
  BY <1>1, <1>2 DEF TimesAgree, Unchanged
<1>5. GoneIsGiven'
  BY <1>1, <1>2, <1>3 DEF GoneIsGiven
<1>6. NoteHolds' /\ BaseHeld' /\ SeenInBase'
  BY <1>1, <1>3 DEF NoteHolds, BaseHeld, SeenInBase
<1>7. ListedBase' /\ LocalHeld'
  BY <1>1, <1>2, <1>3 DEF ListedBase, LocalHeld
<1>8. RemoteHeld'
  BY <1>1, <1>2, <1>3 DEF RemoteHeld
<1>9. list.local \subseteq InNote \cup {Marks} /\ list.base \subseteq list.local \cup Given
  BY <1>1 DEF LocalHeld, ListedBase
<1>10. stage' = "store" => Result' = list.local
  BY <1>1, <1>2 DEF Result
<1>11. ResultHeld'
  BY <1>1, <1>2, <1>3, <1>9, <1>10 DEF ResultHeld
<1>12. SentHeld'
  BY <1>1, <1>2, <1>3, <1>9 DEF SentHeld
<1> QED BY <1>3, <1>4, <1>5, <1>6, <1>7, <1>8, <1>11, <1>12

LEMMA UntracksKeeps == ASSUME ConflictInv, ConflictTypeOK', Untracks PROVE ConflictInv'
<1> USE FieldFacts, NoteFacts DEF ConflictInv
<1>1. /\ stage = "untrack" /\ ~Tracked' /\ stage' \in {"idle", "create"}
      /\ UNCHANGED <<page, written, copies>> /\ list' \in {list, Blank}
  BY DEF Untracks, Rests, Tracked
<1>2. Tracked /\ page.gone
  BY <1>1 DEF GoneIsGiven, Listed
<1>3. InNote \subseteq InNote' \cup Given' /\ Given \subseteq Given'
  <2>1. CASE list.answer = "remote"
    <3>1. note \ list.local \in TextSets
      BY <1>2, TextFacts
    <3>2. gave' = GivesUpBoth("choice", list.local, "race", note \ list.local)
      BY <2>1 DEF Untracks
    <3>3. AllGiven' = AllGiven \cup (list.local \ {Marks}) \cup ((note \ list.local) \ {Marks})
      BY <3>1, <3>2, BothGiven DEF ConflictTypeOK
    <3> QED BY <1>2, <3>3 DEF Given
  <2>2. CASE list.answer # "remote"
    <3>1. UNCHANGED <<note, gave>>
      BY <2>2 DEF Untracks
    <3> QED BY <3>1, NoneGiven DEF InNote, Given
  <2> QED BY <2>1, <2>2
<1>4. TimesAgree' /\ NoteHolds' /\ BaseHeld' /\ SeenInBase'
  BY <1>1 DEF TimesAgree, NoteHolds, BaseHeld, SeenInBase, Blank
<1>5. GoneIsGiven'
  BY <1>1, <1>2, <1>3 DEF GoneIsGiven, Listed
<1>6. NoEditLost'
  <2>1. OnPage' = OnPage
    BY <1>1 DEF OnPage
  <2> QED BY <1>1, <1>3, <2>1, StillThere
<1>7. ListedBase' /\ LocalHeld' /\ RemoteHeld' /\ ResultHeld' /\ SentHeld'
  BY <1>1 DEF ListedBase, LocalHeld, RemoteHeld, ResultHeld, SentHeld, Listed, Stored
<1> QED BY <1>4, <1>5, <1>6, <1>7

LEMMA WritesRemoteKeeps == ASSUME ConflictInv, ConflictTypeOK', WritesRemote PROVE ConflictInv'
<1> USE FieldFacts, NoteFacts DEF ConflictInv, Stored, Listed
<1>1. /\ stage = "write" /\ stage' = "store" /\ list.answer = "remote" /\ note' = list.remote
      /\ page' = page /\ rec' = rec /\ list' = list
      /\ UNCHANGED <<written, copies, unsent>>
  BY DEF WritesRemote
<1>2. Tracked /\ Tracked'
  BY <1>1 DEF Tracked
<1>3. /\ AllGiven \subseteq AllGiven'
      /\ (list.local \ list.remote) \ {Marks} \subseteq AllGiven'
      /\ ((note \ list.local) \ list.remote) \ {Marks} \subseteq AllGiven'
  <2>1. list.local \ list.remote \in TextSets /\ (note \ list.local) \ list.remote \in TextSets
    BY <1>2, TextFacts
  <2>2. gave' = GivesUpBoth("choice", list.local \ list.remote,
                            "race", (note \ list.local) \ list.remote)
    BY DEF WritesRemote
  <2>3. gave \in [Why -> SUBSET Edits]
    BY DEF ConflictTypeOK
  <2>4. AllGiven' = AllGiven \cup ((list.local \ list.remote) \ {Marks})
                      \cup (((note \ list.local) \ list.remote) \ {Marks})
    BY ONLY <2>1, <2>2, <2>3, BothGiven
  <2> QED BY ONLY <2>4
<1>4. InNote' = list.remote /\ OnPage' = OnPage
  BY <1>1, TextFacts DEF InNote, OnPage
<1>5. Given \subseteq Given' /\ InNote \subseteq InNote' \cup Given'
  BY <1>2, <1>3, <1>4 DEF Given
<1>6. TimesAgree'
  BY <1>1, <1>2 DEF TimesAgree, Unchanged
<1>7. GoneIsGiven'
  BY <1>1, <1>2, <1>5 DEF GoneIsGiven
<1>8. NoteHolds' /\ BaseHeld' /\ SeenInBase'
  BY <1>1, <1>2, <1>4, <1>5 DEF NoteHolds, BaseHeld, SeenInBase
<1>9. ListedBase' /\ LocalHeld' /\ RemoteHeld'
  BY <1>1, <1>4, <1>5 DEF ListedBase, LocalHeld, RemoteHeld
<1>10. ResultHeld' /\ SentHeld'
  BY <1>1, <1>4 DEF ResultHeld, SentHeld, Result
<1>11. NoEditLost'
  BY <1>1, <1>4, <1>5, StillThere
<1> QED BY <1>6, <1>7, <1>8, <1>9, <1>10, <1>11

LEMMA WritesMergedKeeps == ASSUME ConflictInv, ConflictTypeOK', WritesMerged PROVE ConflictInv'
<1> USE FieldFacts, NoteFacts DEF ConflictInv, Stored, Listed
<1>1. /\ stage = "write" /\ stage' = "store" /\ list.answer = "merge"
      /\ page' = page /\ rec' = rec
      /\ UNCHANGED <<written, copies, unsent>>
  BY DEF WritesMerged
<1>2. PICK marked \in {FALSE, Overlap}, more \in SUBSET (list.local \cup list.remote) :
         /\ note' = IF marked THEN Clean \cup more \cup {Marks} ELSE Clean
         /\ list' = [list EXCEPT !.marked = marked, !.sent = note']
  BY DEF WritesMerged
<1>3. /\ list'.local = list.local /\ list'.base = list.base /\ list'.time = list.time
      /\ list'.gone = list.gone /\ list'.remote = list.remote /\ list'.answer = "merge"
      /\ list'.sent = note'
  BY <1>1, <1>2 DEF ConflictTypeOK, Listings
<1>4. Tracked /\ Tracked' /\ Clean \subseteq note'
  BY <1>1, <1>2 DEF Tracked
<1>5. note' \in TextSets /\ InNote' = note' /\ OnPage' = OnPage
  <2>1. list'.sent \in TextSets
    BY DEF ConflictTypeOK, Listings
  <2> QED BY <1>1, <1>3, <2>1, TextFacts DEF InNote, OnPage
<1> DEFINE lost == (list.local \cup list.remote) \ note'
<1>6. /\ AllGiven \subseteq AllGiven'
      /\ rec.base = unsent.text => lost \ {Marks} \subseteq AllGiven'
      /\ ((note \ list.local) \ note') \ {Marks} \subseteq AllGiven'
  <2>1. lost \in TextSets /\ (note \ list.local) \ note' \in TextSets
    <3>1. list.local \cup list.remote \in TextSets /\ note \ list.local \in TextSets
      BY <1>4, TextFacts
    <3> QED BY <1>5, <3>1, TextFacts
  <2>2. gave' = [GivesUpUnsent(lost) EXCEPT !["race"] = @ \cup (((note \ list.local) \ note') \ {Marks})]
    BY DEF WritesMerged
  <2>3. gave \in [Why -> SUBSET Edits] /\ unsent.why \in Why
    BY DEF ConflictTypeOK
  <2> HIDE DEF lost
  <2>4. AllGiven' = (IF rec.base = unsent.text THEN AllGiven \cup (lost \ {Marks}) ELSE AllGiven)
                      \cup (((note \ list.local) \ note') \ {Marks})
    BY ONLY <2>1, <2>2, <2>3, MergeGiven
  <2> QED BY ONLY <2>4
<1>7. /\ Given \subseteq Given'
      /\ rec.base = unsent.text => lost \subseteq Given'
      /\ (note \ list.local) \ note' \subseteq Given'
  BY <1>6 DEF Given
<1>8. /\ rec.base = list.base
      /\ list.base \subseteq list.local \cup Given
      /\ list.base = unsent.text \/ list.base \subseteq list.remote \cup Given
  BY <1>1 DEF ListedBase, RemoteHeld
<1>9. ASSUME NEW e \in list.local, e \notin note' PROVE e \in Given'
  <2>1. e \in list.base /\ e \notin list.remote
    BY <1>4, <1>9 DEF Clean
  <2> QED BY <1>7, <1>8, <1>9, <2>1
<1>10. InNote \subseteq InNote' \cup Given'
  BY <1>4, <1>5, <1>7, <1>9
<1>11. ASSUME NEW e \in list.base PROVE e \in note' \cup Given'
  <2>1. CASE e \in list.local
    BY <1>9, <2>1
  <2> QED BY <1>7, <1>8, <2>1
<1>12. list.local \cap list.remote \subseteq note'
  BY <1>4 DEF Clean
<1>13. TimesAgree'
  BY <1>1, <1>3, <1>4 DEF TimesAgree, Unchanged
<1>14. GoneIsGiven'
  BY <1>1, <1>3, <1>4, <1>7 DEF GoneIsGiven
<1>15. NoteHolds' /\ BaseHeld' /\ SeenInBase'
  BY <1>1, <1>4, <1>5, <1>7, <1>10 DEF NoteHolds, BaseHeld, SeenInBase
<1>16. ListedBase'
  BY <1>1, <1>3, <1>5, <1>7, <1>8, <1>11 DEF ListedBase
<1>17. LocalHeld' /\ RemoteHeld'
  BY <1>1, <1>3, <1>5, <1>7 DEF LocalHeld, RemoteHeld
<1>18. Result' = note'
  BY <1>3 DEF Result
<1>19. ResultHeld' /\ SentHeld'
  BY <1>1, <1>3, <1>5, <1>11, <1>12, <1>18 DEF ResultHeld, SentHeld
<1>20. NoEditLost'
  BY <1>1, <1>5, <1>7, <1>10, StillThere
<1> QED BY <1>13, <1>14, <1>15, <1>16, <1>17, <1>19, <1>20

LEMMA WritesCopyKeeps == ASSUME ConflictInv, ConflictTypeOK', WritesCopy PROVE ConflictInv'
<1> USE FieldFacts, NoteFacts DEF ConflictInv, Tracked, Stored, Listed
<1>1. /\ stage = "write" /\ stage' = "store" /\ list.answer = "duplicate"
      /\ rec' = rec /\ page' = page /\ list' = list
      /\ UNCHANGED <<note, written, gave, unsent>> /\ copies \subseteq copies'
  BY DEF WritesCopy, people, ghosts
<1>2. InNote' = InNote /\ OnPage' = OnPage /\ Given' = Given /\ NoEditLost'
  BY <1>1, NothingMoves
<1>3. TimesAgree'
  BY <1>1 DEF TimesAgree, Unchanged
<1>4. GoneIsGiven'
  BY <1>1, <1>2 DEF GoneIsGiven
<1>5. NoteHolds' /\ BaseHeld' /\ SeenInBase'
  BY <1>1, <1>2 DEF NoteHolds, BaseHeld, SeenInBase
<1>6. ListedBase' /\ LocalHeld' /\ RemoteHeld'
  BY <1>1, <1>2 DEF ListedBase, LocalHeld, RemoteHeld
<1>7. list.local \subseteq InNote \cup {Marks} /\ list.base \subseteq list.local \cup Given
  BY <1>1 DEF LocalHeld, ListedBase
<1>8. Result' = list.local
  BY <1>1 DEF Result
<1>9. ResultHeld' /\ SentHeld'
  BY <1>1, <1>2, <1>7, <1>8 DEF ResultHeld, SentHeld
<1> QED BY <1>2, <1>3, <1>4, <1>5, <1>6, <1>9

LEMMA StoresKeeps == ASSUME ConflictInv, ConflictTypeOK', Stores PROVE ConflictInv'
<1> USE FieldFacts, NoteFacts DEF ConflictInv, Listed
<1>1. /\ stage = "store" /\ page' = page /\ Tracked
      /\ UNCHANGED <<note, written, copies, gave>>
  BY DEF Stores, people
<1>2. InNote' = InNote /\ OnPage' = OnPage /\ Given' = Given /\ NoEditLost'
  BY <1>1, NothingMoves
<1>3. /\ rec.base = list.base
      /\ list.base = unsent.text \/ list.base \subseteq OnPage \cup Given
      /\ list.base \subseteq InNote \cup Given /\ list.base \subseteq list.local \cup Given
  BY <1>1 DEF ListedBase, BaseHeld, Stored
<1>4. Result \subseteq InNote \cup {Marks}
  BY <1>1 DEF ResultHeld
<1> DEFINE r == [rec EXCEPT !.base = Result, !.status = IF list.marked THEN @ ELSE "synced"]
<1>5. /\ r \in NoteRecords /\ r.base = Result /\ r.time = rec.time /\ r.print = rec.print
      /\ r.sure = rec.sure
  <2>1. PICK c \in {"synced", "conflict"} : r = [rec EXCEPT !.base = Result, !.status = c]
    BY <1>1, RecordFacts
  <2>2. rec \in NoteRecords /\ Result \in TextSets
    BY <1>1
  <2> HIDE DEF r
  <2> QED BY ONLY <2>1, <2>2 DEF NoteRecords
<1>6. r # NoRecord
  BY <1>5, RecordFacts
<1>7. CASE list.answer = "remote"
  <2>1. rec' = [r EXCEPT !.time = list.time, !.print = Absent, !.sure = FALSE]
    BY <1>7 DEF Stores, Unverified
  <2>2. /\ rec'.base = Result /\ rec'.time = list.time /\ rec'.print = Absent /\ ~rec'.sure
        /\ Tracked'
    <3> HIDE DEF r
    <3> QED BY <1>5, <2>1, SeenRecord
  <2>3. stage' = "idle" /\ list' = Blank
    BY <1>7 DEF Stores, Rests
  <2>4. Result \subseteq OnPage \cup Given
    BY <1>1, <1>7 DEF Result, RemoteHeld
  <2>5. TimesAgree'
    BY <1>1, <2>2, <2>3 DEF TimesAgree, Unchanged, Blank
  <2>6. GoneIsGiven'
    BY <1>1, <1>2, <2>2, <2>3 DEF GoneIsGiven
  <2>7. NoteHolds' /\ BaseHeld' /\ SeenInBase'
    BY <1>2, <1>4, <2>2, <2>4 DEF NoteHolds, BaseHeld, SeenInBase
  <2> QED BY <1>2, <2>3, <2>5, <2>6, <2>7, AtRest
<1>8. CASE list.answer # "remote"
  <2>1. /\ rec'.base = Result /\ rec'.time = rec.time /\ rec'.print = rec.print
        /\ rec'.sure = rec.sure /\ Tracked'
    BY <1>5, <1>6, <1>8 DEF Stores, Tracked
  <2>2. list.base \subseteq Result \cup Given
    BY <1>1, <1>8 DEF ResultHeld
  <2>3. rec.print # Absent => rec.print \subseteq Result \cup Given /\ rec.print \subseteq list.base \cup Given
    BY <1>1, <1>3, <2>2 DEF SeenInBase
  <2>4. NoteHolds'
    BY <1>1, <1>2, <1>4, <2>1 DEF NoteHolds
  <2>5. CASE list.marked
    <3>1. stage' = "idle" /\ list' = Blank /\ unsent'.text = Result
      BY <2>5 DEF Stores, Rests
    <3>2. TimesAgree'
      BY <1>1, <2>1, <3>1 DEF TimesAgree, Unchanged, Blank
    <3>3. GoneIsGiven'
      BY <1>1, <1>2, <2>1, <3>1 DEF GoneIsGiven
    <3>4. BaseHeld' /\ SeenInBase'
      BY <1>2, <2>1, <2>3, <3>1 DEF BaseHeld, SeenInBase, Stored
    <3> QED BY <1>2, <2>4, <3>1, <3>2, <3>3, <3>4, AtRest
  <2>6. CASE ~list.marked
    <3>1. stage' \in {"upload", "seen"} /\ list' = list /\ unsent' = unsent
      BY <1>8, <2>6 DEF Stores, Onward
    <3>2. TimesAgree'
      BY <1>1, <2>1, <3>1 DEF TimesAgree, Unchanged
    <3>3. GoneIsGiven'
      BY <1>1, <1>2, <2>1, <3>1 DEF GoneIsGiven
    <3>4. BaseHeld' /\ SeenInBase'
      BY <1>2, <2>1, <2>3, <3>1 DEF BaseHeld, SeenInBase, Stored
    <3>5. ListedBase'
      BY <1>2, <1>3, <3>1 DEF ListedBase, Stored
    <3>6. LocalHeld' /\ RemoteHeld' /\ ResultHeld'
      BY <1>2, <1>8, <2>1, <2>2, <3>1 DEF LocalHeld, RemoteHeld, ResultHeld, Stored
    <3>7. SentHeld'
      BY <1>1, <1>2, <1>8, <3>1 DEF SentHeld, Stored
    <3> QED BY <1>2, <2>4, <3>2, <3>3, <3>4, <3>5, <3>6, <3>7
  <2> QED BY <2>5, <2>6
<1> QED BY <1>7, <1>8

LEMMA ReadsFileKeeps == ASSUME ConflictInv, ConflictTypeOK', ReadsFile PROVE ConflictInv'
<1> USE FieldFacts, NoteFacts DEF ConflictInv, Tracked, Stored, Listed
<1>1. /\ stage = "upload" /\ stage' = "send" /\ rec' = rec /\ page' = page /\ note # Absent
      /\ UNCHANGED <<note, written, copies, gave, unsent>>
  BY DEF ReadsFile, people, ghosts
<1>2. /\ list'.local = list.local /\ list'.base = list.base /\ list'.time = list.time
      /\ list'.gone = list.gone /\ list'.remote = list.remote /\ list'.answer = list.answer
      /\ list'.sent = note
  BY DEF ReadsFile, ConflictTypeOK, Listings
<1>3. InNote' = InNote /\ OnPage' = OnPage /\ Given' = Given /\ NoEditLost'
  BY <1>1, NothingMoves
<1>4. TimesAgree'
  BY <1>1, <1>2 DEF TimesAgree, Unchanged
<1>5. GoneIsGiven'
  BY <1>1, <1>2, <1>3 DEF GoneIsGiven
<1>6. NoteHolds' /\ BaseHeld' /\ SeenInBase'
  BY <1>1, <1>2, <1>3 DEF NoteHolds, BaseHeld, SeenInBase
<1>7. ListedBase' /\ LocalHeld' /\ RemoteHeld' /\ ResultHeld'
  BY <1>1, <1>2, <1>3 DEF ListedBase, LocalHeld, RemoteHeld, ResultHeld
<1>8. list.answer # "remote" /\ list.local \cap list.remote \subseteq InNote \cup {Marks}
  BY <1>1 DEF ResultHeld, SentHeld
<1>9. SentHeld'
  BY <1>1, <1>2, <1>3, <1>8 DEF SentHeld
<1> QED BY <1>3, <1>4, <1>5, <1>6, <1>7, <1>9

LEMMA SendsKeeps == ASSUME ConflictInv, ConflictTypeOK', Sends PROVE ConflictInv'
<1> USE FieldFacts, NoteFacts DEF ConflictInv, Tracked, Stored, Listed
<1>1. /\ stage = "send" /\ stage' = "sent" /\ rec' = rec /\ list' = list /\ ~page.gone
      /\ UNCHANGED <<note, written, copies, unsent>>
      /\ page' = [page EXCEPT !.text = list.sent, !.time = page.time + 1]
  BY DEF Sends
<1>2. page'.text = list.sent /\ page'.time = page.time + 1 /\ ~page'.gone
  BY <1>1 DEF ConflictTypeOK, PageStates
<1>3. InNote' = InNote /\ OnPage' = list.sent /\ OnPage = page.text
  BY <1>1, <1>2 DEF InNote, OnPage
<1>4. /\ AllGiven \subseteq AllGiven'
      /\ (((page.text \cap list.remote) \ list.sent) \ copies) \ {Marks} \subseteq AllGiven'
      /\ ((page.text \ list.remote) \ list.sent) \ {Marks} \subseteq AllGiven'
  <2>1. /\ ((page.text \cap list.remote) \ list.sent) \ copies \in TextSets
        /\ (page.text \ list.remote) \ list.sent \in TextSets
    BY TextFacts
  <2>2. gave' = GivesUpBoth("choice", ((page.text \cap list.remote) \ list.sent) \ copies,
                            "race", (page.text \ list.remote) \ list.sent)
    BY DEF Sends
  <2>3. gave \in [Why -> SUBSET Edits]
    BY DEF ConflictTypeOK
  <2>4. AllGiven' = AllGiven \cup ((((page.text \cap list.remote) \ list.sent) \ copies) \ {Marks})
                             \cup (((page.text \ list.remote) \ list.sent) \ {Marks})
    BY ONLY <2>1, <2>2, <2>3, BothGiven
  <2> QED BY ONLY <2>4
<1>5. /\ Given \subseteq Given' /\ OnPage \subseteq list.sent \cup copies \cup Given'
      /\ page.text \ list.remote \subseteq list.sent \cup Given'
  BY <1>3, <1>4 DEF Given
<1>6. /\ list.answer # "remote"
      /\ list.sent \subseteq InNote \cup {Marks}
      /\ list.local \cap list.remote \subseteq list.sent \cup {Marks}
      /\ list.local \cap list.remote \subseteq InNote \cup {Marks}
  BY <1>1 DEF ResultHeld, SentHeld
<1>7. ASSUME NEW e \in list.base, list.base # unsent.text PROVE e \in list.sent \cup Given'
  <2>1. e \in OnPage \cup Given /\ e \in list.local \cup Given
    BY <1>1, <1>7 DEF ListedBase
  <2>2. CASE e \in page.text /\ e \in list.local
    BY <1>5, <1>6, <2>2 DEF Given
  <2> QED BY <1>3, <1>5, <2>1, <2>2
<1>8. TimesAgree'
  BY <1>1, <1>2 DEF TimesAgree, Unchanged
<1>9. GoneIsGiven'
  BY <1>1, <1>2 DEF GoneIsGiven
<1>10. NoteHolds' /\ BaseHeld' /\ SeenInBase'
  BY <1>1, <1>3, <1>5 DEF NoteHolds, BaseHeld, SeenInBase
<1>11. ListedBase'
  BY <1>1, <1>3, <1>5, <1>7 DEF ListedBase
<1>12. LocalHeld' /\ RemoteHeld' /\ ResultHeld'
  BY <1>1, <1>5 DEF LocalHeld, RemoteHeld, ResultHeld
<1>13. SentHeld'
  BY <1>1, <1>3, <1>6 DEF SentHeld
<1>14. NoEditLost'
  BY <1>1, <1>3, <1>5, StillThere
<1> QED BY <1>8, <1>9, <1>10, <1>11, <1>12, <1>13, <1>14

LEMMA ReadsBackKeeps == ASSUME ConflictInv, ConflictTypeOK', ReadsBack PROVE ConflictInv'
<1> USE FieldFacts, NoteFacts DEF ConflictInv, Tracked, Stored, Listed
<1>1. /\ stage = "sent" /\ stage' = stage /\ rec' = rec /\ page' = page
      /\ UNCHANGED <<note, written, copies, gave, unsent>>
  BY DEF ReadsBack, people, ghosts
<1>2. /\ list'.local = list.local /\ list'.base = list.base /\ list'.time = list.time
      /\ list'.gone = list.gone /\ list'.remote = list.remote /\ list'.answer = list.answer
      /\ list'.sent = list.sent
  BY DEF ReadsBack, ConflictTypeOK, Listings
<1>3. InNote' = InNote /\ OnPage' = OnPage /\ Given' = Given /\ NoEditLost'
  BY <1>1, NothingMoves
<1>4. TimesAgree'
  BY <1>1, <1>2 DEF TimesAgree, Unchanged
<1>5. GoneIsGiven'
  BY <1>1, <1>2, <1>3 DEF GoneIsGiven
<1>6. NoteHolds' /\ BaseHeld' /\ SeenInBase'
  BY <1>1, <1>2, <1>3 DEF NoteHolds, BaseHeld, SeenInBase
<1>7. ListedBase' /\ LocalHeld' /\ RemoteHeld' /\ ResultHeld'
  BY <1>1, <1>2, <1>3 DEF ListedBase, LocalHeld, RemoteHeld, ResultHeld
<1>8. SentHeld'
  BY <1>1, <1>2, <1>3 DEF SentHeld
<1> QED BY <1>3, <1>4, <1>5, <1>6, <1>7, <1>8

LEMMA RecordsSentKeeps == ASSUME ConflictInv, ConflictTypeOK', RecordsSent PROVE ConflictInv'
<1> USE FieldFacts, NoteFacts DEF ConflictInv
<1>1. /\ stage = "sent" /\ stage' = "idle" /\ list' = Blank /\ page' = page
      /\ UNCHANGED <<note, written, copies>> /\ Tracked
  BY DEF RecordsSent, people, Rests, Listed
<1>2. /\ rec' = [Shared(list.sent, page.time) EXCEPT !.print = list.print]
      /\ gave' = GivesUp("reread", list.print \ list.sent)
  BY DEF RecordsSent
<1>3. rec'.base = list.sent /\ rec'.print = list.print /\ rec'.time = page.time /\ ~rec'.sure /\ Tracked'
  <2>1. list.print \in TextSets /\ list.sent \in TextSets /\ page.time \in Nat
    BY <1>1
  <2>2. rec' \in NoteRecords
    BY <1>2, <2>1 DEF Shared, NoteRecords
  <2> QED BY <1>2, <2>2, RecordFacts DEF Shared, Tracked
<1>4. AllGiven' = AllGiven \cup ((list.print \ list.sent) \ {Marks})
  <2>1. list.print \ list.sent \in TextSets /\ "reread" \in Why /\ gave \in [Why -> SUBSET Edits]
    BY TextFacts DEF Why, ConflictTypeOK
  <2> QED BY ONLY <1>2, <2>1, OneGiven
<1>5. Given \subseteq Given' /\ list.print \subseteq list.sent \cup Given'
  BY <1>4 DEF Given
<1>6. InNote' = InNote /\ OnPage' = OnPage
  BY <1>1 DEF InNote, OnPage
<1>7. NoEditLost'
  BY <1>1, <1>5, <1>6, StillThere
<1>8. list.sent \subseteq InNote \cup Given' /\ list.sent \subseteq OnPage \cup Given'
  BY <1>1, <1>5 DEF SentHeld
<1>9. TimesAgree'
  BY <1>1, <1>3 DEF TimesAgree, Unchanged, Blank
<1>10. GoneIsGiven'
  BY <1>1, <1>3, <1>5 DEF GoneIsGiven, Listed
<1>11. NoteHolds' /\ BaseHeld' /\ SeenInBase'
  BY <1>1, <1>3, <1>5, <1>6, <1>8 DEF NoteHolds, BaseHeld, SeenInBase, Stored
<1> QED BY <1>1, <1>7, <1>9, <1>10, <1>11, AtRest

LEMMA SeesLaterKeeps == ASSUME ConflictInv, ConflictTypeOK', SeesLater PROVE ConflictInv'
<1> USE FieldFacts, NoteFacts DEF ConflictInv
<1>1. /\ stage = "seen" /\ stage' = "idle" /\ list' = Blank /\ page' = page
      /\ UNCHANGED <<note, written, copies, gave>> /\ unsent'.text = rec.base /\ Tracked
  BY DEF SeesLater, SeenBase, people, Rests, Listed
<1>2. InNote' = InNote /\ OnPage' = OnPage
  BY <1>1 DEF InNote, OnPage
<1>3. /\ rec'.base = rec.base /\ rec'.time = list.time /\ rec'.print = Absent /\ ~rec'.sure
      /\ Tracked'
  <2>1. rec' = [rec EXCEPT !.time = list.time, !.print = Absent, !.sure = FALSE]
    BY DEF SeesLater, LaterSeen, Unverified
  <2>2. rec \in NoteRecords /\ list.time \in Nat
    BY <1>1
  <2> QED BY ONLY <2>1, <2>2, SeenRecord
<1>4. Given' = Given /\ NoEditLost'
  BY <1>1, NothingMoves
<1>5. TimesAgree'
  BY <1>1, <1>3 DEF TimesAgree, Unchanged, Blank
<1>6. GoneIsGiven'
  BY <1>1, <1>3, <1>4 DEF GoneIsGiven, Listed
<1>7. NoteHolds' /\ BaseHeld' /\ SeenInBase'
  BY <1>1, <1>2, <1>3, <1>4 DEF NoteHolds, BaseHeld, SeenInBase, Stored
<1> QED BY <1>1, <1>4, <1>5, <1>6, <1>7, AtRest

LEMMA SeesListedKeeps == ASSUME ConflictInv, ConflictTypeOK', SeesListed PROVE ConflictInv'
<1> USE FieldFacts, NoteFacts DEF ConflictInv
<1>1. /\ stage = "seen" /\ stage' = "vouch" /\ page' = page /\ list' = list /\ rec' = rec
      /\ UNCHANGED <<note, written, copies, gave, unsent>>
  BY DEF SeesListed, people, ghosts
<1>2. InNote' = InNote /\ OnPage' = OnPage /\ Given' = Given /\ NoEditLost' /\ Result' = Result
  BY <1>1, NothingMoves DEF Result
<1>3. TimesAgree' /\ GoneIsGiven'
  BY <1>1, <1>2 DEF TimesAgree, GoneIsGiven, Unchanged, Listed, Tracked
<1>4. NoteHolds' /\ BaseHeld' /\ SeenInBase' /\ ListedBase'
  BY <1>1, <1>2 DEF NoteHolds, BaseHeld, SeenInBase, ListedBase, Stored, Listed, Tracked
<1>5. LocalHeld' /\ RemoteHeld' /\ ResultHeld' /\ SentHeld'
  BY <1>1, <1>2 DEF LocalHeld, RemoteHeld, ResultHeld, SentHeld, Stored
<1> QED BY <1>2, <1>3, <1>4, <1>5

LEMMA RecordsSeenKeeps == ASSUME ConflictInv, ConflictTypeOK', RecordsSeen PROVE ConflictInv'
<1> USE FieldFacts, NoteFacts DEF ConflictInv
<1>1. /\ stage = "vouch" /\ stage' = "idle" /\ list' = Blank /\ page' = page
      /\ UNCHANGED <<note, written, copies>> /\ unsent'.text = rec.base /\ Tracked
  BY DEF RecordsSeen, SeenBase, people, Rests, Listed
<1>2. InNote' = InNote /\ OnPage' = OnPage
  BY <1>1 DEF InNote, OnPage
<1>3. /\ rec'.base = rec.base /\ rec'.time = list.time /\ rec'.print = page.text /\ Tracked'
  <2>1. PICK sure \in BOOLEAN :
          rec' = [rec EXCEPT !.time = list.time, !.print = page.text, !.sure = sure]
    BY DEF RecordsSeen
  <2>2. rec \in NoteRecords /\ page.text \in TextSets \cup {Absent} /\ list.time \in Nat
    BY <1>1
  <2> QED BY ONLY <2>1, <2>2, SeenRecord, sure \in BOOLEAN
<1>4. /\ AllGiven \subseteq AllGiven'
      /\ (page.text \ list.remote) \ {Marks} \subseteq AllGiven'
      /\ (list.remote \ rec.base) \ {Marks} \subseteq AllGiven'
  <2>1. list.remote \ rec.base \in TextSets /\ page.text \ list.remote \in TextSets
    BY <1>1, TextFacts
  <2>2. PICK v \in {"minute", "between"} :
          gave' = GivesUpBoth("choice", list.remote \ rec.base, v, page.text \ list.remote)
    BY DEF RecordsSeen
  <2>3. gave \in [Why -> SUBSET Edits]
    BY DEF ConflictTypeOK
  <2>4. AllGiven' = AllGiven \cup ((list.remote \ rec.base) \ {Marks})
                             \cup ((page.text \ list.remote) \ {Marks})
    BY ONLY <2>1, <2>2, <2>3, BothGiven
  <2> QED BY ONLY <2>4
<1>5. Given \subseteq Given' /\ page.text \subseteq rec.base \cup Given'
  BY <1>4 DEF Given
<1>6. TimesAgree'
  BY <1>1, <1>3 DEF TimesAgree, Blank
<1>7. GoneIsGiven'
  BY <1>1, <1>3, <1>5 DEF GoneIsGiven, Listed
<1>8. rec.base \subseteq InNote \cup Given
  BY <1>1 DEF NoteHolds
<1>9. NoteHolds' /\ BaseHeld' /\ SeenInBase'
  BY <1>1, <1>2, <1>3, <1>5, <1>8 DEF NoteHolds, BaseHeld, SeenInBase, Stored
<1>10. NoEditLost'
  BY <1>1, <1>2, <1>5, StillThere
<1> QED BY <1>1, <1>6, <1>7, <1>9, <1>10, AtRest

LEMMA FailsKeeps == ASSUME ConflictInv, ConflictTypeOK', Fails PROVE ConflictInv'
<1> USE FieldFacts, NoteFacts DEF ConflictInv
<1>1. /\ stage' = "idle" /\ list' = Blank /\ page' = page
      /\ UNCHANGED <<note, written, copies, gave, unsent>>
  BY DEF Fails, people, ghosts, Rests
<1>2. InNote' = InNote /\ OnPage' = OnPage /\ Given' = Given /\ NoEditLost'
  BY <1>1, NothingMoves
<1>3. CASE Stored
  <2>1. Tracked /\ rec' = [rec EXCEPT !.base = list.base, !.status = "conflict"]
    BY <1>3 DEF Fails, Reopened, Stored, Listed
  <2>2. rec \in NoteRecords /\ list.base \in TextSets
    BY <2>1
  <2>3. /\ rec'.base = list.base /\ rec'.time = rec.time /\ rec'.print = rec.print
        /\ rec'.sure = rec.sure /\ rec' \in NoteRecords
    BY ONLY <2>1, <2>2 DEF NoteRecords
  <2>4. Tracked'
    BY <2>3, RecordFacts DEF Tracked
  <2>5. TimesAgree'
    BY <1>1, <2>1, <2>3, <2>4 DEF TimesAgree, Unchanged, Blank
  <2>6. GoneIsGiven'
    BY <1>1, <1>2, <2>4 DEF GoneIsGiven, Listed
  <2>7. /\ list.base \subseteq InNote \cup Given
        /\ list.base = unsent.text \/ list.base \subseteq OnPage \cup Given
    BY <1>3 DEF ListedBase, Listed, Stored
  <2>8. rec.print # Absent => /\ rec.print \subseteq list.base \cup Given
                              /\ rec.print \subseteq InNote \cup Given
    BY <1>3, <2>1 DEF SeenInBase, NoteHolds
  <2>9. NoteHolds' /\ BaseHeld' /\ SeenInBase'
    BY <1>1, <1>2, <2>3, <2>7, <2>8 DEF NoteHolds, BaseHeld, SeenInBase, Stored
  <2> QED BY <1>1, <1>2, <2>5, <2>6, <2>9, AtRest
<1>4. CASE ~Stored
  <2>1. rec' = rec
    BY <1>4 DEF Fails
  <2>2. TimesAgree'
    BY <1>1, <2>1 DEF TimesAgree, Unchanged, Blank, Tracked
  <2>3. GoneIsGiven'
    BY <1>1, <1>2, <2>1 DEF GoneIsGiven, Listed, Tracked
  <2>4. NoteHolds' /\ BaseHeld' /\ SeenInBase'
    BY <1>1, <1>2, <1>4, <2>1 DEF NoteHolds, BaseHeld, SeenInBase, Stored, Tracked
  <2> QED BY <1>1, <1>2, <2>2, <2>3, <2>4, AtRest
<1> QED BY <1>3, <1>4

LEMMA AnswerDiesKeeps == ASSUME ConflictInv, ConflictTypeOK', AnswerDies PROVE ConflictInv'
<1> USE FieldFacts, NoteFacts DEF ConflictInv, Tracked
<1>1. /\ stage' = "idle" /\ list' = Blank /\ page' = page /\ rec' = rec
      /\ UNCHANGED <<note, written, copies, gave>>
      /\ unsent'.text = IF Stored THEN rec.base ELSE unsent.text
  BY DEF AnswerDies, people, Rests
<1>2. InNote' = InNote /\ OnPage' = OnPage /\ Given' = Given /\ NoEditLost'
  BY <1>1, NothingMoves
<1>3. TimesAgree'
  BY <1>1 DEF TimesAgree, Unchanged, Blank
<1>4. GoneIsGiven'
  BY <1>1, <1>2 DEF GoneIsGiven, Listed
<1>5. NoteHolds' /\ BaseHeld' /\ SeenInBase'
  BY <1>1, <1>2 DEF NoteHolds, BaseHeld, SeenInBase, Stored
<1> QED BY <1>1, <1>2, <1>3, <1>4, <1>5, AtRest
--------------------------------------------------------------------------------
(* The theorems. *)

LEMMA Initially == ConflictInit => ConflictInv
<1> SUFFICES ASSUME ConflictInit PROVE ConflictInv
  OBVIOUS
<1>1. /\ note = {} /\ copies = {} /\ stage = "idle" /\ list = Blank /\ written = 0
      /\ page.text = {} /\ page.time = 0 /\ ~page.gone
      /\ rec.base = {} /\ rec.print = {} /\ rec.time = 0 /\ rec \in NoteRecords
  BY TextFacts, RecordFacts DEF ConflictInit
<1>2. Tracked
  BY <1>1, RecordFacts DEF Tracked
<1>3. ConflictTypeOK
  <2>1. gave \in [Why -> SUBSET Edits]
    BY DEF ConflictInit
  <2>2. page \in PageStates
    BY TextFacts DEF ConflictInit, PageStates
  <2>3. note # Absent
    BY <1>1, TextFacts
  <2>4. uploads \in BOOLEAN /\ unsent \in [why : Why, text : TextSets \cup {Absent}] /\ list \in Listings
    BY NewOnes DEF ConflictInit
  <2>5. note \in TextSets /\ copies \in SUBSET (Edits \cup {Marks})
    BY <1>1, TextFacts
  <2>6. written \in 0..MaxWritten /\ trouble \in 0..MaxTrouble
    BY ConflictAssumption DEF ConflictInit
  <2> QED BY <1>1, <1>2, <2>1, <2>2, <2>3, <2>4, <2>5, <2>6 DEF ConflictTypeOK, Stages, Stored
<1>4. TimesAgree /\ GoneIsGiven
  BY <1>1, <1>2 DEF TimesAgree, GoneIsGiven, Blank, Listed
<1>5. NoteHolds /\ BaseHeld /\ SeenInBase
  BY <1>1 DEF NoteHolds, BaseHeld, SeenInBase, Stored
<1>6. ListedBase /\ LocalHeld /\ RemoteHeld /\ ResultHeld /\ SentHeld
  BY <1>1 DEF ListedBase, LocalHeld, RemoteHeld, ResultHeld, SentHeld, Listed, Stored
<1>7. NoEditLost
  BY <1>1 DEF NoEditLost
<1> QED BY <1>3, <1>4, <1>5, <1>6, <1>7 DEF ConflictInv

LEMMA Stutters == ASSUME ConflictInv, ConflictTypeOK', UNCHANGED conflictVars PROVE ConflictInv'
<1> USE DEF ConflictInv, conflictVars, people, ghosts, Tracked, Stored, Listed
<1>1. InNote' = InNote /\ OnPage' = OnPage /\ Given' = Given /\ NoEditLost'
  BY NothingMoves
<1>2. TimesAgree' /\ GoneIsGiven'
  BY <1>1 DEF TimesAgree, GoneIsGiven, Unchanged
<1> QED BY <1>1, <1>2, GoesOnHeld, NoteFacts

LEMMA ConflictStep == ConflictInv /\ [ConflictNext]_conflictVars => ConflictInv'
<1> SUFFICES ASSUME ConflictInv, [ConflictNext]_conflictVars PROVE ConflictInv'
  OBVIOUS
<1>1. ConflictTypeOK'
  BY TypeStep DEF ConflictInv
<1>2. ASSUME EditsFile \/ FixesMarks \/ TrashesPage \/ (\E b \in BOOLEAN : EditsPage(b)) PROVE ConflictInv'
  BY <1>1, <1>2, EditsFileKeeps, FixesMarksKeeps, TrashesPageKeeps, EditsPageKeeps
<1>3. ASSUME PullsPage \/ PullsDeletion \/ PullsNone PROVE ConflictInv'
  BY <1>1, <1>3, PullsPageKeeps, PullsDeletionKeeps, Stutters DEF PullsNone
<1>4. ASSUME PushesNew \/ Pushes PROVE ConflictInv'
  BY <1>1, <1>4, CreatesKeeps, PushesKeeps DEF PushesNew, Rests
<1>5. ASSUME \/ ListsFile \/ AsksPresence \/ ReadsBody \/ ClearsStale \/ LeavesIt
             \/ \E c \in Choices : Chooses(c)
      PROVE  ConflictInv'
  BY <1>1, <1>5, ListsFileKeeps, AsksPresenceKeeps, ReadsBodyKeeps, ClearsStaleKeeps,
     LeavesItKeeps, ChoosesKeeps
<1>6. ASSUME Untracks \/ CreatesAgain \/ WritesRemote \/ WritesMerged \/ WritesCopy \/ Stores PROVE ConflictInv'
  BY <1>1, <1>6, UntracksKeeps, CreatesKeeps, WritesRemoteKeeps, WritesMergedKeeps,
     WritesCopyKeeps, StoresKeeps DEF CreatesAgain, Rests
<1>7. ASSUME \/ ReadsFile \/ Sends \/ ReadsBack \/ RecordsSent
             \/ SeesLater \/ SeesListed \/ RecordsSeen \/ Fails \/ AnswerDies
      PROVE  ConflictInv'
  BY <1>1, <1>7, ReadsFileKeeps, SendsKeeps, ReadsBackKeeps, RecordsSentKeeps,
     SeesLaterKeeps, SeesListedKeeps, RecordsSeenKeeps, FailsKeeps, AnswerDiesKeeps
<1>8. CASE UNCHANGED conflictVars
  BY <1>1, <1>8, Stutters
<1> QED BY <1>2, <1>3, <1>4, <1>5, <1>6, <1>7, <1>8 DEF ConflictNext

(* The invariant: where every edit is while a conflict is resolved. *)
THEOREM ConflictInvariant == ConflictSpec => []ConflictInv
<1> QED BY Initially, ConflictStep, PTL DEF ConflictSpec

(* The types, and where a resolution can be: the record it began with stays a conflict *)
(* until the result is stored, and goes only when the note is made anew.               *)
THEOREM ConflictTypesCorrect == ConflictSpec => []ConflictTypeOK
<1>1. ConflictInv => ConflictTypeOK
  BY DEF ConflictInv
<1> QED BY <1>1, ConflictInvariant, PTL

(* No edit is lost: whatever is edited, trashed, failed or cut short while a conflict is *)
(* resolved, an edit is in the note, on the page, in a .conflict copy, or was given up   *)
(* by a cause that is noted (conflict-workflow.ts, conflict-resolver.ts).                *)
THEOREM NoEditIsLost == ConflictSpec => []NoEditLost
<1>1. ConflictInv => NoEditLost
  BY DEF ConflictInv
<1> QED BY <1>1, ConflictInvariant, PTL

(* What the record says it has seen, a pull has brought: an edit of a page that the next *)
(* pull will not look at is in the base, or was given up (conflict-workflow.ts:321).     *)
THEOREM SeenIsAlwaysReceived == ConflictSpec => []SeenIsReceived
<1>1. ConflictInv => SeenIsReceived
  <2> SUFFICES ASSUME ConflictInv, Tracked, Unchanged
               PROVE  page.text \ {Marks} \subseteq rec.base \cup AllGiven
    BY DEF SeenIsReceived
  <2>1. rec.print = page.text
    BY DEF ConflictInv, TimesAgree
  <2>2. rec.print # Absent
    BY <2>1, FieldFacts, TextFacts DEF ConflictInv
  <2> QED BY <2>1, <2>2 DEF ConflictInv, SeenInBase, Given
<1> QED BY <1>1, ConflictInvariant, PTL

--------------------------------------------------------------------------------

(* FolderPages.                                                              *)

(* Where the page of a note belongs. *)
Home(p) == IF IsFolderNote(p) THEN FolderOf(FolderOf(p)) ELSE FolderOf(p)

Names == UNION {{p[i] : i \in DOMAIN p} : p \in NotePaths}

Numbers == 0..Len(made)

FoldersTyped ==
    /\ toWrite \in NoteSets /\ inVault \subseteq toWrite
    /\ made \in Seq([parent : Nat, title : Names, for : Owners])
    /\ \A i \in DOMAIN made : made[i].parent < i
    /\ pageId \in [Owners -> Numbers]
    /\ openCreate \in [NotePaths -> SUBSET Numbers]
    /\ pushing \in {"no", "recover", "prepare", "pool"}
    /\ toRecover \subseteq NotePaths /\ newNotes \subseteq NotePaths /\ early \subseteq NotePaths
    /\ toPrepare \subseteq FolderPaths /\ unprepared \subseteq FolderPaths
    /\ atFolder \in FolderPaths \cup {Top}
    /\ making \in [NotePaths -> [at : {"off", "start", "search", "create", "done", "failed"},
                                 under : Numbers]]
    /\ mishaps \in 0..MaxMishaps

(* Nobody makes a page before the folders are prepared. *)
MakersRest == pushing \in {"no", "recover"} => \A p \in NotePaths : making[p].at = "off"

(* Only notes that people wrote get pages. *)
Held ==
    /\ newNotes \subseteq inVault
    /\ \A p \in NotePaths :
          HasPage(File(p)) \/ openCreate[p] # {} \/ making[p].at # "off" => p \in inVault

(* An open operation names the page under which the note belongs to this day, and a folder *)
(* has no page while its note may have one.                                                *)
OpenIsHome ==
    \A p \in NotePaths : openCreate[p] # {} =>
        /\ openCreate[p] = PageAt(Home(p)) /\ ~HasPage(File(p))
        /\ IsFolderNote(p) => PageAt(FolderOf(p)) = {}

MakerHasOp ==
    \A p \in NotePaths : making[p].at \in {"search", "create"} => openCreate[p] = {making[p].under}

MadeWhere ==
    /\ \A i \in DOMAIN made, p \in NotePaths : made[i].for = File(p) => made[i].title = TitleOf(p)
    /\ \A i \in DOMAIN made, f \in FolderPaths :
          made[i].for = Alone(f) =>
              made[i].title = TitleOf(f) /\ {made[i].parent} = PageAt(FolderOf(f))

(* The page of a lost answer is where the open operation has it looked for, unless the note *)
(* was given another.                                                                       *)
Orphans ==
    \A i \in DOMAIN made, p \in NotePaths :
        made[i].for = File(p) /\ i \notin Claims =>
            /\ making[p].at # "create"
            /\ HasPage(File(p)) \/ openCreate[p] = {made[i].parent}

FoldersInv ==
    FoldersTyped /\ MakersRest /\ Held /\ OpenIsHome /\ MakerHasOp /\ MadeWhere /\ Orphans
    /\ NoPageMadeTwice
--------------------------------------------------------------------------------
(* Paths. *)

LEMMA NotePathFacts ==
    ASSUME NEW p \in NotePaths
    PROVE  /\ p \in Seq(Names) /\ Len(p) \in Nat /\ Len(p) >= 1 /\ TitleOf(p) \in Names
           /\ Above(p) \subseteq FolderPaths
<1>1. p \in Seq({p[i] : i \in DOMAIN p}) /\ p # <<>>
  BY FoldersAssumption DEF NotePaths
<1>2. {p[i] : i \in DOMAIN p} \subseteq Names
  BY DEF Names
<1>3. p \in Seq(Names)
  BY <1>1, <1>2, SeqMonotonic
<1>4. Len(p) \in Nat /\ Len(p) >= 1
  BY <1>1, <1>3, EmptySeq
<1>5. TitleOf(p) \in Names
  BY <1>3, <1>4, ElementOfSeq DEF TitleOf
<1> QED BY <1>3, <1>4, <1>5 DEF FolderPaths

LEMMA PrefixFacts ==
    ASSUME NEW S, NEW p \in Seq(S), NEW i \in 1..Len(p)
    PROVE  SubSeq(p, 1, i) \in Seq(S) /\ Len(SubSeq(p, 1, i)) = i
<1>1. Len(p) \in Nat /\ \A k \in 1..i : p[k] \in S
  BY LenProperties, ElementOfSeq
<1> QED BY <1>1, SubSeqProperties

LEMMA FolderPathFacts ==
    ASSUME NEW f \in FolderPaths
    PROVE  /\ f \in Seq(Names) /\ Len(f) \in Nat /\ Len(f) >= 1 /\ TitleOf(f) \in Names
           /\ f # Top
<1>1. PICK p \in NotePaths : f \in Above(p)
  BY DEF FolderPaths
<1>2. PICK i \in 1..(Len(p) - 1) : f = SubSeq(p, 1, i)
  BY <1>1 DEF Above
<1>3. p \in Seq(Names) /\ Len(p) \in Nat
  BY NotePathFacts
<1>4. i \in 1..Len(p)
  BY <1>3
<1>5. f \in Seq(Names) /\ Len(f) = i
  BY <1>2, <1>3, <1>4, PrefixFacts
<1>6. TitleOf(f) \in Names
  BY <1>4, <1>5, ElementOfSeq DEF TitleOf
<1> QED BY <1>4, <1>5, <1>6, EmptySeq DEF Top

LEMMA FolderNoteFacts ==
    ASSUME NEW f \in FolderPaths
    PROVE  /\ FolderNote(f) \in Seq(Names) /\ FolderOf(FolderNote(f)) = f
           /\ IsFolderNote(FolderNote(f))
<1>1. f \in Seq(Names) /\ Len(f) \in Nat /\ Len(f) >= 1 /\ TitleOf(f) \in Names /\ f # Top
  BY FolderPathFacts
<1>2. /\ FolderNote(f) \in Seq(Names) /\ Len(FolderNote(f)) = Len(f) + 1
      /\ \A i \in 1..Len(f) : FolderNote(f)[i] = f[i]
  BY <1>1, AppendProperties DEF FolderNote
<1>3. FolderOf(FolderNote(f)) = SubSeq(FolderNote(f), 1, Len(f))
  BY <1>1, <1>2 DEF FolderOf
<1>4. /\ SubSeq(FolderNote(f), 1, Len(f)) \in Seq(Names)
      /\ Len(SubSeq(FolderNote(f), 1, Len(f))) = Len(f)
      /\ \A i \in 1..Len(f) : SubSeq(FolderNote(f), 1, Len(f))[i] = f[i]
  <2>1. 1 \in Int /\ Len(f) \in Int /\ \A i \in 1..Len(f) : FolderNote(f)[i] \in Names
    BY <1>1, <1>2, ElementOfSeq
  <2>2. \A i \in 1..Len(f) : SubSeq(FolderNote(f), 1, Len(f))[i] = FolderNote(f)[1 + i - 1]
    <3>1. \A i \in 1 .. Len(f)-1+1 : SubSeq(FolderNote(f),1,Len(f))[i] = FolderNote(f)[1+i-1]
      BY <2>1, SubSeqProperties
    <3> QED BY <3>1, <1>1
  <2>3. \A i \in 1..Len(f) : FolderNote(f)[1 + i - 1] = f[i]
    BY <1>1, <1>2
  <2>4. SubSeq(FolderNote(f), 1, Len(f)) \in Seq(Names) /\ Len(SubSeq(FolderNote(f), 1, Len(f))) = Len(f)
    BY <1>1, <2>1, SubSeqProperties
  <2> QED BY <2>2, <2>3, <2>4
<1>5. FolderOf(FolderNote(f)) = f
  BY <1>1, <1>3, <1>4, SeqEqual
<1> QED BY <1>1, <1>2, <1>5 DEF IsFolderNote

LEMMA IsFolderNoteFacts ==
    ASSUME NEW p \in NotePaths, IsFolderNote(p)
    PROVE  FolderOf(p) \in FolderPaths /\ p = FolderNote(FolderOf(p))
<1>1. p \in Seq(Names) /\ Len(p) \in Nat /\ Len(p) >= 1
  BY NotePathFacts
<1>2. Len(p) # 1
  <2> SUFFICES ASSUME Len(p) = 1 PROVE FALSE
    OBVIOUS
  <2>1. SubSeq(p, 1, 0) = <<>>
    BY SubSeqEmpty
  <2> QED BY <2>1 DEF IsFolderNote, FolderOf, Top
<1>3. Len(p) - 1 \in 1..(Len(p) - 1)
  BY <1>1, <1>2
<1>4. FolderOf(p) \in Above(p)
  BY <1>3 DEF FolderOf, Above
<1> QED BY <1>4, NotePathFacts DEF IsFolderNote

(* Records differ as what they are of differs. *)
LEMMA RecordsDiffer ==
    /\ \A p, q : File(p) = File(q) <=> p = q
    /\ \A f, g : Alone(f) = Alone(g) <=> f = g
    /\ \A p, f : File(p) # Alone(f)
BY DEF File, Alone

LEMMA OwnersOf ==
    /\ \A p \in NotePaths : File(p) \in Owners
    /\ \A f \in FolderPaths : Alone(f) \in Owners
    /\ \A p : File(p) \in Owners => p \in NotePaths
    /\ \A f : Alone(f) \in Owners => f \in FolderPaths
    /\ \A r \in Owners : (\E p \in NotePaths : r = File(p)) \/ (\E f \in FolderPaths : r = Alone(f))
BY RecordsDiffer DEF Owners

LEMMA FolderNotesDiffer ==
    ASSUME NEW f \in FolderPaths, NEW g \in FolderPaths, FolderNote(f) = FolderNote(g)
    PROVE  f = g
BY FolderNoteFacts

(* The folders, and the top of the vault. *)
Containers == FolderPaths \cup {Top}

(* The folder of a folder is above whatever the folder is above. *)
LEMMA AboveFacts ==
    ASSUME NEW p \in NotePaths
    PROVE  /\ FolderOf(p) \in Above(p) \cup {Top}
           /\ \A f \in Above(p) : /\ f \in FolderPaths
                                  /\ FolderOf(f) = Top \/ (FolderOf(f) \in Above(p) /\ Len(FolderOf(f)) < Len(f))
<1>0. p \in Seq(Names) /\ Len(p) \in Nat /\ Len(p) >= 1 /\ Above(p) \subseteq FolderPaths
  BY NotePathFacts
<1>1. ASSUME NEW i \in 1..Len(p)
      PROVE  IF i = 1 THEN SubSeq(p, 1, i - 1) = Top
             ELSE SubSeq(p, 1, i - 1) \in Above(p) /\ Len(SubSeq(p, 1, i - 1)) = i - 1
  <2>1. CASE i = 1
    BY <2>1, SubSeqEmpty DEF Top
  <2>2. CASE i # 1
    <3>1. i - 1 \in 1..(Len(p) - 1) /\ i - 1 \in 1..Len(p)
      BY <1>0, <2>2
    <3> QED BY <1>0, <2>2, <3>1, PrefixFacts DEF Above
  <2> QED BY <2>1, <2>2
<1>2. FolderOf(p) \in Above(p) \cup {Top}
  <2>1. Len(p) \in 1..Len(p)
    BY <1>0
  <2> QED BY <1>1, <2>1 DEF FolderOf
<1>3. ASSUME NEW f \in Above(p)
      PROVE  FolderOf(f) = Top \/ (FolderOf(f) \in Above(p) /\ Len(FolderOf(f)) < Len(f))
  <2>2. PICK i \in 1..(Len(p) - 1) : f = SubSeq(p, 1, i)
    BY DEF Above
  <2>3. i \in 1..Len(p) /\ 1 \in 1..Len(p)
    BY <1>0
  <2>4. Len(f) = i
    BY <1>0, <2>2, <2>3, PrefixFacts
  <2>5. SubSeq(f, 1, i - 1) = SubSeq(p, 1, i - 1)
    <3>1. CASE i = 1
      BY <3>1, SubSeqEmpty
    <3>2. CASE i # 1
      <4>1. 1 \in 1..(i - 1 + 1) /\ i - 1 \in 1..(i - 1 + 1)
        BY <2>3, <3>2
      <4>2. SubSeq(SubSeq(p, 1, i), 1, i - 1) = SubSeq(p, 1 + 1 - 1, 1 + (i - 1) - 1)
        BY <1>0, <2>3, <4>1, SubSeqOfSubSeq
      <4>3. 1 + 1 - 1 = 1 /\ 1 + (i - 1) - 1 = i - 1
        BY <2>3
      <4> QED BY <2>2, <4>2, <4>3
    <3> QED BY <3>1, <3>2
  <2>6. i - 1 < i
    BY <2>3
  <2> QED BY <1>1, <2>3, <2>4, <2>5, <2>6 DEF FolderOf
<1> QED BY <1>0, <1>2, <1>3

LEMMA FolderOfFacts ==
    /\ \A p \in NotePaths : FolderOf(p) \in Containers /\ Home(p) \in Containers
    /\ \A f \in FolderPaths : FolderOf(f) \in Containers
<1>1. ASSUME NEW p \in NotePaths PROVE FolderOf(p) \in Containers
  BY AboveFacts, NotePathFacts DEF Containers
<1>2. ASSUME NEW f \in FolderPaths PROVE FolderOf(f) \in Containers
  <2>1. PICK p \in NotePaths : f \in Above(p)
    BY DEF FolderPaths
  <2> QED BY <2>1, AboveFacts, NotePathFacts DEF Containers
<1>3. ASSUME NEW p \in NotePaths PROVE Home(p) \in Containers
  BY <1>1, <1>2, IsFolderNoteFacts DEF Home
<1> QED BY <1>1, <1>2, <1>3
--------------------------------------------------------------------------------
(* Pages and records. *)

LEMMA FirstIsIn ==
    ASSUME NEW S \in SUBSET Nat, S # {}
    PROVE  FirstOf(S) \in S
<1> DEFINE R == {ss \in Nat \X Nat : ss[1] < ss[2]}
<1>1. IsWellFoundedOn(R, Nat)
  BY NatLessThanWellFounded DEF OpToRel
<1>2. PICK x \in S : \A y \in S : ~(<<y, x>> \in R)
  <2> HIDE DEF R
  <2> QED BY <1>1, WFMin
<1>3. ASSUME NEW y \in S PROVE x <= y
  <2>1. ~(<<y, x>> \in R)
    BY <1>2
  <2>2. <<y, x>> \in R <=> y < x
    BY y \in Nat, x \in Nat
  <2>3. ~(y < x)
    BY <2>1, <2>2
  <2> HIDE DEF R
  <2>4. x \in Nat /\ y \in Nat
    OBVIOUS
  <2> QED BY ONLY <2>3, <2>4, SMT
<1> QED BY <1>3 DEF FirstOf

LEMMA MadeFacts ==
    ASSUME FoldersTyped
    PROVE  /\ Len(made) \in Nat /\ DOMAIN made = 1..Len(made)
           /\ \A i \in DOMAIN made : /\ i \in Nat /\ i # 0 /\ made[i].parent \in Numbers
                                     /\ made[i].for \in Owners /\ made[i].title \in Names
<1>1. Len(made) \in Nat /\ DOMAIN made = 1..Len(made)
  BY LenProperties DEF FoldersTyped
<1>2. ASSUME NEW i \in DOMAIN made
      PROVE  made[i] \in [parent : Nat, title : Names, for : Owners] /\ made[i].parent < i
  BY <1>1, ElementOfSeq DEF FoldersTyped
<1> QED BY <1>1, <1>2 DEF Numbers

LEMMA PageAtFacts ==
    ASSUME FoldersTyped, NEW f, NEW parent \in PageAt(f)
    PROVE  parent \in Numbers /\ PageAt(f) = {parent}
<1>1. \A r \in Owners : pageId[r] \in Numbers
  BY DEF FoldersTyped
<1>2. RootPage \in Numbers
  BY MadeFacts DEF RootPage, Numbers
<1> QED BY <1>1, <1>2 DEF PageAt, HasPage

(* What a search finds is a page that no record names. *)
LEMMA FoundFacts ==
    ASSUME FoldersTyped, NEW parent, NEW title, Unclaimed(parent, title) # {}
    PROVE  /\ FirstOf(Unclaimed(parent, title)) \in DOMAIN made
           /\ FirstOf(Unclaimed(parent, title)) \in Nat \ {0}
           /\ FirstOf(Unclaimed(parent, title)) \in Numbers
           /\ FirstOf(Unclaimed(parent, title)) \notin Claims
<1>1. Unclaimed(parent, title) \subseteq DOMAIN made /\ Unclaimed(parent, title) \in SUBSET Nat
  BY MadeFacts DEF Unclaimed
<1>2. FirstOf(Unclaimed(parent, title)) \in Unclaimed(parent, title)
  BY <1>1, FirstIsIn
<1> QED BY <1>1, <1>2, MadeFacts DEF Unclaimed, Numbers

(* What no step undoes: a folder keeps its page and a note has one, a page that was claimed *)
(* stays claimed, and one that was given away stays away.                                   *)
Grow ==
    /\ \A f \in Containers : PageAt(f) # {} => PageAt(f)' = PageAt(f)
    /\ \A p \in NotePaths : HasPage(File(p)) => HasPage(File(p))'
    /\ \A i \in Nat \ {0} : i \in Claims => i \in Claims'
    /\ \A i \in Nat \ {0}, v \in Owners : GivenAway(i, v) => GivenAway(i, v)'

LEMMA StaysGrows == ASSUME UNCHANGED pageId PROVE Grow
BY DEF Grow, PageAt, HasPage, Claims, GivenAway

LEMMA GainGrows ==
    ASSUME FoldersTyped, NEW r \in Owners, pageId[r] = 0, NEW n \in Nat,
           pageId' = [pageId EXCEPT ![r] = n],
           \A f \in FolderPaths : r = File(FolderNote(f)) \/ r = Alone(f) => PageAt(f) = {}
    PROVE  Grow
<1>1. \A s \in Owners : pageId[s] # 0 => pageId'[s] = pageId[s]
  BY DEF FoldersTyped
<1>2. \A s : HasPage(s) => HasPage(s)' /\ pageId'[s] = pageId[s]
  BY <1>1 DEF HasPage
<1>3. ASSUME NEW f \in FolderPaths, PageAt(f) # {}
      PROVE  PageAt(f)' = PageAt(f)
  <2>1. f # Top /\ r # File(FolderNote(f)) /\ r # Alone(f)
    BY <1>3, FolderPathFacts
  <2>2. \A s \in {File(FolderNote(f)), Alone(f)} :
           (HasPage(s)' <=> HasPage(s)) /\ (HasPage(s) => pageId'[s] = pageId[s])
    BY <2>1 DEF HasPage, FoldersTyped
  <2> QED BY <1>2, <1>3, <2>1, <2>2 DEF PageAt
<1>4. PageAt(Top)' = PageAt(Top)
  BY DEF PageAt
<1>5. ASSUME NEW i \in Nat \ {0}, NEW v
      PROVE  (i \in Claims => i \in Claims') /\ (GivenAway(i, v) => GivenAway(i, v)')
  BY <1>1 DEF Claims, GivenAway
<1> QED BY <1>2, <1>3, <1>4, <1>5 DEF Grow, Containers

(* adoptFolderPage gives the page of a folder to its note, and it stays the folder's. *)
LEMMA AdoptionGrows ==
    ASSUME FoldersTyped, NEW f \in FolderPaths, Adopts(f)
    PROVE  Grow
<1> DEFINE n == FolderNote(f)
<1>1. /\ n \in NotePaths /\ File(n) \in Owners /\ Alone(f) \in Owners /\ File(n) # Alone(f)
      /\ pageId[File(n)] = 0 /\ pageId[Alone(f)] # 0
  BY OwnersOf, RecordsDiffer DEF Adopts, MayAdopt, HasPage, FoldersTyped
<1>2. /\ pageId'[File(n)] = pageId[Alone(f)] /\ pageId'[Alone(f)] = 0
      /\ \A s \in Owners \ {File(n), Alone(f)} : pageId'[s] = pageId[s]
  BY <1>1 DEF Adopts, FoldersTyped
<1>3. \A p \in NotePaths : HasPage(File(p)) => HasPage(File(p))'
  <2> SUFFICES ASSUME NEW p \in NotePaths, HasPage(File(p)) PROVE HasPage(File(p))'
    OBVIOUS
  <2>1. File(p) # File(n) /\ File(p) # Alone(f)
    BY <1>1, RecordsDiffer DEF HasPage
  <2> QED BY <1>2, <2>1 DEF HasPage
<1>4. ASSUME NEW g \in FolderPaths, PageAt(g) # {} PROVE PageAt(g)' = PageAt(g)
  <2>1. g # Top
    BY FolderPathFacts
  <2>2. CASE g = f
    <3>1. PageAt(f) = {pageId[Alone(f)]}
      BY <1>1, <2>1, <2>2 DEF PageAt, HasPage
    <3>2. PageAt(f)' = {pageId'[File(n)]}
      BY <1>1, <1>2, <2>1, <2>2 DEF PageAt, HasPage
    <3> QED BY <1>2, <2>2, <3>1, <3>2
  <2>3. CASE g # f
    <3>1. File(FolderNote(g)) \notin {File(n), Alone(f)} /\ Alone(g) \notin {File(n), Alone(f)}
      BY <2>3, RecordsDiffer, FolderNotesDiffer
    <3>2. /\ HasPage(File(FolderNote(g)))' <=> HasPage(File(FolderNote(g)))
          /\ HasPage(File(FolderNote(g))) => pageId'[File(FolderNote(g))] = pageId[File(FolderNote(g))]
          /\ HasPage(Alone(g))' <=> HasPage(Alone(g))
          /\ HasPage(Alone(g)) => pageId'[Alone(g)] = pageId[Alone(g)]
      BY <1>2, <3>1 DEF HasPage
    <3>3. HasPage(File(g)) => HasPage(File(g))' /\ pageId'[File(g)] = pageId[File(g)]
      BY <1>1, <1>2, RecordsDiffer DEF HasPage
    <3> QED BY <1>4, <2>1, <3>2, <3>3 DEF PageAt
  <2> QED BY <2>2, <2>3
<1>5. PageAt(Top)' = PageAt(Top)
  BY DEF PageAt
<1>6. ASSUME NEW i \in Nat \ {0}, i \in Claims PROVE i \in Claims'
  <2>1. PICK r \in Owners : pageId[r] = i
    BY <1>6 DEF Claims
  <2>2. r # File(n)
    BY <1>1, <2>1
  <2>3. pageId'[r] = i \/ pageId'[File(n)] = i
    BY <1>2, <2>1, <2>2
  <2> QED BY <1>1, <2>3 DEF Claims
<1>7. ASSUME NEW i \in Nat \ {0}, NEW v \in Owners, GivenAway(i, v) PROVE GivenAway(i, v)'
  <2>1. PICK r \in Owners : pageId[r] = i /\ r # v /\ ~SameFolder(r, v)
    BY <1>7 DEF GivenAway
  <2>2. CASE r # Alone(f)
    <3>1. pageId'[r] = i
      BY <1>1, <1>2, <2>1, <2>2
    <3> QED BY <2>1, <3>1 DEF GivenAway
  <2>3. CASE r = Alone(f)
    <3>1. v \notin {File(n), Alone(f)}
      BY <2>1, <2>3 DEF SameFolder
    <3>2. ~SameFolder(File(n), v)
      <4> SUFFICES ASSUME NEW g \in FolderPaths, {File(n), v} \subseteq {File(FolderNote(g)), Alone(g)}
                   PROVE  FALSE
        BY DEF SameFolder
      <4>1. n = FolderNote(g)
        BY RecordsDiffer
      <4>2. g = f
        BY <4>1, FolderNotesDiffer
      <4> QED BY <3>1, <4>2
    <3>3. pageId'[File(n)] = i
      BY <1>2, <2>1, <2>3
    <3> QED BY <1>1, <3>1, <3>2, <3>3 DEF GivenAway
  <2> QED BY <2>2, <2>3
<1> QED BY <1>3, <1>4, <1>5, <1>6, <1>7 DEF Grow, Containers
--------------------------------------------------------------------------------
(* What a step does to the parts of the invariant. *)

Page == [parent : Numbers, title : Names, for : Owners]

LEMMA MadeGrows ==
    ASSUME FoldersTyped, NEW new \in Page, made' = Append(made, new)
    PROVE  /\ Len(made') = Len(made) + 1 /\ DOMAIN made' = DOMAIN made \cup {Len(made')}
           /\ Len(made') \notin DOMAIN made /\ Len(made') \in Nat \ {0}
           /\ \A i \in DOMAIN made : made'[i] = made[i]
           /\ made'[Len(made')] = new
           /\ made' \in Seq([parent : Nat, title : Names, for : Owners])
           /\ \A i \in DOMAIN made' : made'[i].parent < i
           /\ Numbers \subseteq Numbers' /\ Len(made') \in Numbers'
<1>1. /\ made \in Seq([parent : Nat, title : Names, for : Owners]) /\ Len(made) \in Nat
      /\ DOMAIN made = 1..Len(made)
  BY MadeFacts DEF FoldersTyped
<1>2. new \in [parent : Nat, title : Names, for : Owners] /\ new.parent <= Len(made)
  BY <1>1 DEF Page, Numbers
<1>3. /\ made' \in Seq([parent : Nat, title : Names, for : Owners])
      /\ Len(made') = Len(made) + 1
      /\ \A i \in 1..Len(made) : made'[i] = made[i]
      /\ made'[Len(made) + 1] = new
  BY <1>1, <1>2, AppendProperties
<1>4. DOMAIN made' = 1..Len(made')
  BY <1>3, LenProperties
<1>5. DOMAIN made' = DOMAIN made \cup {Len(made')} /\ Len(made') \notin DOMAIN made
  BY <1>1, <1>3, <1>4
<1>6. ASSUME NEW i \in DOMAIN made' PROVE made'[i].parent < i
  <2>1. CASE i \in DOMAIN made
    BY <1>1, <1>3, <2>1 DEF FoldersTyped
  <2>2. CASE i = Len(made')
    <3>1. new.parent \in Nat
      BY <1>2
    <3> QED BY <1>1, <1>2, <1>3, <2>2, <3>1
  <2> QED BY <1>5, <2>1, <2>2
<1> QED BY <1>1, <1>3, <1>5, <1>6 DEF Numbers

(* A folder that has one of its two kinds of note has not the other. *)
OneKind == \A S \in NoteSets, f \in FolderPaths : ~(f \in S /\ FolderNote(f) \in S)

LEMMA FolderHasNoPage ==
    ASSUME OneKind, inVault \subseteq toWrite, toWrite \in NoteSets,
           \A p \in NotePaths : HasPage(File(p)) => p \in inVault,
           NEW p \in NotePaths, IsFolderNote(p), p \in inVault,
           ~HasPage(File(p)), ~HasPage(Alone(FolderOf(p)))
    PROVE  PageAt(FolderOf(p)) = {}
<1>1. FolderOf(p) \in FolderPaths /\ p = FolderNote(FolderOf(p)) /\ FolderOf(p) # Top
  BY IsFolderNoteFacts, FolderPathFacts
<1>2. FolderOf(p) \notin inVault
  BY <1>1 DEF OneKind
<1>3. ~HasPage(File(FolderOf(p)))
  BY <1>2, OwnersOf DEF HasPage
<1> QED BY <1>1, <1>3 DEF PageAt

LEMMA OpenStaysHome ==
    ASSUME OneKind, FoldersInv, FoldersTyped', Held', Grow,
           \A p \in NotePaths : openCreate'[p] # {} =>
               /\ ~HasPage(File(p))'
               /\ IsFolderNote(p) => ~HasPage(Alone(FolderOf(p)))'
               /\ openCreate'[p] = openCreate[p] \/ openCreate'[p] = PageAt(Home(p))
    PROVE  OpenIsHome'
<1> SUFFICES ASSUME NEW p \in NotePaths, openCreate'[p] # {}
             PROVE  /\ openCreate'[p] = PageAt(Home(p))' /\ ~HasPage(File(p))'
                    /\ IsFolderNote(p) => PageAt(FolderOf(p))' = {}
  BY DEF OpenIsHome
<1>1. openCreate'[p] = PageAt(Home(p))
  BY DEF FoldersInv, OpenIsHome
<1>2. openCreate'[p] = PageAt(Home(p))'
  BY <1>1, FolderOfFacts DEF Grow
<1>3. p \in inVault'
  BY DEF Held
<1>4. ASSUME IsFolderNote(p) PROVE PageAt(FolderOf(p))' = {}
  <2>1. FolderOf(p) \in FolderPaths /\ p = FolderNote(FolderOf(p)) /\ FolderOf(p) # Top
    BY <1>4, IsFolderNoteFacts, FolderPathFacts
  <2>2. FolderOf(p) \notin inVault'
    BY <1>3, <2>1 DEF OneKind, FoldersTyped
  <2>3. ~HasPage(File(FolderOf(p)))'
    BY <2>2, OwnersOf DEF HasPage, Held
  <2>4. ~HasPage(File(p))' /\ ~HasPage(Alone(FolderOf(p)))'
    BY <1>4
  <2> QED BY <2>1, <2>3, <2>4 DEF PageAt
<1> QED BY <1>2, <1>4

LEMMA MadeStaysWhere ==
    ASSUME FoldersInv, Grow,
           \/ made' = made
           \/ \E new \in Page :
                 /\ made' = Append(made, new)
                 /\ \A p \in NotePaths : new.for = File(p) => new.title = TitleOf(p)
                 /\ \A f \in FolderPaths : new.for = Alone(f) =>
                       new.title = TitleOf(f) /\ {new.parent} = PageAt(FolderOf(f))
    PROVE  MadeWhere'
<1>0. FoldersTyped /\ MadeWhere
  BY DEF FoldersInv
<1>1. ASSUME NEW f \in FolderPaths, NEW n, {n} = PageAt(FolderOf(f))
      PROVE  {n} = PageAt(FolderOf(f))'
  BY <1>1, FolderOfFacts DEF Grow
<1>2. CASE made' = made
  BY <1>0, <1>1, <1>2 DEF MadeWhere
<1>3. CASE made' # made
  <2>1. PICK new \in Page :
           /\ made' = Append(made, new)
           /\ \A p \in NotePaths : new.for = File(p) => new.title = TitleOf(p)
           /\ \A f \in FolderPaths : new.for = Alone(f) =>
                 new.title = TitleOf(f) /\ {new.parent} = PageAt(FolderOf(f))
    BY <1>3
  <2>2. /\ DOMAIN made' = DOMAIN made \cup {Len(made')}
        /\ \A i \in DOMAIN made : made'[i] = made[i]
        /\ made'[Len(made')] = new
    BY <1>0, <2>1, MadeGrows
  <2> SUFFICES ASSUME NEW i \in DOMAIN made'
               PROVE  /\ \A p \in NotePaths : made'[i].for = File(p) => made'[i].title = TitleOf(p)
                      /\ \A f \in FolderPaths : made'[i].for = Alone(f) =>
                            made'[i].title = TitleOf(f) /\ {made'[i].parent} = PageAt(FolderOf(f))'
    BY DEF MadeWhere
  <2>3. CASE i \in DOMAIN made
    <3>1. made'[i] = made[i]
      BY <2>2, <2>3
    <3>2. \A p \in NotePaths : made[i].for = File(p) => made[i].title = TitleOf(p)
      BY <1>0, <2>3 DEF MadeWhere
    <3>3. ASSUME NEW f \in FolderPaths, made[i].for = Alone(f)
          PROVE  made[i].title = TitleOf(f) /\ {made[i].parent} = PageAt(FolderOf(f))'
      <4>1. made[i].title = TitleOf(f) /\ {made[i].parent} = PageAt(FolderOf(f))
        BY <1>0, <2>3, <3>3 DEF MadeWhere
      <4> QED BY <1>1, <4>1
    <3> QED BY <3>1, <3>2, <3>3
  <2>4. CASE i = Len(made')
    BY <1>1, <2>1, <2>2, <2>4
  <2> QED BY <2>2, <2>3, <2>4
<1> QED BY <1>2, <1>3

(* The page of a lost answer is not lost to the note. *)
LEMMA OrphansStay ==
    ASSUME FoldersInv, Grow,
           \A i \in DOMAIN made' :
               \/ i \in DOMAIN made /\ made'[i] = made[i]
               \/ \A p \in NotePaths : made'[i].for = File(p) =>
                     i \in Claims' \/ (/\ making'[p].at # "create"
                                      /\ openCreate'[p] = {made'[i].parent}),
           \A p \in NotePaths :
               \/ /\ making'[p].at = "create" => making[p].at = "create"
                  /\ openCreate'[p] = openCreate[p] \/ HasPage(File(p))'
               \/ \A i \in DOMAIN made : made[i].for = File(p) => i \in Claims'
    PROVE  Orphans'
<1> SUFFICES ASSUME NEW i \in DOMAIN made', NEW p \in NotePaths, made'[i].for = File(p), i \notin Claims'
             PROVE  /\ making'[p].at # "create"
                    /\ HasPage(File(p))' \/ openCreate'[p] = {made'[i].parent}
  BY DEF Orphans
<1>1. CASE i \in DOMAIN made /\ made'[i] = made[i]
  <2>1. i \in Nat \ {0}
    BY <1>1, MadeFacts DEF FoldersInv
  <2>2. i \notin Claims
    BY <2>1 DEF Grow
  <2>3. making[p].at # "create" /\ (HasPage(File(p)) \/ openCreate[p] = {made[i].parent})
    BY <1>1, <2>2 DEF FoldersInv, Orphans
  <2> QED BY <1>1, <2>3 DEF Grow
<1>2. CASE ~(i \in DOMAIN made /\ made'[i] = made[i])
  BY <1>2
<1> QED BY <1>1, <1>2

LEMMA TwiceKept ==
    ASSUME FoldersInv, Grow,
           \/ made' = made
           \/ \E new \in Page :
                 /\ made' = Append(made, new)
                 /\ \A i \in DOMAIN made :
                       Again(made[i].for, new.for) => GivenAway(i, new.for)
    PROVE  NoPageMadeTwice'
<1>0. FoldersTyped /\ NoPageMadeTwice
  BY DEF FoldersInv
<1>1. /\ Len(made) \in Nat /\ DOMAIN made = 1..Len(made)
      /\ \A i \in DOMAIN made : i \in Nat \ {0} /\ made[i].for \in Owners
  BY <1>0, MadeFacts
<1> DEFINE Away(i, v) == \E r \in Owners : pageId'[r] = i /\ r # v /\ ~SameFolder(r, v)
<1>2. ASSUME NEW v \in Owners, NEW i \in DOMAIN made, GivenAway(i, v) PROVE Away(i, v)
  <2>1. GivenAway(i, v)'
    BY <1>1, <1>2 DEF Grow
  <2> QED BY <2>1 DEF GivenAway
<1>3. ASSUME NEW j \in DOMAIN made, NEW i \in 1..(j - 1), Again(made[i].for, made[j].for)
      PROVE  Away(i, made[j].for)
  <2>1. GivenAway(i, made[j].for) /\ i \in DOMAIN made
    BY <1>0, <1>1, <1>3 DEF NoPageMadeTwice
  <2> HIDE DEF Away
  <2> QED BY <1>1, <1>2, <2>1
<1> SUFFICES ASSUME NEW j \in DOMAIN made', NEW i \in 1..(j - 1), Again(made'[i].for, made'[j].for)
             PROVE  Away(i, made'[j].for)
  BY DEF NoPageMadeTwice, Again, GivenAway
<1> HIDE DEF Away
<1>4. CASE made' = made
  BY <1>3, <1>4
<1>5. CASE made' # made
  <2>1. PICK new \in Page :
           /\ made' = Append(made, new)
           /\ \A k \in DOMAIN made : Again(made[k].for, new.for) => GivenAway(k, new.for)
    BY <1>5
  <2>2. /\ DOMAIN made' = DOMAIN made \cup {Len(made')} /\ Len(made') = Len(made) + 1
        /\ \A k \in DOMAIN made : made'[k] = made[k]
        /\ made'[Len(made')] = new
    BY <1>0, <2>1, MadeGrows
  <2>3. i \in DOMAIN made
    BY <1>1, <2>2
  <2>4. CASE j \in DOMAIN made
    <3>1. Again(made[i].for, made[j].for)
      BY <2>2, <2>3, <2>4
    <3>2. Away(i, made[j].for)
      BY <1>3, <2>4, <3>1
    <3> QED BY <2>2, <2>4, <3>2
  <2>5. CASE j = Len(made')
    <3>1. GivenAway(i, new.for) /\ new.for \in Owners
      BY <2>1, <2>2, <2>3, <2>5 DEF Page
    <3> QED BY <1>2, <2>2, <2>3, <2>5, <3>1
  <2> QED BY <2>2, <2>4, <2>5
<1> QED BY <1>4, <1>5
--------------------------------------------------------------------------------
(* The initial states. *)

LEMMA FoldersStart == FoldersInit => FoldersInv
<1> SUFFICES ASSUME FoldersInit PROVE FoldersInv
  OBVIOUS
<1>1. /\ made = <<>> /\ Len(made) = 0 /\ DOMAIN made = {}
      /\ made \in Seq([parent : Nat, title : Names, for : Owners])
  BY EmptySeq DEF FoldersInit
<1>2. Numbers = {0}
  BY <1>1 DEF Numbers
<1>3. FoldersTyped
  BY <1>1, <1>2, FoldersAssumption DEF FoldersInit, FoldersTyped, Off, RootPage
<1>4. \A p \in NotePaths : /\ ~HasPage(File(p)) /\ openCreate[p] = {}
                            /\ making[p].at = "off" /\ p \in NotePaths
  BY DEF FoldersInit, HasPage, Off
<1>5. Held
  BY <1>4 DEF Held, FoldersInit
<1> QED BY <1>1, <1>3, <1>4, <1>5
       DEF FoldersInv, MakersRest, OpenIsHome, MakerHasOp, MadeWhere, Orphans, NoPageMadeTwice
--------------------------------------------------------------------------------
(* Steps that touch no record and make no page, and start nobody searching or creating. *)

Quiet ==
    /\ UNCHANGED <<made, pageId, openCreate>>
    /\ \A p \in NotePaths : making'[p].at \in {"search", "create"} => making'[p] = making[p]

LEMMA QuietKeeps ==
    ASSUME FoldersInv, FoldersTyped', MakersRest', Held', Quiet
    PROVE  FoldersInv'
<1>1. Grow
  BY StaysGrows DEF Quiet
<1>2. OpenIsHome'
  BY DEF FoldersInv, OpenIsHome, Quiet, PageAt, HasPage
<1>3. MakerHasOp'
  BY DEF FoldersInv, MakerHasOp, Quiet
<1>4. MadeWhere'
  BY <1>1, MadeStaysWhere DEF Quiet
<1>5. Orphans'
  <2>1. \A p \in NotePaths : /\ making'[p].at = "create" => making[p].at = "create"
                              /\ openCreate'[p] = openCreate[p]
    BY DEF Quiet
  <2> QED BY <1>1, <2>1, OrphansStay DEF Quiet
<1>6. NoPageMadeTwice'
  BY <1>1, TwiceKept DEF Quiet
<1> QED BY <1>2, <1>3, <1>4, <1>5, <1>6 DEF FoldersInv

LEMMA NumbersKept == ASSUME made' = made PROVE Numbers' = Numbers
BY DEF Numbers

(* A pass begins with nobody making anything. *)
LEMMA PassBegins ==
    ASSUME FoldersInv, NEW S \in SUBSET newNotes \cup inVault, BeginsPass(S), S \subseteq inVault,
           UNCHANGED <<noteVars, made, records>>,
           pushing' \in {"no", "recover", "prepare", "pool"}, toRecover' \subseteq NotePaths,
           mishaps' \in 0..MaxMishaps
    PROVE  FoldersInv'
<1>0. FoldersTyped /\ Held
  BY DEF FoldersInv
<1>1. /\ made' = made /\ pageId' = pageId /\ openCreate' = openCreate /\ Numbers' = Numbers
      /\ toWrite' = toWrite /\ inVault' = inVault
  BY NumbersKept DEF noteVars, records
<1>2. /\ newNotes' = S /\ toPrepare' = UNION {Above(p) : p \in S} /\ unprepared' = {}
      /\ atFolder' = Top /\ early' = {} /\ making' = [p \in NotePaths |-> Off]
  BY DEF BeginsPass
<1>3. S \subseteq NotePaths
  BY <1>0 DEF FoldersTyped, NotePaths
<1>4. toPrepare' \subseteq FolderPaths
  BY <1>2, <1>3, NotePathFacts
<1>5. Off \in [at : {"off", "start", "search", "create", "done", "failed"}, under : Numbers]
  BY <1>0, MadeFacts DEF Off, RootPage, Numbers
<1>6. FoldersTyped'
  BY <1>0, <1>1, <1>2, <1>3, <1>4, <1>5 DEF FoldersTyped
<1>7. \A p \in NotePaths : making'[p] = Off /\ Off.at = "off"
  BY <1>2 DEF Off
<1>8. MakersRest'
  BY <1>7 DEF MakersRest
<1>9. Held'
  BY <1>0, <1>1, <1>2, <1>7 DEF Held, HasPage
<1>10. Quiet
  BY <1>1, <1>7 DEF Quiet
<1> QED BY <1>6, <1>8, <1>9, <1>10, QuietKeeps

LEMMA WritesKeeps == ASSUME FoldersInv, NEW p \in NotePaths, WritesNote(p) PROVE FoldersInv'
<1>1. /\ UNCHANGED <<toWrite, made, pageId, openCreate, newNotes, toPrepare, unprepared, atFolder,
                     early, making, pushing, toRecover, secondPass, mishaps>>
      /\ inVault' = inVault \cup {p} /\ p \in toWrite
  BY DEF WritesNote, records, onePass
<1>2. FoldersTyped'
  BY <1>1, NumbersKept DEF FoldersInv, FoldersTyped
<1>3. MakersRest' /\ Held' /\ Quiet
  BY <1>1 DEF FoldersInv, MakersRest, Held, Quiet, HasPage
<1> QED BY <1>2, <1>3, QuietKeeps

LEMMA MishapCounted ==
    ASSUME FoldersTyped, Mishap \/ Calm
    PROVE  mishaps' \in 0..MaxMishaps
BY FoldersAssumption DEF FoldersTyped, Mishap, Calm

LEMMA PushKeeps ==
    ASSUME FoldersInv,
           StartsPush \/ (\E p \in NotePaths : CannotRecover(p)) \/ BeginsFirstPass \/ EndsPass \/ Dies
    PROVE  FoldersInv'
<1>0. FoldersTyped /\ Held /\ MakersRest
  BY DEF FoldersInv
<1>1. CASE StartsPush \/ \E p \in NotePaths : CannotRecover(p)
  <2>1. /\ UNCHANGED <<toWrite, inVault, made, pageId, openCreate, newNotes, toPrepare, unprepared,
                       atFolder, early, making>>
        /\ pushing \in {"no", "recover"} /\ pushing' = "recover" /\ toRecover' \subseteq NotePaths
    BY <1>0, <1>1 DEF StartsPush, CannotRecover, noteVars, records, onePass, FoldersTyped
  <2>2. mishaps' \in 0..MaxMishaps
    BY <1>0, <1>1, MishapCounted DEF StartsPush, CannotRecover, FoldersTyped
  <2>3. FoldersTyped'
    BY <1>0, <2>1, <2>2, NumbersKept DEF FoldersTyped
  <2>4. MakersRest' /\ Held' /\ Quiet
    BY <1>0, <2>1 DEF MakersRest, Held, Quiet, HasPage
  <2> QED BY <2>3, <2>4, QuietKeeps
<1>2. CASE BeginsFirstPass
  <2>1. PICK S \in SUBSET {p \in inVault : ~HasPage(File(p))} : BeginsPass(S)
    BY <1>2 DEF BeginsFirstPass
  <2>2. mishaps' = mishaps /\ toRecover' = toRecover /\ pushing' = "prepare"
        /\ UNCHANGED <<noteVars, made, records>>
    BY <1>2 DEF BeginsFirstPass
  <2> QED BY <1>0, <2>1, <2>2, PassBegins DEF FoldersTyped
<1>3. CASE EndsPass
  <2>1. PICK S \in SUBSET newNotes : BeginsPass(S) /\ pushing' \in {"no", "prepare"}
    BY <1>3 DEF EndsPass
  <2>2. mishaps' = mishaps /\ toRecover' = toRecover /\ UNCHANGED <<noteVars, made, records>>
    BY <1>3 DEF EndsPass, Calm
  <2> QED BY <1>0, <2>1, <2>2, PassBegins DEF FoldersTyped, Held
<1>4. CASE Dies
  BY <1>0, <1>4, PassBegins, MishapCounted DEF Dies
<1> QED BY <1>1, <1>2, <1>3, <1>4
--------------------------------------------------------------------------------
(* Preparing the folders. *)

LEMMA PrepareTyped ==
    ASSUME FoldersTyped, NEW f \in FolderPaths, SeesTo(f), WithPage(f) \/ WithoutPage(f),
           Numbers \subseteq Numbers', pageId' \in [Owners -> Numbers'],
           made' \in Seq([parent : Nat, title : Names, for : Owners]),
           \A i \in DOMAIN made' : made'[i].parent < i,
           Mishap \/ Calm
    PROVE  FoldersTyped' /\ MakersRest' /\ pushing = "prepare" /\ pushing' = "prepare"
<1>1. /\ UNCHANGED <<toWrite, inVault, openCreate, newNotes, pushing, toRecover, secondPass,
                     atFolder, early, making>>
      /\ pushing = "prepare" /\ toPrepare' \subseteq FolderPaths /\ unprepared' \subseteq FolderPaths
  BY DEF SeesTo, WithPage, WithoutPage, Through, noteVars, FoldersTyped
<1>2. mishaps' \in 0..MaxMishaps
  BY MishapCounted
<1>3. openCreate' \in [NotePaths -> SUBSET Numbers']
  BY <1>1 DEF FoldersTyped
<1>4. making' \in [NotePaths -> [at : {"off", "start", "search", "create", "done", "failed"},
                                 under : Numbers']]
  BY <1>1 DEF FoldersTyped
<1>5. FoldersTyped'
  BY <1>1, <1>2, <1>3, <1>4 DEF FoldersTyped
<1> QED BY <1>1, <1>5 DEF MakersRest

LEMMA StepsAside ==
    ASSUME FoldersInv, NEW f \in FolderPaths,
           InheritsReason(f) \/ HasPlace(f) \/ WaitsForNote(f) \/ FolderFails(f)
    PROVE  FoldersInv'
<1>0. FoldersTyped /\ Held
  BY DEF FoldersInv
<1>1. /\ SeesTo(f) /\ (WithPage(f) \/ WithoutPage(f)) /\ (Mishap \/ Calm)
      /\ made' = made /\ pageId' = pageId
  BY DEF InheritsReason, HasPlace, WaitsForNote, FolderFails, Prepares
<1>2. UNCHANGED <<inVault, openCreate, newNotes, making>>
  BY <1>1 DEF SeesTo, WithPage, WithoutPage, Through, noteVars
<1>3. FoldersTyped' /\ MakersRest'
  BY <1>0, <1>1, PrepareTyped, NumbersKept DEF FoldersTyped
<1>4. Held' /\ Quiet
  BY <1>0, <1>1, <1>2 DEF Held, Quiet, HasPage
<1> QED BY <1>3, <1>4, QuietKeeps

LEMMA PushesFirstKeeps ==
    ASSUME FoldersInv, NEW f \in FolderPaths, PushesFirst(f)
    PROVE  FoldersInv'
<1>0. FoldersTyped /\ Held
  BY DEF FoldersInv
<1>1. /\ UNCHANGED <<toWrite, inVault, made, pageId, openCreate, newNotes, toPrepare, unprepared,
                     pushing, toRecover, secondPass, mishaps>>
      /\ pushing = "prepare" /\ atFolder' = f
  BY DEF PushesFirst, Prepares, SeesTo, noteVars, Calm
<1>2. PICK p \in NoteToPushFirst(f) :
         early' = early \cup {p} /\ making' = [making EXCEPT ![p].at = "start"]
  BY DEF PushesFirst
<1>3. p \in newNotes /\ p \in NotePaths /\ p \in inVault
  BY <1>0 DEF NoteToPushFirst, FoldersTyped, Held
<1>4. /\ making' \in [NotePaths -> [at : {"off", "start", "search", "create", "done", "failed"},
                                     under : Numbers]]
      /\ making'[p].at = "start" /\ \A q \in NotePaths \ {p} : making'[q] = making[q]
  BY <1>0, <1>2, <1>3 DEF FoldersTyped
<1>5. early' \subseteq NotePaths
  BY <1>0, <1>2, <1>3 DEF FoldersTyped
<1>6. FoldersTyped'
  BY <1>0, <1>1, <1>4, <1>5, NumbersKept DEF FoldersTyped
<1>7. Held'
  BY <1>0, <1>1, <1>3, <1>4 DEF Held, HasPage
<1>8. MakersRest' /\ Quiet
  BY <1>1, <1>4 DEF MakersRest, Quiet
<1> QED BY <1>6, <1>7, <1>8, QuietKeeps

LEMMA PoolBegins ==
    ASSUME FoldersInv, HasPushedFirst \/ BeginsPool
    PROVE  FoldersInv'
<1>0. FoldersTyped /\ Held /\ MakersRest
  BY DEF FoldersInv
<1>1. CASE HasPushedFirst
  <2>1. /\ UNCHANGED <<toWrite, inVault, made, pageId, openCreate, newNotes, early, making, pushing,
                       toRecover, mishaps>>
        /\ toPrepare' \subseteq FolderPaths /\ unprepared' \subseteq FolderPaths /\ atFolder' = Top
    BY <1>0, <1>1 DEF HasPushedFirst, noteVars, records, Calm, FoldersTyped
  <2>2. FoldersTyped'
    BY <1>0, <2>1, NumbersKept DEF FoldersTyped
  <2>3. MakersRest' /\ Held' /\ Quiet
    BY <1>0, <2>1 DEF MakersRest, Held, Quiet, HasPage
  <2> QED BY <2>2, <2>3, QuietKeeps
<1>2. CASE BeginsPool
  <2>1. /\ UNCHANGED <<toWrite, inVault, made, pageId, openCreate, newNotes, toPrepare, unprepared,
                       atFolder, early, toRecover, mishaps>>
        /\ pushing' = "pool"
        /\ making' = [p \in NotePaths |->
                        IF p \in newNotes \ early THEN [Off EXCEPT !.at = "start"] ELSE making[p]]
    BY <1>2 DEF BeginsPool, noteVars, records, Calm
  <2>2. /\ [Off EXCEPT !.at = "start"].at = "start"
        /\ [Off EXCEPT !.at = "start"] \in
              [at : {"off", "start", "search", "create", "done", "failed"}, under : Numbers]
    BY <1>0, MadeFacts DEF Off, RootPage, Numbers
  <2>3. /\ making' \in [NotePaths -> [at : {"off", "start", "search", "create", "done", "failed"},
                                       under : Numbers]]
        /\ \A p \in NotePaths : making'[p] = making[p] \/ (p \in newNotes /\ making'[p].at = "start")
    BY <1>0, <2>1, <2>2 DEF FoldersTyped
  <2>4. FoldersTyped'
    BY <1>0, <2>1, <2>3, NumbersKept DEF FoldersTyped
  <2>5. Held'
    BY <1>0, <2>1, <2>3 DEF Held, HasPage
  <2>6. MakersRest' /\ Quiet
    BY <2>1, <2>3 DEF MakersRest, Quiet
  <2> QED BY <2>4, <2>5, <2>6, QuietKeeps
<1> QED BY <1>1, <1>2

LEMMA AdoptsKeeps ==
    ASSUME OneKind, FoldersInv, NEW f \in FolderPaths, Adopts(f)
    PROVE  FoldersInv'
<1> DEFINE n == FolderNote(f)
<1>0. FoldersTyped /\ Held /\ OpenIsHome /\ MakerHasOp
  BY DEF FoldersInv
<1>1. /\ SeesTo(f) /\ WithPage(f) /\ Calm /\ made' = made
      /\ pageId' = [pageId EXCEPT ![File(n)] = pageId[Alone(f)], ![Alone(f)] = 0]
      /\ n \in newNotes /\ openCreate[n] = {}
  BY DEF Adopts, Prepares, MayAdopt
<1>2. UNCHANGED <<inVault, openCreate, newNotes, making>>
  BY <1>1 DEF SeesTo, WithPage, Through, noteVars
<1>3. /\ n \in NotePaths /\ n \in inVault /\ File(n) \in Owners /\ Alone(f) \in Owners
      /\ File(n) # Alone(f)
  BY <1>0, <1>1, OwnersOf, RecordsDiffer DEF FoldersTyped, Held
<1>4. /\ pageId' \in [Owners -> Numbers] /\ 0 \in Numbers
      /\ pageId'[Alone(f)] = 0 /\ \A s \in Owners \ {File(n), Alone(f)} : pageId'[s] = pageId[s]
  BY <1>0, <1>1, <1>3, MadeFacts DEF FoldersTyped, Numbers
<1>5. FoldersTyped' /\ MakersRest'
  BY <1>0, <1>1, <1>4, PrepareTyped, NumbersKept DEF FoldersTyped
<1>6. Grow
  BY <1>0, AdoptionGrows
<1>7. \A p \in NotePaths : p # n => (HasPage(File(p))' <=> HasPage(File(p)))
  BY <1>4, RecordsDiffer DEF HasPage
<1>8. Held'
  BY <1>0, <1>2, <1>3, <1>7 DEF Held
<1>9. OpenIsHome'
  <2> SUFFICES ASSUME NEW p \in NotePaths, openCreate[p] # {}
               PROVE  ~HasPage(File(p))' /\ (IsFolderNote(p) => ~HasPage(Alone(FolderOf(p)))')
                      /\ openCreate'[p] = openCreate[p]
    BY <1>2, <1>5, <1>6, <1>8, OpenStaysHome
  <2>1. ~HasPage(File(p)) /\ p # n
    BY <1>0, <1>1 DEF OpenIsHome
  <2>2. ASSUME IsFolderNote(p) PROVE ~HasPage(Alone(FolderOf(p)))'
    <3>1. FolderOf(p) \in FolderPaths /\ p = FolderNote(FolderOf(p)) /\ FolderOf(p) # Top
      BY <2>2, IsFolderNoteFacts, FolderPathFacts
    <3>2. ~HasPage(Alone(FolderOf(p)))
      BY <1>0, <2>2, <3>1 DEF OpenIsHome, PageAt
    <3>3. Alone(FolderOf(p)) # File(n)
      BY RecordsDiffer
    <3> QED BY <1>4, <3>2, <3>3 DEF HasPage
  <2> QED BY <1>2, <1>7, <2>1, <2>2
<1>10. MakerHasOp'
  BY <1>0, <1>2 DEF MakerHasOp
<1>11. MadeWhere' /\ NoPageMadeTwice'
  BY <1>1, <1>6, MadeStaysWhere, TwiceKept
<1>12. Orphans'
  BY <1>1, <1>2, <1>6, OrphansStay
<1> QED BY <1>5, <1>8, <1>9, <1>10, <1>11, <1>12 DEF FoldersInv
--------------------------------------------------------------------------------
(* A page that is claimed, and not by the note or the folder that asks, was given away. *)

LEMMA FolderAsks ==
    ASSUME NEW f \in FolderPaths, PageAt(f) = {}, NEW i \in Nat \ {0}, i \in Claims
    PROVE  GivenAway(i, Alone(f))
<1>1. PICK r \in Owners : pageId[r] = i
  BY DEF Claims
<1>2. r # Alone(f) /\ r # File(FolderNote(f))
  BY <1>1, FolderPathFacts DEF PageAt, HasPage
<1>3. ~SameFolder(r, Alone(f))
  <2> SUFFICES ASSUME NEW g \in FolderPaths, {r, Alone(f)} \subseteq {File(FolderNote(g)), Alone(g)}
               PROVE  FALSE
    BY DEF SameFolder
  <2>1. g = f
    BY RecordsDiffer
  <2> QED BY <1>2, <2>1
<1> QED BY <1>1, <1>2, <1>3 DEF GivenAway

LEMMA NoteAsks ==
    ASSUME NEW p \in NotePaths, ~HasPage(File(p)), IsFolderNote(p) => PageAt(FolderOf(p)) = {},
           NEW i \in Nat \ {0}, i \in Claims
    PROVE  GivenAway(i, File(p))
<1>1. PICK r \in Owners : pageId[r] = i
  BY DEF Claims
<1>2. r # File(p)
  BY <1>1 DEF HasPage
<1>3. ~SameFolder(r, File(p))
  <2> SUFFICES ASSUME NEW g \in FolderPaths, {r, File(p)} \subseteq {File(FolderNote(g)), Alone(g)}
               PROVE  FALSE
    BY DEF SameFolder
  <2>1. p = FolderNote(g) /\ r = Alone(g)
    BY <1>2, RecordsDiffer
  <2>2. IsFolderNote(p) /\ FolderOf(p) = g /\ g # Top
    BY <2>1, FolderNoteFacts, FolderPathFacts
  <2>3. ~HasPage(Alone(g))
    BY <2>2 DEF PageAt
  <2> QED BY <1>1, <2>1, <2>3 DEF HasPage
<1> QED BY <1>1, <1>2, <1>3 DEF GivenAway
--------------------------------------------------------------------------------
(* The page of a folder alone. *)

LEMMA FolderGets ==
    ASSUME OneKind, FoldersInv, FoldersTyped', NEW f \in FolderPaths, MayMake(f), NEW n \in Nat,
           pageId' = [pageId EXCEPT ![Alone(f)] = n],
           UNCHANGED <<inVault, openCreate, newNotes, making>>
    PROVE  Grow /\ Held' /\ OpenIsHome' /\ MakerHasOp'
<1>0. FoldersTyped /\ Held /\ OpenIsHome /\ MakerHasOp
  BY DEF FoldersInv
<1>1. Alone(f) \in Owners /\ PageAt(f) = {} /\ f # Top
  BY OwnersOf, FolderPathFacts DEF MayMake
<1>2. pageId[Alone(f)] = 0
  BY <1>1 DEF PageAt, HasPage
<1>3. Grow
  <2>1. \A g \in FolderPaths : Alone(f) = File(FolderNote(g)) \/ Alone(f) = Alone(g) => PageAt(g) = {}
    BY <1>1, RecordsDiffer
  <2> QED BY <1>0, <1>1, <1>2, <2>1, GainGrows
<1>4. \A s \in Owners \ {Alone(f)} : pageId'[s] = pageId[s]
  BY <1>0 DEF FoldersTyped
<1>5. \A p \in NotePaths : HasPage(File(p))' <=> HasPage(File(p))
  BY <1>4, RecordsDiffer DEF HasPage
<1>6. Held'
  BY <1>0, <1>5 DEF Held
<1>7. OpenIsHome'
  <2> SUFFICES ASSUME NEW p \in NotePaths, openCreate[p] # {}
               PROVE  ~HasPage(File(p))' /\ (IsFolderNote(p) => ~HasPage(Alone(FolderOf(p)))')
    BY <1>3, <1>6, OpenStaysHome
  <2>1. ~HasPage(File(p))
    BY <1>0 DEF OpenIsHome
  <2>2. ASSUME IsFolderNote(p) PROVE ~HasPage(Alone(FolderOf(p)))'
    <3>1. FolderOf(p) \in FolderPaths /\ p = FolderNote(FolderOf(p)) /\ FolderOf(p) # Top
      BY <2>2, IsFolderNoteFacts, FolderPathFacts
    <3>2. ~HasPage(Alone(FolderOf(p)))
      BY <1>0, <2>2, <3>1 DEF OpenIsHome, PageAt
    <3>3. FolderOf(p) # f
      BY <3>1 DEF MayMake
    <3> QED BY <1>4, <3>2, <3>3, RecordsDiffer DEF HasPage
  <2> QED BY <1>5, <2>1, <2>2
<1> QED BY <1>0, <1>3, <1>6, <1>7 DEF MakerHasOp

LEMMA FindsFolderPageKeeps ==
    ASSUME OneKind, FoldersInv, NEW f \in FolderPaths, FindsFolderPage(f)
    PROVE  FoldersInv'
<1>0. FoldersTyped
  BY DEF FoldersInv
<1>1. SeesTo(f) /\ MayMake(f) /\ WithPage(f) /\ Calm /\ made' = made
  BY DEF FindsFolderPage, Prepares
<1>2. PICK parent \in PageAt(FolderOf(f)) :
         /\ Unclaimed(parent, TitleOf(f)) # {}
         /\ pageId' = [pageId EXCEPT ![Alone(f)] = FirstOf(Unclaimed(parent, TitleOf(f)))]
  BY DEF FindsFolderPage
<1> DEFINE n == FirstOf(Unclaimed(parent, TitleOf(f)))
<1>3. n \in Nat /\ n \in Numbers
  BY <1>0, <1>2, FoundFacts
<1> HIDE DEF n
<1>4. pageId' = [pageId EXCEPT ![Alone(f)] = n]
  BY <1>2 DEF n
<1>5. UNCHANGED <<inVault, openCreate, newNotes, making>>
  BY <1>1 DEF SeesTo, WithPage, Through, noteVars
<1>6. FoldersTyped' /\ MakersRest'
  <2>1. pageId' \in [Owners -> Numbers]
    BY <1>0, <1>3, <1>4 DEF FoldersTyped
  <2> QED BY <1>0, <1>1, <2>1, PrepareTyped, NumbersKept DEF FoldersTyped
<1>7. Grow /\ Held' /\ OpenIsHome' /\ MakerHasOp'
  BY <1>1, <1>3, <1>4, <1>5, <1>6, FolderGets
<1>8. MadeWhere' /\ NoPageMadeTwice'
  BY <1>1, <1>7, MadeStaysWhere, TwiceKept
<1>9. Orphans'
  BY <1>1, <1>5, <1>7, OrphansStay
<1> QED BY <1>6, <1>7, <1>8, <1>9 DEF FoldersInv

LEMMA MakesFolderPageKeeps ==
    ASSUME OneKind, FoldersInv, NEW f \in FolderPaths, MakesFolderPage(f)
    PROVE  FoldersInv'
<1>0. FoldersTyped /\ Held /\ OpenIsHome /\ MakerHasOp /\ MadeWhere /\ Orphans
  BY DEF FoldersInv
<1>1. SeesTo(f) /\ MayMake(f) /\ (WithPage(f) \/ WithoutPage(f)) /\ (Mishap \/ Calm)
  BY DEF MakesFolderPage, Prepares
<1>2. PICK parent \in PageAt(FolderOf(f)) :
         /\ Unclaimed(parent, TitleOf(f)) = {}
         /\ made' = Append(made, [parent |-> parent, title |-> TitleOf(f), for |-> Alone(f)])
  BY DEF MakesFolderPage
<1> DEFINE new == [parent |-> parent, title |-> TitleOf(f), for |-> Alone(f)]
<1>3. /\ new \in Page /\ made' = Append(made, new) /\ PageAt(FolderOf(f)) = {parent}
      /\ new.parent = parent /\ new.title = TitleOf(f) /\ new.for = Alone(f)
  BY <1>0, <1>2, PageAtFacts, FolderPathFacts, OwnersOf DEF Page
<1> HIDE DEF new
<1>4. /\ DOMAIN made' = DOMAIN made \cup {Len(made')} /\ made'[Len(made')] = new
      /\ \A i \in DOMAIN made : made'[i] = made[i]
      /\ Numbers \subseteq Numbers' /\ Len(made') \in Numbers' /\ Len(made') \in Nat
      /\ made' \in Seq([parent : Nat, title : Names, for : Owners])
      /\ \A i \in DOMAIN made' : made'[i].parent < i
  BY <1>0, <1>3, MadeGrows
<1>5. UNCHANGED <<inVault, openCreate, newNotes, making>>
  BY <1>1 DEF SeesTo, WithPage, WithoutPage, Through, noteVars
<1>6. pageId' = pageId \/ pageId' = [pageId EXCEPT ![Alone(f)] = Len(made')]
  BY DEF MakesFolderPage
<1>7. FoldersTyped' /\ MakersRest'
  <2>1. pageId' \in [Owners -> Numbers']
    BY <1>0, <1>4, <1>6 DEF FoldersTyped
  <2> QED BY <1>0, <1>1, <1>4, <2>1, PrepareTyped
<1>8. Grow /\ Held' /\ OpenIsHome' /\ MakerHasOp'
  <2>1. CASE pageId' = pageId
    <3>1. pageId' = [pageId EXCEPT ![Alone(f)] = 0]
      <4>1. pageId[Alone(f)] = 0
        BY <1>1, OwnersOf, FolderPathFacts DEF MayMake, PageAt, HasPage
      <4> QED BY <1>0, <2>1, <4>1 DEF FoldersTyped
    <3> QED BY <1>1, <1>5, <1>7, <3>1, FolderGets
  <2>2. CASE pageId' = [pageId EXCEPT ![Alone(f)] = Len(made')]
    BY <1>1, <1>4, <1>5, <1>7, <2>2, FolderGets
  <2> QED BY <1>6, <2>1, <2>2
<1>9. MadeWhere'
  <2>1. \A p \in NotePaths : new.for # File(p)
    BY <1>3, RecordsDiffer
  <2>2. \A g \in FolderPaths : new.for = Alone(g) =>
           new.title = TitleOf(g) /\ {new.parent} = PageAt(FolderOf(g))
    BY <1>3, RecordsDiffer
  <2> QED BY <1>3, <1>8, <2>1, <2>2, MadeStaysWhere
<1>10. NoPageMadeTwice'
  <2>1. ASSUME NEW i \in DOMAIN made, Again(made[i].for, new.for) PROVE GivenAway(i, new.for)
    <3>1. i \in Nat \ {0} /\ made[i].for \in Owners
      BY <1>0, MadeFacts
    <3>2. CASE made[i].for = Alone(f)
      <4>1. made[i].title = TitleOf(f) /\ made[i].parent = parent
        BY <1>0, <1>3, <3>2 DEF MadeWhere
      <4>2. i \in Claims
        BY <1>2, <4>1 DEF Unclaimed
      <4> QED BY <1>1, <1>3, <3>1, <4>2, FolderAsks DEF MayMake
    <3>3. CASE made[i].for = File(FolderNote(f))
      <4>1. FolderNote(f) \in NotePaths
        BY <3>1, <3>3, OwnersOf
      <4>2. openCreate[FolderNote(f)] = {} /\ ~HasPage(File(FolderNote(f)))
        BY <1>1, <4>1, FolderPathFacts DEF MayMake, PageAt
      <4>3. i \in Claims
        BY <1>0, <3>3, <4>1, <4>2 DEF Orphans
      <4> QED BY <1>1, <1>3, <3>1, <4>3, FolderAsks DEF MayMake
    <3> QED BY <1>3, <2>1, <3>2, <3>3, RecordsDiffer DEF Again
  <2> QED BY <1>3, <1>8, <2>1, TwiceKept
<1>11. Orphans'
  <2>1. ASSUME NEW i \in DOMAIN made'
        PROVE  \/ i \in DOMAIN made /\ made'[i] = made[i]
               \/ \A p \in NotePaths : made'[i].for # File(p)
    BY <1>3, <1>4, RecordsDiffer
  <2> QED BY <1>5, <1>8, <2>1, OrphansStay
<1> QED BY <1>7, <1>8, <1>9, <1>10, <1>11 DEF FoldersInv
--------------------------------------------------------------------------------
(* The page of a note, which it gets only while its operation is open. *)

LEMMA NoteGets ==
    ASSUME OneKind, FoldersInv, FoldersTyped', NEW p \in NotePaths, openCreate[p] # {}, NEW n \in Nat,
           pageId' = [pageId EXCEPT ![File(p)] = n],
           openCreate' = [openCreate EXCEPT ![p] = {}],
           \A q \in NotePaths \ {p} : making'[q] = making[q],
           making'[p].at \notin {"search", "create"},
           UNCHANGED <<inVault, newNotes>>
    PROVE  Grow /\ Held' /\ OpenIsHome' /\ MakerHasOp'
<1>0. FoldersTyped /\ Held /\ OpenIsHome /\ MakerHasOp
  BY DEF FoldersInv
<1>1. /\ File(p) \in Owners /\ p \in inVault /\ ~HasPage(File(p))
      /\ IsFolderNote(p) => PageAt(FolderOf(p)) = {}
  BY <1>0, OwnersOf DEF Held, OpenIsHome
<1>2. pageId[File(p)] = 0
  BY <1>1 DEF HasPage
<1>3. Grow
  <2>1. ASSUME NEW g \in FolderPaths, File(p) = File(FolderNote(g)) \/ File(p) = Alone(g)
        PROVE  PageAt(g) = {}
    <3>1. p = FolderNote(g)
      BY <2>1, RecordsDiffer
    <3> QED BY <1>1, <3>1, FolderNoteFacts
  <2> QED BY <1>0, <1>1, <1>2, <2>1, GainGrows
<1>4. \A s \in Owners \ {File(p)} : pageId'[s] = pageId[s]
  BY <1>0 DEF FoldersTyped
<1>5. \A q \in NotePaths : q # p => (HasPage(File(q))' <=> HasPage(File(q)))
  BY <1>4, RecordsDiffer DEF HasPage
<1>6. openCreate'[p] = {} /\ \A q \in NotePaths \ {p} : openCreate'[q] = openCreate[q]
  BY <1>0 DEF FoldersTyped
<1>7. Held'
  BY <1>0, <1>1, <1>5, <1>6 DEF Held
<1>8. OpenIsHome'
  <2> SUFFICES ASSUME NEW q \in NotePaths, openCreate'[q] # {}
               PROVE  /\ ~HasPage(File(q))' /\ (IsFolderNote(q) => ~HasPage(Alone(FolderOf(q)))')
                      /\ openCreate'[q] = openCreate[q]
    BY <1>3, <1>7, OpenStaysHome
  <2>1. q # p /\ openCreate'[q] = openCreate[q]
    BY <1>6
  <2>2. ~HasPage(File(q))
    BY <1>0, <2>1 DEF OpenIsHome
  <2>3. ASSUME IsFolderNote(q) PROVE ~HasPage(Alone(FolderOf(q)))'
    <3>1. FolderOf(q) \in FolderPaths /\ FolderOf(q) # Top
      BY <2>3, IsFolderNoteFacts, FolderPathFacts
    <3>2. ~HasPage(Alone(FolderOf(q)))
      BY <1>0, <2>1, <2>3, <3>1 DEF OpenIsHome, PageAt
    <3> QED BY <1>4, <3>2, RecordsDiffer DEF HasPage
  <2> QED BY <1>5, <2>1, <2>2, <2>3
<1>9. MakerHasOp'
  BY <1>0, <1>6 DEF MakerHasOp
<1> QED BY <1>3, <1>7, <1>8, <1>9

(* Where the operation has the page of a lost answer looked for, it is found. *)
LEMMA OrphanIsFound ==
    ASSUME FoldersInv, NEW p \in NotePaths, NEW parent, openCreate[p] = {parent},
           NEW i \in DOMAIN made, made[i].for = File(p), i \notin Claims
    PROVE  i \in Unclaimed(parent, TitleOf(p))
<1>1. ~HasPage(File(p))
  BY DEF FoldersInv, OpenIsHome
<1>2. made[i].parent = parent
  BY <1>1 DEF FoldersInv, Orphans
<1> QED BY <1>2 DEF FoldersInv, MadeWhere, Unclaimed

LEMMA RecoversKeeps ==
    ASSUME OneKind, FoldersInv, NEW p \in NotePaths, RecoversNote(p)
    PROVE  FoldersInv'
<1>0. FoldersTyped /\ Held /\ OpenIsHome /\ MakersRest
  BY DEF FoldersInv
<1>1. /\ UNCHANGED <<toWrite, inVault, made, newNotes, toPrepare, unprepared, atFolder, early, making,
                     pushing, secondPass, mishaps>>
      /\ pushing = "recover" /\ toRecover' \subseteq NotePaths
      /\ openCreate' = [openCreate EXCEPT ![p] = {}]
  BY <1>0 DEF RecoversNote, noteVars, onePass, Calm, FoldersTyped
<1>2. PICK parent \in openCreate[p] :
         pageId' = [pageId EXCEPT ![File(p)] =
                       IF Unclaimed(parent, TitleOf(p)) = {} THEN 0
                       ELSE FirstOf(Unclaimed(parent, TitleOf(p)))]
  BY DEF RecoversNote
<1>3. openCreate[p] = {parent}
  BY <1>0, <1>2, PageAtFacts DEF OpenIsHome
<1> DEFINE n == IF Unclaimed(parent, TitleOf(p)) = {} THEN 0 ELSE FirstOf(Unclaimed(parent, TitleOf(p)))
<1>4. n \in Nat /\ n \in Numbers /\ (Unclaimed(parent, TitleOf(p)) # {} => n # 0)
  <2>1. 0 \in Numbers
    BY <1>0, MadeFacts DEF Numbers
  <2> QED BY <1>0, <2>1, FoundFacts
<1> HIDE DEF n
<1>5. pageId' = [pageId EXCEPT ![File(p)] = n]
  BY <1>2 DEF n
<1>6. FoldersTyped'
  <2>1. pageId' \in [Owners -> Numbers] /\ openCreate' \in [NotePaths -> SUBSET Numbers]
    BY <1>0, <1>1, <1>4, <1>5 DEF FoldersTyped
  <2> QED BY <1>0, <1>1, <2>1, NumbersKept DEF FoldersTyped
<1>7. MakersRest' /\ making'[p].at = "off" /\ making' = making
  BY <1>0, <1>1 DEF MakersRest
<1>8. Grow /\ Held' /\ OpenIsHome' /\ MakerHasOp'
  BY <1>1, <1>2, <1>4, <1>5, <1>6, <1>7, NoteGets
<1>9. MadeWhere' /\ NoPageMadeTwice'
  BY <1>1, <1>8, MadeStaysWhere, TwiceKept
<1>10. Orphans'
  <2>1. \A q \in NotePaths \ {p} : openCreate'[q] = openCreate[q]
    BY <1>0, <1>1 DEF FoldersTyped
  <2>2. CASE Unclaimed(parent, TitleOf(p)) = {}
    <3>1. ASSUME NEW i \in DOMAIN made, made[i].for = File(p) PROVE i \in Claims'
      <4>1. i \in Claims /\ i \in Nat \ {0}
        BY <1>0, <1>3, <2>2, <3>1, OrphanIsFound, MadeFacts
      <4> QED BY <1>8, <4>1 DEF Grow
    <3> QED BY <1>1, <1>8, <2>1, <3>1, OrphansStay
  <2>3. CASE Unclaimed(parent, TitleOf(p)) # {}
    <3>1. HasPage(File(p))'
      <4>1. pageId'[File(p)] = n /\ File(p) \in Owners
        BY <1>0, <1>5, OwnersOf DEF FoldersTyped
      <4> QED BY <1>4, <2>3, <4>1 DEF HasPage
    <3> QED BY <1>1, <1>8, <2>1, <3>1, OrphansStay
  <2> QED BY <2>2, <2>3
<1> QED BY <1>6, <1>7, <1>8, <1>9, <1>10 DEF FoldersInv

(* A maker works in a push, and on a note that people wrote. *)
LEMMA MakerTyped ==
    ASSUME FoldersInv, NEW p \in NotePaths, NEW step \in {"start", "search", "create"}, Makes(p, step),
           Mishap \/ Calm,
           Numbers \subseteq Numbers', pageId' \in [Owners -> Numbers'],
           openCreate' \in [NotePaths -> SUBSET Numbers'],
           making' \in [NotePaths -> [at : {"off", "start", "search", "create", "done", "failed"},
                                      under : Numbers']],
           made' \in Seq([parent : Nat, title : Names, for : Owners]),
           \A i \in DOMAIN made' : made'[i].parent < i
    PROVE  /\ FoldersTyped' /\ MakersRest' /\ p \in inVault
           /\ UNCHANGED <<inVault, newNotes>>
<1>0. FoldersTyped /\ Held /\ MakersRest
  BY DEF FoldersInv
<1>1. /\ UNCHANGED <<toWrite, inVault, newNotes, toPrepare, unprepared, atFolder, early, pushing,
                     toRecover>>
      /\ making[p].at # "off"
  BY DEF Makes, noteVars
<1>2. mishaps' \in 0..MaxMishaps
  BY <1>0, MishapCounted
<1>3. FoldersTyped'
  BY <1>0, <1>1, <1>2 DEF FoldersTyped
<1> QED BY <1>0, <1>1, <1>3 DEF MakersRest, Held

LEMMA MakerStops ==
    ASSUME FoldersInv, NEW p \in NotePaths, IsUpdated(p) \/ HasNoParent(p) \/ NoteFails(p)
    PROVE  FoldersInv'
<1>0. FoldersTyped /\ Held
  BY DEF FoldersInv
<1>1. /\ \E step \in {"start", "search", "create"} : Makes(p, step)
      /\ Mishap \/ Calm
      /\ UNCHANGED <<made, pageId, openCreate>>
      /\ \E step \in {"done", "failed"} : MakingIs(p, step)
  BY DEF IsUpdated, HasNoParent, NoteFails, records
<1>2. PICK step \in {"done", "failed"} : making' = [making EXCEPT ![p].at = step]
  BY <1>1 DEF MakingIs
<1>3. /\ making' \in [NotePaths -> [at : {"off", "start", "search", "create", "done", "failed"},
                                     under : Numbers]]
      /\ making'[p].at = step /\ \A q \in NotePaths \ {p} : making'[q] = making[q]
  BY <1>0, <1>2 DEF FoldersTyped
<1>4. FoldersTyped' /\ MakersRest' /\ p \in inVault /\ UNCHANGED <<inVault, newNotes>>
  BY <1>0, <1>1, <1>3, MakerTyped, NumbersKept DEF FoldersTyped
<1>5. Held'
  BY <1>0, <1>1, <1>3, <1>4 DEF Held, HasPage
<1>6. Quiet
  BY <1>1, <1>3 DEF Quiet
<1> QED BY <1>4, <1>5, <1>6, QuietKeeps

(* What resolveNotionParent names is the place where the note belongs. *)
LEMMA ParentIsHome ==
    ASSUME OneKind, FoldersTyped, Held, NEW p \in NotePaths, p \in inVault, ~HasPage(File(p)),
           NEW parent \in ParentOf(p)
    PROVE  /\ PageAt(Home(p)) = {parent} /\ parent \in Numbers
           /\ IsFolderNote(p) => PageAt(FolderOf(p)) = {} /\ ~HasPage(Alone(FolderOf(p)))
<1>1. CASE ~IsFolderNote(p)
  <2>1. parent \in PageAt(Home(p))
    BY <1>1 DEF ParentOf, Home
  <2> QED BY <1>1, <2>1, PageAtFacts
<1>2. CASE IsFolderNote(p)
  <2>1. ~HasPage(Alone(FolderOf(p)))
    BY <1>2 DEF ParentOf
  <2>2. PageAt(FolderOf(p)) = {}
    BY <1>2, <2>1, FolderHasNoPage DEF FoldersTyped, Held
  <2>3. parent \in PageAt(Home(p))
    BY <1>2, <2>1, <2>2 DEF ParentOf, Home
  <2> QED BY <2>1, <2>2, <2>3, PageAtFacts
<1> QED BY <1>1, <1>2

LEMMA OpensKeeps ==
    ASSUME OneKind, FoldersInv, NEW p \in NotePaths, OpensCreate(p)
    PROVE  FoldersInv'
<1>0. FoldersTyped /\ Held /\ OpenIsHome /\ MakerHasOp /\ Orphans
  BY DEF FoldersInv
<1>1. /\ Makes(p, "start") /\ Calm /\ ~HasPage(File(p)) /\ made' = made /\ pageId' = pageId
      /\ p \in inVault
  BY <1>0 DEF OpensCreate, Makes, Held
<1>2. PICK parent \in ParentOf(p) :
         IF openCreate[p] = {}
         THEN /\ openCreate' = [openCreate EXCEPT ![p] = {parent}]
              /\ making' = [making EXCEPT ![p] = [at |-> "create", under |-> parent]]
         ELSE /\ making' = [making EXCEPT ![p] = [at |-> "search", under |-> parent]]
              /\ openCreate' = openCreate
  BY DEF OpensCreate
<1>3. /\ PageAt(Home(p)) = {parent} /\ parent \in Numbers
      /\ IsFolderNote(p) => PageAt(FolderOf(p)) = {} /\ ~HasPage(Alone(FolderOf(p)))
  BY <1>0, <1>1, ParentIsHome
<1>4. openCreate[p] # {} => openCreate[p] = {parent}
  BY <1>0, <1>3 DEF OpenIsHome
<1>5. /\ openCreate' \in [NotePaths -> SUBSET Numbers] /\ openCreate'[p] = {parent}
      /\ \A q \in NotePaths \ {p} : openCreate'[q] = openCreate[q]
  <2>1. CASE openCreate[p] = {}
    <3>1. openCreate' = [openCreate EXCEPT ![p] = {parent}] /\ {parent} \in SUBSET Numbers
      BY <1>2, <1>3, <2>1
    <3> QED BY <1>0, <3>1 DEF FoldersTyped
  <2>2. CASE openCreate[p] # {}
    <3>1. openCreate' = openCreate
      BY <1>2, <2>2
    <3> QED BY <1>0, <1>4, <2>2, <3>1 DEF FoldersTyped
  <2> QED BY <2>1, <2>2
<1>6. /\ making' \in [NotePaths -> [at : {"off", "start", "search", "create", "done", "failed"},
                                     under : Numbers]]
      /\ making'[p].under = parent /\ (openCreate[p] # {} => making'[p].at = "search")
      /\ \A q \in NotePaths \ {p} : making'[q] = making[q]
  <2>1. PICK step \in {"search", "create"} :
           /\ making' = [making EXCEPT ![p] = [at |-> step, under |-> parent]]
           /\ openCreate[p] # {} => step = "search"
    BY <1>2
  <2>2. [at |-> step, under |-> parent] \in
           [at : {"off", "start", "search", "create", "done", "failed"}, under : Numbers]
    BY <1>3
  <2> QED BY <1>0, <2>1, <2>2 DEF FoldersTyped
<1>7. FoldersTyped' /\ MakersRest' /\ UNCHANGED <<inVault, newNotes>>
  BY <1>0, <1>1, <1>5, <1>6, MakerTyped, NumbersKept DEF FoldersTyped
<1>8. Grow
  BY <1>1, StaysGrows
<1>9. Held'
  BY <1>0, <1>1, <1>5, <1>6, <1>7 DEF Held, HasPage
<1>10. OpenIsHome'
  <2> SUFFICES ASSUME NEW q \in NotePaths, openCreate'[q] # {}
               PROVE  /\ ~HasPage(File(q))' /\ (IsFolderNote(q) => ~HasPage(Alone(FolderOf(q)))')
                      /\ openCreate'[q] = openCreate[q] \/ openCreate'[q] = PageAt(Home(q))
    BY <1>7, <1>8, <1>9, OpenStaysHome
  <2>1. CASE q = p
    BY <1>1, <1>3, <1>5, <2>1 DEF HasPage
  <2>2. CASE q # p
    <3>1. openCreate'[q] = openCreate[q]
      BY <1>5, <2>2
    <3>2. ~HasPage(File(q)) /\ (IsFolderNote(q) => PageAt(FolderOf(q)) = {})
      BY <1>0, <3>1 DEF OpenIsHome
    <3>3. IsFolderNote(q) => ~HasPage(Alone(FolderOf(q)))
      BY <3>2, IsFolderNoteFacts, FolderPathFacts DEF PageAt
    <3> QED BY <1>1, <3>1, <3>2, <3>3 DEF HasPage
  <2> QED BY <2>1, <2>2
<1>11. MakerHasOp'
  BY <1>0, <1>5, <1>6 DEF MakerHasOp
<1>12. MadeWhere' /\ NoPageMadeTwice'
  BY <1>1, <1>8, MadeStaysWhere, TwiceKept
<1>13. Orphans'
  <2>1. CASE openCreate[p] = {}
    <3>1. ASSUME NEW i \in DOMAIN made, made[i].for = File(p) PROVE i \in Claims'
      BY <1>0, <1>1, <2>1, <3>1 DEF Orphans, Claims
    <3> QED BY <1>1, <1>5, <1>6, <1>8, <3>1, OrphansStay
  <2>2. CASE openCreate[p] # {}
    <3>1. ASSUME NEW q \in NotePaths
          PROVE  /\ making'[q].at = "create" => making[q].at = "create"
                 /\ openCreate'[q] = openCreate[q]
      <4>1. openCreate'[p] = openCreate[p] /\ making'[p].at # "create"
        BY <1>4, <1>5, <1>6, <2>2
      <4>2. CASE q = p
        BY <4>1, <4>2
      <4>3. CASE q # p
        <5>1. making'[q] = making[q] /\ openCreate'[q] = openCreate[q]
          BY <1>5, <1>6, <4>3
        <5> QED BY <5>1
      <4> QED BY <4>2, <4>3
    <3> QED BY <1>1, <1>8, <3>1, OrphansStay
  <2> QED BY <2>1, <2>2
<1> QED BY <1>7, <1>9, <1>10, <1>11, <1>12, <1>13, <1>8 DEF FoldersInv

LEMMA SearchesKeeps ==
    ASSUME OneKind, FoldersInv, NEW p \in NotePaths, SearchesNote(p)
    PROVE  FoldersInv'
<1>0. FoldersTyped /\ Held /\ OpenIsHome /\ MakerHasOp
  BY DEF FoldersInv
<1> DEFINE found == Unclaimed(making[p].under, TitleOf(p))
<1>1. /\ Makes(p, "search") /\ Calm /\ made' = made /\ openCreate[p] = {making[p].under}
      /\ IF found # {} THEN Mapped(p, FirstOf(found))
         ELSE MakingIs(p, "create") /\ UNCHANGED <<pageId, openCreate>>
  BY <1>0 DEF SearchesNote, Makes, records, MakerHasOp
<1>2. PICK step \in {"done", "create"} : /\ making' = [making EXCEPT ![p].at = step]
                                         /\ found # {} <=> step = "done"
  BY <1>1 DEF Mapped, MakingIs
<1>3. /\ making' \in [NotePaths -> [at : {"off", "start", "search", "create", "done", "failed"},
                                     under : Numbers]]
      /\ making'[p].at = step /\ making'[p].under = making[p].under
      /\ \A q \in NotePaths \ {p} : making'[q] = making[q]
  BY <1>0, <1>2 DEF FoldersTyped
<1>4. CASE found # {}
  <2> DEFINE n == FirstOf(found)
  <2>1. n \in Nat /\ n \in Numbers /\ n # 0
    BY <1>0, <1>4, FoundFacts
  <2> HIDE DEF n
  <2>2. /\ pageId' = [pageId EXCEPT ![File(p)] = n] /\ openCreate' = [openCreate EXCEPT ![p] = {}]
        /\ making'[p].at = "done"
    BY <1>1, <1>2, <1>3, <1>4 DEF Mapped, n
  <2>3. pageId' \in [Owners -> Numbers] /\ openCreate' \in [NotePaths -> SUBSET Numbers]
    BY <1>0, <2>1, <2>2 DEF FoldersTyped
  <2>4. FoldersTyped' /\ MakersRest' /\ UNCHANGED <<inVault, newNotes>>
    BY <1>0, <1>1, <1>3, <2>3, MakerTyped, NumbersKept DEF FoldersTyped
  <2>5. Grow /\ Held' /\ OpenIsHome' /\ MakerHasOp'
    BY <1>1, <1>3, <2>1, <2>2, <2>4, NoteGets
  <2>6. MadeWhere' /\ NoPageMadeTwice'
    BY <1>1, <2>5, MadeStaysWhere, TwiceKept
  <2>7. HasPage(File(p))'
    <3>1. pageId'[File(p)] = n /\ File(p) \in Owners
      BY <1>0, <2>2, OwnersOf DEF FoldersTyped
    <3> QED BY <2>1, <3>1 DEF HasPage
  <2>8. Orphans'
    <3>1. ASSUME NEW q \in NotePaths
          PROVE  /\ making'[q].at = "create" => making[q].at = "create"
                 /\ openCreate'[q] = openCreate[q] \/ HasPage(File(q))'
      <4>1. CASE q = p
        BY <2>2, <2>7, <4>1
      <4>2. CASE q # p
        BY <1>0, <1>3, <2>2, <4>2 DEF FoldersTyped
      <4> QED BY <4>1, <4>2
    <3> QED BY <1>1, <2>5, <3>1, OrphansStay
  <2> QED BY <2>4, <2>5, <2>6, <2>8 DEF FoldersInv
<1>5. CASE found = {}
  <2>1. pageId' = pageId /\ openCreate' = openCreate
    BY <1>1, <1>5
  <2>2. FoldersTyped' /\ MakersRest' /\ p \in inVault /\ UNCHANGED <<inVault, newNotes>>
    BY <1>0, <1>1, <1>3, <2>1, MakerTyped, NumbersKept DEF FoldersTyped
  <2>3. Grow
    BY <2>1, StaysGrows
  <2>4. Held'
    BY <1>0, <1>3, <2>1, <2>2 DEF Held, HasPage
  <2>5. OpenIsHome'
    BY <1>0, <2>1 DEF OpenIsHome, PageAt, HasPage
  <2>6. MakerHasOp'
    BY <1>0, <1>1, <1>3, <2>1 DEF MakerHasOp
  <2>7. MadeWhere' /\ NoPageMadeTwice'
    BY <1>1, <2>3, MadeStaysWhere, TwiceKept
  <2>8. Orphans'
    <3>1. ASSUME NEW i \in DOMAIN made, made[i].for = File(p) PROVE i \in Claims'
      <4>1. i \in Claims /\ i \in Nat \ {0}
        BY <1>0, <1>1, <1>5, <3>1, OrphanIsFound, MadeFacts
      <4> QED BY <2>3, <4>1 DEF Grow
    <3> QED BY <1>1, <1>3, <2>1, <2>3, <3>1, OrphansStay
  <2> QED BY <2>2, <2>4, <2>5, <2>6, <2>7, <2>8 DEF FoldersInv
<1> QED BY <1>4, <1>5

LEMMA MakerCreates ==
    ASSUME OneKind, FoldersInv, NEW p \in NotePaths, CreatesNote(p)
    PROVE  FoldersInv'
<1>0. FoldersTyped /\ Held /\ OpenIsHome /\ MakerHasOp /\ Orphans
  BY DEF FoldersInv
<1> DEFINE new == [parent |-> making[p].under, title |-> TitleOf(p), for |-> File(p)]
<1>1. /\ Makes(p, "create") /\ (Mishap \/ Calm) /\ made' = Append(made, new)
      /\ making[p].at = "create" /\ openCreate[p] = {making[p].under}
      /\ \/ Mapped(p, Len(made'))
         \/ MakingIs(p, "failed") /\ UNCHANGED <<pageId, openCreate>>
  BY <1>0 DEF CreatesNote, Makes, records, MakerHasOp
<1>2. /\ new \in Page /\ new.parent = making[p].under /\ new.title = TitleOf(p)
      /\ new.for = File(p)
  <2>1. making[p].under \in Numbers /\ TitleOf(p) \in Names /\ File(p) \in Owners
    BY <1>0, NotePathFacts, OwnersOf DEF FoldersTyped
  <2> QED BY <2>1 DEF Page
<1> HIDE DEF new
<1>3. /\ DOMAIN made' = DOMAIN made \cup {Len(made')} /\ made'[Len(made')] = new
      /\ \A i \in DOMAIN made : made'[i] = made[i]
      /\ Numbers \subseteq Numbers' /\ Len(made') \in Numbers' /\ Len(made') \in Nat \ {0}
      /\ made' \in Seq([parent : Nat, title : Names, for : Owners])
      /\ \A i \in DOMAIN made' : made'[i].parent < i
  BY <1>0, <1>1, <1>2, MadeGrows
<1>4. PICK step \in {"done", "failed"} : making' = [making EXCEPT ![p].at = step]
  BY <1>1 DEF Mapped, MakingIs
<1>5. /\ making' \in [NotePaths -> [at : {"off", "start", "search", "create", "done", "failed"},
                                     under : Numbers']]
      /\ making'[p].at = step /\ \A q \in NotePaths \ {p} : making'[q] = making[q]
  BY <1>0, <1>3, <1>4 DEF FoldersTyped
<1>6. /\ ~HasPage(File(p)) /\ (IsFolderNote(p) => PageAt(FolderOf(p)) = {})
      /\ \A i \in DOMAIN made : made[i].for = File(p) => i \in Claims
  BY <1>0, <1>1 DEF OpenIsHome, Orphans
<1>7. ASSUME Grow PROVE MadeWhere' /\ NoPageMadeTwice'
  <2>1. \A f \in FolderPaths : new.for # Alone(f)
    BY <1>2, RecordsDiffer
  <2>2. \A q \in NotePaths : new.for = File(q) => new.title = TitleOf(q)
    BY <1>2, RecordsDiffer
  <2>3. ASSUME NEW i \in DOMAIN made, Again(made[i].for, new.for) PROVE GivenAway(i, new.for)
    <3>1. made[i].for = File(p)
      BY <1>2, <2>1, <2>3 DEF Again
    <3>2. i \in Nat \ {0}
      BY <1>0, MadeFacts
    <3> QED BY <1>2, <1>6, <3>1, <3>2, NoteAsks
  <2>4. MadeWhere'
    BY <1>1, <1>2, <1>7, <2>1, <2>2, MadeStaysWhere
  <2>5. NoPageMadeTwice'
    BY <1>1, <1>2, <1>7, <2>3, TwiceKept
  <2> QED BY <2>4, <2>5
<1>8. CASE Mapped(p, Len(made'))
  <2>1. /\ pageId' = [pageId EXCEPT ![File(p)] = Len(made')]
        /\ openCreate' = [openCreate EXCEPT ![p] = {}]
    BY <1>8 DEF Mapped
  <2>2. pageId' \in [Owners -> Numbers'] /\ openCreate' \in [NotePaths -> SUBSET Numbers']
    BY <1>0, <1>3, <2>1 DEF FoldersTyped
  <2>3. FoldersTyped' /\ MakersRest' /\ UNCHANGED <<inVault, newNotes>>
    BY <1>0, <1>1, <1>3, <1>5, <2>2, MakerTyped
  <2>4. Grow /\ Held' /\ OpenIsHome' /\ MakerHasOp'
    BY <1>1, <1>3, <1>5, <2>1, <2>3, NoteGets
  <2>5. pageId'[File(p)] = Len(made') /\ File(p) \in Owners
    BY <1>0, <2>1, OwnersOf DEF FoldersTyped
  <2>6. Len(made') \in Claims' /\ HasPage(File(p))'
    BY <1>3, <2>5 DEF Claims, HasPage
  <2>7. Orphans'
    <3>1. ASSUME NEW i \in DOMAIN made' PROVE (i \in DOMAIN made /\ made'[i] = made[i]) \/ i \in Claims'
      BY <1>3, <2>6
    <3>2. ASSUME NEW q \in NotePaths
          PROVE  /\ making'[q].at = "create" => making[q].at = "create"
                 /\ openCreate'[q] = openCreate[q] \/ HasPage(File(q))'
      <4>1. CASE q = p
        BY <1>5, <2>6, <4>1
      <4>2. CASE q # p
        BY <1>0, <1>5, <2>1, <4>2 DEF FoldersTyped
      <4> QED BY <4>1, <4>2
    <3> QED BY <2>4, <3>1, <3>2, OrphansStay
  <2> QED BY <1>7, <2>3, <2>4, <2>7 DEF FoldersInv
<1>9. CASE MakingIs(p, "failed") /\ UNCHANGED <<pageId, openCreate>>
  <2>1. pageId' = pageId /\ openCreate' = openCreate
    BY <1>9
  <2>2. pageId' \in [Owners -> Numbers'] /\ openCreate' \in [NotePaths -> SUBSET Numbers']
    BY <1>0, <1>3, <2>1 DEF FoldersTyped
  <2>3. FoldersTyped' /\ MakersRest' /\ p \in inVault /\ UNCHANGED <<inVault, newNotes>>
    BY <1>0, <1>1, <1>3, <1>5, <2>2, MakerTyped
  <2>4. Grow
    BY <2>1, StaysGrows
  <2>5. Held'
    BY <1>0, <1>5, <2>1, <2>3 DEF Held, HasPage
  <2>6. OpenIsHome'
    BY <1>0, <2>1 DEF OpenIsHome, PageAt, HasPage
  <2>7. MakerHasOp'
    BY <1>0, <1>5, <2>1 DEF MakerHasOp
  <2>8. Orphans'
    <3>1. ASSUME NEW i \in DOMAIN made', ~(i \in DOMAIN made /\ made'[i] = made[i]),
                 NEW q \in NotePaths, made'[i].for = File(q)
          PROVE  making'[q].at # "create" /\ openCreate'[q] = {made'[i].parent}
      <4>1. made'[i] = new
        BY <1>3, <3>1
      <4>2. q = p
        BY <1>2, <3>1, <4>1, RecordsDiffer
      <4> QED BY <1>1, <1>2, <1>5, <2>1, <4>1, <4>2
    <3>2. ASSUME NEW q \in NotePaths
          PROVE  /\ making'[q].at = "create" => making[q].at = "create"
                 /\ openCreate'[q] = openCreate[q]
      BY <1>5, <2>1
    <3> QED BY <2>4, <3>1, <3>2, OrphansStay
  <2> QED BY <1>7, <2>3, <2>4, <2>5, <2>6, <2>7, <2>8 DEF FoldersInv
<1> QED BY <1>1, <1>8, <1>9
--------------------------------------------------------------------------------
LEMMA FoldersStep == ASSUME OneKind, FoldersInv, [FoldersNext]_folderVars PROVE FoldersInv'
<1>1. CASE UNCHANGED folderVars
  <2>1. /\ UNCHANGED <<toWrite, inVault, made, pageId, openCreate, pushing, toRecover, newNotes,
                       toPrepare, unprepared, atFolder, early, making, mishaps>>
    BY <1>1 DEF folderVars, noteVars, records, onePass
  <2>2. FoldersTyped'
    BY <2>1, NumbersKept DEF FoldersInv, FoldersTyped
  <2>3. MakersRest' /\ Held' /\ Quiet
    BY <2>1 DEF FoldersInv, MakersRest, Held, Quiet, HasPage
  <2> QED BY <2>2, <2>3, QuietKeeps
<1>2. ASSUME NEW p \in NotePaths, WritesNote(p) \/ RecoversNote(p) \/ CannotRecover(p) \/ CreatingNote(p)
      PROVE  FoldersInv'
  BY <1>2, WritesKeeps, RecoversKeeps, PushKeeps, MakerStops, OpensKeeps, SearchesKeeps, MakerCreates
     DEF CreatingNote
<1>3. ASSUME NEW f \in FolderPaths, Preparing(f)
      PROVE  FoldersInv'
  BY <1>3, StepsAside, PushesFirstKeeps, AdoptsKeeps, FindsFolderPageKeeps, MakesFolderPageKeeps
     DEF Preparing
<1>4. CASE StartsPush \/ BeginsFirstPass \/ HasPushedFirst \/ BeginsPool \/ EndsPass \/ Dies
  BY <1>4, PushKeeps, PoolBegins
<1> QED BY <1>1, <1>2, <1>3, <1>4 DEF FoldersNext

LEMMA FoldersTypeHolds == FoldersTyped => FoldersTypeOK
<1> SUFFICES ASSUME FoldersTyped PROVE FoldersTypeOK
  OBVIOUS
<1>1. \A i \in DOMAIN made : made[i].parent \in 0..(i - 1) /\ made[i].for \in Owners
  <2> SUFFICES ASSUME NEW i \in DOMAIN made PROVE made[i].parent \in 0..(i - 1) /\ made[i].for \in Owners
    OBVIOUS
  <2>1. i \in Nat /\ made[i].parent \in Nat /\ made[i].for \in Owners
    BY MadeFacts DEF Numbers
  <2>2. made[i].parent < i
    BY DEF FoldersTyped
  <2> QED BY <2>1, <2>2
<1>2. openCreate \in [NotePaths -> SUBSET (0..Len(made))] /\ pageId \in [Owners -> 0..Len(made)]
  BY DEF FoldersTyped, Numbers
<1>3. \A p \in NotePaths : making[p].at \in {"off", "start", "search", "create", "done", "failed"}
  BY DEF FoldersTyped
<1> QED BY <1>1, <1>2, <1>3 DEF FoldersTyped, FoldersTypeOK

(* Every state has the declared types. *)
THEOREM FoldersTypes == ASSUME OneKind PROVE FoldersSpec => []FoldersTypeOK
<1>1. FoldersInv => FoldersTypeOK
  BY FoldersTypeHolds DEF FoldersInv
<1> QED BY <1>1, FoldersStart, FoldersStep, PTL DEF FoldersSpec

(* Whatever is lost, dies, is limited to some notes or tried again, no page is made a second *)
(* time for a note or a folder, or for a folder after its note, unless the first has become  *)
(* the page of something else (prepareFolders, pushCreate, recoverInterruptedPushOps).       *)
THEOREM NoSecondPage == ASSUME OneKind PROVE FoldersSpec => []NoPageMadeTwice
<1>1. FoldersInv => NoPageMadeTwice
  BY DEF FoldersInv
<1> QED BY <1>1, FoldersStart, FoldersStep, PTL DEF FoldersSpec
--------------------------------------------------------------------------------

(* Where every page of the records lies: a note's below the page of its place, a folder's   *)
(* below that of the folder above.                                                          *)
Placed ==
    /\ \A p \in NotePaths : HasPage(File(p)) => PageAt(Home(p)) = {made[pageId[File(p)]].parent}
    /\ \A f \in FolderPaths : HasPage(Alone(f)) => PageAt(FolderOf(f)) = {made[pageId[Alone(f)]].parent}

(* The folders of a pass are seen to one by one, the upper ones first, and its notes are     *)
(* made after them, but for those that are to be the page of a folder.                       *)
Needed == UNION {Above(p) : p \in newNotes}
GoesFirst ==
    atFolder # Top =>
        /\ pushing = "prepare"
        /\ atFolder \in toPrepare /\ \A g \in toPrepare : Len(atFolder) <= Len(g)
        /\ ~HasPage(Alone(atFolder))
        /\ \E p \in early : p \in {atFolder, FolderNote(atFolder)}
AtWork(p) == making[p].at \in {"start", "search", "create"}
InOrder ==
    /\ toPrepare \subseteq Needed
    /\ GoesFirst
    /\ pushing = "pool" => toPrepare = {} /\ \A p \in newNotes : making[p].at # "off"
    /\ \A p \in early : making[p].at # "off"
    /\ \A p \in NotePaths :
         /\ making[p].at # "off" => p \in newNotes
         /\ AtWork(p) /\ pushing = "prepare" =>
              atFolder # Top /\ p \in early /\ p \in {atFolder, FolderNote(atFolder)}
         /\ making[p].at = "done" => HasPage(File(p))

(* In a push that nothing disturbs every folder that was seen to has a page, which is its   *)
(* note's if it has a new one, and no note fails.                                           *)
Seen(f) ==
    /\ PageAt(f) # {}
    /\ FolderNote(f) \in newNotes => HasPage(File(FolderNote(f))) \/ ~HasPage(Alone(f))
SmoothPass ==
    /\ \A p \in inVault : HasPage(File(p)) \/ p \in newNotes
    /\ unprepared = {}
    /\ \A f \in Needed \ toPrepare : Seen(f)
    /\ \A p \in NotePaths :
         /\ making[p].at \notin {"search", "failed"}
         /\ openCreate[p] # {} => making[p].at = "create"
Smooth ==
    smooth =>
        /\ pushing = "recover" => \A p \in NotePaths : openCreate[p] # {} => p \in toRecover
        /\ pushing \in {"prepare", "pool"} => SmoothPass
        /\ pushing = "no" => \A p \in inVault : HasPage(File(p))
--------------------------------------------------------------------------------
(* A page that was placed stays where it is, and one that is recorded is placed. *)

LEMMA PlacesStay ==
    ASSUME FoldersInv, Placed, Grow,
           made' = made \/ \E new \in Page : made' = Append(made, new),
           \A p \in NotePaths :
               \/ pageId'[File(p)] \in {0, pageId[File(p)]}
               \/ PageAt(Home(p)) = {made'[pageId'[File(p)]].parent},
           \A f \in FolderPaths :
               \/ pageId'[Alone(f)] \in {0, pageId[Alone(f)]}
               \/ PageAt(FolderOf(f)) = {made'[pageId'[Alone(f)]].parent}
    PROVE  Placed'
<1>0. FoldersTyped
  BY DEF FoldersInv
<1>1. \A i \in DOMAIN made : made'[i] = made[i]
  BY <1>0, MadeGrows
<1>2. \A r \in Owners : pageId[r] # 0 => pageId[r] \in DOMAIN made
  BY <1>0, MadeFacts DEF FoldersTyped, Numbers
<1>3. ASSUME NEW p \in NotePaths, HasPage(File(p))'
      PROVE  PageAt(Home(p))' = {made'[pageId'[File(p)]].parent}
  <2>1. PageAt(Home(p)) = {made'[pageId'[File(p)]].parent}
    <3>1. CASE pageId'[File(p)] = pageId[File(p)]
      BY <1>1, <1>2, <1>3, <3>1 DEF Placed, HasPage
    <3>2. pageId'[File(p)] # 0
      BY <1>3 DEF HasPage
    <3> QED BY <3>1, <3>2
  <2> QED BY <2>1, FolderOfFacts DEF Grow
<1>4. ASSUME NEW f \in FolderPaths, HasPage(Alone(f))'
      PROVE  PageAt(FolderOf(f))' = {made'[pageId'[Alone(f)]].parent}
  <2>1. PageAt(FolderOf(f)) = {made'[pageId'[Alone(f)]].parent}
    <3>1. CASE pageId'[Alone(f)] = pageId[Alone(f)]
      BY <1>1, <1>2, <1>4, <3>1 DEF Placed, HasPage
    <3>2. pageId'[Alone(f)] # 0
      BY <1>4 DEF HasPage
    <3> QED BY <3>1, <3>2
  <2> QED BY <2>1, FolderOfFacts DEF Grow
<1> QED BY <1>3, <1>4 DEF Placed

LEMMA NoPageRecorded ==
    ASSUME FoldersInv, Placed, UNCHANGED pageId,
           made' = made \/ \E new \in Page : made' = Append(made, new)
    PROVE  Grow /\ Placed'
<1>1. Grow
  BY StaysGrows
<1> QED BY <1>1, PlacesStay

(* Of a note whose operation is open, and of a folder without a page. *)
LEMMA NoteIsPlaced ==
    ASSUME FoldersInv, Placed, NEW p \in NotePaths, openCreate[p] # {}, NEW n \in Nat,
           pageId' = [pageId EXCEPT ![File(p)] = n],
           made' = made \/ \E new \in Page : made' = Append(made, new),
           n = 0 \/ openCreate[p] = {made'[n].parent}
    PROVE  Grow /\ Placed'
<1>0. FoldersTyped /\ OpenIsHome
  BY DEF FoldersInv
<1>1. /\ File(p) \in Owners /\ ~HasPage(File(p)) /\ openCreate[p] = PageAt(Home(p))
      /\ IsFolderNote(p) => PageAt(FolderOf(p)) = {}
  BY <1>0, OwnersOf DEF OpenIsHome
<1>2. pageId[File(p)] = 0
  BY <1>1 DEF HasPage
<1>3. Grow
  <2>1. ASSUME NEW g \in FolderPaths, File(p) = File(FolderNote(g)) \/ File(p) = Alone(g)
        PROVE  PageAt(g) = {}
    <3>1. p = FolderNote(g)
      BY <2>1, RecordsDiffer
    <3> QED BY <1>1, <3>1, FolderNoteFacts
  <2> QED BY <1>0, <1>1, <1>2, <2>1, GainGrows
<1>4. pageId'[File(p)] = n /\ \A s \in Owners \ {File(p)} : pageId'[s] = pageId[s]
  BY <1>0, <1>1 DEF FoldersTyped
<1>5. \A q \in NotePaths : \/ pageId'[File(q)] \in {0, pageId[File(q)]}
                           \/ PageAt(Home(q)) = {made'[pageId'[File(q)]].parent}
  BY <1>1, <1>4, OwnersOf, RecordsDiffer
<1>6. \A f \in FolderPaths : pageId'[Alone(f)] = pageId[Alone(f)]
  BY <1>4, OwnersOf, RecordsDiffer
<1> QED BY <1>3, <1>5, <1>6, PlacesStay

LEMMA FolderIsPlaced ==
    ASSUME FoldersInv, Placed, NEW f \in FolderPaths, PageAt(f) = {}, NEW n \in Nat,
           pageId' = [pageId EXCEPT ![Alone(f)] = n],
           made' = made \/ \E new \in Page : made' = Append(made, new),
           PageAt(FolderOf(f)) = {made'[n].parent}
    PROVE  Grow /\ Placed'
<1>0. FoldersTyped
  BY DEF FoldersInv
<1>1. Alone(f) \in Owners /\ f # Top
  BY OwnersOf, FolderPathFacts
<1>2. pageId[Alone(f)] = 0
  BY <1>1 DEF PageAt, HasPage
<1>3. Grow
  <2>1. \A g \in FolderPaths : Alone(f) = File(FolderNote(g)) \/ Alone(f) = Alone(g) => PageAt(g) = {}
    BY RecordsDiffer
  <2> QED BY <1>0, <1>1, <1>2, <2>1, GainGrows
<1>4. pageId'[Alone(f)] = n /\ \A s \in Owners \ {Alone(f)} : pageId'[s] = pageId[s]
  BY <1>0, <1>1 DEF FoldersTyped
<1>5. \A q \in NotePaths : pageId'[File(q)] = pageId[File(q)]
  BY <1>4, OwnersOf, RecordsDiffer
<1>6. \A g \in FolderPaths : \/ pageId'[Alone(g)] \in {0, pageId[Alone(g)]}
                             \/ PageAt(FolderOf(g)) = {made'[pageId'[Alone(g)]].parent}
  BY <1>4, OwnersOf, RecordsDiffer
<1> QED BY <1>3, <1>5, <1>6, PlacesStay

LEMMA AdoptedIsPlaced ==
    ASSUME FoldersInv, Placed, NEW f \in FolderPaths, Adopts(f)
    PROVE  Grow /\ Placed'
<1> DEFINE n == FolderNote(f)
<1>0. FoldersTyped
  BY DEF FoldersInv
<1>1. Grow
  BY <1>0, AdoptionGrows
<1>2. /\ n \in NotePaths /\ File(n) \in Owners /\ Alone(f) \in Owners /\ File(n) # Alone(f)
      /\ HasPage(Alone(f)) /\ made' = made
  BY <1>0, OwnersOf, RecordsDiffer DEF Adopts, MayAdopt, FoldersTyped
<1>3. /\ pageId'[File(n)] = pageId[Alone(f)] /\ pageId'[Alone(f)] = 0
      /\ \A s \in Owners \ {File(n), Alone(f)} : pageId'[s] = pageId[s]
  BY <1>0, <1>2 DEF Adopts, FoldersTyped
<1>4. Home(n) = FolderOf(f)
  BY FolderNoteFacts DEF Home
<1>5. \A q \in NotePaths : \/ pageId'[File(q)] \in {0, pageId[File(q)]}
                           \/ PageAt(Home(q)) = {made'[pageId'[File(q)]].parent}
  <2> SUFFICES ASSUME NEW q \in NotePaths
               PROVE  \/ pageId'[File(q)] \in {0, pageId[File(q)]}
                      \/ PageAt(Home(q)) = {made'[pageId'[File(q)]].parent}
    OBVIOUS
  <2>1. CASE q = n
    <3>1. PageAt(FolderOf(f)) = {made[pageId[Alone(f)]].parent}
      BY <1>2 DEF Placed
    <3> QED BY <1>2, <1>3, <1>4, <2>1, <3>1
  <2>2. CASE q # n
    BY <1>3, <2>2, OwnersOf, RecordsDiffer
  <2> QED BY <2>1, <2>2
<1>6. \A g \in FolderPaths : pageId'[Alone(g)] \in {0, pageId[Alone(g)]}
  BY <1>3, OwnersOf, RecordsDiffer
<1> QED BY <1>1, <1>2, <1>5, <1>6, PlacesStay

(* What a search found under a page lies there. *)
LEMMA FoundIsPlaced ==
    ASSUME FoldersInv, NEW parent, NEW title, Unclaimed(parent, title) # {}
    PROVE  made[FirstOf(Unclaimed(parent, title))].parent = parent
<1>1. Unclaimed(parent, title) \in SUBSET Nat
  BY MadeFacts DEF FoldersInv, Unclaimed
<1>2. FirstOf(Unclaimed(parent, title)) \in Unclaimed(parent, title)
  BY <1>1, FirstIsIn
<1> QED BY <1>2 DEF Unclaimed

LEMMA PreparingPlaces ==
    ASSUME FoldersInv, Placed, NEW f \in FolderPaths, Preparing(f)
    PROVE  Grow /\ Placed'
<1>0. FoldersTyped
  BY DEF FoldersInv
<1>1. CASE InheritsReason(f) \/ PushesFirst(f) \/ HasPlace(f) \/ WaitsForNote(f) \/ FolderFails(f)
  BY <1>1, NoPageRecorded DEF InheritsReason, PushesFirst, HasPlace, WaitsForNote, FolderFails
<1>2. CASE FindsFolderPage(f)
  <2>1. PICK parent \in PageAt(FolderOf(f)) :
           /\ Unclaimed(parent, TitleOf(f)) # {}
           /\ pageId' = [pageId EXCEPT ![Alone(f)] = FirstOf(Unclaimed(parent, TitleOf(f)))]
    BY <1>2 DEF FindsFolderPage
  <2>2. PageAt(f) = {} /\ made' = made /\ PageAt(FolderOf(f)) = {parent}
    BY <1>0, <1>2, <2>1, PageAtFacts DEF FindsFolderPage, MayMake
  <2>3. PICK n \in Nat : n = FirstOf(Unclaimed(parent, TitleOf(f)))
    BY <1>0, <2>1, FoundFacts
  <2>4. made[n].parent = parent
    BY <2>1, <2>3, FoundIsPlaced
  <2> QED BY <2>1, <2>2, <2>3, <2>4, FolderIsPlaced
<1>3. CASE MakesFolderPage(f)
  <2>1. PICK parent \in PageAt(FolderOf(f)) :
           made' = Append(made, [parent |-> parent, title |-> TitleOf(f), for |-> Alone(f)])
    BY <1>3 DEF MakesFolderPage
  <2> DEFINE new == [parent |-> parent, title |-> TitleOf(f), for |-> Alone(f)]
  <2>2. /\ new \in Page /\ made' = Append(made, new) /\ PageAt(FolderOf(f)) = {parent}
        /\ new.parent = parent /\ PageAt(f) = {}
    BY <1>0, <1>3, <2>1, PageAtFacts, FolderPathFacts, OwnersOf DEF Page, MakesFolderPage, MayMake
  <2> HIDE DEF new
  <2>3. made'[Len(made')] = new /\ Len(made') \in Nat
    BY <1>0, <2>2, MadeGrows
  <2>4. pageId' = pageId \/ pageId' = [pageId EXCEPT ![Alone(f)] = Len(made')]
    BY <1>3 DEF MakesFolderPage
  <2> QED BY <2>2, <2>3, <2>4, NoPageRecorded, FolderIsPlaced
<1> QED BY <1>1, <1>2, <1>3, AdoptedIsPlaced DEF Preparing

LEMMA CreatingPlaces ==
    ASSUME FoldersInv, Placed, NEW p \in NotePaths, CreatingNote(p) \/ RecoversNote(p)
    PROVE  Grow /\ Placed'
<1>0. FoldersTyped /\ MakerHasOp /\ OpenIsHome
  BY DEF FoldersInv
<1>1. CASE IsUpdated(p) \/ HasNoParent(p) \/ OpensCreate(p) \/ NoteFails(p)
  BY <1>1, NoPageRecorded DEF IsUpdated, HasNoParent, OpensCreate, NoteFails, records
<1>2. ASSUME NEW parent, openCreate[p] = {parent}, made' = made,
             pageId' = [pageId EXCEPT ![File(p)] =
                           IF Unclaimed(parent, TitleOf(p)) = {} THEN 0
                           ELSE FirstOf(Unclaimed(parent, TitleOf(p)))]
      PROVE  Grow /\ Placed'
  <2>1. CASE Unclaimed(parent, TitleOf(p)) = {}
    <3>1. pageId' = [pageId EXCEPT ![File(p)] = 0]
      BY <1>2, <2>1
    <3> QED BY <1>2, <3>1, NoteIsPlaced
  <2>2. CASE Unclaimed(parent, TitleOf(p)) # {}
    <3>1. PICK n \in Nat : n = FirstOf(Unclaimed(parent, TitleOf(p)))
      BY <1>0, <2>2, FoundFacts
    <3>2. made[n].parent = parent /\ pageId' = [pageId EXCEPT ![File(p)] = n]
      BY <1>2, <2>2, <3>1, FoundIsPlaced
    <3> QED BY <1>2, <3>2, NoteIsPlaced
  <2> QED BY <2>1, <2>2
<1>3. CASE RecoversNote(p)
  <2>1. PICK parent \in openCreate[p] :
           pageId' = [pageId EXCEPT ![File(p)] =
                         IF Unclaimed(parent, TitleOf(p)) = {} THEN 0
                         ELSE FirstOf(Unclaimed(parent, TitleOf(p)))]
    BY <1>3 DEF RecoversNote
  <2>2. openCreate[p] = {parent} /\ made' = made
    BY <1>0, <1>3, <2>1, PageAtFacts DEF OpenIsHome, RecoversNote
  <2> QED BY <1>2, <2>1, <2>2
<1>4. CASE SearchesNote(p)
  <2>1. /\ openCreate[p] = {making[p].under} /\ made' = made
        /\ IF Unclaimed(making[p].under, TitleOf(p)) # {}
           THEN pageId' = [pageId EXCEPT ![File(p)] = FirstOf(Unclaimed(making[p].under, TitleOf(p)))]
           ELSE pageId' = pageId
    BY <1>0, <1>4 DEF SearchesNote, Makes, MakerHasOp, Mapped, records
  <2> QED BY <1>2, <2>1, NoPageRecorded
<1>5. CASE CreatesNote(p)
  <2> DEFINE new == [parent |-> making[p].under, title |-> TitleOf(p), for |-> File(p)]
  <2>1. /\ made' = Append(made, new) /\ openCreate[p] = {making[p].under}
        /\ pageId' = pageId \/ pageId' = [pageId EXCEPT ![File(p)] = Len(made')]
    BY <1>0, <1>5 DEF CreatesNote, Makes, MakerHasOp, Mapped, records
  <2>2. new \in Page /\ new.parent = making[p].under
    <3>1. making[p].under \in Numbers /\ TitleOf(p) \in Names /\ File(p) \in Owners
      BY <1>0, NotePathFacts, OwnersOf DEF FoldersTyped
    <3> QED BY <3>1 DEF Page
  <2> HIDE DEF new
  <2>3. made'[Len(made')] = new /\ Len(made') \in Nat
    BY <1>0, <2>1, <2>2, MadeGrows
  <2> QED BY <2>1, <2>2, <2>3, NoPageRecorded, NoteIsPlaced
<1> QED BY <1>1, <1>3, <1>4, <1>5 DEF CreatingNote

LEMMA StepPlaces ==
    ASSUME FoldersInv, Placed, [FoldersNext]_folderVars
    PROVE  Grow /\ Placed'
<1>1. CASE UNCHANGED folderVars
  BY <1>1, NoPageRecorded DEF folderVars, records
<1>2. ASSUME NEW p \in NotePaths, WritesNote(p) \/ CannotRecover(p) PROVE Grow /\ Placed'
  BY <1>2, NoPageRecorded DEF WritesNote, CannotRecover, records
<1>3. CASE StartsPush \/ BeginsFirstPass \/ HasPushedFirst \/ BeginsPool \/ EndsPass \/ Dies
  BY <1>3, NoPageRecorded
     DEF StartsPush, BeginsFirstPass, HasPushedFirst, BeginsPool, EndsPass, Dies, records
<1> QED BY <1>1, <1>2, <1>3, PreparingPlaces, CreatingPlaces DEF FoldersNext
--------------------------------------------------------------------------------
(* A pass goes in order. *)

LEMMA OrderStands ==
    ASSUME FoldersInv, InOrder, Grow, UNCHANGED onePass,
           pushing' = pushing \/ (pushing = "no" /\ pushing' = "recover"),
           atFolder = Top \/ pageId' = pageId
    PROVE  InOrder'
<1>0. UNCHANGED <<newNotes, toPrepare, atFolder, early, making>>
  BY DEF onePass
<1>1. Needed' = Needed /\ \A p : AtWork(p)' = AtWork(p)
  BY <1>0 DEF Needed, AtWork
<1>2. GoesFirst'
  BY <1>0 DEF InOrder, GoesFirst, HasPage
<1>3. \A p \in NotePaths : HasPage(File(p)) => HasPage(File(p))'
  BY DEF Grow
<1> QED BY <1>0, <1>1, <1>2, <1>3 DEF InOrder

LEMMA OrderBegins ==
    ASSUME NEW S \in SUBSET NotePaths, BeginsPass(S), pushing' \in {"no", "prepare"}
    PROVE  InOrder'
<1>1. /\ newNotes' = S /\ toPrepare' = UNION {Above(p) : p \in S} /\ atFolder' = Top /\ early' = {}
      /\ \A p \in NotePaths : making'[p].at = "off"
  BY DEF BeginsPass, Off
<1> QED BY <1>1 DEF InOrder, Needed, GoesFirst, AtWork

LEMMA OrderThrough ==
    ASSUME InOrder, Grow, NEW f \in FolderPaths, SeesTo(f), Through(f)
    PROVE  InOrder'
<1>1. /\ UNCHANGED <<newNotes, atFolder, early, making, pushing>> /\ atFolder = Top
      /\ toPrepare' \subseteq toPrepare /\ pushing = "prepare"
  BY DEF SeesTo, Through
<1>2. Needed' = Needed /\ \A p : AtWork(p)' = AtWork(p)
  BY <1>1 DEF Needed, AtWork
<1>3. \A p \in NotePaths : HasPage(File(p)) => HasPage(File(p))'
  BY DEF Grow
<1> QED BY <1>1, <1>2, <1>3 DEF InOrder, GoesFirst

LEMMA OrderPushesFirst ==
    ASSUME FoldersInv, InOrder, NEW f \in FolderPaths, PushesFirst(f)
    PROVE  InOrder'
<1>0. FoldersTyped
  BY DEF FoldersInv
<1>1. /\ UNCHANGED <<pageId, newNotes, toPrepare, pushing>>
      /\ atFolder = Top /\ atFolder' = f /\ f \in toPrepare /\ \A g \in toPrepare : Len(f) <= Len(g)
      /\ pushing = "prepare"
  BY DEF PushesFirst, Prepares, SeesTo
<1>2. PICK p \in NoteToPushFirst(f) :
         early' = early \cup {p} /\ making' = [making EXCEPT ![p].at = "start"]
  BY DEF PushesFirst
<1>3. p \in newNotes /\ p \in NotePaths /\ p \in {f, FolderNote(f)} /\ PageAt(f) = {}
  BY <1>0 DEF NoteToPushFirst, FoldersTyped
<1>4. making'[p].at = "start" /\ \A q \in NotePaths \ {p} : making'[q] = making[q]
  BY <1>0, <1>3, <1>2 DEF FoldersTyped
<1>5. f # Top /\ ~HasPage(Alone(f))
  BY <1>3, FolderPathFacts DEF PageAt
<1>6. early' \subseteq NotePaths
  BY <1>0, <1>2, <1>3 DEF FoldersTyped
<1>7. Needed' = Needed /\ \A q : HasPage(q)' = HasPage(q)
  BY <1>1 DEF Needed, HasPage
<1>8. GoesFirst'
  BY <1>1, <1>2, <1>3, <1>5, <1>7 DEF GoesFirst
<1>9. \A q \in early' : making'[q].at # "off"
  BY <1>2, <1>4, <1>6 DEF InOrder
<1>10. ASSUME NEW q \in NotePaths
       PROVE  /\ making'[q].at # "off" => q \in newNotes'
              /\ AtWork(q)' /\ pushing' = "prepare" =>
                    atFolder' # Top /\ q \in early' /\ q \in {atFolder', FolderNote(atFolder')}
              /\ making'[q].at = "done" => HasPage(File(q))'
  <2>1. CASE q = p
    BY <1>1, <1>2, <1>3, <1>4, <1>5, <2>1 DEF AtWork
  <2>2. CASE q # p
    <3>1. making'[q] = making[q] /\ ~AtWork(q)
      BY <1>1, <1>4, <2>2 DEF InOrder
    <3> QED BY <1>1, <1>7, <3>1 DEF InOrder, AtWork
  <2> QED BY <2>1, <2>2
<1> QED BY <1>1, <1>7, <1>8, <1>9, <1>10 DEF InOrder

LEMMA OrderHasPushed ==
    ASSUME FoldersInv, InOrder, HasPushedFirst
    PROVE  InOrder'
<1>1. /\ UNCHANGED <<pageId, newNotes, early, making, pushing>>
      /\ atFolder' = Top /\ toPrepare' \subseteq toPrepare
      /\ \A p \in early : making[p].at \in {"done", "failed"}
  BY DEF HasPushedFirst, records
<1>2. Needed' = Needed /\ (\A q : HasPage(q)' = HasPage(q)) /\ \A p : AtWork(p)' = AtWork(p)
  BY <1>1 DEF Needed, HasPage, AtWork
<1>3. \A p \in early : ~AtWork(p)
  BY <1>1 DEF AtWork
<1> QED BY <1>1, <1>2, <1>3 DEF InOrder, GoesFirst

LEMMA OrderPool ==
    ASSUME FoldersInv, InOrder, BeginsPool
    PROVE  InOrder'
<1>1. /\ UNCHANGED <<pageId, newNotes, toPrepare, atFolder, early>>
      /\ atFolder = Top /\ toPrepare = {} /\ pushing' = "pool"
      /\ making' = [p \in NotePaths |->
                       IF p \in newNotes \ early THEN [Off EXCEPT !.at = "start"] ELSE making[p]]
  BY DEF BeginsPool, records
<1>2. \A p \in NotePaths : IF p \in newNotes \ early THEN making'[p].at = "start" ELSE making'[p] = making[p]
  BY <1>1 DEF Off
<1>3. Needed' = Needed /\ \A q : HasPage(q)' = HasPage(q)
  BY <1>1 DEF Needed, HasPage
<1>4. newNotes \subseteq NotePaths /\ early \subseteq NotePaths
  BY DEF FoldersInv, FoldersTyped
<1>5. (\A p \in newNotes : making'[p].at # "off") /\ \A p \in early : making'[p].at # "off"
  BY <1>2, <1>4 DEF InOrder
<1>6. \A p \in NotePaths : /\ making'[p].at # "off" => p \in newNotes
                           /\ making'[p].at = "done" => HasPage(File(p))'
  BY <1>2, <1>3 DEF InOrder
<1> QED BY <1>1, <1>3, <1>5, <1>6 DEF InOrder, GoesFirst

(* What a maker's step does to its note, and leaves alone. *)
LEMMA MakerStep ==
    ASSUME FoldersInv, NEW p \in NotePaths, CreatingNote(p)
    PROVE  /\ AtWork(p) /\ p \in inVault /\ pushing \in {"prepare", "pool"}
           /\ UNCHANGED <<inVault, newNotes, toPrepare, unprepared, atFolder, early, pushing>>
           /\ \A q \in NotePaths \ {p} : making'[q] = making[q] /\ openCreate'[q] = openCreate[q]
           /\ \A f \in FolderPaths : pageId'[Alone(f)] = pageId[Alone(f)]
           /\ making'[p].at \in {"search", "create", "done", "failed"}
           /\ making'[p].at = "done" => HasPage(File(p))' /\ (openCreate[p] # {} => openCreate'[p] = {})
           /\ openCreate'[p] \in {openCreate[p], {}} \/ making'[p].at = "create"
<1>0. FoldersTyped /\ Held /\ MakersRest
  BY DEF FoldersInv
<1>1. PICK step \in {"start", "search", "create"} : Makes(p, step)
  BY DEF CreatingNote, IsUpdated, HasNoParent, OpensCreate, SearchesNote, CreatesNote, NoteFails
<1>2. /\ AtWork(p) /\ making[p].at # "off"
      /\ UNCHANGED <<inVault, newNotes, toPrepare, unprepared, atFolder, early, pushing>>
  BY <1>1 DEF Makes, AtWork, noteVars
<1>3. p \in inVault /\ pushing \in {"prepare", "pool"}
  BY <1>0, <1>2 DEF Held, MakersRest, FoldersTyped
<1>4. ASSUME NEW n \in Nat \ {0}, Mapped(p, n)
      PROVE  /\ \A q \in NotePaths \ {p} : making'[q] = making[q] /\ openCreate'[q] = openCreate[q]
             /\ \A f \in FolderPaths : pageId'[Alone(f)] = pageId[Alone(f)]
             /\ making'[p].at = "done" /\ HasPage(File(p))' /\ openCreate'[p] = {}
  <2>1. File(p) \in Owners
    BY OwnersOf
  <2> QED BY <1>0, <1>4, <2>1, OwnersOf, RecordsDiffer DEF Mapped, MakingIs, FoldersTyped, HasPage
<1>5. ASSUME NEW s \in {"search", "create", "done", "failed"}, MakingIs(p, s), UNCHANGED records
      PROVE  /\ \A q \in NotePaths \ {p} : making'[q] = making[q] /\ openCreate'[q] = openCreate[q]
             /\ \A f \in FolderPaths : pageId'[Alone(f)] = pageId[Alone(f)]
             /\ making'[p].at = s /\ openCreate' = openCreate
  BY <1>0, <1>5 DEF MakingIs, FoldersTyped, records
<1>6. CASE IsUpdated(p)
  <2>1. MakingIs(p, "done") /\ UNCHANGED records /\ HasPage(File(p))
    BY <1>6 DEF IsUpdated
  <2>2. HasPage(File(p))' /\ openCreate[p] = {}
    BY <2>1 DEF HasPage, records, FoldersInv, OpenIsHome
  <2> QED BY <1>2, <1>3, <1>5, <2>1, <2>2
<1>7. CASE HasNoParent(p) \/ NoteFails(p)
  <2>1. MakingIs(p, "failed") /\ UNCHANGED records
    BY <1>7 DEF HasNoParent, NoteFails
  <2> QED BY <1>2, <1>3, <1>5, <2>1
<1>8. CASE OpensCreate(p)
  <2>1. pageId' = pageId
    BY <1>8 DEF OpensCreate
  <2>2. PICK parent \in ParentOf(p) :
          IF openCreate[p] = {}
          THEN /\ openCreate' = [openCreate EXCEPT ![p] = {parent}]
               /\ making' = [making EXCEPT ![p] = [at |-> "create", under |-> parent]]
          ELSE /\ making' = [making EXCEPT ![p] = [at |-> "search", under |-> parent]]
               /\ openCreate' = openCreate
    BY <1>8 DEF OpensCreate
  <2>3. /\ making'[p].at \in {"search", "create"} /\ \A q \in NotePaths \ {p} : making'[q] = making[q]
        /\ openCreate'[p] = openCreate[p] \/ making'[p].at = "create"
        /\ \A q \in NotePaths \ {p} : openCreate'[q] = openCreate[q]
    BY <1>0, <2>2 DEF FoldersTyped
  <2> QED BY <1>2, <1>3, <2>1, <2>3
<1>9. CASE SearchesNote(p)
  <2>1. CASE Unclaimed(making[p].under, TitleOf(p)) # {}
    <3>1. PICK n \in Nat \ {0} : n = FirstOf(Unclaimed(making[p].under, TitleOf(p)))
      BY <1>0, <2>1, FoundFacts
    <3>2. Mapped(p, n)
      BY <1>9, <2>1, <3>1 DEF SearchesNote
    <3> QED BY <1>2, <1>3, <1>4, <3>2
  <2>2. CASE Unclaimed(making[p].under, TitleOf(p)) = {}
    <3>1. MakingIs(p, "create") /\ UNCHANGED records
      BY <1>9, <2>2 DEF SearchesNote
    <3> QED BY <1>2, <1>3, <1>5, <3>1
  <2> QED BY <2>1, <2>2
<1>10. CASE CreatesNote(p)
  <2>1. CASE Mapped(p, Len(made'))
    <3>1. Len(made') \in Nat \ {0}
      <4>1. making[p].under \in Numbers /\ TitleOf(p) \in Names /\ File(p) \in Owners
        BY <1>0, NotePathFacts, OwnersOf DEF FoldersTyped
      <4>2. [parent |-> making[p].under, title |-> TitleOf(p), for |-> File(p)] \in Page
        BY <4>1 DEF Page
      <4> QED BY <1>0, <1>10, <4>2, MadeGrows DEF CreatesNote
    <3> QED BY <1>2, <1>3, <1>4, <2>1, <3>1
  <2>2. CASE MakingIs(p, "failed") /\ UNCHANGED records
    BY <1>2, <1>3, <1>5, <2>2
  <2> QED BY <1>10, <2>1, <2>2 DEF CreatesNote
<1> QED BY <1>6, <1>7, <1>8, <1>9, <1>10 DEF CreatingNote

LEMMA OrderCreating ==
    ASSUME FoldersInv, InOrder, Grow, NEW p \in NotePaths, CreatingNote(p)
    PROVE  InOrder'
<1>1. /\ AtWork(p)
      /\ UNCHANGED <<newNotes, toPrepare, atFolder, early, pushing>>
      /\ \A q \in NotePaths \ {p} : making'[q] = making[q]
      /\ \A f \in FolderPaths : pageId'[Alone(f)] = pageId[Alone(f)]
      /\ making'[p].at \in {"search", "create", "done", "failed"}
      /\ making'[p].at = "done" => HasPage(File(p))'
  BY MakerStep
<1>2. Needed' = Needed
  BY <1>1 DEF Needed
<1>3. \A q \in NotePaths : making[q].at # "off" => making'[q].at # "off"
  BY <1>1
<1>4. early \subseteq NotePaths /\ newNotes \subseteq NotePaths /\ atFolder \in FolderPaths \cup {Top}
  BY DEF FoldersInv, FoldersTyped
<1>5. GoesFirst'
  <2>1. atFolder # Top => HasPage(Alone(atFolder))' = HasPage(Alone(atFolder))
    BY <1>1, <1>4 DEF HasPage
  <2> QED BY <1>1, <2>1 DEF InOrder, GoesFirst
<1>6. ASSUME NEW q \in NotePaths
      PROVE  /\ making'[q].at # "off" => q \in newNotes'
             /\ AtWork(q)' /\ pushing' = "prepare" =>
                   atFolder' # Top /\ q \in early' /\ q \in {atFolder', FolderNote(atFolder')}
             /\ making'[q].at = "done" => HasPage(File(q))'
  <2>1. AtWork(q)' => AtWork(q)
    BY <1>1 DEF AtWork
  <2>2. making'[q].at # "off" => making[q].at # "off"
    BY <1>1 DEF AtWork
  <2>3. making'[q].at = "done" => HasPage(File(q))'
    BY <1>1 DEF InOrder, Grow
  <2> QED BY <1>1, <2>1, <2>2, <2>3 DEF InOrder
<1> QED BY <1>1, <1>2, <1>3, <1>4, <1>5, <1>6 DEF InOrder

LEMMA StepInOrder ==
    ASSUME FoldersInv, FoldersInv', InOrder, Grow, [FoldersNext]_folderVars
    PROVE  InOrder'
<1>0. FoldersTyped /\ Held
  BY DEF FoldersInv
<1>1. CASE UNCHANGED folderVars
  BY <1>1, OrderStands DEF folderVars, records
<1>2. ASSUME NEW p \in NotePaths, WritesNote(p) \/ CannotRecover(p) \/ RecoversNote(p)
      PROVE  InOrder'
  <2>1. UNCHANGED <<onePass, pushing>>
    BY <1>2 DEF WritesNote, CannotRecover, RecoversNote
  <2>2. RecoversNote(p) => atFolder = Top
    BY DEF InOrder, GoesFirst, RecoversNote
  <2>3. pageId' = pageId \/ RecoversNote(p)
    BY <1>2 DEF WritesNote, CannotRecover, records
  <2> QED BY <2>1, <2>2, <2>3, OrderStands
<1>3. CASE StartsPush
  BY <1>3, OrderStands DEF StartsPush, records
<1>4. CASE BeginsFirstPass \/ EndsPass \/ Dies
  <2>1. inVault \subseteq NotePaths /\ newNotes \subseteq NotePaths
    BY <1>0 DEF FoldersTyped, NotePaths
  <2>2. PICK S \in SUBSET NotePaths : BeginsPass(S) /\ pushing' \in {"no", "prepare"}
    <3>1. CASE BeginsFirstPass
      BY <2>1, <3>1 DEF BeginsFirstPass
    <3>2. CASE EndsPass
      <4> DEFINE failed == {p \in newNotes : making[p].at = "failed"}
      <4>1. failed \in SUBSET NotePaths /\ {} \in SUBSET NotePaths
        BY <2>1
      <4>2. (BeginsPass(failed) /\ pushing' = "prepare") \/ (BeginsPass({}) /\ pushing' = "no")
        BY <3>2 DEF EndsPass
      <4> HIDE DEF failed
      <4> QED BY <4>1, <4>2
    <3>3. CASE Dies
      BY <3>3 DEF Dies
    <3> QED BY <1>4, <3>1, <3>2, <3>3
  <2> QED BY <2>2, OrderBegins
<1>5. ASSUME NEW f \in FolderPaths, Preparing(f) PROVE InOrder'
  <2>1. PushesFirst(f) \/ (SeesTo(f) /\ Through(f))
    BY <1>5 DEF Preparing, InheritsReason, Adopts, HasPlace, WaitsForNote, FindsFolderPage,
                MakesFolderPage, FolderFails, Prepares, WithPage, WithoutPage
  <2> QED BY <2>1, OrderPushesFirst, OrderThrough
<1> QED BY <1>1, <1>2, <1>3, <1>4, <1>5, OrderHasPushed, OrderPool, OrderCreating DEF FoldersNext
--------------------------------------------------------------------------------
(* A push that nothing disturbs. *)

(* The folder that comes next has a place, as those above it were seen to. *)
LEMMA ParentIsThere ==
    ASSUME FoldersInv, InOrder, SmoothPass, pushing \in {"prepare", "pool"},
           NEW p \in NotePaths, making[p].at = "start", ~HasPage(File(p))
    PROVE  ParentOf(p) # {}
<1>0. FoldersTyped
  BY DEF FoldersInv
<1>1. p \in newNotes /\ FolderOf(p) \in Above(p) \cup {Top}
  BY AboveFacts DEF InOrder
<1>2. PageAt(Top) # {} /\ (FolderOf(p) = Top => ~IsFolderNote(p))
  BY DEF PageAt, IsFolderNote
<1>3. \A f \in Needed \ toPrepare : PageAt(f) # {} /\ (p = FolderNote(f) => ~HasPage(Alone(f)))
  BY <1>1 DEF SmoothPass, Seen
<1>4. CASE FolderOf(p) = Top \/ FolderOf(p) \in Needed \ toPrepare
  <2>1. PageAt(FolderOf(p)) # {}
    BY <1>2, <1>3, <1>4
  <2>2. IsFolderNote(p) => ~HasPage(Alone(FolderOf(p)))
    BY <1>2, <1>3, <1>4 DEF IsFolderNote
  <2> QED BY <2>1, <2>2 DEF ParentOf
<1>5. CASE pushing = "prepare"
  <2>1. /\ atFolder # Top /\ atFolder \in toPrepare /\ atFolder \in Needed
        /\ \A g \in toPrepare : Len(atFolder) <= Len(g)
        /\ ~HasPage(Alone(atFolder)) /\ p \in {atFolder, FolderNote(atFolder)}
    BY <1>5 DEF InOrder, GoesFirst, AtWork
  <2>2. PICK q \in newNotes : atFolder \in Above(q)
    BY <2>1 DEF Needed
  <2>3. FolderOf(atFolder) = Top \/ (FolderOf(atFolder) \in Needed /\ Len(FolderOf(atFolder)) < Len(atFolder))
    BY <1>0, <2>2, AboveFacts DEF FoldersTyped, Needed
  <2>4. Len(atFolder) \in Nat /\ atFolder \in FolderPaths /\ \A g \in toPrepare : Len(g) \in Nat
    BY <1>0, <2>1, FolderPathFacts DEF FoldersTyped
  <2>5. FolderOf(atFolder) = Top \/ FolderOf(atFolder) \in Needed \ toPrepare
    BY <2>1, <2>3, <2>4
  <2>6. CASE p = atFolder
    BY <1>4, <2>5, <2>6
  <2>7. CASE p = FolderNote(atFolder)
    <3>1. FolderOf(p) = atFolder /\ IsFolderNote(p)
      BY <2>4, <2>7, FolderNoteFacts
    <3>2. PageAt(FolderOf(atFolder)) # {}
      BY <1>2, <1>3, <2>5
    <3> QED BY <2>1, <3>1, <3>2 DEF ParentOf
  <2> QED BY <2>1, <2>6, <2>7
<1>6. CASE pushing = "pool"
  <2>1. toPrepare = {} /\ Above(p) \subseteq Needed
    BY <1>1, <1>6 DEF InOrder, Needed
  <2> QED BY <1>1, <1>4, <2>1
<1> QED BY <1>5, <1>6

LEMMA SeenStays ==
    ASSUME FoldersTyped, Grow, newNotes' = newNotes, NEW f \in FolderPaths, Seen(f),
           HasPage(Alone(f))' => HasPage(Alone(f)) \/ PageAt(f) = {}
    PROVE  Seen(f)'
<1>1. PageAt(f)' # {}
  BY DEF Seen, Grow, Containers
<1>2. FolderNote(f) \in newNotes => HasPage(File(FolderNote(f)))' \/ ~HasPage(Alone(f))'
  BY DEF Seen, Grow, FoldersTyped
<1> QED BY <1>1, <1>2 DEF Seen

(* A step of a pass, and what it has to show. *)
LEMMA PassGoesOn ==
    ASSUME FoldersInv, Grow, SmoothPass, UNCHANGED <<inVault, newNotes>>, unprepared' = {},
           toPrepare' \subseteq toPrepare,
           \A f \in toPrepare \ toPrepare' : Seen(f)',
           \A f \in FolderPaths : HasPage(Alone(f))' => HasPage(Alone(f)) \/ PageAt(f) = {},
           \A p \in NotePaths : /\ making'[p].at \notin {"search", "failed"}
                                /\ openCreate'[p] # {} => making'[p].at = "create"
    PROVE  SmoothPass'
<1>0. FoldersTyped
  BY DEF FoldersInv
<1>1. Needed' = Needed
  BY DEF Needed
<1>2. inVault \subseteq NotePaths
  BY <1>0 DEF FoldersTyped, NotePaths
<1>3. \A p \in inVault' : HasPage(File(p))' \/ p \in newNotes'
  BY <1>2 DEF SmoothPass, Grow
<1>4. Needed \subseteq FolderPaths
  BY <1>0, NotePathFacts DEF Needed, FoldersTyped
<1>5. ASSUME NEW f \in Needed' \ toPrepare' PROVE Seen(f)'
  <2>1. f \in FolderPaths /\ (f \in toPrepare \/ Seen(f))
    BY <1>1, <1>4, <1>5 DEF SmoothPass
  <2> QED BY <1>0, <1>5, <2>1, SeenStays
<1> QED BY <1>3, <1>5 DEF SmoothPass

(* While no note is being made for a folder, no operation is open. *)
LEMMA NoneIsOpen ==
    ASSUME InOrder, SmoothPass, pushing = "prepare", atFolder = Top
    PROVE  \A p \in NotePaths : openCreate[p] = {} /\ ~AtWork(p)
BY DEF InOrder, SmoothPass, AtWork

(* One folder is seen to. *)
LEMMA FolderIsSeen ==
    ASSUME FoldersInv, InOrder, Grow, SmoothPass, NEW f \in FolderPaths, SeesTo(f), WithPage(f),
           Seen(f)',
           \A g \in FolderPaths \ {f} : pageId'[Alone(g)] = pageId[Alone(g)],
           HasPage(Alone(f))' => HasPage(Alone(f)) \/ PageAt(f) = {}
    PROVE  SmoothPass'
<1>1. /\ UNCHANGED <<inVault, newNotes, openCreate, making, unprepared>>
      /\ toPrepare' = toPrepare \ {f}
  BY DEF SeesTo, WithPage, Through, noteVars
<1>2. \A g \in FolderPaths : HasPage(Alone(g))' => HasPage(Alone(g)) \/ PageAt(g) = {}
  BY DEF HasPage
<1>3. unprepared' = {} /\ \A p \in NotePaths : /\ making'[p].at \notin {"search", "failed"}
                                               /\ openCreate'[p] # {} => making'[p].at = "create"
  BY <1>1 DEF SmoothPass
<1> QED BY <1>1, <1>2, <1>3, PassGoesOn

LEMMA PreparingSmooth ==
    ASSUME FoldersInv, InOrder, Grow, SmoothPass, NEW f \in FolderPaths, Preparing(f), smooth'
    PROVE  SmoothPass' /\ pushing' = "prepare" /\ smooth = smooth'
<1>0. FoldersTyped
  BY DEF FoldersInv
<1>1. ~InheritsReason(f) /\ ~FolderFails(f)
  BY DEF InheritsReason, FolderFails, SmoothPass, Mishap
<1>2. Prepares(f) /\ SeesTo(f) /\ pushing = "prepare" /\ pushing' = "prepare" /\ atFolder = Top
  BY <1>1 DEF Preparing, PushesFirst, Adopts, HasPlace, WaitsForNote, FindsFolderPage,
              MakesFolderPage, Prepares, SeesTo
<1>3. \A p \in NotePaths : openCreate[p] = {} /\ ~AtWork(p)
  BY <1>2, NoneIsOpen
<1>4. newNotes \subseteq NotePaths /\ f # Top
  BY <1>0, FolderPathFacts DEF FoldersTyped
<1>5. CASE PushesFirst(f)
  <2>1. PICK p \in NoteToPushFirst(f) : making' = [making EXCEPT ![p].at = "start"]
    BY <1>5 DEF PushesFirst
  <2>2. p \in NotePaths
    BY <1>4 DEF NoteToPushFirst
  <2>3. making'[p].at = "start" /\ \A q \in NotePaths \ {p} : making'[q] = making[q]
    BY <1>0, <2>1, <2>2 DEF FoldersTyped
  <2>4. UNCHANGED <<inVault, newNotes, toPrepare, unprepared, pageId, openCreate, smooth>>
    BY <1>2, <1>5 DEF PushesFirst, SeesTo, Calm, noteVars
  <2>5. \A q \in NotePaths : /\ making'[q].at \notin {"search", "failed"}
                             /\ openCreate'[q] # {} => making'[q].at = "create"
    BY <1>3, <2>3, <2>4 DEF SmoothPass
  <2>6. unprepared' = {} /\ \A g \in FolderPaths : HasPage(Alone(g))' => HasPage(Alone(g)) \/ PageAt(g) = {}
    BY <2>4 DEF SmoothPass, HasPage
  <2> QED BY <1>2, <2>4, <2>5, <2>6, PassGoesOn
<1>6. CASE Adopts(f)
  <2>1. /\ WithPage(f) /\ smooth' = smooth /\ FolderNote(f) \in NotePaths /\ HasPage(Alone(f))
        /\ pageId' = [pageId EXCEPT ![File(FolderNote(f))] = pageId[Alone(f)], ![Alone(f)] = 0]
    BY <1>4, <1>6 DEF Adopts, MayAdopt, Calm
  <2>2. PageAt(f) # {}
    BY <1>4, <2>1 DEF PageAt
  <2>3. PageAt(f)' # {}
    BY <2>2 DEF Grow, Containers
  <2>4. /\ HasPage(File(FolderNote(f)))'
        /\ \A g \in FolderPaths \ {f} : pageId'[Alone(g)] = pageId[Alone(g)]
    BY <1>0, <2>1, OwnersOf, RecordsDiffer DEF FoldersTyped, HasPage
  <2>5. Seen(f)'
    BY <2>3, <2>4 DEF Seen
  <2> QED BY <1>2, <2>1, <2>4, <2>5, FolderIsSeen
<1>7. CASE HasPlace(f)
  <2>1. /\ WithPage(f) /\ smooth' = smooth /\ pageId' = pageId /\ ~MayAdopt(f) /\ PageAt(f) # {}
        /\ newNotes' = newNotes
    BY <1>2, <1>7 DEF HasPlace, Calm, SeesTo
  <2>2. FolderNote(f) \in newNotes => HasPage(File(FolderNote(f))) \/ ~HasPage(Alone(f))
    BY <1>3, <1>4, <2>1 DEF MayAdopt
  <2>3. Seen(f)' /\ (HasPage(Alone(f))' => HasPage(Alone(f)))
    BY <2>1, <2>2 DEF Seen, PageAt, HasPage
  <2> QED BY <1>2, <2>1, <2>3, FolderIsSeen
<1>8. CASE WaitsForNote(f)
  BY <1>3, <1>8 DEF WaitsForNote, MayMake
<1>9. CASE FindsFolderPage(f) \/ MakesFolderPage(f)
  <2>1. PICK n \in Nat \ {0} : pageId' = [pageId EXCEPT ![Alone(f)] = n]
    <3>1. CASE FindsFolderPage(f)
      <4>1. PICK parent \in PageAt(FolderOf(f)) :
               /\ Unclaimed(parent, TitleOf(f)) # {}
               /\ pageId' = [pageId EXCEPT ![Alone(f)] = FirstOf(Unclaimed(parent, TitleOf(f)))]
        BY <3>1 DEF FindsFolderPage
      <4>2. FirstOf(Unclaimed(parent, TitleOf(f))) \in Nat \ {0}
        BY <1>0, <4>1, FoundFacts
      <4> QED BY <4>1, <4>2
    <3>2. CASE MakesFolderPage(f)
      <4>1. PICK parent \in PageAt(FolderOf(f)) :
               made' = Append(made, [parent |-> parent, title |-> TitleOf(f), for |-> Alone(f)])
        BY <3>2 DEF MakesFolderPage
      <4>2. [parent |-> parent, title |-> TitleOf(f), for |-> Alone(f)] \in Page
        BY <1>0, <4>1, PageAtFacts, FolderPathFacts, OwnersOf DEF Page
      <4>3. Len(made') \in Nat \ {0}
        BY <1>0, <4>1, <4>2, MadeGrows
      <4>4. pageId' = [pageId EXCEPT ![Alone(f)] = Len(made')]
        BY <3>2 DEF MakesFolderPage, Mishap
      <4> QED BY <4>3, <4>4
    <3> QED BY <1>9, <3>1, <3>2
  <2>2. /\ WithPage(f) /\ smooth' = smooth /\ PageAt(f) = {} /\ NoteToPushFirst(f) = {} /\ newNotes' = newNotes
    BY <1>2, <1>9 DEF FindsFolderPage, MakesFolderPage, MayMake, Mishap, Calm, SeesTo
  <2>3. FolderNote(f) \notin newNotes
    BY <2>2 DEF NoteToPushFirst
  <2>4. HasPage(Alone(f))' /\ \A g \in FolderPaths \ {f} : pageId'[Alone(g)] = pageId[Alone(g)]
    BY <1>0, <2>1, OwnersOf, RecordsDiffer DEF FoldersTyped, HasPage
  <2>5. Seen(f)'
    BY <1>4, <2>2, <2>3, <2>4 DEF Seen, PageAt
  <2> QED BY <1>2, <2>2, <2>4, <2>5, FolderIsSeen
<1> QED BY <1>1, <1>5, <1>6, <1>7, <1>8, <1>9 DEF Preparing

LEMMA HasPushedSmooth ==
    ASSUME FoldersInv, InOrder, Grow, SmoothPass, HasPushedFirst
    PROVE  SmoothPass' /\ pushing' = "prepare" /\ smooth = smooth'
<1>0. FoldersTyped
  BY DEF FoldersInv
<1>1. /\ UNCHANGED <<inVault, pageId, openCreate, newNotes, making, pushing, smooth>>
      /\ toPrepare' = toPrepare \ {atFolder} /\ atFolder # Top
      /\ unprepared' = unprepared \cup (IF PageAt(atFolder) = {} THEN {atFolder} ELSE {})
      /\ \A p \in early : making[p].at \in {"done", "failed"}
  BY DEF HasPushedFirst, records, noteVars, Calm
<1>2. /\ pushing = "prepare" /\ atFolder \in FolderPaths /\ ~HasPage(Alone(atFolder))
  BY <1>0, <1>1 DEF InOrder, GoesFirst, FoldersTyped
<1>3. PICK p \in early : p \in {atFolder, FolderNote(atFolder)}
  BY <1>1 DEF InOrder, GoesFirst
<1>4. HasPage(File(p))
  BY <1>0, <1>1, <1>3 DEF InOrder, SmoothPass, FoldersTyped
<1>5. PageAt(atFolder) # {}
  BY <1>1, <1>3, <1>4 DEF PageAt
<1>6. unprepared' = {}
  BY <1>1, <1>5 DEF SmoothPass
<1>7. \A r : HasPage(r)' = HasPage(r)
  BY <1>1 DEF HasPage
<1>8. \A f \in toPrepare \ toPrepare' : Seen(f)'
  <2> SUFFICES ASSUME NEW f \in FolderPaths, f = atFolder PROVE Seen(f)'
    BY <1>1, <1>2
  <2>1. PageAt(f)' # {}
    BY <1>5 DEF Grow, Containers
  <2> QED BY <1>2, <1>7, <2>1 DEF Seen
<1>9. \A q \in NotePaths : /\ making'[q].at \notin {"search", "failed"}
                           /\ openCreate'[q] # {} => making'[q].at = "create"
  BY <1>1 DEF SmoothPass
<1>10. toPrepare' \subseteq toPrepare /\ UNCHANGED <<inVault, newNotes>>
  BY <1>1
<1>11. SmoothPass'
  BY <1>6, <1>7, <1>8, <1>9, <1>10, PassGoesOn
<1> QED BY <1>1, <1>2, <1>11

LEMMA PoolSmooth ==
    ASSUME FoldersInv, InOrder, Grow, SmoothPass, BeginsPool
    PROVE  SmoothPass' /\ pushing' = "pool" /\ smooth = smooth'
<1>1. /\ UNCHANGED <<inVault, pageId, openCreate, newNotes, toPrepare, unprepared, smooth>>
      /\ making' = [p \in NotePaths |->
                       IF p \in newNotes \ early THEN [Off EXCEPT !.at = "start"] ELSE making[p]]
      /\ pushing' = "pool" /\ pushing = "prepare" /\ atFolder = Top
  BY DEF BeginsPool, records, noteVars, Calm
<1>2. \A p \in NotePaths : openCreate'[p] = {} /\ making'[p].at \notin {"search", "failed"}
  BY <1>1, NoneIsOpen DEF SmoothPass, Off
<1>3. unprepared' = {} /\ \A f \in FolderPaths : HasPage(Alone(f))' => HasPage(Alone(f))
  BY <1>1 DEF SmoothPass, HasPage
<1> QED BY <1>1, <1>2, <1>3, PassGoesOn

LEMMA CreatingSmooth ==
    ASSUME FoldersInv, InOrder, Grow, SmoothPass, NEW p \in NotePaths, CreatingNote(p), smooth'
    PROVE  SmoothPass' /\ pushing' = pushing /\ smooth = smooth'
<1>0. FoldersTyped
  BY DEF FoldersInv
<1>1. /\ pushing \in {"prepare", "pool"}
      /\ UNCHANGED <<inVault, newNotes, toPrepare, unprepared, pushing>>
      /\ \A q \in NotePaths \ {p} : making'[q] = making[q] /\ openCreate'[q] = openCreate[q]
      /\ \A f \in FolderPaths : pageId'[Alone(f)] = pageId[Alone(f)]
      /\ making'[p].at \in {"search", "create", "done", "failed"}
      /\ making'[p].at = "done" => (openCreate[p] # {} => openCreate'[p] = {})
      /\ openCreate'[p] \in {openCreate[p], {}} \/ making'[p].at = "create"
  BY MakerStep
<1>2. making[p].at # "search" /\ (openCreate[p] # {} => making[p].at = "create")
  BY DEF SmoothPass
<1>3. making'[p].at \in {"create", "done"} /\ smooth' = smooth
  <2>1. ~NoteFails(p) /\ ~SearchesNote(p)
    BY <1>2 DEF NoteFails, Mishap, SearchesNote, Makes
  <2>2. ~HasNoParent(p)
    BY <1>1, ParentIsThere DEF HasNoParent, Makes
  <2>3. CASE IsUpdated(p)
    BY <1>0, <2>3 DEF IsUpdated, MakingIs, FoldersTyped, Calm
  <2>4. CASE OpensCreate(p)
    <3>1. openCreate[p] = {} /\ smooth' = smooth
      BY <1>2, <2>4 DEF OpensCreate, Makes, Calm
    <3>2. PICK parent \in ParentOf(p) : making' = [making EXCEPT ![p] = [at |-> "create", under |-> parent]]
      BY <2>4, <3>1 DEF OpensCreate
    <3> QED BY <1>0, <3>1, <3>2 DEF FoldersTyped
  <2>5. CASE CreatesNote(p)
    <3>1. Mapped(p, Len(made')) /\ smooth' = smooth
      BY <2>5 DEF CreatesNote, Mishap, Calm
    <3> QED BY <1>0, <3>1 DEF Mapped, MakingIs, FoldersTyped
  <2> QED BY <2>1, <2>2, <2>3, <2>4, <2>5 DEF CreatingNote
<1>4. \A q \in NotePaths : /\ making'[q].at \notin {"search", "failed"}
                           /\ openCreate'[q] # {} => making'[q].at = "create"
  BY <1>1, <1>3 DEF SmoothPass
<1>5. unprepared' = {} /\ \A f \in FolderPaths : HasPage(Alone(f))' => HasPage(Alone(f))
  BY <1>1 DEF SmoothPass, HasPage
<1> QED BY <1>1, <1>3, <1>4, <1>5, PassGoesOn

LEMMA FirstPassSmooth ==
    ASSUME FoldersInv, Smooth, BeginsFirstPass, smooth'
    PROVE  SmoothPass' /\ pushing' = "prepare"
<1>0. FoldersTyped
  BY DEF FoldersInv
<1> DEFINE changes == {p \in inVault : ~HasPage(File(p))}
<1>1. /\ pushing = "recover" /\ toRecover = {} /\ smooth /\ BeginsPass(changes) /\ pushing' = "prepare"
      /\ UNCHANGED <<inVault, pageId, openCreate>>
  BY DEF BeginsFirstPass, noteVars, records
<1>2. /\ newNotes' = changes /\ unprepared' = {} /\ toPrepare' = UNION {Above(p) : p \in changes}
      /\ \A p \in NotePaths : making'[p].at = "off"
  BY <1>1 DEF BeginsPass, Off
<1>3. \A p \in NotePaths : openCreate'[p] = {}
  BY <1>1 DEF Smooth
<1>4. Needed' \ toPrepare' = {}
  BY <1>2 DEF Needed
<1>5. \A p \in inVault' : HasPage(File(p))' \/ p \in newNotes'
  BY <1>1, <1>2 DEF HasPage
<1> QED BY <1>1, <1>2, <1>3, <1>4, <1>5 DEF SmoothPass

LEMMA EndsPassSmooth ==
    ASSUME FoldersInv, InOrder, SmoothPass, EndsPass
    PROVE  pushing' = "no" /\ \A p \in inVault' : HasPage(File(p))'
<1>0. newNotes \subseteq NotePaths
  BY DEF FoldersInv, FoldersTyped
<1>1. \A p \in newNotes : making[p].at = "done" /\ HasPage(File(p))
  BY <1>0 DEF EndsPass, SmoothPass, InOrder
<1>2. pushing' = "no" /\ inVault' = inVault /\ pageId' = pageId
  BY <1>1 DEF EndsPass, noteVars, records
<1> QED BY <1>1, <1>2 DEF SmoothPass, HasPage

LEMMA StepSmooth ==
    ASSUME FoldersInv, InOrder, Smooth, Grow, [FoldersNext]_folderVars
    PROVE  Smooth'
<1> SUFFICES ASSUME smooth' PROVE Smooth'
  BY DEF Smooth
<1>1. CASE UNCHANGED folderVars
  <2>1. UNCHANGED <<inVault, pageId, openCreate, pushing, toRecover, newNotes, toPrepare, unprepared,
                    making, smooth>>
    BY <1>1 DEF folderVars, noteVars, records, onePass
  <2>2. SmoothPass => SmoothPass'
    BY <2>1 DEF SmoothPass, Needed, Seen, PageAt, HasPage
  <2> QED BY <2>1, <2>2 DEF Smooth, HasPage
<1>2. ASSUME NEW p \in NotePaths, WritesNote(p) \/ CannotRecover(p) PROVE Smooth'
  BY <1>2 DEF WritesNote, CannotRecover, Mishap
<1>3. CASE Dies
  BY <1>3 DEF Dies, Mishap
<1>4. CASE StartsPush
  BY <1>4 DEF StartsPush, records, Smooth
<1>5. ASSUME NEW p \in NotePaths, RecoversNote(p) PROVE Smooth'
  <2>1. /\ smooth /\ pushing = "recover" /\ pushing' = pushing /\ toRecover' = toRecover \ {p}
        /\ openCreate' = [openCreate EXCEPT ![p] = {}]
    BY <1>5 DEF RecoversNote, Calm
  <2>2. \A q \in NotePaths : openCreate'[q] # {} => q # p /\ openCreate[q] # {}
    BY <2>1 DEF FoldersInv, FoldersTyped
  <2> QED BY <2>1, <2>2 DEF Smooth
<1>6. CASE BeginsFirstPass
  BY <1>6, FirstPassSmooth DEF Smooth
<1>7. ASSUME NEW f \in FolderPaths, Preparing(f) PROVE Smooth'
  <2>1. smooth /\ pushing = "prepare"
    BY <1>7 DEF Preparing, InheritsReason, PushesFirst, Adopts, HasPlace, WaitsForNote, FindsFolderPage,
                MakesFolderPage, FolderFails, Prepares, SeesTo, Calm, Mishap
  <2> QED BY <1>7, <2>1, PreparingSmooth DEF Smooth
<1>8. ASSUME NEW p \in NotePaths, CreatingNote(p) PROVE Smooth'
  <2>1. smooth
    BY <1>8 DEF CreatingNote, IsUpdated, HasNoParent, OpensCreate, SearchesNote, CreatesNote, NoteFails,
                Calm, Mishap
  <2>2. pushing \in {"prepare", "pool"} /\ pushing' = pushing
    BY <1>8, MakerStep
  <2> QED BY <1>8, <2>1, <2>2, CreatingSmooth DEF Smooth
<1>9. CASE HasPushedFirst
  <2>1. smooth /\ pushing = "prepare"
    BY <1>9 DEF HasPushedFirst, Calm, InOrder, GoesFirst
  <2> QED BY <1>9, <2>1, HasPushedSmooth DEF Smooth
<1>10. CASE BeginsPool
  <2>1. smooth /\ pushing = "prepare"
    BY <1>10 DEF BeginsPool, Calm
  <2> QED BY <1>10, <2>1, PoolSmooth DEF Smooth
<1>11. CASE EndsPass
  <2>1. smooth /\ pushing = "pool"
    BY <1>11 DEF EndsPass, Calm
  <2> QED BY <1>11, <2>1, EndsPassSmooth DEF Smooth
<1> QED BY <1>1, <1>2, <1>3, <1>4, <1>5, <1>6, <1>7, <1>8, <1>9, <1>10, <1>11 DEF FoldersNext

(* What was pushed without a mishap is where it belongs: every note has its page below that *)
(* of its folder (prepareFolders, resolveNotionParent, pushCreate), however many pushes     *)
(* failed, died or were limited before it, and whatever recoverInterruptedPushOps then did. *)
THEOREM CalmPushesPlace == ASSUME OneKind PROVE FoldersSpec => []CalmPushPlaces
<1> DEFINE All == FoldersInv /\ Placed /\ InOrder /\ Smooth
<1>1. FoldersInit => All
  <2> SUFFICES ASSUME FoldersInit PROVE All
    OBVIOUS
  <2>1. \A r : ~HasPage(r)
    BY DEF FoldersInit, HasPage
  <2>2. Placed
    BY <2>1 DEF Placed
  <2>3. \A p \in NotePaths : making[p].at = "off"
    BY DEF FoldersInit, Off
  <2>4. InOrder
    BY <2>3 DEF FoldersInit, InOrder, Needed, GoesFirst, AtWork
  <2> QED BY <2>2, <2>4, FoldersStart DEF FoldersInit, Smooth
<1>2. All /\ [FoldersNext]_folderVars => All'
  <2> SUFFICES ASSUME All, [FoldersNext]_folderVars PROVE All'
    OBVIOUS
  <2>1. FoldersInv' /\ Grow /\ Placed'
    BY FoldersStep, StepPlaces
  <2> QED BY <2>1, StepInOrder, StepSmooth
<1>3. All => CalmPushPlaces
  <2> SUFFICES ASSUME All, pushing = "no", smooth, NEW p \in inVault
               PROVE  HasPage(File(p)) /\ PageAt(Home(p)) = {made[pageId[File(p)]].parent}
    BY DEF CalmPushPlaces, Home
  <2>1. HasPage(File(p)) /\ p \in NotePaths
    BY DEF Smooth, FoldersInv, FoldersTyped, NotePaths
  <2> QED BY <2>1 DEF Placed
<1> QED BY <1>1, <1>2, <1>3, PTL DEF FoldersSpec

================================================================================
