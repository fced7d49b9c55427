----------------------------- MODULE NoteSyncProofs -----------------------------
(***************************************************************************)
(* For any edits, any strategies and any bound on the clock: a stamp that  *)
(* is settled vouches for the body of the page; no body edit is lost by    *)
(* both sides; a scan sees every edit while files rest under a run; and    *)
(* where nothing fails no false conflict is made.                          *)
(***************************************************************************)
EXTENDS NoteSync, TLAPS

(* The types of what only the run looks at. *)
RunOK ==
    /\ phase \in {"idle"} \cup PullPhases \cup PushPhases
    /\ run \in Run
    /\ page \in Page
    /\ text \in SUBSET Edits
    /\ settles \in BOOLEAN

(* A retry and a failure stay within the types. *)
LEMMA ItemFailsTyped == TypeOK /\ ItemFails => RunOK'
<1> SUFFICES ASSUME TypeOK, ItemFails PROVE RunOK'
    OBVIOUS
<1>1. run' \in Run
    BY DEF TypeOK, ItemFails, Goto, runVars, Run
<1>2. phase' \in {"idle"} \cup PullPhases \cup PushPhases
    BY DEF ItemFails, Goto, PullPhases, PushPhases
<1>3. UNCHANGED <<page, text, settles>>
    BY DEF ItemFails, Goto, runVars
<1> QED
    BY <1>1, <1>2, <1>3 DEF RunOK, TypeOK

(* An edit of either side, and what is counted as spared, are sets of edits. *)
LEMMA ExcusedTyped == \A p \in Page : \A t : Excused(p, t) \in SUBSET Edits
    BY NoteAssumption DEF Excused, Page, Whole, Meta

(* Every action preserves the types. *)
LEMMA TypePreserved == TypeOK /\ [Next]_vars => TypeOK'
<1> SUFFICES ASSUME TypeOK, [Next]_vars PROVE TypeOK'
    OBVIOUS
<1> USE NoteAssumption, EditorAssumption, SkewAssumption
        DEF TypeOK, Record, Page, Run, PullPhases, PushPhases, Editor, ClockSkewMargin,
            people, runVars, Quiet, Goto, Meta, Whole
<1>1. CASE Tick
    BY <1>1 DEF Tick
<1>2. ASSUME NEW e \in Edits, HumanEdit(e) PROVE TypeOK'
    BY <1>2 DEF HumanEdit
<1>3. ASSUME NEW e \in Edits, LocalEdit(e) PROVE TypeOK'
    <2>1. local' \in SUBSET Edits /\ made' \in SUBSET Edits /\ fresh' \in BOOLEAN
        BY <1>3 DEF LocalEdit
    <2>2. UNCHANGED <<strategy, minute, remote, rec, journal, phase, run, page, text, settles,
                      spared>>
        BY <1>3 DEF LocalEdit
    <2> QED
        BY <2>1, <2>2
<1>4. CASE BeginPull
    <2>1. run' \in Run
        <3>1. minute + Skew \in Nat
            OBVIOUS
        <3>2. PICK bot \in BOOLEAN :
                 run' = [kind |-> "pull", seen |-> minute + Skew, bot |-> bot, retried |-> FALSE]
            BY <1>4 DEF BeginPull, Begin
        <3> QED
            BY <3>1, <3>2
    <2>2. UNCHANGED <<strategy, minute, made, remote, local, fresh, rec, journal, page, text,
                      settles, spared>> /\ phase' = "detect"
        BY <1>4 DEF BeginPull, Begin
    <2> QED
        BY <2>1, <2>2
<1>5. CASE BeginPush
    <2>1. run' \in Run
        <3>1. minute + Skew \in Nat
            OBVIOUS
        <3>2. PICK bot \in BOOLEAN :
                 run' = [kind |-> "push", seen |-> minute + Skew, bot |-> bot, retried |-> FALSE]
            BY <1>5 DEF BeginPush, Begin
        <3> QED
            BY <3>1, <3>2
    <2>2. UNCHANGED <<strategy, minute, made, remote, local, fresh, rec, journal, page, text,
                      settles, spared>> /\ phase' = "read"
        BY <1>5 DEF BeginPush, Begin
    <2> QED
        BY <2>1, <2>2
<1>6. CASE Detect
    BY <1>6 DEF Detect
<1>7. CASE PullGetPage
    BY <1>7 DEF PullGetPage
<1>8. CASE PullGetBody
    BY <1>8 DEF PullGetBody
<1>9. CASE DecideSame
    BY <1>9 DEF DecideSame, RecordText, Observe
<1>10. CASE DecideSkip
    BY <1>10 DEF DecideSkip, Observe, Excused
<1>11. CASE DecideKeepLocal
    BY <1>11 DEF DecideKeepLocal
<1>12. CASE DecideConflict
    BY <1>12 DEF DecideConflict
<1>13. CASE DecideWrite
    BY <1>13 DEF DecideWrite, Decide
<1>14. CASE DecideMerge
    BY <1>14 DEF DecideMerge, Decide
<1>15. CASE PullWrite
    <2>1. local' \in SUBSET Edits
        BY <1>15 DEF PullWrite, WriteFile
    <2>2. spared' \in SUBSET Edits
        BY <1>15 DEF PullWrite, WriteFile
    <2>3. fresh' \in BOOLEAN /\ phase' \in PullPhases
        BY <1>15 DEF PullWrite, WriteFile
    <2>4. RunOK'
        BY <1>15, <2>3 DEF PullWrite, WriteFile, RunOK
    <2>5. UNCHANGED <<strategy, minute, made, remote, rec, journal>>
        BY <1>15 DEF PullWrite, WriteFile
    <2> QED
        BY <2>1, <2>2, <2>3, <2>4, <2>5 DEF RunOK
<1>16. CASE PullWriteMerged
    <2>1. local' \in SUBSET Edits
        BY <1>16 DEF PullWriteMerged, WriteFile
    <2>2. spared' \in SUBSET Edits
        BY <1>16 DEF PullWriteMerged, WriteFile
    <2>3. fresh' \in BOOLEAN /\ phase' \in PullPhases
        BY <1>16 DEF PullWriteMerged, WriteFile
    <2>4. RunOK'
        BY <1>16, <2>3 DEF PullWriteMerged, WriteFile, RunOK
    <2>5. UNCHANGED <<strategy, minute, made, remote, rec, journal>>
        BY <1>16 DEF PullWriteMerged, WriteFile
    <2> QED
        BY <2>1, <2>2, <2>3, <2>4, <2>5 DEF RunOK
<1>17. CASE PullStore
    BY <1>17 DEF PullStore, RecordText, Observe
<1>18. CASE PullStoreMerged
    BY <1>18 DEF PullStoreMerged, RecordText, Observe
<1>19. CASE PushRead
    BY <1>19 DEF PushRead
<1>20. CASE PushLive
    <2>1. spared' \in SUBSET Edits /\ journal' \in {NoText} \cup SUBSET Edits
        BY <1>20, ExcusedTyped DEF PushLive, Send
    <2>2. RunOK'
        BY <1>20, ItemFailsTyped DEF PushLive, Send, RunOK
    <2>3. UNCHANGED <<strategy, minute, made, remote, local, fresh, rec>>
        BY <1>20 DEF PushLive, Send
    <2> QED
        BY <2>1, <2>2, <2>3 DEF RunOK
<1>21. CASE PushDrift
    <2>1. [page EXCEPT !.body = remote.body] \in Page
        OBVIOUS
    <2>2. spared' \in SUBSET Edits /\ journal' \in {NoText} \cup SUBSET Edits
        BY <1>21, <2>1, ExcusedTyped DEF PushDrift, Send
    <2>3. RunOK'
        BY <1>21, <2>1, ItemFailsTyped DEF PushDrift, Send, OutsideBodyUnchanged, RunOK
    <2>4. UNCHANGED <<strategy, minute, made, remote, local, fresh, rec>>
        BY <1>21 DEF PushDrift, Send
    <2> QED
        BY <2>2, <2>3, <2>4 DEF RunOK
<1>22. CASE PushBody \/ PushFill \/ FillFails
    <2>f. Filled \in Page
        BY DEF Filled, SentBody
    <2>1. remote' \in Page
        <3>1. CASE PushBody
            <4>1. PICK late \in SUBSET SentBody(text) :
                     remote' = [remote EXCEPT !.body = SentBody(text) \ late, !.time = minute,
                                              !.by = Bot]
                BY <3>1 DEF PushBody
            <4> QED
                BY <4>1 DEF SentBody
        <3> QED
            BY <1>22, <2>f, <3>1 DEF PushFill, FillFails
    <2>2. spared' \in SUBSET Edits
        BY <1>22 DEF PushBody, PushFill, FillFails
    <2>3. RunOK'
        <3>1. CASE PushBody
            <4>1. CASE ItemFails
                BY <4>1, ItemFailsTyped
            <4>2. CASE ~ItemFails
                <5>1. PICK late \in SUBSET SentBody(text) :
                         /\ phase' \in {"fill", "reread", "title"}
                         /\ page' = WithBody(SentBody(text) \ late)
                         /\ UNCHANGED <<run, text, settles>>
                    BY <3>1, <4>2 DEF PushBody, Answered
                <5>2. WithBody(SentBody(text) \ late) \in Page
                    BY DEF WithBody, SentBody
                <5> QED
                    BY <5>1, <5>2 DEF RunOK
            <4> QED
                BY <4>1, <4>2
        <3>2. CASE PushFill \/ FillFails
            <4>1. CASE ItemFails
                BY <4>1, ItemFailsTyped
            <4>2. CASE ~ItemFails
                BY <3>2, <4>2 DEF PushFill, FillFails, RunOK
            <4> QED
                BY <4>1, <4>2
        <3> QED
            BY <1>22, <3>1, <3>2
    <2>4. UNCHANGED <<strategy, minute, made, local, fresh, rec, journal>>
        BY <1>22 DEF PushBody, PushFill, FillFails
    <2> QED
        BY <2>1, <2>2, <2>3, <2>4 DEF RunOK
<1>28. CASE PushReread \/ SalvagePage \/ SalvageBody
    <2>0. ReadBack \in SUBSET Edits
        BY DEF ReadBack
    <2>1. spared' \in SUBSET Edits
        BY <1>28, <2>0 DEF PushReread, SalvagePage, SalvageBody
    <2>4. rec' \in Record
        BY <1>28 DEF PushReread, SalvagePage, SalvageBody, Observe
    <2>2. RunOK'
        BY <1>28, ItemFailsTyped
           DEF PushReread, SalvagePage, SalvageBody, Answered, WithBody, RunOK
    <2>3. UNCHANGED <<strategy, minute, made, remote, local, fresh, journal>>
        BY <1>28 DEF PushReread, SalvagePage, SalvageBody
    <2> QED
        BY <2>1, <2>2, <2>3, <2>4 DEF RunOK
<1>23. CASE PushTitle
    <2>1. remote' \in Page
        <3>1. [remote EXCEPT !.meta = text \cap Meta, !.time = minute, !.by = Bot] \in Page
            OBVIOUS
        <3> QED
            BY <1>23, <3>1 DEF PushTitle
    <2>2. spared' \in SUBSET Edits
        BY <1>23 DEF PushTitle
    <2>3. RunOK'
        <3>1. CASE Answered([remote' EXCEPT !.body = page.body], "store")
            BY <2>1, <3>1 DEF Answered, RunOK
        <3>2. CASE ItemFails
            BY <3>2, ItemFailsTyped
        <3> QED
            BY <1>23, <3>1, <3>2 DEF PushTitle
    <2>4. UNCHANGED <<strategy, minute, made, local, fresh, rec, journal>>
        BY <1>23 DEF PushTitle
    <2> QED
        BY <2>1, <2>2, <2>3, <2>4 DEF RunOK
<1>24. CASE PushStore
    BY <1>24 DEF PushStore, Observe
<1>25. CASE RequestFails
    <2>1. RunOK'
        BY <1>25, ItemFailsTyped DEF RequestFails
    <2>2. UNCHANGED <<strategy, minute, made, remote, local, fresh, rec, journal, spared>>
        BY <1>25 DEF RequestFails
    <2> QED
        BY <2>1, <2>2 DEF RunOK
<1>26. CASE Crash
    BY <1>26 DEF Crash
<1>27. CASE UNCHANGED vars
    BY <1>27 DEF vars
<1> QED
    BY <1>1, <1>2, <1>3, <1>4, <1>5, <1>6, <1>7, <1>8, <1>9, <1>10, <1>11, <1>12, <1>13,
       <1>14, <1>15, <1>16, <1>17, <1>18, <1>19, <1>20, <1>21, <1>22, <1>23, <1>24, <1>25,
       <1>26, <1>27, <1>28 DEF Next, Pull, Push

(* The types hold in every reachable state, whatever the edits and the bounds. *)
THEOREM TypeCorrect == Spec => []TypeOK
<1>1. Init => TypeOK
    <2> SUFFICES ASSUME Init PROVE TypeOK
        OBVIOUS
    <2>1. PICK how \in Linked :
            /\ remote = [body |-> {}, meta |-> {}, time |-> 1, by |-> how[1]]
            /\ rec = [base |-> how[2], edited |-> 1, by |-> how[1], seen |-> 1 + Skew,
                      print |-> how[3], status |-> how[4]]
            /\ fresh = (how[2] # NoText)
        BY DEF Init
    <2>2. /\ how[1] \in Editor
          /\ how[2] \in {NoText} \cup SUBSET Edits
          /\ how[3] \in {NoPrint} \cup SUBSET Body
          /\ how[4] \in {"synced", "pending"}
        BY DEF Linked, Editor
    <2>3. 1 + Skew \in Nat
        BY SkewAssumption DEF ClockSkewMargin
    <2>4. remote \in Page /\ page \in Page
        BY <2>1, <2>2 DEF Init, Page
    <2>5. rec \in Record
        BY <2>1, <2>2, <2>3 DEF Record
    <2>6. run \in Run
        BY DEF Init, Run
    <2> QED
        BY <2>1, <2>4, <2>5, <2>6 DEF Init, TypeOK
<1> QED
    BY <1>1, TypePreserved, PTL DEF Spec
--------------------------------------------------------------------------------
Fetched == {"decide", "write", "stored", "writeMerged", "storedMerged"}

(* The body is out: the rest of a push, and what is left of one that cannot go on. *)
Written == {"fill", "reread", "title", "store", "salvage", "salvageBody"}

(***************************************************************************)
(* Why a settled stamp is exact.  Every time a run began is at most Skew   *)
(* ahead of Notion's clock, so a stamp that looks settled lies in a minute *)
(* that is over, and an edit that comes later bears another time.  A pull  *)
(* that has fetched the body therefore still has it right, as long as the  *)
(* stamp stands; and a push, whose own write comes after its run began,    *)
(* never records a settled stamp, and leaves no settled one standing.      *)
(***************************************************************************)
StampInv ==
    /\ rec.seen <= minute + Skew
    /\ run.seen <= minute + Skew
    /\ phase \in Fetched /\ IsSettled(page.time, run.seen) /\ remote.time = page.time
          => remote.body = page.body
    /\ phase \in Written => remote.time + Skew >= run.seen
    /\ phase \in {"store", "salvageBody"} => page.time + Skew >= run.seen
    /\ phase \in Written /\ IsSettled(rec.edited, rec.seen) => remote.time > rec.edited
    /\ SettledIsExact

(* A settled stamp belongs to a minute that has passed: here the margin pays for the skew. *)
LEMMA SettledIsPast ==
    ASSUME minute \in Nat, NEW t \in Nat, NEW seen \in Nat,
           seen <= minute + Skew, IsSettled(t, seen)
    PROVE  minute > t
    BY SkewAssumption DEF IsSettled, EditTimeResolution, ClockSkewMargin

(* Nothing but the page, or nothing of it, moves: what the record says stays exact. *)
LEMMA StampKept ==
    ASSUME TypeOK, StampInv,
           rec'.edited = rec.edited, rec'.by = rec.by, rec'.seen = rec.seen,
           rec'.print = rec.print,
           \/ remote' = remote
           \/ remote'.time = minute
    PROVE  SettledIsExact'
<1> SUFFICES ASSUME IsSettled(rec.edited, rec.seen), ~Changed(rec', remote')
             PROVE  remote'.body = rec.print
    BY DEF SettledIsExact, IsSettled, EditTimeResolution, ClockSkewMargin
<1>1. minute > rec.edited
    BY SettledIsPast DEF TypeOK, Record, StampInv
<1>2. remote' = remote
    BY <1>1 DEF Changed, TypeOK, Record
<1>3. ~Changed(rec, remote)
    BY <1>2 DEF Changed
<1> QED
    BY <1>2, <1>3 DEF StampInv, SettledIsExact

(* What a pull records of the page it has fetched is exact. *)
LEMMA FetchedIsExact ==
    ASSUME TypeOK, StampInv, phase \in Fetched, remote' = remote,
           rec'.edited = page.time, rec'.by = page.by, rec'.seen = run.seen,
           rec'.print = page.body
    PROVE  SettledIsExact'
<1> SUFFICES ASSUME IsSettled(page.time, run.seen), ~Changed(rec', remote)
             PROVE  remote.body = page.body
    BY DEF SettledIsExact, IsSettled, EditTimeResolution, ClockSkewMargin
<1>1. remote.time = page.time
    BY DEF Changed
<1> QED
    BY <1>1 DEF StampInv

(* Every step preserves the invariant. *)
LEMMA StampPreserved == TypeOK /\ StampInv /\ [Next]_vars => StampInv'
<1> SUFFICES ASSUME TypeOK, StampInv, [Next]_vars PROVE StampInv'
    OBVIOUS
<1> USE SkewAssumption DEF Written
<1> DEFINE RecordStands == UNCHANGED <<rec, run, minute>>
<1>t. /\ minute \in Nat /\ rec.edited \in Nat /\ rec.seen \in Nat /\ run.seen \in Nat
      /\ remote.time \in Nat /\ page.time \in Nat /\ Skew \in Nat
    BY DEF TypeOK, Record, Run, Page, ClockSkewMargin
<1>u. UNCHANGED <<rec, remote>> => SettledIsExact'
    BY StampKept
(* A step outside the phases the invariant speaks of, that leaves rec and remote alone. *)
<1>v. ASSUME UNCHANGED <<rec, remote>>, minute' \in Nat, minute' >= minute,
             run'.seen \in Nat, run'.seen <= minute' + Skew,
             phase' \notin Fetched \cup Written
      PROVE  StampInv'
    BY <1>t, <1>u, <1>v DEF StampInv, Written
(* A step within a run that changes nothing of what the invariant speaks of but the phase. *)
<1>w. ASSUME UNCHANGED <<rec, remote, minute, run, page>>,
             phase' = phase \/ (phase \in Fetched /\ phase' \in Fetched)
      PROVE  StampInv'
    BY <1>t, <1>u, <1>w DEF StampInv, Fetched, Written
(* A run that ends leaves its record behind. *)
<1>x. ASSUME UNCHANGED <<minute, run>>, phase' = "idle", rec'.seen \in {rec.seen, run.seen},
             SettledIsExact'
      PROVE  StampInv'
    BY <1>t, <1>x DEF StampInv, Fetched, Written
<1>1. CASE Tick
    <2>1. minute' = minute + 1 /\ UNCHANGED <<rec, remote, run, page, phase>>
        BY <1>1 DEF Tick, runVars
    <2> QED
        BY <1>t, <1>u, <2>1 DEF StampInv, Fetched
<1>2. ASSUME NEW e \in Edits, HumanEdit(e) PROVE StampInv'
    <2>1. remote'.time = minute /\ UNCHANGED <<rec, run, page, phase, minute>>
        BY <1>2 DEF HumanEdit, runVars
    <2>2. SettledIsExact'
        BY <2>1, StampKept
    <2>3. IsSettled(page.time, run.seen) => minute > page.time
        BY <1>t, SettledIsPast DEF StampInv
    <2>4. IsSettled(rec.edited, rec.seen) => minute > rec.edited
        BY <1>t, SettledIsPast DEF StampInv
    <2> QED
        BY <1>t, <2>1, <2>2, <2>3, <2>4 DEF StampInv, Fetched
<1>3. ASSUME NEW e \in Edits, LocalEdit(e) PROVE StampInv'
    BY <1>3, <1>w DEF LocalEdit, runVars
<1>4. CASE BeginPull
    BY <1>4, <1>t, <1>v DEF BeginPull, Begin, people, Fetched
<1>5. CASE BeginPush
    BY <1>5, <1>t, <1>v DEF BeginPush, Begin, people, Fetched
<1>6. CASE Detect
    BY <1>6, <1>t, <1>v DEF Detect, Goto, Quiet, people, runVars, Fetched, StampInv
<1>7. CASE PullGetPage
    BY <1>7, <1>t, <1>v DEF PullGetPage, Quiet, people, Fetched, StampInv
<1>8. CASE PullGetBody
    <2>1. UNCHANGED <<rec, remote, minute, run>> /\ page'.body = remote.body
                                                /\ phase' = "decide"
        BY <1>8 DEF PullGetBody, Quiet, people, TypeOK, Page
    <2> QED
        BY <1>t, <1>u, <2>1 DEF StampInv, Fetched
<1>9. CASE DecideSame
    BY <1>9, <1>x, FetchedIsExact
       DEF DecideSame, RecordText, Observe, Goto, people, runVars, Fetched, TypeOK, Record
<1>10. CASE DecideSkip
    BY <1>10, <1>x, FetchedIsExact
       DEF DecideSkip, Observe, Goto, people, runVars, Fetched, TypeOK, Record
<1>11. CASE DecideKeepLocal
    BY <1>11, <1>x, <1>u DEF DecideKeepLocal, Goto, Quiet, people, runVars
<1>12. CASE DecideConflict
    BY <1>12, <1>x, StampKept DEF DecideConflict, Goto, people, runVars, TypeOK, Record
<1>13. CASE DecideWrite
    BY <1>13, <1>w DEF DecideWrite, Decide, Quiet, people, Fetched
<1>14. CASE DecideMerge
    BY <1>14, <1>w DEF DecideMerge, Decide, Quiet, people, Fetched
<1>15. CASE PullWrite
    BY <1>15, <1>w DEF PullWrite, WriteFile, Goto, people, runVars, Fetched
<1>16. CASE PullWriteMerged
    BY <1>16, <1>w DEF PullWriteMerged, WriteFile, Goto, people, runVars, Fetched
<1>17. CASE PullStore
    BY <1>17, <1>x, FetchedIsExact
       DEF PullStore, RecordText, Observe, Goto, people, runVars, Fetched, TypeOK, Record
<1>18. CASE PullStoreMerged
    BY <1>18, <1>x, FetchedIsExact
       DEF PullStoreMerged, RecordText, Observe, Goto, people, runVars, Fetched, TypeOK, Record
<1>19. CASE PushRead
    BY <1>19, <1>t, <1>v DEF PushRead, Quiet, people, Fetched, StampInv
<1>20. CASE PushLive
    BY <1>20, <1>t, <1>v
       DEF PushLive, Send, ItemFails, Goto, Quiet, people, runVars, Fetched, StampInv, TypeOK, Run
<1>21. CASE PushDrift
    BY <1>21, <1>t, <1>v
       DEF PushDrift, Send, ItemFails, Goto, Quiet, people, runVars, Fetched, StampInv, TypeOK, Run
(* A push that writes, or has written, and reads on. *)
<1>y. ASSUME UNCHANGED <<rec, minute>>, run'.seen = run.seen,
             phase = "send" => remote'.time = minute,
             remote' = remote \/ remote'.time = minute,
             phase \in Written \cup {"send"},
             phase' \in Written => \/ phase' \notin {"store", "salvageBody"}
                                   \/ page'.time = remote'.time,
             phase' \notin Fetched
      PROVE  StampInv'
    <2>1. SettledIsExact'
        BY <1>y, StampKept
    <2>2. IsSettled(rec.edited, rec.seen) => minute > rec.edited
        BY <1>t, SettledIsPast DEF StampInv
    <2>3. remote'.time + Skew >= run.seen
        BY <1>t, <1>y DEF StampInv
    <2>4. IsSettled(rec.edited, rec.seen) => remote'.time > rec.edited
        BY <1>y, <2>2 DEF StampInv
    <2> QED
        BY <1>t, <1>y, <2>1, <2>3, <2>4 DEF StampInv
<1>22. CASE PushBody \/ PushFill \/ FillFails \/ PushTitle
    <2>1. /\ UNCHANGED <<rec, minute>> /\ run'.seen = run.seen
          /\ remote' = remote \/ remote'.time = minute
          /\ phase = "send" => remote'.time = minute
        BY <1>22
           DEF PushBody, PushFill, FillFails, PushTitle, Answered, Filled, ItemFails, Goto, people,
               runVars, TypeOK, Page, Run
    <2>2. phase \in Written \cup {"send"} /\ phase' \notin Fetched
        BY <1>22
           DEF PushBody, PushFill, FillFails, PushTitle, Answered, ItemFails, Goto, Fetched, Written,
               TypeOK, Run
    <2>3. phase' \notin {"store", "salvageBody"} \/ page'.time = remote'.time
        BY <1>22
           DEF PushBody, PushFill, FillFails, PushTitle, Answered, ItemFails, Goto, TypeOK, Run, Page
    <2> QED
        BY <1>y, <2>1, <2>2, <2>3
<1>23. CASE PushReread \/ SalvagePage
    <2>1. /\ phase \in Written /\ phase' \in {"title", "salvageBody"}
          /\ UNCHANGED <<rec, minute, run, remote>>
          /\ phase' = "title" \/ page' = remote
        BY <1>23 DEF PushReread, SalvagePage, Answered, Quiet, people, Written
    <2> QED
        BY <1>y, <2>1 DEF Fetched, Written
<1>28. CASE SalvageBody
    <2>1. /\ phase = "salvageBody" /\ phase' \in {"idle", "getPage", "read"}
          /\ UNCHANGED <<remote, minute>> /\ run'.seen = run.seen
        BY <1>28 DEF SalvageBody, ItemFails, Goto, people, runVars, TypeOK, Run
    <2>2. rec'.edited = page.time /\ rec'.seen = run.seen
        BY <1>28 DEF SalvageBody, Observe, TypeOK, Record
    <2>3. ~IsSettled(page.time, run.seen)
        BY <1>t, <2>1 DEF StampInv, IsSettled, EditTimeResolution, ClockSkewMargin
    <2>4. SettledIsExact'
        BY <2>2, <2>3 DEF SettledIsExact, IsSettled, EditTimeResolution, ClockSkewMargin
    <2> QED
        BY <1>t, <2>1, <2>2, <2>4 DEF StampInv, Fetched, Written
<1>24. CASE PushStore
    <2>1. /\ phase = "store" /\ phase' = "idle" /\ UNCHANGED <<remote, minute, run>>
        BY <1>24 DEF PushStore, Goto, people, runVars
    <2>2. CASE settles
        <3>1. rec'.edited = page.time /\ rec'.seen = run.seen
            BY <1>24, <2>2 DEF PushStore, Observe, TypeOK, Record
        <3>2. ~IsSettled(page.time, run.seen)
            BY <1>t, <2>1 DEF StampInv, IsSettled, EditTimeResolution, ClockSkewMargin
        <3>3. SettledIsExact'
            BY <3>1, <3>2 DEF SettledIsExact, IsSettled, EditTimeResolution, ClockSkewMargin
        <3> QED
            BY <1>x, <2>1, <3>1, <3>3
    <2>3. CASE ~settles
        <3>1. rec'.edited = rec.edited /\ rec'.seen = rec.seen
            BY <1>24, <2>3 DEF PushStore, TypeOK, Record
        <3>2. IsSettled(rec.edited, rec.seen) => remote.time # rec.edited
            BY <1>t, <2>1 DEF StampInv
        <3>3. SettledIsExact'
            BY <2>1, <3>1, <3>2
               DEF SettledIsExact, Changed, IsSettled, EditTimeResolution, ClockSkewMargin
        <3> QED
            BY <1>x, <2>1, <3>1, <3>3
    <2> QED
        BY <2>2, <2>3
<1>25. CASE RequestFails
    BY <1>25, <1>t, <1>v
       DEF RequestFails, ItemFails, Goto, Quiet, people, runVars, Fetched, StampInv, TypeOK, Run
<1>26. CASE Crash
    BY <1>26, <1>x, <1>u DEF Crash, Goto, Quiet, people, runVars
<1>27. CASE UNCHANGED vars
    BY <1>27, <1>w DEF vars
<1> QED
    BY <1>1, <1>2, <1>3, <1>4, <1>5, <1>6, <1>7, <1>8, <1>9, <1>10, <1>11, <1>12, <1>13,
       <1>14, <1>15, <1>16, <1>17, <1>18, <1>19, <1>20, <1>21, <1>22, <1>23, <1>24, <1>25,
       <1>26, <1>27, <1>28 DEF Next, Pull, Push

LEMMA StampAlways == Spec => []StampInv
<1>1. Init => StampInv
    <2> SUFFICES ASSUME Init PROVE StampInv
        OBVIOUS
    <2>1. rec.edited = 1 /\ rec.seen = 1 + Skew
        BY DEF Init
    <2>2. ~IsSettled(rec.edited, rec.seen)
        BY <2>1, SkewAssumption DEF IsSettled, EditTimeResolution, ClockSkewMargin
    <2> QED
        BY <2>1, <2>2, SkewAssumption DEF Init, StampInv, SettledIsExact, Fetched, Written,
                                              ClockSkewMargin
<1> QED
    BY <1>1, StampPreserved, TypeCorrect, PTL DEF Spec

(* A settled stamp that still stands vouches for the body: compareRemote never calls a page *)
(* unchanged whose body somebody has edited since, however the clocks and the runs fall.    *)
THEOREM SettledStampIsExact == Spec => []SettledIsExact
<1>1. StampInv => SettledIsExact
    BY DEF StampInv
<1> QED
    BY <1>1, StampAlways, PTL
--------------------------------------------------------------------------------
(* The text of the last sync, none if there was none. *)
Base == {e \in Edits : rec.base # NoText /\ e \in rec.base}

WritePhases == {"send", "fill", "reread", "title", "store", "salvage", "salvageBody"}
AfterRead == {"live", "drift"} \cup WritePhases

(* Texts, bodies and titles as sets of edits; the marks for none are none of them. *)
LEMMA TextFacts ==
    ASSUME TypeOK
    PROVE  /\ \A p \in {remote, page} : /\ p.body \subseteq Body /\ p.meta \subseteq Meta
                                        /\ p.body # NoPrint /\ Whole(p) # NoText
                                        /\ Whole(p) \cap Body = p.body
           /\ local \subseteq Edits /\ text \subseteq Edits /\ local # NoText /\ text # NoText
           /\ rec.base # NoText => rec.base \subseteq Edits
           /\ rec.print # NoPrint => rec.print \subseteq Body
           /\ Body \subseteq Edits /\ Body \cap Meta = {}
<1>1. Body \subseteq Edits /\ \A t \in SUBSET Edits : t # NoPrint /\ t # NoText
    BY NoteAssumption
<1>2. \A p \in Page : /\ p.body \in SUBSET Body /\ p.meta \in SUBSET Meta
                      /\ Whole(p) \in SUBSET Edits
    BY <1>1 DEF Page, Whole, Meta
<1>3. remote \in Page /\ page \in Page
    BY DEF TypeOK
<1>4. \A p \in Page : Whole(p) \cap Body = p.body
    BY <1>2 DEF Whole, Meta
<1>5. rec.base \in {NoText} \cup SUBSET Edits /\ rec.print \in {NoPrint} \cup SUBSET Body
    BY DEF TypeOK, Record
<1> QED
    BY <1>1, <1>2, <1>3, <1>4, <1>5 DEF TypeOK, Meta

(* Everything that is anywhere was made. *)
MadeInv ==
    /\ Whole(remote) \subseteq made /\ Whole(page) \subseteq made
    /\ local \subseteq made /\ text \subseteq made /\ Base \subseteq made

LEMMA MadePreserved == TypeOK /\ MadeInv /\ [Next]_vars => MadeInv'
<1> SUFFICES ASSUME TypeOK, MadeInv, [Next]_vars PROVE MadeInv'
    OBVIOUS
<1> USE DEF MadeInv, Goto, Quiet, people, runVars, Whole
<1>t. rec \in Record /\ remote \in Page /\ page \in Page
    BY DEF TypeOK
<1>1. ASSUME UNCHANGED <<rec, made, remote, local>>,
             page' \in {page, remote, WithBody(remote.body)}, text' \in {text, local}
      PROVE  MadeInv'
    BY <1>t, <1>1 DEF Base, WithBody, Page
<1>2. ASSUME UNCHANGED <<made, remote, local, page, text>>,
             \/ rec'.base = rec.base
             \/ rec'.base \in {local, text, Whole(page)}
      PROVE  MadeInv'
    BY <1>2 DEF Base
<1>3. ASSUME ItemFails PROVE UNCHANGED <<page, text>>
    BY <1>3 DEF ItemFails
<1>4. ASSUME NEW e \in Edits, HumanEdit(e) \/ LocalEdit(e) PROVE MadeInv'
    BY <1>4 DEF HumanEdit, LocalEdit, Base
<1>5. CASE DecideSame \/ DecideSkip \/ DecideConflict \/ PullStore \/ PullStoreMerged \/ PushStore
    <2>1. /\ UNCHANGED <<made, remote, local, page, text>>
          /\ rec'.base = rec.base \/ rec'.base \in {local, text, Whole(page)}
        BY <1>t, <1>5
           DEF DecideSame, DecideSkip, DecideConflict, PullStore, PullStoreMerged, PushStore,
               RecordText, Observe, Record
    <2> QED
        BY <1>2, <2>1
<1>6. CASE SalvageBody
    <2>1. UNCHANGED <<made, remote, local, page, text>> /\ rec'.base = rec.base
        BY <1>t, <1>3, <1>6 DEF SalvageBody, Observe, Record
    <2> QED
        BY <1>2, <2>1
<1>7. CASE PullWrite \/ PullWriteMerged
    <2>1. UNCHANGED <<rec, made, remote, page, text>> /\ local' \subseteq text \cup Whole(page)
        BY <1>7 DEF PullWrite, PullWriteMerged, WriteFile
    <2> QED
        BY <2>1 DEF Base
<1>8. CASE PushBody
    <2>1. /\ UNCHANGED <<rec, made, local, text>>
          /\ remote'.meta = remote.meta /\ remote'.body \subseteq text
          /\ page'.meta = page.meta /\ page'.body \subseteq page.body \cup text
        BY <1>t, <1>3, <1>8 DEF PushBody, Answered, WithBody, SentBody, Page
    <2> QED
        BY <2>1 DEF Base
<1>9. CASE PushFill \/ FillFails
    <2>1. /\ UNCHANGED <<rec, made, local, text, page>>
          /\ remote'.meta = remote.meta /\ remote'.body \subseteq remote.body \cup text
        BY <1>t, <1>3, <1>9 DEF PushFill, FillFails, Filled, SentBody, Page
    <2> QED
        BY <2>1 DEF Base
<1>10. CASE PushTitle
    <2>1. /\ UNCHANGED <<rec, made, local, text>>
          /\ remote'.body = remote.body /\ remote'.meta \subseteq remote.meta \cup text
          /\ \/ UNCHANGED page
             \/ page'.body = page.body /\ page'.meta = remote'.meta
        BY <1>t, <1>3, <1>10 DEF PushTitle, Answered, Page
    <2> QED
        BY <2>1 DEF Base
<1>11. CASE PushReread \/ SalvagePage
    BY <1>1, <1>11 DEF PushReread, SalvagePage, Answered
<1>12. CASE PullGetPage \/ PullGetBody \/ PushRead \/ Detect \/ DecideKeepLocal \/ DecideWrite
             \/ DecideMerge
    BY <1>1, <1>12
       DEF PullGetPage, PullGetBody, PushRead, Detect, DecideKeepLocal, DecideWrite, DecideMerge,
           Decide, WithBody
<1>13. CASE PushLive \/ PushDrift
    BY <1>1, <1>3, <1>13 DEF PushLive, PushDrift, Send, WithBody
<1>14. CASE BeginPull \/ BeginPush \/ RequestFails \/ Crash \/ Tick \/ UNCHANGED vars
    BY <1>1, <1>3, <1>14 DEF BeginPull, BeginPush, Begin, RequestFails, Crash, Tick, vars
<1> QED
    BY <1>4, <1>5, <1>6, <1>7, <1>8, <1>9, <1>10, <1>11, <1>12, <1>13, <1>14 DEF Next, Pull, Push

LEMMA MadeAlways == Spec => []MadeInv
<1>1. Init => MadeInv
    <2> SUFFICES ASSUME Init PROVE MadeInv
        OBVIOUS
    <2>1. PICK how \in Linked :
            /\ remote = [body |-> {}, meta |-> {}, time |-> 1, by |-> how[1]]
            /\ rec = [base |-> how[2], edited |-> 1, by |-> how[1], seen |-> 1 + Skew,
                      print |-> how[3], status |-> how[4]]
        BY DEF Init
    <2>2. how[2] = NoText \/ how[2] = {}
        BY DEF Linked
    <2> QED
        BY <2>1, <2>2 DEF Init, MadeInv, Whole, Base
<1> QED
    BY <1>1, MadePreserved, TypeCorrect, PTL DEF Spec

(* What the last sync left is still in the file, and on the page outside the body; in the   *)
(* body too, unless the file has changed and a push of it may have been cut off.            *)
BaseHeld ==
    /\ Base \subseteq local /\ Base \cap Meta \subseteq remote.meta
    /\ local = rec.base => Base \subseteq Whole(remote)

(* A pull has fetched it too, and writes over a file that has changed only when it merges.  *)
PullFollows ==
    /\ phase \in {"getBody"} \cup Fetched =>
          Base \cap Meta \subseteq page.meta /\ page.meta \subseteq remote.meta
    /\ phase \in Fetched =>
          page.body \subseteq remote.body /\ (local = rec.base => Base \subseteq Whole(page))
    /\ phase = "write" => text = rec.base /\ Base \subseteq Whole(page)
    /\ phase = "writeMerged" => Base \subseteq text /\ text # rec.base
    /\ phase \in {"stored", "storedMerged"} => Whole(page) \subseteq local

(* A push sends more than the last sync left. *)
PushFollows ==
    /\ phase = "read" => local # rec.base
    /\ phase \in AfterRead => Base \subseteq text /\ text \subseteq local /\ text # rec.base
    /\ phase \in {"reread", "title", "store"} => text \cap Body \subseteq remote.body
    /\ phase = "store" => text \cap Meta \subseteq remote.meta

(* remote-first may take it from the file. *)
BaseInv ==
    /\ strategy # "remote-first" => BaseHeld /\ PullFollows /\ PushFollows
    /\ phase \in {"detect", "getPage", "getBody"} => run.kind = "pull"

(* An item that fails leaves nothing in hand. *)
LEMMA FailsToRest ==
    ASSUME ItemFails PROVE phase' \in {"idle", "getPage", "read"}
    BY DEF ItemFails, Goto

(* A file that has more than the last sync left is not the recorded text. *)
LEMMA AheadOfBase ==
    ASSUME TypeOK, NEW t, Base \subseteq t, t # rec.base, t \subseteq local PROVE local # rec.base
<1>1. rec.base # NoText => Base = rec.base
    BY TextFacts DEF Base
<1> QED
    BY <1>1, TextFacts

(* A step that changes nothing but where the run is, and ends up where nothing is in hand. *)
LEMMA BaseRests ==
    ASSUME BaseHeld, UNCHANGED <<rec, remote, local>>,
           phase' \in {"idle", "detect", "getPage"} \/ (phase' = "read" /\ local # rec.base)
    PROVE  BaseHeld' /\ PullFollows' /\ PushFollows'
    BY DEF BaseHeld, PullFollows, PushFollows, Base, Whole, Fetched, AfterRead, WritePhases

(* An item that fails, in either run. *)
LEMMA BaseFails ==
    ASSUME TypeOK, BaseHeld, PullFollows, PushFollows, ItemFails, UNCHANGED <<rec, remote, local>>,
           phase \in AfterRead \/ run.kind = "pull"
    PROVE  BaseHeld' /\ PullFollows' /\ PushFollows'
<1>1. phase' \in {"idle", "getPage"} \/ (phase' = "read" /\ run.kind # "pull")
    BY DEF ItemFails, Goto
<1>2. phase \in AfterRead => local # rec.base
    BY AheadOfBase DEF PushFollows
<1> QED
    BY <1>1, <1>2, BaseRests

(* A pull keeps it. *)
LEMMA BasePull ==
    ASSUME TypeOK, strategy # "remote-first", BaseHeld, PullFollows, PushFollows, Pull
    PROVE  BaseHeld' /\ PullFollows' /\ PushFollows'
<1> USE DEF Goto, Quiet, people, runVars
<1>f. /\ Base \subseteq rec.base \/ rec.base = NoText
      /\ rec.base = NoText => Base = {}
      /\ Base \subseteq Edits
      /\ \A X : Base \cap Meta \subseteq X.meta /\ Base \cap Body \subseteq X.body => Base \subseteq Whole(X)
    BY NoteAssumption DEF Base, Whole, Meta
<1>1. CASE Detect
    BY <1>1, BaseRests DEF Detect
<1>2. CASE DecideKeepLocal
    BY <1>2, BaseRests DEF DecideKeepLocal
<1>3. CASE PullGetPage
    <2>1. phase' = "getBody" /\ page' = remote /\ UNCHANGED <<rec, remote, local, text>>
        BY <1>3 DEF PullGetPage
    <2> QED
        BY <2>1 DEF BaseHeld, PullFollows, PushFollows, Base, Whole, Fetched, AfterRead, WritePhases
<1>4. CASE PullGetBody
    <2>1. /\ phase = "getBody" /\ phase' = "decide" /\ UNCHANGED <<rec, remote, local, text>>
          /\ page'.body = remote.body /\ page'.meta = page.meta
        BY <1>4 DEF PullGetBody, TypeOK, Page
    <2>2. Base \cap Meta \subseteq page.meta /\ page.meta \subseteq remote.meta
        BY <2>1 DEF PullFollows
    <2>3. local = rec.base => Base \cap Body \subseteq remote.body
        BY TextFacts DEF BaseHeld
    <2>4. (local = rec.base => Base \subseteq Whole(page'))
        BY <1>f, <2>1, <2>2, <2>3
    <2>5. BaseHeld'
        BY <2>1 DEF BaseHeld, Base, Whole
    <2>6. PullFollows' /\ PushFollows'
        BY <2>1, <2>2, <2>4
           DEF PullFollows, PushFollows, Base, Whole, Fetched, AfterRead, WritePhases
    <2> QED
        BY <2>5, <2>6
<1>5. CASE DecideSame \/ PullStore \/ PullStoreMerged
    <2>1. /\ phase \in Fetched /\ phase' = "idle" /\ UNCHANGED <<remote, local>>
          /\ rec'.base = Whole(page)
        BY <1>5 DEF DecideSame, Same, PullStore, PullStoreMerged, RecordText, Observe, TypeOK, Record,
                    Fetched
    <2>2. Whole(page) \subseteq local
        BY <1>5 DEF DecideSame, Same, PullStore, PullStoreMerged, PullFollows
    <2>3. Whole(page) \subseteq Whole(remote) /\ Whole(page) \cap Meta \subseteq remote.meta
        BY <2>1, TextFacts DEF PullFollows, Whole
    <2>4. Base' \subseteq Whole(page)
        BY <2>1 DEF Base
    <2>5. BaseHeld'
        BY <2>1, <2>2, <2>3, <2>4 DEF BaseHeld, Whole
    <2> QED
        BY <2>1, <2>5 DEF PullFollows, PushFollows, Fetched, AfterRead, WritePhases
<1>6. CASE DecideSkip \/ DecideConflict
    <2>1. phase' = "idle" /\ UNCHANGED <<remote, local>> /\ rec'.base = rec.base
        BY <1>6 DEF DecideSkip, DecideConflict, Observe, TypeOK, Record
    <2>2. BaseHeld'
        BY <2>1 DEF BaseHeld, Base, Whole
    <2> QED
        BY <2>1, <2>2 DEF PullFollows, PushFollows, Fetched, AfterRead, WritePhases
<1>7. CASE DecideWrite \/ DecideMerge
    <2>1. /\ phase = "decide" /\ text' = local /\ UNCHANGED <<rec, remote, local, page>>
          /\ \/ phase' = "write" /\ local = rec.base
             \/ phase' = "writeMerged" /\ local # rec.base
        BY <1>7 DEF DecideWrite, DecideMerge, Decide, LocalModified, BothChanged
    <2>2. BaseHeld'
        BY <2>1 DEF BaseHeld, Base, Whole
    <2>3. PullFollows'
        BY <2>1 DEF BaseHeld, PullFollows, Base, Whole, Fetched
    <2>4. PushFollows'
        BY <2>1 DEF PushFollows, AfterRead, WritePhases
    <2> QED
        BY <2>2, <2>3, <2>4
<1>8. CASE PullWrite
    <2>1. /\ phase = "write" /\ phase' = "stored" /\ local' = Whole(page)
          /\ UNCHANGED <<rec, remote, page, text>>
        BY <1>8 DEF PullWrite, WriteFile
    <2>2. /\ Base \subseteq Whole(page) /\ Whole(page) \subseteq Whole(remote)
          /\ Base \cap Meta \subseteq page.meta /\ page.meta \subseteq remote.meta
          /\ page.body \subseteq remote.body
        BY <2>1 DEF PullFollows, Fetched, Whole
    <2>3. BaseHeld'
        BY <2>1, <2>2 DEF BaseHeld, Base, Whole
    <2>4. PullFollows' /\ PushFollows'
        BY <2>1, <2>2 DEF PullFollows, PushFollows, Base, Whole, Fetched, AfterRead, WritePhases
    <2> QED
        BY <2>3, <2>4
<1>9. CASE PullWriteMerged
    <2>1. /\ phase = "writeMerged" /\ phase' = "storedMerged" /\ local' = text \cup Whole(page)
          /\ UNCHANGED <<rec, remote, page, text>>
        BY <1>9 DEF PullWriteMerged, WriteFile
    <2>2. /\ Base \subseteq text /\ text # rec.base
          /\ Base \cap Meta \subseteq page.meta /\ page.meta \subseteq remote.meta
          /\ page.body \subseteq remote.body
        BY <2>1 DEF PullFollows, Fetched
    <2>3. local' # rec.base
        <3>1. rec.base # NoText => Base = rec.base
            BY TextFacts DEF Base
        <3>2. Whole(page) \subseteq Edits
            BY TextFacts DEF Whole, Meta
        <3>3. local' # NoText
            BY <2>1, <3>2, TextFacts, NoteAssumption
        <3> QED
            BY <2>1, <2>2, <3>1, <3>3
    <2>4. BaseHeld'
        BY <2>1, <2>2, <2>3 DEF BaseHeld, Base, Whole
    <2>5. PullFollows' /\ PushFollows'
        BY <2>1, <2>2, <2>3 DEF PullFollows, PushFollows, Base, Whole, Fetched, AfterRead, WritePhases
    <2> QED
        BY <2>4, <2>5
<1> QED
    BY <1>1, <1>2, <1>3, <1>4, <1>5, <1>6, <1>7, <1>8, <1>9 DEF Pull

(* A push keeps it. *)
LEMMA BasePush ==
    ASSUME TypeOK, strategy # "remote-first", BaseHeld, PullFollows, PushFollows, Push
    PROVE  BaseHeld' /\ PullFollows' /\ PushFollows'
<1> USE DEF Goto, Quiet, people, runVars
<1>a. ASSUME phase \in AfterRead
      PROVE  Base \subseteq text /\ text \subseteq local /\ text # rec.base /\ local # rec.base
    BY <1>a, AheadOfBase DEF PushFollows
<1>b. ASSUME phase \in AfterRead, UNCHANGED <<rec, local, text>>, Base \cap Meta \subseteq remote'.meta
      PROVE  BaseHeld' /\ Base' \subseteq text' /\ text' \subseteq local' /\ text' # rec'.base
    BY <1>a, <1>b DEF BaseHeld, Base
<1>c. ASSUME phase \in AfterRead, UNCHANGED <<rec, local, text>>, Base \cap Meta \subseteq remote'.meta,
             phase' \in AfterRead \cup {"idle", "getPage", "read"},
             phase' \in {"reread", "title", "store"} => text \cap Body \subseteq remote'.body,
             phase' = "store" => text \cap Meta \subseteq remote'.meta
      PROVE  BaseHeld' /\ PullFollows' /\ PushFollows'
    <2>1. BaseHeld' /\ PushFollows'
        BY <1>a, <1>b, <1>c DEF PushFollows
    <2>2. PullFollows'
        BY <1>c DEF PullFollows, Fetched, AfterRead, WritePhases
    <2> QED
        BY <2>1, <2>2
<1>m. Base \cap Meta \subseteq remote.meta
    BY DEF BaseHeld
<1>1. CASE PushRead
    <2>1. phase = "read" /\ phase' = "live" /\ text' = local /\ UNCHANGED <<rec, remote, local>>
        BY <1>1 DEF PushRead
    <2>2. BaseHeld'
        BY <2>1 DEF BaseHeld, Base, Whole
    <2>3. PullFollows' /\ PushFollows'
        BY <2>1 DEF BaseHeld, PullFollows, PushFollows, Base, Fetched, AfterRead, WritePhases
    <2> QED
        BY <2>2, <2>3
<1>2. CASE PushLive \/ PushDrift
    <2>1. /\ phase \in {"live", "drift"} /\ UNCHANGED <<rec, remote, local, text>>
          /\ phase' \in {"send", "drift", "idle", "getPage", "read"}
        BY <1>2, FailsToRest DEF PushLive, PushDrift, Send, ItemFails
    <2> QED
        BY <1>c, <1>m, <2>1 DEF AfterRead, WritePhases
<1>3. CASE PushBody
    <2>1. /\ phase = "send" /\ UNCHANGED <<rec, local, text>> /\ remote'.meta = remote.meta
          /\ \/ phase' \in {"fill", "idle", "getPage", "read"}
             \/ phase' \in {"reread", "title"} /\ remote'.body = text \cap Body
        BY <1>3, FailsToRest DEF PushBody, Answered, ItemFails, SentBody, TypeOK, Page
    <2> QED
        BY <1>c, <1>m, <2>1 DEF AfterRead, WritePhases
<1>4. CASE PushFill \/ FillFails
    <2>1. /\ phase = "fill" /\ UNCHANGED <<rec, local, text>> /\ remote'.meta = remote.meta
          /\ \/ phase' \in {"salvage", "idle", "getPage", "read"}
             \/ phase' = "reread" /\ text \cap Body \subseteq remote'.body
        BY <1>4, FailsToRest DEF PushFill, FillFails, Filled, ItemFails, SentBody, TypeOK, Page
    <2> QED
        BY <1>c, <1>m, <2>1 DEF AfterRead, WritePhases
<1>5. CASE PushReread \/ SalvagePage
    <2>1. /\ UNCHANGED <<rec, local, text, remote>>
          /\ \/ phase = "reread" /\ phase' = "title"
             \/ phase = "salvage" /\ phase' = "salvageBody"
        BY <1>5 DEF PushReread, SalvagePage, Answered
    <2>2. phase = "reread" => text \cap Body \subseteq remote.body
        BY DEF PushFollows
    <2> QED
        BY <1>c, <1>m, <2>1, <2>2 DEF AfterRead, WritePhases
<1>6. CASE SalvageBody
    <2>1. /\ phase = "salvageBody" /\ UNCHANGED <<local, remote>> /\ rec'.base = rec.base
          /\ phase' \in {"idle", "getPage", "read"}
        BY <1>6, FailsToRest DEF SalvageBody, Observe, TypeOK, Record
    <2>2. local # rec.base
        BY <1>a, <2>1 DEF AfterRead, WritePhases
    <2>3. BaseHeld'
        BY <2>1 DEF BaseHeld, Base, Whole
    <2> QED
        BY <2>1, <2>2, <2>3 DEF PullFollows, PushFollows, Fetched, AfterRead, WritePhases
<1>7. CASE PushTitle
    <2>1. /\ phase = "title" /\ UNCHANGED <<rec, local, text>> /\ remote'.body = remote.body
          /\ \/ SendsTitle /\ remote'.meta = text \cap Meta
             \/ ~SendsTitle /\ remote'.meta = remote.meta
          /\ phase' \in {"store", "idle", "getPage", "read"}
        BY <1>7, FailsToRest DEF PushTitle, Answered, ItemFails, TypeOK, Page
    <2>2. Base \subseteq text /\ text \cap Body \subseteq remote.body
        BY <1>a, <2>1 DEF PushFollows, AfterRead, WritePhases
    <2>3. ~SendsTitle => text \cap Meta \subseteq remote.meta
        BY <1>m, TextFacts DEF SendsTitle, Base, Meta
    <2>4. text \cap Meta \subseteq remote'.meta
        BY <2>1, <2>3
    <2> QED
        BY <1>c, <2>1, <2>2, <2>4 DEF AfterRead, WritePhases
<1>8. CASE PushStore
    <2>1. /\ phase = "store" /\ phase' = "idle" /\ UNCHANGED <<local, remote>> /\ rec'.base = text
        BY <1>8 DEF PushStore, Observe, TypeOK, Record
    <2>2. /\ text \subseteq local /\ text \cap Body \subseteq remote.body
          /\ text \cap Meta \subseteq remote.meta
        BY <2>1 DEF PushFollows, AfterRead, WritePhases
    <2>3. Base' \subseteq text
        BY <2>1 DEF Base
    <2>4. Base' \subseteq Whole(remote)
        BY <2>2, <2>3, TextFacts DEF Whole, Meta
    <2>5. BaseHeld'
        BY <2>1, <2>2, <2>3, <2>4 DEF BaseHeld, Whole
    <2> QED
        BY <2>1, <2>5 DEF PullFollows, PushFollows, Fetched, AfterRead, WritePhases
<1> QED
    BY <1>1, <1>2, <1>3, <1>4, <1>5, <1>6, <1>7, <1>8 DEF Push

(* An edit on either side adds to it, and makes the file another than the recorded text. *)
LEMMA BaseEdits ==
    ASSUME TypeOK, MadeInv, BaseHeld, PullFollows, PushFollows, NEW e \in Edits,
           HumanEdit(e) \/ LocalEdit(e)
    PROVE  BaseHeld' /\ PullFollows' /\ PushFollows'
<1>1. CASE HumanEdit(e)
    <2>1. /\ UNCHANGED <<rec, local, phase, page, text>>
          /\ remote.body \subseteq remote'.body /\ remote.meta \subseteq remote'.meta
        BY <1>1 DEF HumanEdit, runVars
    <2>2. BaseHeld'
        BY <2>1 DEF BaseHeld, Base, Whole
    <2>3. PullFollows'
        BY <2>1 DEF PullFollows, Base, Whole
    <2>4. PushFollows'
        BY <2>1 DEF PushFollows, Base
    <2> QED
        BY <2>2, <2>3, <2>4
<1>2. CASE LocalEdit(e)
    <2>1. /\ UNCHANGED <<rec, remote, phase, page, text>>
          /\ local' = local \cup {e} /\ e \notin made
        BY <1>2 DEF LocalEdit, runVars
    <2>2. local' # rec.base
        <3>1. rec.base # NoText => Base = rec.base
            BY TextFacts DEF Base
        <3>2. local' # NoText
            BY <2>1, TextFacts, NoteAssumption
        <3> QED
            BY <2>1, <3>1, <3>2 DEF MadeInv
    <2>3. BaseHeld'
        BY <2>1, <2>2 DEF BaseHeld, Base, Whole
    <2>4. PullFollows'
        BY <2>1, <2>2 DEF PullFollows, Base, Whole
    <2>5. PushFollows'
        BY <2>1, <2>2 DEF PushFollows, Base
    <2> QED
        BY <2>3, <2>4, <2>5
<1> QED
    BY <1>1, <1>2

(* Only a pull fetches. *)
LEMMA OnlyPullFetches ==
    ASSUME TypeOK, phase \in {"detect", "getPage", "getBody"} => run.kind = "pull", [Next]_vars
    PROVE  phase' \in {"detect", "getPage", "getBody"} => run'.kind = "pull"
<1> SUFFICES ASSUME phase' \in {"detect", "getPage", "getBody"} PROVE run'.kind = "pull"
    OBVIOUS
<1> USE DEF Goto, runVars
<1>1. ASSUME ItemFails PROVE run'.kind = "pull"
    BY <1>1 DEF ItemFails, TypeOK, Run
<1>2. ASSUME UNCHANGED run, phase \in {"detect", "getPage", "getBody"} PROVE run'.kind = "pull"
    BY <1>2
<1>3. CASE BeginPull \/ BeginPush
    <2>1. BeginPull
        BY <1>3 DEF BeginPush, Begin
    <2>2. PICK bot \in BOOLEAN :
             run' = [kind |-> "pull", seen |-> minute + Skew, bot |-> bot, retried |-> FALSE]
        BY <2>1, NoteAssumption DEF BeginPull, Begin
    <2> QED
        BY <2>2
<1>4. CASE Detect \/ PullGetPage \/ PullGetBody
    BY <1>2, <1>4 DEF Detect, PullGetPage, PullGetBody
<1>5. CASE DecideSame \/ DecideSkip \/ DecideKeepLocal \/ DecideConflict \/ DecideWrite
            \/ DecideMerge \/ PullWrite \/ PullWriteMerged \/ PullStore \/ PullStoreMerged
    BY <1>5 DEF DecideSame, DecideSkip, DecideKeepLocal, DecideConflict, DecideWrite, DecideMerge,
                Decide, PullWrite, PullWriteMerged, WriteFile, PullStore, PullStoreMerged
<1>6. CASE Push
    BY <1>1, <1>6 DEF Push, PushRead, PushLive, PushDrift, Send, PushBody, PushFill, FillFails,
                      PushReread, SalvagePage, SalvageBody, PushTitle, PushStore, Answered
<1>7. CASE RequestFails \/ Crash
    BY <1>1, <1>7 DEF RequestFails, Crash
<1>8. CASE Tick \/ UNCHANGED vars
    BY <1>2, <1>8 DEF Tick, vars
<1>9. ASSUME NEW e \in Edits, HumanEdit(e) \/ LocalEdit(e) PROVE run'.kind = "pull"
    BY <1>2, <1>9 DEF HumanEdit, LocalEdit
<1> QED
    BY <1>3, <1>4, <1>5, <1>6, <1>7, <1>8, <1>9 DEF Next, Pull

LEMMA BasePreserved == TypeOK /\ MadeInv /\ BaseInv /\ [Next]_vars => BaseInv'
<1> SUFFICES ASSUME TypeOK, MadeInv, BaseInv, [Next]_vars PROVE BaseInv'
    OBVIOUS
<1>k. phase' \in {"detect", "getPage", "getBody"} => run'.kind = "pull"
    BY OnlyPullFetches DEF BaseInv
<1>s. UNCHANGED strategy
    BY DEF Next, vars, people, Quiet, Tick, HumanEdit, LocalEdit, BeginPull, BeginPush, Begin, Pull, Push,
           RequestFails, Crash, Detect, PullGetPage, PullGetBody, DecideSame, DecideSkip, DecideKeepLocal,
           DecideConflict, DecideWrite, DecideMerge, Decide, PullWrite, PullWriteMerged, WriteFile,
           PullStore, PullStoreMerged, PushRead, PushLive, PushDrift, Send, PushBody, PushFill,
           FillFails, PushReread, SalvagePage, SalvageBody, PushTitle, PushStore
<1> SUFFICES ASSUME strategy # "remote-first" PROVE BaseHeld' /\ PullFollows' /\ PushFollows'
    BY <1>k, <1>s DEF BaseInv
<1>0. BaseHeld /\ PullFollows /\ PushFollows
    BY DEF BaseInv
<1>1. CASE Tick \/ UNCHANGED vars
    <2>1. UNCHANGED <<rec, remote, local, phase, page, text>>
        BY <1>1 DEF Tick, vars, runVars
    <2> QED
        BY <1>0, <2>1 DEF BaseHeld, PullFollows, PushFollows, Base, Whole
<1>2. CASE BeginPull \/ BeginPush
    BY <1>0, <1>2, BaseRests DEF BeginPull, BeginPush, Begin, LocallyModified
<1>3. CASE RequestFails
    <2>1. phase \in AfterRead \/ run.kind = "pull"
        BY <1>3 DEF RequestFails, BaseInv, AfterRead, WritePhases
    <2> QED
        BY <1>0, <1>3, <2>1, BaseFails DEF RequestFails, Quiet
<1>4. CASE Crash
    BY <1>0, <1>4, BaseRests DEF Crash, Goto, Quiet
<1> QED
    BY <1>0, <1>1, <1>2, <1>3, <1>4, BasePull, BasePush, BaseEdits DEF Next

LEMMA BaseAlways == Spec => []BaseInv
<1>1. Init => BaseInv
    <2> SUFFICES ASSUME Init PROVE BaseInv
        OBVIOUS
    <2>1. PICK how \in Linked : rec.base = how[2]
        BY DEF Init
    <2>2. how[2] = NoText \/ how[2] = {}
        BY DEF Linked
    <2>3. Base = {} /\ phase = "idle"
        BY <2>1, <2>2 DEF Init, Base
    <2> QED
        BY <2>3 DEF BaseInv, BaseHeld, PullFollows, PushFollows, Fetched, AfterRead, WritePhases
<1> QED
    BY <1>1, BasePreserved, MadeAlways, TypeCorrect, PTL DEF Spec

(* The edits of the body that the record knows of: by its text, or by its fingerprint. *)
Known == {e \in Body : \/ rec.base # NoText /\ e \in rec.base
                       \/ rec.print # NoPrint /\ e \in rec.print}

(* The file still has what the record knows of. *)
RecordKept == Known \subseteq local \cup spared

(* Nothing leaves the page while a pull is on. *)
PullKept ==
    /\ phase \in Fetched => page.body \subseteq remote.body
    /\ phase \in {"stored", "storedMerged"} => page.body \subseteq local

(* Nothing leaves the file while a push is on, and what it writes over, or takes down as its *)
(* own, was looked at.                                                                       *)
PushKept ==
    /\ phase \in AfterRead => text \subseteq local /\ Known \subseteq text \cup spared
    /\ phase = "send" => page.body \subseteq text \cup spared \/ OverwritesRemote
    /\ phase \in {"title", "store"} => page.body \subseteq text \cup spared

(* What the journal says: whether a push was cut off, and of what text. *)
JournalKept ==
    /\ phase \in WritePhases => journal = text
    /\ phase \in {"salvage", "salvageBody"} => Failures
    /\ ~Failures /\ journal # NoText => phase \in WritePhases
    /\ rec.print = NoPrint /\ journal = NoText /\ remote.by = Bot => remote.body = {}
    /\ rec.base = NoText /\ rec.print # NoPrint => journal # NoText

KeptInv == BodyEditsKept /\ RecordKept /\ PullKept /\ PushKept /\ JournalKept

(* A step that changes nothing but where the run is, and ends up where nothing is in hand. *)
LEMMA RestStep ==
    ASSUME KeptInv, UNCHANGED <<rec, made, remote, local, journal, strategy, spared>>,
           phase' \in {"idle", "detect", "getPage", "getBody", "read"},
           Failures \/ phase \notin WritePhases
    PROVE  KeptInv'
<1>1. BodyEditsKept' /\ RecordKept'
    BY DEF KeptInv, BodyEditsKept, RecordKept, Known
<1>2. PullKept' /\ PushKept'
    BY DEF PullKept, PushKept, Fetched, AfterRead, WritePhases
<1>3. JournalKept'
    BY DEF KeptInv, JournalKept, WritePhases
<1> QED
    BY <1>1, <1>2, <1>3 DEF KeptInv

(* A step outside the run: a side may gain an edit, or the clock advances. *)
LEMMA OutsideStep ==
    ASSUME TypeOK, KeptInv, UNCHANGED <<rec, journal, strategy, phase, page, text, spared>>,
           local \subseteq local', remote.body \subseteq remote'.body,
           remote'.by = Human \/ remote' = remote,
           made' \cap Body \subseteq made \cup local' \cup remote'.body
    PROVE  KeptInv'
<1>1. BodyEditsKept'
    BY DEF KeptInv, BodyEditsKept
<1>2. RecordKept'
    BY DEF KeptInv, RecordKept, Known
<1>3. PullKept'
    BY DEF KeptInv, PullKept, Known
<1>4. PushKept'
    BY DEF KeptInv, PushKept, Known, OverwritesRemote
<1>5. JournalKept'
    BY EditorAssumption DEF KeptInv, JournalKept
<1> QED
    BY <1>1, <1>2, <1>3, <1>4, <1>5 DEF KeptInv

(* A pull ends with a record of the page it fetched, of which the file now has the body. *)
LEMMA PullRecords ==
    ASSUME TypeOK, KeptInv, phase \in Fetched, phase' = "idle",
           UNCHANGED <<made, remote, local, journal, strategy>>, spared \subseteq spared',
           Known' \subseteq Known \cup page.body, page.body \subseteq local \cup spared',
           rec'.print # NoPrint, rec'.base = NoText => journal # NoText
    PROVE  KeptInv'
<1>1. page.body \subseteq remote.body
    BY DEF KeptInv, PullKept
<1>2. BodyEditsKept'
    BY DEF KeptInv, BodyEditsKept
<1>3. RecordKept'
    BY <1>1 DEF KeptInv, RecordKept
<1>4. PullKept' /\ PushKept'
    BY DEF PullKept, PushKept, Fetched, AfterRead, WritePhases
<1>5. JournalKept'
    BY DEF KeptInv, JournalKept, Fetched, WritePhases
<1> QED
    BY <1>2, <1>3, <1>4, <1>5 DEF KeptInv

(* The body a pull fetches has what the record knows of. *)
LEMMA KeptGetBody == TypeOK /\ KeptInv /\ PullGetBody => KeptInv'
<1> SUFFICES ASSUME TypeOK, KeptInv, PullGetBody PROVE KeptInv'
    OBVIOUS
<1>1. /\ phase = "getBody" /\ phase' = "decide" /\ page'.body = remote.body
      /\ UNCHANGED <<strategy, made, remote, local, rec, journal, spared, text>>
    BY DEF PullGetBody, Quiet, people, TypeOK, Page
<1>2. BodyEditsKept' /\ RecordKept'
    BY <1>1 DEF KeptInv, BodyEditsKept, RecordKept, Known
<1>3. PullKept' /\ PushKept' /\ JournalKept'
    BY <1>1 DEF KeptInv, PullKept, PushKept, JournalKept, Fetched, AfterRead, WritePhases
<1> QED
    BY <1>2, <1>3 DEF KeptInv

(* Once the note says what the page says, both hold what is recorded. *)
LEMMA KeptDecideSame == TypeOK /\ KeptInv /\ DecideSame => KeptInv'
<1> SUFFICES ASSUME TypeOK, KeptInv, DecideSame PROVE KeptInv'
    OBVIOUS
<1>1. /\ phase = "decide" /\ phase' = "idle" /\ local = Whole(page)
      /\ UNCHANGED <<strategy, made, remote, local, journal, spared>>
    BY DEF DecideSame, Same, Goto, people
<1>2. rec'.base = local /\ rec'.print = page.body
    BY DEF DecideSame, RecordText, Observe, TypeOK, Record
<1>3. page.body # NoPrint /\ local # NoText /\ local \cap Body = page.body
    BY <1>1, TextFacts
<1>4. Known' = page.body
    BY <1>2, <1>3, TextFacts DEF Known
<1> QED
    BY <1>1, <1>2, <1>3, <1>4, PullRecords DEF Fetched

(* A page that did not move has what the record knows of, or what a cut off push wrote. *)
LEMMA KeptDecideSkip ==
    OwnWriteExcused \/ ~Failures => (TypeOK /\ KeptInv /\ DecideSkip => KeptInv')
<1> SUFFICES ASSUME OwnWriteExcused \/ ~Failures, TypeOK, KeptInv, DecideSkip PROVE KeptInv'
    OBVIOUS
<1>1. /\ phase = "decide" /\ phase' = "idle" /\ ~RemoteMoved(page)
      /\ UNCHANGED <<strategy, made, remote, local, journal>>
      /\ spared' = spared \cup Excused(page, local)
    BY DEF DecideSkip, NothingToTake, Goto, people
<1>2. rec'.base = rec.base /\ rec'.print = page.body
    BY DEF DecideSkip, Observe, TypeOK, Record
<1>3. /\ page.body # NoPrint /\ Whole(page) # NoText /\ Whole(page) \cap Body = page.body
      /\ page.body \subseteq Body /\ local # NoText
    BY TextFacts
<1>4. Known' \subseteq Known \cup page.body
    BY <1>2, <1>3 DEF Known
<1>5. CASE InterruptedOwnWrite(page, local)
    <2>1. journal = local /\ journal # NoText
        BY <1>3, <1>5 DEF InterruptedOwnWrite
    <2>2. OwnWriteExcused
        BY <1>1, <2>1 DEF KeptInv, JournalKept, WritePhases
    <2>3. page.body \subseteq local \cup spared'
        BY <1>1, <1>3, <1>5, <2>2 DEF Excused
    <2> QED
        BY <1>1, <1>2, <1>3, <1>4, <2>1, <2>3, PullRecords DEF Fetched
<1>6. CASE ~InterruptedOwnWrite(page, local)
    <2>1. rec.base # NoText /\ (page.body = rec.print \/ Whole(page) = rec.base)
        BY <1>1, <1>3, <1>6 DEF RemoteMoved, UnchangedSinceSync, OutsideBodyUnchanged
    <2>2. page.body \subseteq Known
        BY <1>3, <2>1 DEF Known
    <2>3. page.body \subseteq local \cup spared'
        BY <1>1, <2>2 DEF KeptInv, RecordKept
    <2> QED
        BY <1>1, <1>2, <1>3, <1>4, <2>1, <2>3, PullRecords DEF Fetched
<1> QED
    BY <1>5, <1>6

(* A conflict is a mark in the record and nothing else. *)
LEMMA KeptDecideConflict == TypeOK /\ KeptInv /\ DecideConflict => KeptInv'
<1> SUFFICES ASSUME TypeOK, KeptInv, DecideConflict PROVE KeptInv'
    OBVIOUS
<1>1. /\ phase = "decide" /\ phase' = "idle"
      /\ UNCHANGED <<strategy, made, remote, local, journal, spared>>
    BY DEF DecideConflict, Goto, people
<1>2. rec'.base = rec.base /\ rec'.print = rec.print
    BY DEF DecideConflict, TypeOK, Record
<1>3. BodyEditsKept' /\ RecordKept'
    BY <1>1, <1>2 DEF KeptInv, BodyEditsKept, RecordKept, Known
<1>4. PullKept' /\ PushKept' /\ JournalKept'
    BY <1>1, <1>2 DEF KeptInv, PullKept, PushKept, JournalKept, Fetched, AfterRead, WritePhases
<1> QED
    BY <1>3, <1>4 DEF KeptInv

(* What the file is about to lose is decided here, and nothing is lost yet. *)
LEMMA KeptDecideWrite == TypeOK /\ KeptInv /\ (DecideWrite \/ DecideMerge) => KeptInv'
<1> SUFFICES ASSUME TypeOK, KeptInv, DecideWrite \/ DecideMerge PROVE KeptInv'
    OBVIOUS
<1>1. /\ phase = "decide" /\ phase' \in {"write", "writeMerged"} /\ text' = local
      /\ UNCHANGED <<strategy, made, remote, local, rec, journal, spared, page>>
    BY DEF DecideWrite, DecideMerge, Decide, Quiet, people
<1>2. BodyEditsKept' /\ RecordKept'
    BY <1>1 DEF KeptInv, BodyEditsKept, RecordKept, Known
<1>3. PullKept' /\ PushKept' /\ JournalKept'
    BY <1>1 DEF KeptInv, PullKept, PushKept, JournalKept, Fetched, AfterRead, WritePhases
<1> QED
    BY <1>2, <1>3 DEF KeptInv

(* What leaves the file is on the page, or spared. *)
LEMMA KeptPullWrite ==
    TypeOK /\ BaseInv /\ KeptInv /\ (PullWrite \/ PullWriteMerged) => KeptInv'
<1> SUFFICES ASSUME TypeOK, BaseInv, KeptInv, PullWrite \/ PullWriteMerged PROVE KeptInv'
    OBVIOUS
<1>1. /\ phase \in {"write", "writeMerged"} /\ phase' \in {"stored", "storedMerged"}
      /\ UNCHANGED <<strategy, made, remote, rec, journal, page, text>>
      /\ spared' = spared \cup {e \in local \ local' : e \notin text \/ strategy = "remote-first"}
      /\ page.body \subseteq local'
      /\ (phase = "write" /\ local' = Whole(page)) \/ text \subseteq local'
    BY DEF PullWrite, PullWriteMerged, WriteFile, Goto, people, runVars, Whole
<1>2. page.body \subseteq remote.body
    BY <1>1 DEF KeptInv, PullKept, Fetched
<1>3. \A e \in local \ local' : e \in spared'
    <2> SUFFICES ASSUME NEW e \in local \ local', e \in text, strategy # "remote-first"
                 PROVE  FALSE
        BY <1>1
    <2>1. phase = "write" /\ local' = Whole(page)
        BY <1>1
    <2>2. text = rec.base /\ Base \subseteq Whole(page)
        BY <2>1 DEF BaseInv, PullFollows
    <2>3. e \in Base
        BY <2>2, TextFacts DEF Base
    <2> QED
        BY <2>1, <2>2, <2>3
<1>4. BodyEditsKept' /\ RecordKept'
    BY <1>1, <1>3 DEF KeptInv, BodyEditsKept, RecordKept, Known
<1>5. PullKept'
    BY <1>1, <1>2 DEF PullKept, Fetched
<1>6. PushKept' /\ JournalKept'
    BY <1>1 DEF KeptInv, PushKept, JournalKept, AfterRead, WritePhases
<1> QED
    BY <1>4, <1>5, <1>6 DEF KeptInv

(* What a pull has written down is on both sides. *)
LEMMA KeptPullStore == TypeOK /\ KeptInv /\ (PullStore \/ PullStoreMerged) => KeptInv'
<1> SUFFICES ASSUME TypeOK, KeptInv, PullStore \/ PullStoreMerged PROVE KeptInv'
    OBVIOUS
<1>1. /\ phase \in {"stored", "storedMerged"} /\ phase' = "idle"
      /\ UNCHANGED <<strategy, made, remote, local, journal, spared>>
    BY DEF PullStore, PullStoreMerged, Goto, people
<1>2. rec'.base = Whole(page) /\ rec'.print = page.body
    BY DEF PullStore, PullStoreMerged, RecordText, Observe, TypeOK, Record
<1>3. page.body # NoPrint /\ Whole(page) # NoText /\ Whole(page) \cap Body = page.body
    BY TextFacts
<1>4. Known' = page.body
    BY <1>2, <1>3 DEF Known
<1>5. page.body \subseteq local
    BY <1>1 DEF KeptInv, PullKept
<1> QED
    BY <1>1, <1>2, <1>3, <1>4, <1>5, PullRecords DEF Fetched

(* A push reads the file, which has what the record knows of. *)
LEMMA KeptPushRead == TypeOK /\ KeptInv /\ PushRead => KeptInv'
<1> SUFFICES ASSUME TypeOK, KeptInv, PushRead PROVE KeptInv'
    OBVIOUS
<1>1. /\ phase = "read" /\ phase' = "live" /\ text' = local
      /\ UNCHANGED <<strategy, made, remote, local, rec, journal, spared, page>>
    BY DEF PushRead, Quiet, people
<1>2. BodyEditsKept' /\ RecordKept' /\ PullKept'
    BY <1>1 DEF KeptInv, BodyEditsKept, RecordKept, PullKept, Known, Fetched
<1>3. PushKept' /\ JournalKept'
    BY <1>1 DEF KeptInv, RecordKept, PushKept, JournalKept, AfterRead, WritePhases, Known
<1> QED
    BY <1>2, <1>3 DEF KeptInv

(* What a push is about to write over is in its text, spared, or given up by strategy. *)
LEMMA KeptSend ==
    ASSUME TypeOK, KeptInv, phase \in {"live", "drift"}, NEW clean, Send(clean),
           page'.body \subseteq text \cup spared' \/ OverwritesRemote
    PROVE  KeptInv'
<1>1. /\ phase' = "send" /\ journal' = text /\ spared \subseteq spared'
      /\ UNCHANGED <<strategy, made, remote, local, rec, text>>
    BY DEF Send, people
<1>2. BodyEditsKept' /\ RecordKept' /\ PullKept'
    BY <1>1 DEF KeptInv, BodyEditsKept, RecordKept, PullKept, Known, Fetched
<1>3. text # NoText
    BY TextFacts
<1>4. PushKept'
    BY <1>1 DEF KeptInv, PushKept, Known, AfterRead, WritePhases, OverwritesRemote
<1>5. JournalKept'
    BY <1>1, <1>3 DEF KeptInv, JournalKept, WritePhases
<1> QED
    BY <1>2, <1>4, <1>5 DEF KeptInv

LEMMA KeptPushLive ==
    OwnWriteExcused \/ ~Failures => (TypeOK /\ StampInv /\ KeptInv /\ PushLive => KeptInv')
<1> SUFFICES ASSUME OwnWriteExcused \/ ~Failures, TypeOK, StampInv, KeptInv, PushLive PROVE KeptInv'
    OBVIOUS
<1>0. phase = "live"
    BY DEF PushLive
<1>1. ASSUME ItemFails, Quiet PROVE KeptInv'
    BY <1>0, <1>1, RestStep, FailsToRest DEF Quiet, people, WritePhases
<1>2. ASSUME phase' = "drift", UNCHANGED text, Quiet PROVE KeptInv'
    <2>1. UNCHANGED <<strategy, made, remote, local, rec, journal, spared, text>>
        BY <1>2 DEF Quiet, people
    <2>2. BodyEditsKept' /\ RecordKept' /\ PullKept'
        BY <1>2, <2>1 DEF KeptInv, BodyEditsKept, RecordKept, PullKept, Known, Fetched
    <2>3. PushKept' /\ JournalKept'
        BY <1>0, <1>2, <2>1 DEF KeptInv, PushKept, JournalKept, Known, AfterRead, WritePhases
    <2> QED
        BY <2>2, <2>3 DEF KeptInv
<1>3. ASSUME OverwritesRemote \/ InterruptedOwnWrite(remote, text) \/ Unchanged(rec, remote, run.bot),
             page' = remote, Send(TRUE)
      PROVE  KeptInv'
    <2>1. Known \subseteq text \cup spared
        BY <1>0 DEF KeptInv, PushKept, AfterRead
    <2>2. spared' = spared \cup Excused(remote, text)
        BY <1>3 DEF Send
    <2>3. remote.body # NoPrint /\ remote.body \subseteq Body /\ remote.body \subseteq Whole(remote)
          /\ text # NoText
        BY TextFacts DEF Whole
    <2>4. CASE journal # NoText
               /\ (InterruptedOwnWrite(remote, text) \/ OnlyBotWrote(rec, remote, run.bot))
        <3>1. OwnWriteExcused
            BY <1>0, <2>4 DEF KeptInv, JournalKept, WritePhases
        <3>2. remote.body \subseteq text \cup spared'
            BY <2>2, <2>3, <2>4, <3>1 DEF Excused
        <3> QED
            BY <1>0, <1>3, <3>2, KeptSend
    <2>5. CASE OverwritesRemote
        BY <1>0, <1>3, <2>5, KeptSend
    <2>6. CASE ~Changed(rec, remote) /\ IsSettled(rec.edited, rec.seen)
        <3>1. remote.body = rec.print
            BY <2>6 DEF StampInv, SettledIsExact
        <3>2. remote.body \subseteq Known
            BY <2>3, <3>1 DEF Known
        <3>3. remote.body \subseteq text \cup spared'
            BY <2>1, <2>2, <3>2
        <3> QED
            BY <1>0, <1>3, <3>3, KeptSend
    <2>7. CASE OnlyBotWrote(rec, remote, run.bot) /\ journal = NoText
        <3>1. remote.by = Bot /\ rec.print = NoPrint
            BY <2>7 DEF OnlyBotWrote, KeptInv, JournalKept
        <3>2. remote.body = {}
            BY <2>7, <3>1 DEF KeptInv, JournalKept
        <3> QED
            BY <1>0, <1>3, <3>2, KeptSend
    <2>8. InterruptedOwnWrite(remote, text) => journal # NoText
        BY <2>3 DEF InterruptedOwnWrite
    <2> QED
        BY <1>3, <2>4, <2>5, <2>6, <2>7, <2>8 DEF Unchanged
<1> QED
    BY <1>1, <1>2, <1>3 DEF PushLive

(* The fingerprint says that the body is the recorded one. *)
LEMMA KeptPushDrift == TypeOK /\ KeptInv /\ PushDrift => KeptInv'
<1> SUFFICES ASSUME TypeOK, KeptInv, PushDrift PROVE KeptInv'
    OBVIOUS
<1>0. phase = "drift"
    BY DEF PushDrift
<1>1. ASSUME ItemFails, Quiet PROVE KeptInv'
    BY <1>0, <1>1, RestStep, FailsToRest DEF Quiet, people, WritePhases
<1>2. ASSUME remote.body = rec.print, page' = [page EXCEPT !.body = remote.body],
             Send(OutsideBodyUnchanged(page))
      PROVE  KeptInv'
    <2>1. page'.body = rec.print
        BY <1>2 DEF TypeOK, Page
    <2>2. page'.body \subseteq Known
        BY <1>2, <2>1, TextFacts DEF Known
    <2>3. page'.body \subseteq text \cup spared'
        BY <1>0, <1>2, <2>2 DEF Send, KeptInv, PushKept, AfterRead
    <2> QED
        BY <1>0, <1>2, <2>3, KeptSend
<1> QED
    BY <1>1, <1>2 DEF PushDrift

(* What leaves the page is in the file, or spared. *)
LEMMA KeptPushBody == TypeOK /\ KeptInv /\ PushBody => KeptInv'
<1> SUFFICES ASSUME TypeOK, KeptInv, PushBody PROVE KeptInv'
    OBVIOUS
<1>1. /\ phase = "send" /\ UNCHANGED <<strategy, made, local, rec, journal, text>>
      /\ spared' = spared \cup {e \in remote.body \ text : e \notin page.body \/ OverwritesRemote}
    BY DEF PushBody, Answered, Goto, ItemFails, people, runVars
<1>2. /\ text \subseteq local /\ Known \subseteq text \cup spared /\ journal = text /\ text # NoText
      /\ page.body \subseteq text \cup spared \/ OverwritesRemote
    BY <1>1, TextFacts DEF KeptInv, PushKept, JournalKept, AfterRead, WritePhases
<1>3. \/ phase' \in {"fill", "reread", "title"} /\ page'.body \subseteq text
      \/ Failures /\ phase' \in {"idle", "getPage", "read"}
    BY FailsToRest DEF PushBody, Answered, WithBody, SentBody, TypeOK, Page
<1>4. remote.body \subseteq text \cup spared'
    BY <1>1, <1>2
<1>5. BodyEditsKept' /\ RecordKept'
    BY <1>1, <1>2, <1>4 DEF KeptInv, BodyEditsKept, RecordKept, Known
<1>6. PullKept'
    BY <1>3 DEF PullKept, Fetched
<1>7. PushKept'
    BY <1>1, <1>2, <1>3 DEF PushKept, Known, AfterRead, WritePhases
<1>8. JournalKept'
    BY <1>1, <1>2, <1>3 DEF KeptInv, JournalKept, WritePhases
<1> QED
    BY <1>5, <1>6, <1>7, <1>8 DEF KeptInv

(* What is sent after the body takes nothing from it. *)
LEMMA KeptPushFill == TypeOK /\ KeptInv /\ (PushFill \/ FillFails) => KeptInv'
<1> SUFFICES ASSUME TypeOK, KeptInv, PushFill \/ FillFails PROVE KeptInv'
    OBVIOUS
<1>1. /\ phase = "fill" /\ UNCHANGED <<strategy, made, local, rec, journal, text, spared>>
      /\ remote.body \subseteq remote'.body
    BY DEF PushFill, FillFails, Filled, Goto, ItemFails, people, runVars, TypeOK, Page
<1>2. \/ phase' = "reread"
      \/ Failures /\ phase' \in {"salvage", "idle", "getPage", "read"}
    BY FailsToRest DEF PushFill, FillFails, Goto
<1>3. journal = text /\ text # NoText
    BY <1>1, TextFacts DEF KeptInv, JournalKept, WritePhases
<1>4. BodyEditsKept' /\ RecordKept'
    BY <1>1 DEF KeptInv, BodyEditsKept, RecordKept, Known
<1>5. PullKept' /\ PushKept'
    BY <1>1, <1>2 DEF KeptInv, PullKept, PushKept, Known, Fetched, AfterRead, WritePhases
<1>6. JournalKept'
    BY <1>1, <1>2, <1>3 DEF KeptInv, JournalKept, WritePhases
<1> QED
    BY <1>4, <1>5, <1>6 DEF KeptInv

(* What is read back beside the push's own text is counted as spared. *)
LEMMA KeptReread ==
    RereadExcused => (TypeOK /\ KeptInv /\ (PushReread \/ SalvagePage \/ SalvageBody) => KeptInv')
<1> SUFFICES ASSUME RereadExcused, TypeOK, KeptInv, PushReread \/ SalvagePage \/ SalvageBody
             PROVE  KeptInv'
    OBVIOUS
<1>1. /\ phase \in {"reread", "salvage", "salvageBody"} /\ spared \subseteq spared'
      /\ UNCHANGED <<strategy, made, remote, local, journal, text>>
    BY DEF PushReread, SalvagePage, SalvageBody, Answered, ItemFails, Goto, Quiet, people, runVars
<1>2. text \subseteq local /\ Known \subseteq text \cup spared /\ journal = text /\ text # NoText
    BY <1>1, TextFacts DEF KeptInv, PushKept, JournalKept, AfterRead, WritePhases
<1>3. CASE PushReread \/ SalvagePage
    <2>1. /\ UNCHANGED rec /\ phase' \in {"title", "salvageBody"}
          /\ phase' = "title" => page'.body \subseteq text \cup spared'
          /\ phase' = "salvageBody" => phase = "salvage"
        BY <1>3 DEF PushReread, SalvagePage, Answered, WithBody, ReadBack, Quiet, TypeOK, Page
    <2>2. BodyEditsKept' /\ RecordKept'
        BY <1>1, <2>1 DEF KeptInv, BodyEditsKept, RecordKept, Known
    <2>3. PullKept' /\ PushKept' /\ JournalKept'
        BY <1>1, <1>2, <2>1
           DEF KeptInv, PullKept, PushKept, JournalKept, Known, Fetched, AfterRead, WritePhases
    <2> QED
        BY <2>2, <2>3 DEF KeptInv
<1>4. CASE SalvageBody
    <2>1. /\ Failures \/ phase' \in {"idle", "getPage", "read"}
          /\ phase' \in {"idle", "getPage", "read"}
          /\ rec'.base = rec.base /\ rec'.print = remote.body
          /\ spared' = spared \cup (remote.body \ text)
        BY <1>4, FailsToRest DEF SalvageBody, Observe, ReadBack, TypeOK, Record
    <2>2. Known' \subseteq local \cup spared' /\ remote.body # NoPrint
        BY <1>1, <1>2, <2>1, TextFacts DEF Known
    <2>3. BodyEditsKept' /\ RecordKept'
        BY <1>1, <2>2 DEF KeptInv, BodyEditsKept, RecordKept
    <2>4. PullKept' /\ PushKept'
        BY <2>1 DEF PullKept, PushKept, Fetched, AfterRead, WritePhases
    <2>5. Failures /\ phase = "salvageBody"
        BY <1>4 DEF SalvageBody, KeptInv, JournalKept
    <2>6. JournalKept'
        BY <1>1, <1>2, <2>1, <2>2, <2>5 DEF KeptInv, JournalKept, WritePhases
    <2> QED
        BY <2>3, <2>4, <2>6 DEF KeptInv
<1> QED
    BY <1>3, <1>4

(* The title is not the body. *)
LEMMA KeptPushTitle == TypeOK /\ KeptInv /\ PushTitle => KeptInv'
<1> SUFFICES ASSUME TypeOK, KeptInv, PushTitle PROVE KeptInv'
    OBVIOUS
<1>1. /\ phase = "title" /\ UNCHANGED <<strategy, made, local, rec, journal, text>>
      /\ spared \subseteq spared' /\ remote'.body = remote.body
    BY DEF PushTitle, Answered, ItemFails, Goto, people, runVars, TypeOK, Page
<1>2. \/ phase' = "store" /\ page'.body = page.body
      \/ Failures /\ phase' \in {"idle", "getPage", "read"}
    BY FailsToRest DEF PushTitle, Answered, TypeOK, Page
<1>3. journal = text /\ text # NoText
    BY <1>1, TextFacts DEF KeptInv, JournalKept, WritePhases
<1>4. BodyEditsKept' /\ RecordKept'
    BY <1>1 DEF KeptInv, BodyEditsKept, RecordKept, Known
<1>5. PullKept'
    BY <1>2 DEF PullKept, Fetched
<1>6. PushKept'
    BY <1>1, <1>2 DEF KeptInv, PushKept, Known, AfterRead, WritePhases
<1>7. JournalKept'
    BY <1>1, <1>2, <1>3 DEF KeptInv, JournalKept, WritePhases
<1> QED
    BY <1>4, <1>5, <1>6, <1>7 DEF KeptInv

(* What a push has written down is in the file, or spared. *)
LEMMA KeptPushStore == TypeOK /\ KeptInv /\ PushStore => KeptInv'
<1> SUFFICES ASSUME TypeOK, KeptInv, PushStore PROVE KeptInv'
    OBVIOUS
<1>1. /\ phase = "store" /\ phase' = "idle" /\ journal' = NoText
      /\ UNCHANGED <<strategy, made, remote, local, spared>>
    BY DEF PushStore, Goto, people
<1>2. rec'.base = text /\ rec'.print = page.body
    BY DEF PushStore, Observe, TypeOK, Record
<1>3. text # NoText /\ page.body # NoPrint
    BY TextFacts
<1>4. Known' \subseteq text \cup page.body
    BY <1>2, <1>3 DEF Known
<1>5. text \subseteq local /\ page.body \subseteq text \cup spared
    BY <1>1 DEF KeptInv, PushKept, AfterRead, WritePhases
<1>6. BodyEditsKept' /\ RecordKept'
    BY <1>1, <1>4, <1>5 DEF KeptInv, BodyEditsKept, RecordKept
<1>7. PullKept' /\ PushKept'
    BY <1>1 DEF PullKept, PushKept, Fetched, AfterRead, WritePhases
<1>8. JournalKept'
    BY <1>1, <1>2, <1>3 DEF JournalKept, WritePhases
<1> QED
    BY <1>6, <1>7, <1>8 DEF KeptInv

(* Every step keeps the invariant. *)
LEMMA KeptPreserved ==
    RereadExcused /\ (OwnWriteExcused \/ ~Failures)
        => (TypeOK /\ StampInv /\ BaseInv /\ KeptInv /\ [Next]_vars => KeptInv')
<1> SUFFICES ASSUME RereadExcused, OwnWriteExcused \/ ~Failures,
                    TypeOK, StampInv, BaseInv, KeptInv, [Next]_vars
             PROVE  KeptInv'
    OBVIOUS
<1>1. CASE Tick
    BY <1>1, OutsideStep DEF Tick, runVars
<1>2. ASSUME NEW e \in Edits, HumanEdit(e) PROVE KeptInv'
    <2>1. /\ UNCHANGED <<rec, journal, strategy, phase, page, text, spared, local>>
          /\ remote'.body = remote.body \cup ({e} \cap Body) /\ remote'.by = Human
          /\ made' = made \cup {e}
        BY <1>2 DEF HumanEdit, runVars
    <2> QED
        BY <2>1, OutsideStep
<1>3. ASSUME NEW e \in Edits, LocalEdit(e) PROVE KeptInv'
    BY <1>3, OutsideStep DEF LocalEdit, runVars
<1>4. CASE BeginPull \/ BeginPush
    BY <1>4, RestStep DEF BeginPull, BeginPush, Begin, people, WritePhases
<1>5. CASE Detect
    BY <1>5, RestStep DEF Detect, Goto, Quiet, people, WritePhases
<1>6. CASE PullGetPage
    BY <1>6, RestStep DEF PullGetPage, Quiet, people, WritePhases
<1>7. CASE DecideKeepLocal
    BY <1>7, RestStep DEF DecideKeepLocal, Goto, Quiet, people, WritePhases
<1>8. CASE RequestFails
    BY <1>8, RestStep, FailsToRest DEF RequestFails, Quiet, people
<1>9. CASE Crash
    BY <1>9, RestStep DEF Crash, Goto, Quiet, people
<1>10. CASE UNCHANGED vars
    BY <1>10, OutsideStep DEF vars, runVars
<1> QED
    BY <1>1, <1>2, <1>3, <1>4, <1>5, <1>6, <1>7, <1>8, <1>9, <1>10, KeptGetBody, KeptDecideSame,
       KeptDecideSkip, KeptDecideConflict, KeptDecideWrite, KeptPullWrite, KeptPullStore,
       KeptPushRead, KeptPushLive, KeptPushDrift, KeptPushBody, KeptPushFill, KeptReread,
       KeptPushTitle, KeptPushStore
       DEF Next, Pull, Push

LEMMA KeptInitially == Init => KeptInv
<1> SUFFICES ASSUME Init PROVE KeptInv
    OBVIOUS
<1>1. PICK how \in Linked :
        /\ remote = [body |-> {}, meta |-> {}, time |-> 1, by |-> how[1]]
        /\ rec = [base |-> how[2], edited |-> 1, by |-> how[1], seen |-> 1 + Skew,
                  print |-> how[3], status |-> how[4]]
        /\ fresh = (how[2] # NoText)
    BY DEF Init
<1>2. (how[2] = NoText \/ how[2] = {}) /\ (how[3] = NoPrint \/ how[3] = {})
      /\ (how[2] = NoText => how[3] = NoPrint)
    BY NoteAssumption DEF Linked
<1>3. Known = {} /\ made = {} /\ phase = "idle" /\ journal = NoText /\ remote.body = {}
    BY <1>1, <1>2 DEF Init, Known
<1> QED
    BY <1>1, <1>2, <1>3
       DEF KeptInv, BodyEditsKept, RecordKept, PullKept, PushKept, JournalKept, Fetched, AfterRead,
           WritePhases

(* No edit of a body is lost by both sides, whatever the strategy, wherever a request fails  *)
(* or the process dies, unless a strategy announced it, two writes crossed in flight, the    *)
(* page was taken for a push's own interrupted write, or a push read it back with its own    *)
(* write (PagePuller.pullUpdate, PagePusher.pushUpdate).                                     *)
THEOREM BodyEditsAreKept ==
    RereadExcused /\ (OwnWriteExcused \/ ~Failures) => (Spec => []BodyEditsKept)
<1> SUFFICES ASSUME RereadExcused, OwnWriteExcused \/ ~Failures PROVE Spec => []BodyEditsKept
    OBVIOUS
<1>1. TypeOK /\ StampInv /\ BaseInv /\ KeptInv /\ [Next]_vars => KeptInv'
    BY KeptPreserved
<1>2. KeptInv => BodyEditsKept
    BY DEF KeptInv
<1> QED
    BY <1>1, <1>2, KeptInitially, StampAlways, BaseAlways, TypeCorrect, PTL DEF Spec
--------------------------------------------------------------------------------
(* While nobody edits the file under a run, a stat in the record is that of its text. *)
ScanInv ==
    /\ fresh => local = rec.base
    /\ phase = "stored" => local = Whole(page)
    /\ phase = "storedMerged" => ~fresh
    /\ phase \in AfterRead => text = local

LEMMA ScanPreserved == ~EditDuringRun => (TypeOK /\ ScanInv /\ [Next]_vars => ScanInv')
<1> SUFFICES ASSUME ~EditDuringRun, TypeOK, ScanInv, [Next]_vars PROVE ScanInv'
    OBVIOUS
<1> USE DEF ScanInv, Goto, Quiet, people, runVars, AfterRead, WritePhases
<1>t. rec \in Record
    BY DEF TypeOK
<1>1. CASE Tick
    BY <1>1 DEF Tick
<1>2. ASSUME NEW e \in Edits, HumanEdit(e) PROVE ScanInv'
    BY <1>2 DEF HumanEdit
<1>3. ASSUME NEW e \in Edits, LocalEdit(e) PROVE ScanInv'
    BY <1>3 DEF LocalEdit
<1>4. CASE BeginPull \/ BeginPush
    <2>1. phase' \in {"detect", "read"} /\ UNCHANGED <<local, fresh, rec>>
        BY <1>4 DEF BeginPull, BeginPush, Begin
    <2> QED
        BY <2>1
<1>5. CASE Detect \/ PullGetPage \/ PullGetBody
    BY <1>5 DEF Detect, PullGetPage, PullGetBody
<1>6. CASE DecideSame
    <2>1. rec'.base = local /\ UNCHANGED local /\ phase' = "idle"
        BY <1>t, <1>6 DEF DecideSame, RecordText, Observe, Record
    <2> QED
        BY <2>1
<1>7. CASE DecideSkip \/ DecideConflict
    <2>1. rec'.base = rec.base /\ UNCHANGED <<local, fresh>> /\ phase' = "idle"
        BY <1>t, <1>7 DEF DecideSkip, DecideConflict, Observe, Record
    <2> QED
        BY <2>1
<1>8. CASE DecideKeepLocal \/ DecideWrite \/ DecideMerge
    BY <1>8 DEF DecideKeepLocal, DecideWrite, DecideMerge, Decide
<1>9. CASE PullWrite \/ PullWriteMerged
    <2>1. /\ ~fresh' /\ UNCHANGED page
          /\ \/ phase' = "stored" /\ local' = Whole(page)
             \/ phase' = "storedMerged"
        BY <1>9 DEF PullWrite, PullWriteMerged, WriteFile
    <2> QED
        BY <2>1 DEF Whole
<1>10. CASE PullStore
    <2>1. rec'.base = Whole(page) /\ local' = Whole(page) /\ phase' = "idle"
        BY <1>t, <1>10 DEF PullStore, RecordText, Observe, Record
    <2> QED
        BY <2>1
<1>11. CASE PullStoreMerged
    <2>1. phase = "storedMerged" /\ phase' = "idle" /\ UNCHANGED <<fresh, local>>
        BY <1>11 DEF PullStoreMerged
    <2> QED
        BY <2>1
<1>12. CASE PushRead
    BY <1>12 DEF PushRead
<1>13. ASSUME ItemFails, UNCHANGED <<local, fresh, rec>> PROVE ScanInv'
    BY <1>13, FailsToRest
<1>14. CASE PushLive \/ PushDrift
    BY <1>13, <1>14 DEF PushLive, PushDrift, Send
<1>15. CASE PushBody \/ PushFill \/ FillFails \/ PushReread \/ SalvagePage \/ PushTitle
    <2>1. /\ phase \in {"send", "fill", "reread", "salvage", "title"}
          /\ UNCHANGED <<local, fresh, rec>>
          /\ ItemFails \/ (UNCHANGED text /\ phase' \in WritePhases)
        BY <1>15 DEF PushBody, PushFill, FillFails, PushReread, SalvagePage, PushTitle, Answered
    <2> QED
        BY <1>13, <2>1
<1>19. CASE SalvageBody
    <2>1. rec'.base = rec.base /\ UNCHANGED <<local, fresh>> /\ phase' \in {"idle", "getPage", "read"}
        BY <1>t, <1>19, FailsToRest DEF SalvageBody, Observe, Record
    <2> QED
        BY <2>1
<1>16. CASE PushStore
    <2>1. rec'.base = text /\ local' = text /\ phase' = "idle"
        BY <1>t, <1>16 DEF PushStore, Observe, Record
    <2> QED
        BY <2>1
<1>17. CASE RequestFails \/ Crash
    BY <1>13, <1>17 DEF RequestFails, Crash
<1>18. CASE UNCHANGED vars
    BY <1>18 DEF vars, Whole
<1> QED
    BY <1>1, <1>2, <1>3, <1>4, <1>5, <1>6, <1>7, <1>8, <1>9, <1>10, <1>11, <1>12, <1>14, <1>15,
       <1>16, <1>17, <1>18, <1>19 DEF Next, Pull, Push

(* While nobody edits the file under a run, no stat hides an edit from the next scan      *)
(* (scanLocalChanges), also when requests fail and the process dies.                      *)
THEOREM ScanAlwaysSees == ~EditDuringRun => (Spec => []ScanSeesEdits)
<1> SUFFICES ASSUME ~EditDuringRun PROVE Spec => []ScanSeesEdits
    OBVIOUS
<1>1. Init => ScanInv
    <2> SUFFICES ASSUME Init PROVE ScanInv
        OBVIOUS
    <2>1. PICK how \in Linked : rec.base = how[2] /\ fresh = (how[2] # NoText)
        BY DEF Init
    <2>2. how[2] # NoText => how[2] = {}
        BY DEF Linked
    <2> QED
        BY <2>1, <2>2 DEF Init, ScanInv, AfterRead, WritePhases
<1>2. TypeOK /\ ScanInv /\ [Next]_vars => ScanInv'
    BY ScanPreserved
<1>3. ScanInv => ScanSeesEdits
    BY DEF ScanInv, ScanSeesEdits
<1> QED
    BY <1>1, <1>2, <1>3, TypeCorrect, PTL DEF Spec

(* Where nothing fails and nobody edits the file under a run, every strategy keeps every  *)
(* body edit it does not announce it will lose and that no push read back with its own    *)
(* write, and every edit of a file is seen.                                               *)
THEOREM EditsAreKeptAndSeen ==
    RereadExcused /\ ~Failures /\ ~EditDuringRun => (Spec => []EditsKeptAndSeen)
<1> SUFFICES ASSUME RereadExcused, ~Failures, ~EditDuringRun PROVE Spec => []EditsKeptAndSeen
    OBVIOUS
<1>1. EditsKeptAndSeen <=> BodyEditsKept /\ ScanSeesEdits
    BY DEF EditsKeptAndSeen
<1>2. (Spec => []BodyEditsKept) /\ (Spec => []ScanSeesEdits)
    BY BodyEditsAreKept, ScanAlwaysSees
<1> QED
    BY <1>1, <1>2, PTL
--------------------------------------------------------------------------------
(* Everything that is anywhere was made. *)
AllMade == Whole(remote) \subseteq made /\ local \subseteq made /\ text \subseteq made

(* Both sides hold the text of the last sync, and so does what a run has read of them; while *)
(* place holders are filled in, the body is on its way to holding more.                      *)
BaseKept ==
    /\ Base \subseteq local /\ Base \cap Meta \subseteq remote.meta
    /\ phase # "fill" => Base \subseteq Whole(remote)
    /\ phase = "getBody" => Base \cap Meta \subseteq page.meta /\ page.meta \subseteq remote.meta
    /\ phase \in Fetched => /\ Base \subseteq Whole(page)
                            /\ page.body \subseteq remote.body /\ page.meta \subseteq remote.meta
    /\ phase \in {"stored", "storedMerged"} => Whole(page) \subseteq local
    /\ phase \in AfterRead => Base \subseteq text /\ text \subseteq local
    /\ phase \in {"reread", "title", "store"} => text \cap Body \subseteq remote.body
    /\ phase = "store" => text \subseteq Whole(remote)

(* What both sides hold is that text, or what a run is about to record as it. *)
Shared == {e \in Edits : \/ e \in Base
                         \/ phase \in {"fill", "reread", "title", "store"} /\ e \in text
                         \/ phase \in {"stored", "storedMerged"} /\ e \in Whole(page)}

NewsApart ==
    /\ Whole(remote) \cap local \subseteq Shared
    /\ phase = "writeMerged" => Whole(remote) \cap text \subseteq Base

(* No run is cut off, and a run knows what it is about. *)
Undisturbed ==
    /\ phase # "idle" => run.bot
    /\ phase \in PushPhases => run.kind = "push" /\ rec.status # "conflict"
    /\ journal # NoText => phase \in WritePhases
    /\ phase \notin {"salvage", "salvageBody"}

(* A page that was made and never was in step holds something, or is as it was made. *)
NeverSynced ==
    rec.base = NoText =>
        /\ Whole(remote) = {} => \/ phase \in {"fill", "reread", "title", "store"}
                                 \/ /\ ~Changed(rec, remote) /\ remote.by = Bot /\ rec.by = Bot
                                    /\ rec.print = NoPrint
        /\ phase = "getPage" => Whole(remote) # {}
        /\ phase = "getBody" => page.meta \cup remote.body # {}
        /\ phase \in Fetched => Whole(page) # {}

(* In a conflict the page holds something the file does not. *)
ConflictReal ==
    rec.status = "conflict" =>
        /\ phase \in {"stored", "storedMerged"} \/ ~(Whole(remote) \subseteq local)
        /\ phase = "getBody" => ~(page.meta \cup remote.body \subseteq local)
        /\ phase = "decide" => ~(Whole(page) \subseteq local)

CalmInv == AllMade /\ BaseKept /\ NewsApart /\ Undisturbed /\ NeverSynced /\ ConflictReal

(* A step that changes nothing but where the run is, and has nothing in hand before or after. *)
LEMMA CalmRest ==
    ASSUME CalmInv, UNCHANGED <<rec, made, remote, local, journal, text>>,
           phase \notin {"fill", "reread", "title", "store", "stored", "storedMerged", "send"},
           phase' \in {"idle", "detect", "read"}, phase' # "idle" => run'.bot,
           phase' = "read" => run'.kind = "push" /\ rec.status # "conflict"
    PROVE  CalmInv'
<1>1. AllMade' /\ BaseKept'
    BY DEF CalmInv, AllMade, BaseKept, Base, Whole, Fetched, AfterRead, WritePhases
<1>2. NewsApart'
    BY DEF CalmInv, NewsApart, Shared, Base, Whole
<1>3. Undisturbed'
    BY DEF CalmInv, Undisturbed, PushPhases, WritePhases
<1>4. NeverSynced' /\ ConflictReal'
    BY DEF CalmInv, NeverSynced, ConflictReal, Fetched, Whole, Changed
<1> QED
    BY <1>1, <1>2, <1>3, <1>4 DEF CalmInv

(* An edit is new to the side that did not make it. *)
LEMMA CalmEdit ==
    ASSUME TypeOK, CalmInv, NEW e \in Edits, HumanEdit(e) \/ LocalEdit(e)
    PROVE  CalmInv'
<1>1. /\ UNCHANGED <<rec, journal, phase, run, page, text>>
      /\ e \notin made /\ made' = made \cup {e}
    BY DEF HumanEdit, LocalEdit, runVars
<1>2. \/ UNCHANGED remote /\ local' = local \cup {e}
      \/ /\ UNCHANGED local
         /\ remote'.body = remote.body \cup ({e} \cap Body)
         /\ remote'.meta = remote.meta \cup ({e} \cap Meta)
         /\ e \in Whole(remote')
    BY DEF HumanEdit, LocalEdit, Whole, Meta
<1>3. e \notin Whole(remote) /\ e \notin local /\ e \notin text
    BY <1>1 DEF CalmInv, AllMade
<1>4. Whole(remote') \subseteq Whole(remote) \cup {e} /\ Whole(remote) \subseteq Whole(remote')
      /\ remote.body \subseteq remote'.body /\ remote.meta \subseteq remote'.meta
    BY <1>2 DEF Whole
<1>5. AllMade' /\ BaseKept'
    BY <1>1, <1>2, <1>4 DEF CalmInv, AllMade, BaseKept, Base
<1>6. NewsApart'
    BY <1>1, <1>2, <1>3, <1>4 DEF CalmInv, NewsApart, Shared, Base
<1>7. Undisturbed'
    BY <1>1 DEF CalmInv, Undisturbed
<1>8. NeverSynced'
    BY <1>1, <1>2, <1>4 DEF CalmInv, NeverSynced, Changed
<1>9. ConflictReal'
    <2>2. phase = "getBody" => e \notin page.meta \cup remote.body
        BY <1>3 DEF CalmInv, BaseKept, Whole
    <2>3. phase = "decide" => e \notin Whole(page)
        BY <1>3 DEF CalmInv, BaseKept, Fetched, Whole
    <2>4. ~(Whole(remote) \subseteq local) => ~(Whole(remote') \subseteq local')
        BY <1>2, <1>3, <1>4
    <2>5. remote.body \subseteq remote'.body /\ local' \subseteq local \cup {e}
        BY <1>2, <1>4
    <2> QED
        BY <1>1, <2>2, <2>3, <2>4, <2>5 DEF CalmInv, ConflictReal
<1> QED
    BY <1>5, <1>6, <1>7, <1>8, <1>9 DEF CalmInv

(* A page that never was in step and is as it was made is not looked at. *)
LEMMA CalmDetect ==
    ASSUME TypeOK, CalmInv, Detect
    PROVE  CalmInv'
<1>1. /\ phase = "detect" /\ UNCHANGED <<made, remote, local, rec, journal, run, page, text>>
      /\ phase' = IF Unchanged(rec, remote, run.bot) THEN "idle" ELSE "getPage"
    BY DEF Detect, Goto, Quiet, people, runVars
<1>2. CASE Unchanged(rec, remote, run.bot)
    BY <1>1, <1>2, CalmRest
<1>3. CASE ~Unchanged(rec, remote, run.bot)
    <2>1. phase' = "getPage" /\ run.bot
        BY <1>1, <1>3 DEF CalmInv, Undisturbed
    <2>2. rec.base = NoText => Whole(remote) # {}
        BY <1>1, <1>3, <2>1 DEF CalmInv, NeverSynced, Unchanged, OnlyBotWrote
    <2>3. AllMade' /\ BaseKept' /\ NewsApart'
        BY <1>1, <2>1 DEF CalmInv, AllMade, BaseKept, NewsApart, Base, Shared, Whole, Fetched, AfterRead,
                          WritePhases
    <2>4. Undisturbed'
        BY <1>1, <2>1 DEF CalmInv, Undisturbed, PushPhases, WritePhases
    <2>5. NeverSynced' /\ ConflictReal'
        BY <1>1, <2>1, <2>2 DEF CalmInv, NeverSynced, ConflictReal, Fetched, Whole, Changed
    <2> QED
        BY <2>3, <2>4, <2>5 DEF CalmInv
<1> QED
    BY <1>2, <1>3

(* What a pull fetches is on the page, and holds the text of the last sync. *)
LEMMA CalmFetch ==
    ASSUME TypeOK, CalmInv, PullGetPage \/ PullGetBody
    PROVE  CalmInv'
<1>1. UNCHANGED <<made, remote, local, rec, journal, run, text>>
    BY DEF PullGetPage, PullGetBody, Quiet, people
<1>2. \/ phase = "getPage" /\ phase' = "getBody" /\ page' = remote
      \/ /\ phase = "getBody" /\ phase' = "decide"
         /\ page'.body = remote.body /\ page'.meta = page.meta
    BY DEF PullGetPage, PullGetBody, TypeOK, Page
<1>3. AllMade' /\ NewsApart'
    BY <1>1, <1>2 DEF CalmInv, AllMade, NewsApart, Base, Shared, Whole
<1>4. BaseKept'
    <2>1. Base \subseteq Body \cup Meta /\ Base \subseteq remote.body \cup remote.meta
          /\ remote.body \subseteq Body /\ remote.meta \subseteq Meta /\ Body \cap Meta = {}
        BY <1>2, TextFacts DEF Base, CalmInv, BaseKept, Whole, Meta
    <2>2. Base' = Base
        BY <1>1 DEF Base
    <2>3. CASE phase = "getPage"
        BY <1>1, <1>2, <2>1, <2>2, <2>3 DEF CalmInv, BaseKept, Fetched, AfterRead, WritePhases
    <2>4. CASE phase = "getBody"
        <3>1. Base \subseteq Whole(page')
            BY <1>2, <2>1, <2>4 DEF CalmInv, BaseKept, Whole
        <3> QED
            BY <1>1, <1>2, <2>2, <2>4, <3>1 DEF CalmInv, BaseKept, Fetched, AfterRead, WritePhases
    <2> QED
        BY <1>2, <2>3, <2>4
<1>5. Undisturbed'
    BY <1>1, <1>2 DEF CalmInv, Undisturbed, PushPhases, WritePhases
<1>6. NeverSynced'
    BY <1>1, <1>2 DEF CalmInv, NeverSynced, Fetched, Whole, Changed
<1>7. ConflictReal'
    BY <1>1, <1>2 DEF CalmInv, ConflictReal, Whole
<1> QED
    BY <1>3, <1>4, <1>5, <1>6, <1>7 DEF CalmInv

(* The page becomes the text of the last sync. *)
LEMMA CalmRecords ==
    ASSUME TypeOK, CalmInv, phase \in Fetched, phase' = "idle",
           UNCHANGED <<made, remote, local, journal, text>>,
           rec'.base = Whole(page), rec'.status = "synced", Whole(page) \subseteq local,
           Whole(remote) \cap local \subseteq Base \cup Whole(page)
    PROVE  CalmInv'
<1>1. Whole(page) # NoText /\ Whole(page) \subseteq Whole(remote) /\ Base \subseteq Whole(page)
      /\ Whole(page) \subseteq Edits /\ Whole(page) \cap Meta \subseteq remote.meta
    BY TextFacts DEF CalmInv, BaseKept, Whole, Meta
<1>2. Base' = Whole(page)
    BY <1>1 DEF Base
<1>3. AllMade' /\ NewsApart'
    BY <1>1, <1>2 DEF CalmInv, AllMade, NewsApart, Shared, Whole
<1>4. BaseKept'
    BY <1>1, <1>2 DEF BaseKept, Fetched, AfterRead, WritePhases, Whole
<1>5. Undisturbed' /\ NeverSynced' /\ ConflictReal'
    BY <1>1 DEF CalmInv, Undisturbed, NeverSynced, ConflictReal, PushPhases, WritePhases, Fetched
<1> QED
    BY <1>3, <1>4, <1>5 DEF CalmInv

LEMMA CalmDecideSame ==
    ASSUME TypeOK, CalmInv, DecideSame
    PROVE  CalmInv'
<1>1. /\ phase = "decide" /\ phase' = "idle" /\ local = Whole(page)
      /\ UNCHANGED <<made, remote, local, journal, text>>
    BY DEF DecideSame, Same, Goto, people, runVars
<1>2. rec'.base = local /\ rec'.status = "synced"
    BY DEF DecideSame, RecordText, Observe, TypeOK, Record
<1>3. Whole(remote) \cap local \subseteq Base \cup Whole(page)
    BY <1>1
<1> QED
    BY <1>1, <1>2, <1>3, CalmRecords DEF Fetched

LEMMA CalmPullStore ==
    ASSUME TypeOK, CalmInv, PullStore \/ PullStoreMerged
    PROVE  CalmInv'
<1>1. /\ phase \in {"stored", "storedMerged"} /\ phase' = "idle"
      /\ UNCHANGED <<made, remote, local, journal, text>>
    BY DEF PullStore, PullStoreMerged, Goto, people, runVars
<1>2. rec'.base = Whole(page) /\ rec'.status = "synced"
    BY DEF PullStore, PullStoreMerged, RecordText, Observe, TypeOK, Record
<1>3. Whole(page) \subseteq local /\ Whole(remote) \cap local \subseteq Base \cup Whole(page)
    BY <1>1 DEF CalmInv, BaseKept, NewsApart, Shared
<1> QED
    BY <1>1, <1>2, <1>3, CalmRecords DEF Fetched

(* A note that never was in step with its page is none that a pull could leave alone. *)
LEMMA CalmDecideSkip ==
    ASSUME TypeOK, CalmInv, DecideSkip
    PROVE  CalmInv'
<1>1. /\ phase = "decide" /\ phase' = "idle" /\ ~RemoteMoved(page)
      /\ UNCHANGED <<made, remote, local, journal, text>>
    BY DEF DecideSkip, NothingToTake, Goto, people, runVars
<1>2. rec'.base = rec.base /\ rec'.status = rec.status
    BY DEF DecideSkip, Observe, TypeOK, Record
<1>3. rec.base # NoText
    BY <1>1, TextFacts
       DEF RemoteMoved, UnchangedSinceSync, OutsideBodyUnchanged, InterruptedOwnWrite, CalmInv,
           Undisturbed, WritePhases
<1>4. AllMade' /\ BaseKept' /\ NewsApart'
    BY <1>1, <1>2 DEF CalmInv, AllMade, BaseKept, NewsApart, Base, Shared, Whole, Fetched, AfterRead,
                      WritePhases
<1>5. Undisturbed' /\ NeverSynced'
    BY <1>1, <1>2, <1>3 DEF CalmInv, Undisturbed, NeverSynced, PushPhases, WritePhases
<1>6. ConflictReal'
    BY <1>1, <1>2 DEF CalmInv, ConflictReal, Whole
<1> QED
    BY <1>4, <1>5, <1>6 DEF CalmInv

(* A page that moved and that the file is not ahead of holds something new. *)
LEMMA MovedIsNew ==
    ASSUME TypeOK, CalmInv, phase = "decide", RemoteMoved(page)
    PROVE  ~(Whole(page) \subseteq local) /\ ~(Whole(remote) \subseteq local)
<1>1. Whole(page) # rec.base /\ Whole(page) \subseteq Whole(remote) /\ Base \subseteq Whole(page)
    BY DEF RemoteMoved, CalmInv, BaseKept, Fetched, Whole
<1>2. Whole(remote) \cap local \subseteq Base
    BY DEF CalmInv, NewsApart, Shared
<1>3. rec.base = NoText => Base = {} /\ Whole(page) # {}
    BY DEF Base, CalmInv, NeverSynced, Fetched
<1>4. rec.base # NoText => Base = rec.base
    BY TextFacts DEF Base
<1> QED
    BY <1>1, <1>2, <1>3, <1>4

LEMMA CalmDecideConflict ==
    ASSUME TypeOK, CalmInv, DecideConflict
    PROVE  CalmInv'
<1>1. /\ phase = "decide" /\ phase' = "idle"
      /\ UNCHANGED <<made, remote, local, journal, text>>
    BY DEF DecideConflict, Goto, people, runVars
<1>2. /\ rec'.base = rec.base /\ rec'.print = rec.print /\ rec'.edited = rec.edited
      /\ rec'.by = rec.by
    BY DEF DecideConflict, TypeOK, Record
<1>3. ~(Whole(remote) \subseteq local)
    BY <1>1, MovedIsNew DEF DecideConflict, BothChanged
<1>4. AllMade' /\ BaseKept' /\ NewsApart'
    BY <1>1, <1>2 DEF CalmInv, AllMade, BaseKept, NewsApart, Base, Shared, Whole, Fetched, AfterRead,
                      WritePhases
<1>5. Undisturbed' /\ NeverSynced'
    BY <1>1, <1>2 DEF CalmInv, Undisturbed, NeverSynced, PushPhases, WritePhases, Changed, Whole,
                      Fetched
<1>6. ConflictReal'
    BY <1>1, <1>3 DEF ConflictReal, Whole
<1> QED
    BY <1>4, <1>5, <1>6 DEF CalmInv

LEMMA CalmDecideWrite ==
    ASSUME TypeOK, CalmInv, DecideWrite \/ DecideMerge
    PROVE  CalmInv'
<1>1. /\ phase = "decide" /\ phase' \in {"write", "writeMerged"} /\ text' = local
      /\ UNCHANGED <<made, remote, local, rec, journal, run, page>>
    BY DEF DecideWrite, DecideMerge, Decide, Quiet, people
<1>2. Whole(remote) \cap local \subseteq Base
    BY <1>1 DEF CalmInv, NewsApart, Shared
<1>3. AllMade' /\ BaseKept' /\ NewsApart'
    BY <1>1, <1>2 DEF CalmInv, AllMade, BaseKept, NewsApart, Base, Shared, Whole, Fetched, AfterRead,
                      WritePhases
<1>4. Undisturbed' /\ NeverSynced'
    BY <1>1 DEF CalmInv, Undisturbed, NeverSynced, PushPhases, WritePhases, Changed, Whole, Fetched
<1>5. ConflictReal'
    BY <1>1 DEF CalmInv, ConflictReal, Whole
<1> QED
    BY <1>3, <1>4, <1>5 DEF CalmInv

LEMMA CalmPullWrite ==
    ASSUME TypeOK, CalmInv, PullWrite \/ PullWriteMerged
    PROVE  CalmInv'
<1>1. /\ \/ phase = "write" /\ phase' = "stored" /\ local' = Whole(page)
         \/ phase = "writeMerged" /\ phase' = "storedMerged" /\ local' = text \cup Whole(page)
      /\ UNCHANGED <<made, remote, rec, journal, run, page, text>>
    BY DEF PullWrite, PullWriteMerged, WriteFile, Goto, people, runVars
<1>2. Whole(page) \subseteq Whole(remote) /\ Base \subseteq Whole(page) /\ Whole(page) \subseteq Edits
    BY <1>1, TextFacts DEF CalmInv, BaseKept, Fetched, Whole, Meta
<1>3. AllMade' /\ BaseKept'
    BY <1>1, <1>2 DEF CalmInv, AllMade, BaseKept, Base, Whole, Fetched, AfterRead, WritePhases
<1>4. NewsApart'
    <2>1. Base' = Base /\ Whole(page') = Whole(page) /\ Whole(remote') = Whole(remote)
        BY <1>1 DEF Base
    <2>2. Whole(remote) \cap local' \subseteq Base \cup Whole(page)
        BY <1>1 DEF CalmInv, NewsApart
    <2>3. Base \cup Whole(page) \subseteq Shared'
        BY <1>1, <1>2, <2>1 DEF Shared
    <2> QED
        BY <1>1, <2>1, <2>2, <2>3 DEF NewsApart
<1>5. Undisturbed' /\ NeverSynced'
    BY <1>1 DEF CalmInv, Undisturbed, NeverSynced, PushPhases, WritePhases, Changed, Whole, Fetched
<1>6. ConflictReal'
    BY <1>1 DEF ConflictReal
<1> QED
    BY <1>3, <1>4, <1>5, <1>6 DEF CalmInv

(* A push reads, looks at the page, and goes on or gives up: nothing has changed yet. *)
LEMMA CalmPushLooks ==
    ASSUME TypeOK, CalmInv, PushRead \/ PushLive \/ PushDrift
    PROVE  CalmInv'
<1>1. phase \in {"read", "live", "drift"} /\ UNCHANGED <<made, remote, local, rec>>
    BY DEF PushRead, PushLive, PushDrift, Send, Quiet, people
<1>2. run.kind = "push" /\ run.bot /\ rec.status # "conflict"
    BY <1>1 DEF CalmInv, Undisturbed, PushPhases
<1>3. ASSUME ItemFails, Quiet PROVE CalmInv'
    <2>1. phase' \in {"idle", "read"} /\ run'.kind = run.kind /\ run'.bot = run.bot
          /\ UNCHANGED <<text, journal>>
        BY <1>2, <1>3 DEF ItemFails, Goto, Quiet, runVars, TypeOK, Run
    <2> QED
        BY <1>1, <1>2, <2>1, CalmRest
<1>4. ASSUME phase' \in {"live", "drift", "send"}, phase = "read" => text' = local,
             phase # "read" => text' = text, UNCHANGED run,
             journal' = journal \/ phase' = "send"
      PROVE  CalmInv'
    <2>1. Base \subseteq text' /\ text' \subseteq local
        BY <1>1, <1>4 DEF CalmInv, BaseKept, AfterRead
    <2>2. AllMade' /\ BaseKept'
        BY <1>1, <1>4, <2>1 DEF CalmInv, AllMade, BaseKept, Base, Whole, Fetched, AfterRead, WritePhases
    <2>3. NewsApart'
        BY <1>1, <1>4 DEF CalmInv, NewsApart, Shared, Base, Whole
    <2>4. Undisturbed'
        BY <1>1, <1>2, <1>4 DEF CalmInv, Undisturbed, PushPhases, WritePhases
    <2>5. NeverSynced' /\ ConflictReal'
        BY <1>1, <1>2, <1>4 DEF CalmInv, NeverSynced, ConflictReal, Fetched, Whole, Changed
    <2> QED
        BY <2>2, <2>3, <2>4, <2>5 DEF CalmInv
<1>5. CASE PushRead
    BY <1>4, <1>5 DEF PushRead, Quiet
<1>6. CASE PushLive
    BY <1>1, <1>3, <1>4, <1>6 DEF PushLive, Send, Quiet
<1>7. CASE PushDrift
    BY <1>1, <1>3, <1>4, <1>7 DEF PushDrift, Send
<1> QED
    BY <1>5, <1>6, <1>7

(* Body and title go out; the text of the push is what both sides share. *)
LEMMA CalmPushBody ==
    ASSUME ~Failures, TypeOK, CalmInv, PushBody
    PROVE  CalmInv'
<1>1. /\ phase = "send" /\ phase' \in {"fill", "reread", "title"}
      /\ UNCHANGED <<made, local, rec, journal, run, text>>
    BY DEF PushBody, Answered, people
<1>2. /\ remote'.body \subseteq text \cap Body /\ remote'.meta = remote.meta
      /\ phase' # "fill" => remote'.body = text \cap Body
    BY DEF PushBody, Answered, SentBody, TypeOK, Page
<1>3. Base \subseteq text /\ text \subseteq local /\ local \subseteq Edits
    BY <1>1, TextFacts DEF CalmInv, BaseKept, AfterRead, WritePhases
<1>4. /\ Whole(remote') \subseteq text \cup remote.meta
      /\ phase' # "fill" => Base \subseteq Whole(remote')
    BY <1>1, <1>2, <1>3, TextFacts DEF CalmInv, BaseKept, Whole, Meta
<1>5. AllMade' /\ BaseKept'
    BY <1>1, <1>2, <1>3, <1>4 DEF CalmInv, AllMade, BaseKept, Base, Whole, Fetched, AfterRead,
                                  WritePhases
<1>6. NewsApart'
    BY <1>1, <1>3, <1>4 DEF CalmInv, NewsApart, Shared, Base, Whole
<1>7. Undisturbed' /\ NeverSynced' /\ ConflictReal'
    BY <1>1 DEF CalmInv, Undisturbed, NeverSynced, ConflictReal, PushPhases, WritePhases, Fetched, Whole
<1> QED
    BY <1>5, <1>6, <1>7 DEF CalmInv

(* The rest of the body goes out, and the page is read back. *)
LEMMA CalmPushFill ==
    ASSUME TypeOK, CalmInv, PushFill \/ PushReread
    PROVE  CalmInv'
<1>1. /\ \/ phase = "fill" /\ phase' = "reread" /\ remote'.body = remote.body \cup (text \cap Body)
         \/ phase = "reread" /\ phase' = "title" /\ remote'.body = remote.body
      /\ remote'.meta = remote.meta
      /\ UNCHANGED <<made, local, rec, journal, run, text>>
    BY DEF PushFill, PushReread, Answered, Filled, SentBody, Goto, people, runVars, TypeOK, Page
<1>2. /\ Base \subseteq text /\ text \subseteq local /\ local \subseteq Edits
      /\ text \cap Body \subseteq remote'.body /\ Base \cap Meta \subseteq remote.meta
    BY <1>1, TextFacts DEF CalmInv, BaseKept, AfterRead, WritePhases
<1>3. Whole(remote') \subseteq Whole(remote) \cup text /\ Base \subseteq Whole(remote')
    BY <1>1, <1>2 DEF Whole, Meta
<1>4. AllMade' /\ BaseKept'
    BY <1>1, <1>2, <1>3 DEF CalmInv, AllMade, BaseKept, Base, Fetched, AfterRead, WritePhases
<1>5. NewsApart'
    <2>1. Whole(remote) \cap local \subseteq Shared
        BY DEF CalmInv, NewsApart
    <2>2. Shared \cup text \subseteq Shared'
        BY <1>1, <1>2 DEF Shared, Base
    <2> QED
        BY <1>1, <1>3, <2>1, <2>2 DEF NewsApart, Whole
<1>6. Undisturbed' /\ NeverSynced' /\ ConflictReal'
    BY <1>1 DEF CalmInv, Undisturbed, NeverSynced, ConflictReal, PushPhases, WritePhases, Fetched
<1> QED
    BY <1>4, <1>5, <1>6 DEF CalmInv

LEMMA CalmPushTitle ==
    ASSUME ~Failures, TypeOK, CalmInv, PushTitle
    PROVE  CalmInv'
<1>1. /\ phase = "title" /\ phase' = "store"
      /\ UNCHANGED <<made, local, rec, journal, run, text>>
    BY DEF PushTitle, Answered, people
<1>2. /\ remote'.body = remote.body
      /\ \/ remote'.meta = text \cap Meta
         \/ remote'.meta = remote.meta /\ ~SendsTitle
    BY DEF PushTitle, TypeOK, Page
<1>3. Base \subseteq text /\ text \subseteq local /\ local \subseteq Edits
      /\ text \cap Body \subseteq remote.body
    BY <1>1, TextFacts DEF CalmInv, BaseKept, AfterRead, WritePhases
<1>4. text \cap Meta \subseteq remote'.meta
    <2>1. CASE remote'.meta = remote.meta /\ ~SendsTitle
        <3>1. text \cap Meta \subseteq Base
            BY <2>1, TextFacts DEF SendsTitle, Base
        <3>2. Base \cap Meta \subseteq remote.meta
            BY DEF CalmInv, BaseKept
        <3> QED
            BY <2>1, <3>1, <3>2
    <2>2. CASE remote'.meta = text \cap Meta
        BY <2>2
    <2> QED
        BY <1>2, <2>1, <2>2
<1>5. text \subseteq Whole(remote') /\ Whole(remote') \subseteq Whole(remote) \cup text
    BY <1>2, <1>3, <1>4 DEF Whole, Meta
<1>6. AllMade' /\ BaseKept'
    BY <1>1, <1>2, <1>3, <1>5 DEF CalmInv, AllMade, BaseKept, Base, Fetched, AfterRead, WritePhases
<1>7. NewsApart'
    BY <1>1, <1>3, <1>5 DEF CalmInv, NewsApart, Shared, Base
<1>8. Undisturbed' /\ NeverSynced' /\ ConflictReal'
    BY <1>1 DEF CalmInv, Undisturbed, NeverSynced, ConflictReal, PushPhases, WritePhases, Fetched, Whole
<1> QED
    BY <1>6, <1>7, <1>8 DEF CalmInv

LEMMA CalmPushStore ==
    ASSUME TypeOK, CalmInv, PushStore
    PROVE  CalmInv'
<1>1. /\ phase = "store" /\ phase' = "idle" /\ journal' = NoText
      /\ UNCHANGED <<made, remote, local, text>>
    BY DEF PushStore, Goto, people, runVars
<1>2. rec'.base = text /\ rec'.status = "synced"
    BY DEF PushStore, Observe, TypeOK, Record
<1>3. Base' = text /\ text # NoText
    BY <1>2, TextFacts DEF Base
<1>4. /\ Base \subseteq text /\ text \subseteq local /\ text \subseteq Whole(remote)
      /\ text \cap Meta \subseteq remote.meta
    BY <1>1, TextFacts DEF CalmInv, BaseKept, AfterRead, WritePhases, Whole
<1>5. AllMade' /\ BaseKept'
    BY <1>1, <1>3, <1>4 DEF CalmInv, AllMade, BaseKept, Whole, Fetched, AfterRead, WritePhases
<1>6. NewsApart'
    BY <1>1, <1>3, <1>4 DEF CalmInv, NewsApart, Shared, Whole
<1>7. Undisturbed' /\ NeverSynced' /\ ConflictReal'
    BY <1>1, <1>2, <1>3 DEF Undisturbed, NeverSynced, ConflictReal, PushPhases, WritePhases
<1> QED
    BY <1>5, <1>6, <1>7 DEF CalmInv

(* Every step keeps the invariant, where nothing fails. *)
LEMMA CalmPreserved == ~Failures => (TypeOK /\ CalmInv /\ [Next]_vars => CalmInv')
<1> SUFFICES ASSUME ~Failures, TypeOK, CalmInv, [Next]_vars PROVE CalmInv'
    OBVIOUS
<1>1. ASSUME UNCHANGED <<rec, made, remote, local, journal, phase, run, page, text>> PROVE CalmInv'
    BY <1>1 DEF CalmInv, AllMade, BaseKept, NewsApart, Undisturbed, NeverSynced, ConflictReal, Base,
                Shared, Whole, Changed
<1>2. CASE Tick \/ UNCHANGED vars
    BY <1>1, <1>2 DEF Tick, vars, runVars
<1>3. CASE BeginPull
    <2>1. PICK bot \in {TRUE} : run' = [kind |-> "pull", seen |-> minute + Skew, bot |-> bot, retried |-> FALSE]
        BY <1>3 DEF BeginPull, Begin
    <2>2. /\ phase = "idle" /\ phase' = "detect"
          /\ UNCHANGED <<rec, made, remote, local, journal, text>>
        BY <1>3 DEF BeginPull, Begin, people
    <2>3. run'.bot
        BY <2>1
    <2> QED
        BY <2>2, <2>3, CalmRest
<1>5. CASE BeginPush
    <2>1. PICK bot \in {TRUE} : run' = [kind |-> "push", seen |-> minute + Skew, bot |-> bot, retried |-> FALSE]
        BY <1>5 DEF BeginPush, Begin
    <2>2. /\ phase = "idle" /\ phase' = "read" /\ rec.status # "conflict"
          /\ UNCHANGED <<rec, made, remote, local, journal, text>>
        BY <1>5 DEF BeginPush, Begin, people
    <2>3. run'.bot /\ run'.kind = "push"
        BY <2>1
    <2> QED
        BY <2>2, <2>3, CalmRest
<1>4. CASE DecideKeepLocal
    <2>1. phase = "decide" /\ phase' = "idle" /\ UNCHANGED <<rec, made, remote, local, journal, text>>
        BY <1>4 DEF DecideKeepLocal, Goto, Quiet, people, runVars
    <2> QED
        BY <2>1, CalmRest
<1>6. ~FillFails /\ ~SalvagePage /\ ~SalvageBody
    BY DEF FillFails, SalvagePage, SalvageBody, CalmInv, Undisturbed
<1> QED
    BY <1>2, <1>3, <1>4, <1>5, CalmEdit, CalmDetect, CalmFetch, CalmDecideSame, CalmDecideSkip,
       CalmDecideConflict, CalmDecideWrite, CalmPullWrite, CalmPullStore, CalmPushLooks,
       CalmPushBody, CalmPushFill, CalmPushTitle, CalmPushStore, <1>6
       DEF Next, Pull, Push, RequestFails, Crash

LEMMA CalmInitially == Init => CalmInv
<1> SUFFICES ASSUME Init PROVE CalmInv
    OBVIOUS
<1>1. PICK how \in Linked :
        /\ remote = [body |-> {}, meta |-> {}, time |-> 1, by |-> how[1]]
        /\ rec = [base |-> how[2], edited |-> 1, by |-> how[1], seen |-> 1 + Skew,
                  print |-> how[3], status |-> how[4]]
        /\ fresh = (how[2] # NoText)
    BY DEF Init
<1>2. /\ how[2] # NoText => how[2] = {}
      /\ how[2] = NoText => how[1] = Bot /\ how[3] = NoPrint
      /\ how[4] # "conflict"
    BY NoteAssumption DEF Linked
<1>3. /\ Base = {} /\ Whole(remote) = {} /\ local = {} /\ text = {} /\ phase = "idle"
      /\ journal = NoText
    BY <1>1, <1>2 DEF Init, Base, Whole
<1>4. NeverSynced
    BY <1>1, <1>2, <1>3 DEF NeverSynced, Changed, Fetched
<1> QED
    BY <1>1, <1>2, <1>3, <1>4
       DEF CalmInv, AllMade, BaseKept, NewsApart, Shared, Undisturbed, ConflictReal, Fetched,
           AfterRead, WritePhases, PushPhases

(* Where no request fails and no run dies, a note is only put before the user as a conflict  *)
(* when the page holds something the file does not: what this tool pushed itself never is    *)
(* (PagePuller.pullUpdate, remoteMoved).                                                     *)
THEOREM ConflictsAreReal == ~Failures => (Spec => NoFalseConflict)
<1> SUFFICES ASSUME ~Failures PROVE Spec => NoFalseConflict
    OBVIOUS
<1>1. TypeOK /\ CalmInv /\ [Next]_vars => CalmInv'
    BY CalmPreserved
<1>2. TypeOK /\ CalmInv /\ [Next]_vars
        => [rec'.status = "conflict" => ~(Whole(page) \subseteq local)]_rec
    <2> SUFFICES ASSUME TypeOK, CalmInv, [Next]_vars, rec' # rec, rec'.status = "conflict"
                 PROVE  ~(Whole(page) \subseteq local)
        OBVIOUS
    <2>1. CASE DecideConflict
        BY <2>1, MovedIsNew DEF DecideConflict, BothChanged
    <2>2. CASE DecideSkip
        <3>1. rec.status = "conflict" /\ phase = "decide"
            BY <2>2 DEF DecideSkip, Observe, TypeOK, Record
        <3> QED
            BY <3>1 DEF CalmInv, ConflictReal
    <2>3. CASE DecideSame \/ PullStore \/ PullStoreMerged \/ PushStore
        <3>1. rec'.status = "synced"
            BY <2>3 DEF DecideSame, PullStore, PullStoreMerged, PushStore, RecordText, Observe, TypeOK,
                        Record
        <3> QED
            BY <3>1
    <2>4. ASSUME NEW e \in Edits, HumanEdit(e) \/ LocalEdit(e) PROVE FALSE
        BY <2>4 DEF HumanEdit, LocalEdit
    <2>5. CASE Tick \/ BeginPull \/ BeginPush \/ Detect \/ PullGetPage \/ PullGetBody \/ UNCHANGED vars
        BY <2>5 DEF Tick, BeginPull, BeginPush, Begin, Detect, PullGetPage, PullGetBody, Quiet, vars
    <2>6. CASE DecideKeepLocal \/ DecideWrite \/ DecideMerge \/ PullWrite \/ PullWriteMerged
        BY <2>6 DEF DecideKeepLocal, DecideWrite, DecideMerge, Decide, PullWrite, PullWriteMerged,
                    WriteFile, Quiet
    <2>7. CASE PushRead \/ PushLive \/ PushDrift \/ PushBody \/ PushFill \/ PushReread \/ PushTitle
        BY <2>7 DEF PushRead, PushLive, PushDrift, Send, PushBody, PushFill, PushReread, PushTitle, Quiet
    <2>8. ~FillFails /\ ~SalvagePage /\ ~SalvageBody
        BY DEF FillFails, SalvagePage, SalvageBody, CalmInv, Undisturbed
    <2> QED
        BY <2>1, <2>2, <2>3, <2>4, <2>5, <2>6, <2>7, <2>8 DEF Next, Pull, Push, RequestFails, Crash
<1> QED
    BY <1>1, <1>2, CalmInitially, TypeCorrect, PTL DEF Spec, NoFalseConflict
================================================================================
