------------------------- MODULE InterruptedCreateProofs -------------------------
(***************************************************************************)
(* However many notes are pushed side by side, whatever answers are lost   *)
(* and wherever a run dies: pushes make no more pages than there are notes,*)
(* and a note that counts as synced has a page of its own that holds it.   *)
(***************************************************************************)
EXTENDS InterruptedCreate, FiniteSetTheorems, WellFoundedInduction, TLAPS

PageType == [by : Notes \cup {Human}, text : Notes \cup {Human}, whole : BOOLEAN, live : BOOLEAN]

Recorded(n) == row[n].page # 0

(* A note that will look for its page before it makes one. *)
Searching(n) == ~Recorded(n) /\ op[n] /\ at[n] # "create"

(* The pages pushes made that nobody knows of, and the notes that will take one, *)
(* or took one that no push made.                                                *)
Orphans == {p \in Made : p \notin Tracked}
Claims == {n \in Notes : IF Recorded(n) THEN row[n].page \notin Made ELSE Searching(n)}

(* A page has one row. *)
RowsApart ==
    \A n \in Notes : Recorded(n) =>
        /\ row[n].page \notin copies
        /\ \A m \in Notes \ {n} : row[m].page # row[n].page

(* What a note has where its worker is. *)
RowOfStep(n) ==
    /\ Recorded(n) <=> row[n].state \notin {"none", "placeholder"}
    /\ row[n].state = "none" => ~op[n]
    /\ row[n].state = "synced" => pages[row[n].page].text = n
    /\ at[n] \in {"adopted", "finish", "finished"} => Recorded(n)
    /\ at[n] \in {"list", "getPage", "create", "map"} => ~Recorded(n) /\ op[n]
    /\ at[n] \in {"getPage", "map"} => cand[n] # {}
    /\ phase # "pool" => at[n] = "off"
    /\ phase = "recover" /\ n \in ops => op[n]

RowsOfSteps == \A n \in Notes : RowOfStep(n)

(* A page that a search did not see was made since, by a worker that has lost it: *)
(* it will make no other in this pass.                                            *)
MadeSince(n) ==
    /\ \A p \in Orphans \ cand[n] :
        /\ pages[p].by # n /\ Searching(pages[p].by)
        /\ at[pages[p].by] \in {"failed", "map"}
        /\ at[pages[p].by] = "map" => cand[pages[p].by] = {p}
    /\ \A p, q \in Orphans \ cand[n] : pages[p].by = pages[q].by => p = q

LateMakers == \A n \in Notes : at[n] = "getPage" => MadeSince(n)

(* There is a note for every page that nobody knows of. *)
EnoughClaims == Cardinality(Orphans) <= Cardinality(Claims)

CreateInv == TypeOK /\ RowsApart /\ RowsOfSteps /\ LateMakers /\ EnoughClaims
--------------------------------------------------------------------------------
(* Pages and lists. *)

(* The first page of a list is one of the list. *)
LEMMA MinIn ==
    ASSUME NEW S \in SUBSET Nat, S # {}
    PROVE  Min(S) \in S
<1> DEFINE R == {ss \in Nat \X Nat : ss[1] < ss[2]}
<1>1. IsWellFoundedOn(R, Nat)
  BY NatLessThanWellFounded DEF OpToRel
<1>2. PICK x \in S : \A y \in S : ~(<<y, x>> \in R)
  <2> HIDE DEF R
  <2> QED BY <1>1, WFMin
<1>3. ASSUME NEW y \in S PROVE x <= y
  <2>1. ~(<<y, x>> \in R)
    BY <1>2
  <2>2. <<y, x>> \in R <=> y < x
    BY y \in Nat, x \in Nat
  <2>3. ~(y < x)
    BY <2>1, <2>2
  <2> HIDE DEF R
  <2>4. x \in Nat /\ y \in Nat
    OBVIOUS
  <2> QED BY ONLY <2>3, <2>4, SMT
<1> QED BY <1>3 DEF Min

(* The pages of the parent, and what they are. *)
LEMMA PageFacts ==
    ASSUME TypeOK
    PROVE  /\ pages \in Seq(PageType) /\ Len(pages) \in Nat /\ DOMAIN pages = 1..Len(pages)
           /\ DOMAIN pages \subseteq Nat /\ IsFiniteSet(DOMAIN pages) /\ 0 \notin DOMAIN pages
           /\ \A p \in DOMAIN pages : pages[p] \in PageType
           /\ Live \subseteq DOMAIN pages /\ Made \subseteq Live /\ Orphans \subseteq Made
           /\ IsFiniteSet(Orphans) /\ IsFiniteSet(Claims) /\ IsFiniteSet(Notes)
           /\ Cardinality(Orphans) \in Nat /\ Cardinality(Claims) \in Nat
<1>1. pages \in Seq(PageType)
  BY DEF TypeOK, PageType
<1>2. Len(pages) \in Nat /\ DOMAIN pages = 1..Len(pages) /\ \A p \in DOMAIN pages : pages[p] \in PageType
  BY <1>1
<1>3. DOMAIN pages \subseteq Nat /\ IsFiniteSet(DOMAIN pages) /\ 0 \notin DOMAIN pages
  BY <1>2, FS_Interval
<1>4. Live \subseteq DOMAIN pages /\ Made \subseteq Live /\ Orphans \subseteq Made
  BY DEF Live, Made, Orphans
<1>5. IsFiniteSet(Notes) /\ IsFiniteSet(Orphans) /\ IsFiniteSet(Claims)
  BY <1>3, <1>4, FS_Subset, CreateAssumption DEF Claims
<1> QED BY <1>1, <1>2, <1>3, <1>4, <1>5, FS_CardinalityType

(* Another page at the end of the list. *)
LEMMA AppendFacts ==
    ASSUME TypeOK, NEW q \in PageType, pages' = Append(pages, q)
    PROVE  /\ pages' \in Seq(PageType) /\ Len(pages') = Len(pages) + 1
           /\ DOMAIN pages' = DOMAIN pages \cup {Len(pages')}
           /\ Len(pages') \notin DOMAIN pages /\ Len(pages') # 0
           /\ \A p \in DOMAIN pages : pages'[p] = pages[p]
           /\ pages'[Len(pages')] = q
<1>1. pages \in Seq(PageType)
  BY PageFacts
<1> QED BY <1>1

(* A page that is changed. *)
LEMMA ChangeFacts ==
    ASSUME TypeOK, NEW p \in DOMAIN pages, NEW q \in PageType, pages' = [pages EXCEPT ![p] = q]
    PROVE  /\ pages' \in Seq(PageType) /\ DOMAIN pages' = DOMAIN pages
           /\ \A r \in DOMAIN pages : pages'[r] = IF r = p THEN q ELSE pages[r]
<1>1. pages \in Seq(PageType)
  BY PageFacts
<1> QED BY <1>1
--------------------------------------------------------------------------------
(* The types. *)

(* Each field by itself. *)
LEMMA FieldTypes ==
    ASSUME TypeOK
    PROVE  \A n \in Notes :
             /\ row[n].page \in {0} \cup DOMAIN pages
             /\ Recorded(n) => row[n].page \in DOMAIN pages
             /\ row[n].state \in {"none", "placeholder", "synced", "conflict", "mapped", "adopted"}
             /\ op[n] \in BOOLEAN /\ at[n] \in Steps /\ cand[n] \subseteq DOMAIN pages
             /\ cand[n] # {} => Min(cand[n]) \in cand[n]
<1> SUFFICES ASSUME NEW n \in Notes
    PROVE  /\ row[n].page \in {0} \cup DOMAIN pages
           /\ Recorded(n) => row[n].page \in DOMAIN pages
           /\ row[n].state \in {"none", "placeholder", "synced", "conflict", "mapped", "adopted"}
           /\ op[n] \in BOOLEAN /\ at[n] \in Steps /\ cand[n] \subseteq DOMAIN pages
           /\ cand[n] # {} => Min(cand[n]) \in cand[n]
  OBVIOUS
<1>1. row[n] \in [state : {"none", "placeholder", "synced", "conflict"} \cup Unsettled,
                  page : {0} \cup DOMAIN pages]
  BY DEF TypeOK
<1>2. op[n] \in BOOLEAN /\ at[n] \in Steps /\ cand[n] \subseteq DOMAIN pages
  BY DEF TypeOK
<1>3. cand[n] \in SUBSET Nat
  BY <1>2, PageFacts
<1>4. cand[n] # {} => Min(cand[n]) \in cand[n]
  BY <1>3, MinIn
<1> QED BY <1>1, <1>2, <1>4 DEF Recorded, Unsettled

(* Only rows and pages have types of their own; the other variables keep theirs. *)
LEMMA TypeHolds ==
    ASSUME TypeOK, pages' \in Seq(PageType), DOMAIN pages \subseteq DOMAIN pages',
           row' \in [Notes -> [state : {"none", "placeholder", "synced", "conflict"} \cup Unsettled,
                               page : {0} \cup DOMAIN pages']],
           op' \in [Notes -> BOOLEAN], copies' \subseteq DOMAIN pages',
           phase' \in {"idle", "pull", "recover", "pool"},
           pulling' \subseteq DOMAIN pages', ops' \subseteq Notes,
           at' \in [Notes -> Steps], cand' \in [Notes -> SUBSET DOMAIN pages'],
           retry' \in BOOLEAN, trouble' \in 0..MaxTrouble
    PROVE  TypeOK'
BY DEF TypeOK, PageType

(* A row that names another page, or is in another state. *)
LEMMA RowChanges ==
    ASSUME TypeOK, NEW n \in Notes,
           NEW st \in {"none", "placeholder", "synced", "conflict"} \cup Unsettled
    PROVE  /\ \A p \in {0} \cup DOMAIN pages :
                [row EXCEPT ![n] = [state |-> st, page |-> p]]
                  \in [Notes -> [state : {"none", "placeholder", "synced", "conflict"} \cup Unsettled,
                                 page : {0} \cup DOMAIN pages]]
           /\ [row EXCEPT ![n].state = st]
                \in [Notes -> [state : {"none", "placeholder", "synced", "conflict"} \cup Unsettled,
                               page : {0} \cup DOMAIN pages]]
<1>1. row[n] \in [state : {"none", "placeholder", "synced", "conflict"} \cup Unsettled,
                  page : {0} \cup DOMAIN pages]
  BY DEF TypeOK
<1>2. row \in [Notes -> [state : {"none", "placeholder", "synced", "conflict"} \cup Unsettled,
                         page : {0} \cup DOMAIN pages]]
  BY DEF TypeOK
<1>3. [row[n] EXCEPT !.state = st] \in [state : {"none", "placeholder", "synced", "conflict"} \cup Unsettled,
                                        page : {0} \cup DOMAIN pages]
  BY <1>1
<1> QED BY <1>2, <1>3

(* A page that gets the text of a note. *)
LEMMA PageChanges ==
    ASSUME TypeOK, NEW n \in Notes, NEW p \in DOMAIN pages
    PROVE  /\ [pages[p] EXCEPT !.text = n] \in PageType
           /\ [[pages[p] EXCEPT !.text = n] EXCEPT !.whole = TRUE] \in PageType
<1>1. pages[p] \in PageType
  BY PageFacts
<1> QED BY <1>1 DEF PageType

(* Every step keeps the types. *)
LEMMA TypeStep == TypeOK /\ RowsOfSteps /\ [Next]_vars => TypeOK'
<1> SUFFICES ASSUME TypeOK, RowsOfSteps, [Next]_vars PROVE TypeOK'
  OBVIOUS
<1>0. /\ pages \in Seq(PageType) /\ copies \subseteq DOMAIN pages
      /\ row \in [Notes -> [state : {"none", "placeholder", "synced", "conflict"} \cup Unsettled,
                            page : {0} \cup DOMAIN pages]]
      /\ op \in [Notes -> BOOLEAN] /\ at \in [Notes -> Steps]
      /\ cand \in [Notes -> SUBSET DOMAIN pages]
      /\ phase \in {"idle", "pull", "recover", "pool"}
      /\ pulling \subseteq DOMAIN pages /\ ops \subseteq Notes
      /\ retry \in BOOLEAN /\ trouble \in 0..MaxTrouble
  BY DEF TypeOK, PageType
<1>t. Trouble => trouble' \in 0..MaxTrouble
  BY <1>0, CreateAssumption DEF Trouble
<1>n. Natural \in Notes
  BY CreateAssumption
<1>1. CASE HumanCreate
  <2>1. PICK words \in {Human, Natural} :
           pages' = Append(pages, [by |-> Human, text |-> words, whole |-> TRUE, live |-> TRUE])
    BY <1>1 DEF HumanCreate
  <2>2. [by |-> Human, text |-> words, whole |-> TRUE, live |-> TRUE] \in PageType
    BY <1>n DEF PageType
  <2>3. pages' \in Seq(PageType) /\ DOMAIN pages \subseteq DOMAIN pages'
    BY <2>1, <2>2, AppendFacts
  <2> QED BY <1>0, <1>1, <1>t, <2>3, TypeHolds DEF HumanCreate
<1>2. CASE HumanTrash
  <2>1. PICK p \in Live \ Tracked : pages' = [pages EXCEPT ![p].live = FALSE]
    BY <1>2 DEF HumanTrash
  <2>2. p \in DOMAIN pages
    BY DEF Live
  <2>3. pages' \in Seq(PageType) /\ DOMAIN pages' = DOMAIN pages
    <3>1. pages' = [pages EXCEPT ![p] = [pages[p] EXCEPT !.live = FALSE]]
      BY <2>1
    <3>2. [pages[p] EXCEPT !.live = FALSE] \in PageType
      BY <2>2, PageFacts DEF PageType
    <3> QED BY <2>2, <3>1, <3>2, ChangeFacts
  <2> QED BY <1>0, <1>2, <1>t, <2>3, TypeHolds DEF HumanTrash
<1>3. CASE StartPull
  <2>1. \A n \in Notes : row[n].state \in Unsettled => row[n].page \in DOMAIN pages
    BY FieldTypes DEF RowsOfSteps, RowOfStep, Unsettled
  <2>2. pulling' \subseteq DOMAIN pages
    BY <1>3, <2>1, PageFacts DEF StartPull, Untracked
  <2> QED BY <1>0, <1>3, <2>2, TypeHolds DEF StartPull
<1>4. CASE Recovers
  BY <1>0, <1>4, TypeHolds DEF Recovers
<1>5. CASE PullDone
  BY <1>0, <1>4, <1>5, TypeHolds DEF PullDone
<1>6. CASE Crash
  BY <1>0, <1>6, <1>t, TypeHolds DEF Crash, Steps
<1>7. ASSUME NEW p \in pulling, PullRelink(p) PROVE TypeOK'
  BY <1>0, <1>n, <1>7, RowChanges, TypeHolds DEF PullRelink, PullsNext
<1>8. ASSUME NEW p \in pulling, PullCopy(p) PROVE TypeOK'
  BY <1>0, <1>8, TypeHolds DEF PullCopy, PullsNext
<1>9. ASSUME NEW p \in pulling, PullUnsettled(p) PROVE TypeOK'
  <2>1. PICK n \in Notes : row' = [row EXCEPT ![n].state =
                      IF pages[p].text = n /\ pages[p].whole THEN "synced" ELSE "conflict"]
    BY <1>9 DEF PullUnsettled
  <2>2. row' \in [Notes -> [state : {"none", "placeholder", "synced", "conflict"} \cup Unsettled,
                            page : {0} \cup DOMAIN pages]]
    BY <2>1, RowChanges
  <2> QED BY <1>0, <1>9, <2>2, TypeHolds DEF PullUnsettled, PullsNext
<1>10. ASSUME NEW p \in pulling, PullUnchanged(p) PROVE TypeOK'
  BY <1>0, <1>10, TypeHolds DEF PullUnchanged, PullsNext
<1>11. ASSUME NEW n \in ops, RecoverMapped(n) PROVE TypeOK'
  BY <1>0, <1>11, TypeHolds DEF RecoverMapped, RecoversNext
<1>12. ASSUME NEW n \in ops, RecoverAdopt(n) PROVE TypeOK'
  <2>1. Untracked(Live) \in SUBSET Nat /\ Untracked(Live) \subseteq DOMAIN pages
    BY PageFacts DEF Untracked
  <2>2. Min(Untracked(Live)) \in DOMAIN pages
    BY <1>12, <2>1, MinIn DEF RecoverAdopt
  <2>3. row' \in [Notes -> [state : {"none", "placeholder", "synced", "conflict"} \cup Unsettled,
                            page : {0} \cup DOMAIN pages]]
    BY <1>0, <1>12, <2>2, RowChanges DEF RecoverAdopt, Unsettled
  <2> QED BY <1>0, <1>12, <2>3, TypeHolds DEF RecoverAdopt, RecoversNext
<1>13. ASSUME NEW n \in ops, RecoverNothing(n) PROVE TypeOK'
  <2>1. row' \in [Notes -> [state : {"none", "placeholder", "synced", "conflict"} \cup Unsettled,
                            page : {0} \cup DOMAIN pages]]
    BY <1>0, <1>13, RowChanges DEF RecoverNothing, NoRow
  <2> QED BY <1>0, <1>13, <2>1, TypeHolds DEF RecoverNothing, RecoversNext
<1>14. ASSUME NEW n \in ops, RecoverUnreadable(n) PROVE TypeOK'
  BY <1>0, <1>14, <1>t, TypeHolds DEF RecoverUnreadable, RecoversNext
<1>15. CASE StartPool
  BY <1>0, <1>15, TypeHolds DEF StartPool, PushKind, Steps
<1>16. CASE PoolDone
  BY <1>0, <1>16, TypeHolds DEF PoolDone, Steps
<1>17. ASSUME NEW n \in Notes, BeginCreate(n) PROVE TypeOK'
  <2>1. row' \in [Notes -> [state : {"none", "placeholder", "synced", "conflict"} \cup Unsettled,
                            page : {0} \cup DOMAIN pages]]
    BY <1>0, <1>17, RowChanges DEF BeginCreate
  <2>2. op' \in [Notes -> BOOLEAN] /\ at' \in [Notes -> Steps]
    BY <1>0, <1>17 DEF BeginCreate, Goes, Steps
  <2> QED BY <1>0, <1>17, <2>1, <2>2, TypeHolds DEF BeginCreate, Works
<1>18. ASSUME NEW n \in Notes, ListChildren(n) PROVE TypeOK'
  BY <1>0, <1>18, PageFacts, TypeHolds DEF ListChildren, Works, Ruled, Goes, Untracked, Steps
<1>19. ASSUME NEW n \in Notes, GetTrashed(n) PROVE TypeOK'
  BY <1>0, <1>19, PageFacts, TypeHolds DEF GetTrashed, Works, Ruled, Goes, Untracked, Steps
<1>20. ASSUME NEW n \in Notes, NEW p \in DOMAIN pages, NEW st \in Unsettled, NEW next \in Steps,
              NamePage(n, p, st, next)
       PROVE  /\ row' \in [Notes -> [state : {"none", "placeholder", "synced", "conflict"} \cup Unsettled,
                                    page : {0} \cup DOMAIN pages]]
              /\ at' \in [Notes -> Steps]
  BY <1>0, <1>20, RowChanges DEF NamePage, Goes, Steps
<1>21. ASSUME NEW n \in Notes, Adopt(n) PROVE TypeOK'
  <2>1. Min(cand[n]) \in DOMAIN pages
    BY <1>21 DEF Adopt, Live
  <2> QED BY <1>0, <1>20, <1>21, <2>1, TypeHolds DEF Adopt, Works, Steps, Unsettled
<1>22. ASSUME NEW n \in Notes, CompleteOp(n) PROVE TypeOK'
  BY <1>0, <1>22, TypeHolds DEF CompleteOp, Works, Goes, Steps
<1>23. ASSUME NEW n \in Notes, CreatePage(n) PROVE TypeOK'
  <2>1. PICK whole \in BOOLEAN :
           pages' = Append(pages, [by |-> n, text |-> n, whole |-> whole, live |-> TRUE])
    BY <1>23 DEF CreatePage
  <2>2. [by |-> n, text |-> n, whole |-> whole, live |-> TRUE] \in PageType
    BY DEF PageType
  <2>3. /\ pages' \in Seq(PageType) /\ DOMAIN pages \subseteq DOMAIN pages'
        /\ Len(pages') \in DOMAIN pages'
    BY <2>1, <2>2, AppendFacts
  <2>4. cand' \in [Notes -> SUBSET DOMAIN pages'] /\ at' \in [Notes -> Steps]
    <3>1. PICK found \in {{}, {Len(pages')}} : cand' = [cand EXCEPT ![n] = found]
      BY <1>23 DEF CreatePage
    <3>2. \A m \in Notes : cand[m] \subseteq DOMAIN pages'
      BY <1>0, <2>3
    <3>3. cand' \in [Notes -> SUBSET DOMAIN pages']
      BY <1>0, <2>3, <3>1, <3>2
    <3> QED BY <1>0, <1>23, <3>3 DEF CreatePage, Goes, Steps
  <2>5. trouble' \in 0..MaxTrouble
    BY <1>0, <1>23, <1>t DEF CreatePage
  <2>6. row' \in [Notes -> [state : {"none", "placeholder", "synced", "conflict"} \cup Unsettled,
                            page : {0} \cup DOMAIN pages']]
    BY <1>0, <1>23, <2>3 DEF CreatePage
  <2> QED BY <1>0, <1>23, <2>3, <2>4, <2>5, <2>6, TypeHolds DEF CreatePage, Works
<1>24. ASSUME NEW n \in Notes, MapPage(n) PROVE TypeOK'
  <2>1. Min(cand[n]) \in DOMAIN pages
    BY <1>24, FieldTypes DEF MapPage, Works, RowsOfSteps, RowOfStep
  <2> QED BY <1>0, <1>20, <1>24, <2>1, TypeHolds DEF MapPage, Works, Steps, Unsettled
<1>25. ASSUME NEW n \in Notes, NEW next \in {"finished", "done"}, Recorded(n), Settles(n, next)
       PROVE  /\ pages' \in Seq(PageType) /\ DOMAIN pages' = DOMAIN pages
              /\ row' \in [Notes -> [state : {"none", "placeholder", "synced", "conflict"} \cup Unsettled,
                                    page : {0} \cup DOMAIN pages]]
              /\ at' \in [Notes -> Steps] /\ UNCHANGED <<op, cand, trouble>>
  <2> DEFINE p == row[n].page
  <2>1. p \in DOMAIN pages
    BY <1>25, FieldTypes
  <2>2. pages' = [pages EXCEPT ![p] = [[pages[p] EXCEPT !.text = n] EXCEPT !.whole = TRUE]]
    BY <1>0, <1>25, <2>1 DEF Settles
  <2>3. pages' \in Seq(PageType) /\ DOMAIN pages' = DOMAIN pages
    BY <2>1, <2>2, PageChanges, ChangeFacts
  <2>4. row' = [row EXCEPT ![n].state = "synced"] /\ at' = [at EXCEPT ![n] = next]
        /\ UNCHANGED <<op, cand, trouble>>
    BY <1>25 DEF Settles, Goes
  <2> QED BY <1>0, <2>3, <2>4, RowChanges DEF Steps
<1>26. ASSUME NEW n \in Notes, FinishPage(n) PROVE TypeOK'
  <2>1. Recorded(n)
    BY <1>26 DEF FinishPage, Works, RowsOfSteps, RowOfStep
  <2>2. Settles(n, "finished") /\ UNCHANGED <<copies, phase, pulling, ops, retry>>
    BY <1>26 DEF FinishPage, Works
  <2> QED BY <1>0, <1>25, <2>1, <2>2, TypeHolds
<1>27. ASSUME NEW n \in Notes, UpdatePage(n) PROVE TypeOK'
  <2>1. CASE Recorded(n)
    <3>1. Settles(n, "done") /\ UNCHANGED <<copies, phase, pulling, ops, retry>>
      BY <1>27, <2>1 DEF UpdatePage, Works, Recorded
    <3> QED BY <1>0, <1>25, <2>1, <3>1, TypeHolds
  <2>2. CASE ~Recorded(n)
    BY <1>0, <1>27, <2>2, TypeHolds DEF UpdatePage, Works, Goes, Steps, Recorded
  <2> QED BY <2>1, <2>2
<1>28. ASSUME NEW n \in Notes, UpdateLost(n) PROVE TypeOK'
  <2> DEFINE p == row[n].page
  <2>1. p \in DOMAIN pages
    BY <1>28, FieldTypes DEF UpdateLost, Recorded
  <2>2. pages' = [pages EXCEPT ![p] = [pages[p] EXCEPT !.text = n]]
    BY <1>28 DEF UpdateLost
  <2>3. pages' \in Seq(PageType) /\ DOMAIN pages' = DOMAIN pages
    BY <2>1, <2>2, PageChanges, ChangeFacts
  <2> QED BY <1>0, <1>28, <1>t, <2>3, TypeHolds DEF UpdateLost, Works, Goes, Steps
<1>29. ASSUME NEW n \in Notes, RequestFails(n) PROVE TypeOK'
  BY <1>0, <1>29, <1>t, TypeHolds DEF RequestFails, Works, Goes, Steps
<1>30. CASE UNCHANGED vars
  BY <1>0, <1>30, TypeHolds DEF vars
<1> QED
  BY <1>1, <1>2, <1>3, <1>4, <1>5, <1>6, <1>7, <1>8, <1>9, <1>10, <1>11, <1>12, <1>13, <1>14,
     <1>15, <1>16, <1>17, <1>18, <1>19, <1>21, <1>22, <1>23, <1>24, <1>26, <1>27, <1>28, <1>29,
     <1>30 DEF Next, StartPush, Pull, Push, Recover, Work
--------------------------------------------------------------------------------
(* Counting. *)

(* Nothing comes to be unknown, and no claim goes. *)
LEMMA CountSame ==
    ASSUME NEW O, NEW C, NEW O2, NEW C2, IsFiniteSet(O), IsFiniteSet(C2),
           Cardinality(O) <= Cardinality(C), O2 \subseteq O, C \subseteq C2
    PROVE  Cardinality(O2) <= Cardinality(C2)
<1>1. Cardinality(O2) <= Cardinality(O) /\ IsFiniteSet(O2)
  BY FS_Subset
<1>2. Cardinality(C) <= Cardinality(C2) /\ IsFiniteSet(C)
  BY FS_Subset
<1>3. Cardinality(O) \in Nat /\ Cardinality(O2) \in Nat /\ Cardinality(C) \in Nat /\ Cardinality(C2) \in Nat
  BY <1>1, <1>2, FS_CardinalityType
<1> QED BY <1>1, <1>2, <1>3

(* A page is made and its maker has a claim. *)
LEMMA CountMore ==
    ASSUME NEW O, NEW C, NEW O2, NEW C2, NEW p, NEW n, IsFiniteSet(O), IsFiniteSet(C2),
           Cardinality(O) <= Cardinality(C), O2 \subseteq O \cup {p}, C \cup {n} \subseteq C2, n \notin C
    PROVE  Cardinality(O2) <= Cardinality(C2)
<1>1. IsFiniteSet(O \cup {p}) /\ Cardinality(O \cup {p}) <= Cardinality(O) + 1
  <2>1. IsFiniteSet(O)
    OBVIOUS
  <2>2. Cardinality(O) \in Nat
    BY ONLY <2>1, FS_CardinalityType
  <2>3. /\ IsFiniteSet(O \cup {p})
        /\ Cardinality(O \cup {p}) = IF p \in O THEN Cardinality(O) ELSE Cardinality(O) + 1
    BY ONLY <2>1, FS_AddElement
  <2> QED BY ONLY <2>2, <2>3
<1>2. Cardinality(O2) <= Cardinality(O \cup {p}) /\ IsFiniteSet(O2)
  BY <1>1, FS_Subset
<1>3. Cardinality(C \cup {n}) <= Cardinality(C2) /\ IsFiniteSet(C)
  BY FS_Subset
<1>4. Cardinality(C \cup {n}) = Cardinality(C) + 1 /\ IsFiniteSet(C \cup {n})
  BY <1>3, FS_AddElement
<1>5. /\ Cardinality(O) \in Nat /\ Cardinality(O2) \in Nat /\ Cardinality(C) \in Nat
      /\ Cardinality(C2) \in Nat /\ Cardinality(O \cup {p}) \in Nat
  BY <1>1, <1>2, <1>3, FS_CardinalityType
<1> QED BY <1>1, <1>2, <1>3, <1>4, <1>5

(* A note takes a page that nobody knew of. *)
LEMMA CountLess ==
    ASSUME NEW O, NEW C, NEW O2, NEW C2, NEW p \in O, NEW n \in C, IsFiniteSet(O), IsFiniteSet(C),
           IsFiniteSet(C2), Cardinality(O) <= Cardinality(C), O2 \subseteq O \ {p}, C \ {n} \subseteq C2
    PROVE  Cardinality(O2) <= Cardinality(C2)
<1>1. IsFiniteSet(O \ {p}) /\ Cardinality(O \ {p}) = Cardinality(O) - 1
  BY FS_RemoveElement
<1>2. Cardinality(C \ {n}) = Cardinality(C) - 1
  BY FS_RemoveElement
<1>3. Cardinality(O2) <= Cardinality(O \ {p}) /\ IsFiniteSet(O2)
  BY <1>1, FS_Subset
<1>4. Cardinality(C \ {n}) <= Cardinality(C2)
  BY FS_Subset
<1>5. /\ Cardinality(O) \in Nat /\ Cardinality(O2) \in Nat /\ Cardinality(C) \in Nat
      /\ Cardinality(C2) \in Nat
  BY <1>3, FS_CardinalityType
<1> QED BY <1>1, <1>2, <1>3, <1>4, <1>5

(* A step that leaves the pages, who made them and what the rows name. *)
LEMMA QuietStep ==
    ASSUME TypeOK, RowsApart, EnoughClaims, copies' = copies, DOMAIN pages' = DOMAIN pages,
           \A p \in DOMAIN pages : pages'[p].by = pages[p].by /\ pages'[p].live = pages[p].live,
           \A n \in Notes : /\ row'[n].page = row[n].page
                            /\ Searching(n) => op'[n] /\ at'[n] # "create"
    PROVE  /\ RowsApart' /\ EnoughClaims' /\ Orphans' = Orphans /\ Live' = Live /\ Made' = Made
           /\ \A n \in Notes : Recorded(n)' <=> Recorded(n)
<1>1. Live' = Live /\ Made' = Made
  BY DEF Live, Made
<1>2. Tracked' = Tracked
  BY DEF Tracked
<1>3. Orphans' = Orphans
  BY <1>1, <1>2 DEF Orphans
<1>4. \A n \in Notes : Recorded(n)' <=> Recorded(n)
  BY DEF Recorded
<1>5. Claims \subseteq Claims'
  BY <1>1, <1>4 DEF Claims, Searching
<1>6. EnoughClaims'
  <2>1. IsFiniteSet(Claims')
    BY PageFacts, FS_Subset DEF Claims
  <2> QED BY <1>3, <1>5, <2>1, PageFacts, CountSame DEF EnoughClaims
<1>7. RowsApart'
  BY <1>4 DEF RowsApart, Recorded
<1> QED BY <1>1, <1>3, <1>4, <1>6, <1>7

(* A note takes a page no row names: it keeps its claim if no push made the page. *)
LEMMA TakesPage ==
    ASSUME TypeOK, RowsApart, EnoughClaims, pages' = pages, copies' = copies,
           NEW n \in Notes, NEW p \in DOMAIN pages, p \notin Tracked,
           \A m \in Notes \ {n} : row'[m] = row[m], row'[n].page = p, ~Recorded(n),
           p \in Made => Searching(n) \/ n \notin Claims,
           \A m \in Notes \ {n} : Searching(m) => op'[m] /\ at'[m] # "create"
    PROVE  RowsApart' /\ EnoughClaims' /\ Orphans' = Orphans \ {p} /\ Recorded(n)'
<1>1. Live' = Live /\ Made' = Made
  BY DEF Live, Made
<1>2. (\A m \in Notes \ {n} : row'[m] = row[m]) /\ row'[n].page = p
  OBVIOUS
<1>3. p # 0 /\ row[n].page = 0
  BY PageFacts DEF Recorded
<1>4. Orphans' = Orphans \ {p}
  <2>1. ASSUME NEW q \in Made PROVE q \in Tracked' <=> q \in Tracked \/ q = p
    <3>1. q # 0
      BY PageFacts
    <3> QED BY <1>2, <1>3, <3>1 DEF Tracked
  <2> QED BY <1>1, <2>1 DEF Orphans
<1>5. Recorded(n)' /\ \A m \in Notes \ {n} : Recorded(m)' <=> Recorded(m)
  BY <1>2, <1>3 DEF Recorded
<1>6. RowsApart'
  BY <1>2, <1>5 DEF RowsApart, Tracked, Recorded
<1>7. \A m \in Notes \ {n} : m \in Claims => m \in Claims'
  BY <1>1, <1>2, <1>5 DEF Claims, Searching
<1>8. IsFiniteSet(Claims')
  BY PageFacts, FS_Subset DEF Claims
<1>9. EnoughClaims'
  <2>1. CASE p \in Made /\ n \in Claims
    <3>1. p \in Orphans
      BY <2>1 DEF Orphans
    <3>2. Claims \ {n} \subseteq Claims'
      BY <1>7 DEF Claims
    <3> QED BY <1>4, <1>8, <2>1, <3>1, <3>2, PageFacts, CountLess DEF EnoughClaims
  <2>2. CASE p \notin Made \/ n \notin Claims
    <3>1. Claims \subseteq Claims'
      BY <1>1, <1>2, <1>5, <1>7, <2>2 DEF Claims
    <3> QED BY <1>4, <1>8, <3>1, PageFacts, CountSame DEF EnoughClaims
  <2> QED BY <2>1, <2>2
<1> QED BY <1>4, <1>5, <1>6, <1>9

(* What the other workers missed is as it was, when a worker that has lost no page goes on. *)
LEMMA OthersMissed ==
    ASSUME TypeOK, LateMakers, NEW w \in Notes, at[w] \notin {"failed", "map"},
           Orphans' \subseteq Orphans, \A p \in Orphans : pages'[p].by = pages[p].by,
           \A m \in Notes \ {w} : /\ at'[m] = at[m] /\ op'[m] = op[m] /\ cand'[m] = cand[m]
                                  /\ row'[m].page = row[m].page,
           at'[w] = "getPage" => MadeSince(w)'
    PROVE  LateMakers'
<1> SUFFICES ASSUME NEW n \in Notes, n # w, at'[n] = "getPage" PROVE MadeSince(n)'
  BY DEF LateMakers
<1>1. MadeSince(n)
  BY DEF LateMakers
<1>2. cand'[n] = cand[n] /\ Orphans' \ cand'[n] \subseteq Orphans \ cand[n]
  OBVIOUS
<1>3. ASSUME NEW p \in Orphans' \ cand'[n]
      PROVE  /\ pages'[p].by = pages[p].by /\ pages[p].by \in Notes /\ pages[p].by # n
             /\ Searching(pages[p].by)' /\ at'[pages[p].by] \in {"failed", "map"}
             /\ at'[pages[p].by] = "map" => cand'[pages[p].by] = {p}
  <2>1. pages[p].by \in Notes /\ pages'[p].by = pages[p].by
    BY <1>2 DEF Orphans, Made
  <2>2. /\ pages[p].by # n /\ Searching(pages[p].by) /\ at[pages[p].by] \in {"failed", "map"}
        /\ at[pages[p].by] = "map" => cand[pages[p].by] = {p}
    BY <1>1, <1>2 DEF MadeSince
  <2>3. pages[p].by # w
    BY <2>2
  <2> QED BY <2>1, <2>2, <2>3 DEF Searching, Recorded
<1>4. \A p, q \in Orphans' \ cand'[n] : pages'[p].by = pages'[q].by => p = q
  BY <1>1, <1>2, <1>3 DEF MadeSince
<1> QED BY <1>3, <1>4 DEF MadeSince

(* A step of one note, or of a page, leaves the rows of the others. *)
LEMMA OthersRows ==
    ASSUME TypeOK, RowsOfSteps, NEW w,
           \A m \in Notes \ {w} : /\ row'[m] = row[m] /\ op'[m] = op[m] /\ at'[m] = at[m]
                                  /\ cand'[m] = cand[m],
           \A m \in Notes \ {w} : Recorded(m) /\ row[m].state = "synced" =>
                pages'[row[m].page].text = pages[row[m].page].text,
           phase' = phase, ops' \subseteq ops, w \in Notes => RowOfStep(w)'
    PROVE  RowsOfSteps'
<1> SUFFICES ASSUME NEW m \in Notes, m # w PROVE RowOfStep(m)'
  BY DEF RowsOfSteps
<1>1. RowOfStep(m)
  BY DEF RowsOfSteps
<1>2. /\ row'[m] = row[m] /\ op'[m] = op[m] /\ at'[m] = at[m] /\ cand'[m] = cand[m]
      /\ Recorded(m)' <=> Recorded(m)
  BY DEF Recorded
<1>3. row'[m].state = "synced" => pages'[row'[m].page].text = m
  BY <1>1, <1>2 DEF RowOfStep
<1> QED BY <1>1, <1>2, <1>3 DEF RowOfStep
--------------------------------------------------------------------------------
(* People. *)

LEMMA HumanCreateStep ==
    ASSUME CreateInv, HumanCreate
    PROVE  RowsApart' /\ RowsOfSteps' /\ LateMakers' /\ EnoughClaims'
<1> USE DEF CreateInv
<1>1. PICK words \in {Human, Natural} :
         pages' = Append(pages, [by |-> Human, text |-> words, whole |-> TRUE, live |-> TRUE])
  BY DEF HumanCreate
<1> DEFINE q == [by |-> Human, text |-> words, whole |-> TRUE, live |-> TRUE]
<1>2. q \in PageType
  BY CreateAssumption DEF PageType
<1>3. /\ DOMAIN pages' = DOMAIN pages \cup {Len(pages')} /\ Len(pages') \notin DOMAIN pages
      /\ \A p \in DOMAIN pages : pages'[p] = pages[p]
      /\ pages'[Len(pages')] = q
  BY <1>1, <1>2, AppendFacts
<1>4. UNCHANGED <<row, op, copies, phase, pulling, ops, at, cand, retry>>
  BY DEF HumanCreate
<1>5. Made' = Made
  <2>1. pages'[Len(pages')].by \notin Notes
    BY <1>3, CreateAssumption
  <2> QED BY <1>3, <2>1 DEF Made, Live
<1>6. Orphans' = Orphans /\ Claims' = Claims
  BY <1>4, <1>5 DEF Orphans, Tracked, Claims, Searching, Recorded
<1>7. RowsApart'
  BY <1>4 DEF RowsApart, Recorded
<1>8. RowsOfSteps'
  <2>1. \A m \in Notes : Recorded(m) => pages'[row[m].page] = pages[row[m].page]
    BY <1>3, FieldTypes
  <2>2. Human \notin Notes /\ ops' \subseteq ops
    BY <1>4, CreateAssumption
  <2> QED BY <1>4, <2>1, <2>2, OthersRows
<1>9. LateMakers'
  <2>1. \A p \in Orphans : pages'[p] = pages[p]
    BY <1>3, PageFacts
  <2>2. \A n \in Notes : Searching(n)' <=> Searching(n)
    BY <1>4 DEF Searching, Recorded
  <2>3. \A p \in Orphans : pages[p].by \in Notes
    BY DEF Orphans, Made
  <2>4. \A n \in Notes : MadeSince(n) => MadeSince(n)'
    BY <1>4, <1>6, <2>1, <2>2, <2>3 DEF MadeSince
  <2> QED BY <1>4, <2>4 DEF LateMakers
<1> QED BY <1>6, <1>7, <1>8, <1>9 DEF EnoughClaims

(* A page that goes takes nothing with it that a note has. *)
LEMMA HumanTrashStep ==
    ASSUME CreateInv, HumanTrash
    PROVE  RowsApart' /\ RowsOfSteps' /\ LateMakers' /\ EnoughClaims'
<1> USE DEF CreateInv
<1>1. PICK p \in Live \ Tracked : pages' = [pages EXCEPT ![p].live = FALSE]
  BY DEF HumanTrash
<1>2. /\ p \in DOMAIN pages /\ DOMAIN pages' = DOMAIN pages
      /\ \A q \in DOMAIN pages : q # p => pages'[q] = pages[q]
      /\ \A q \in DOMAIN pages : pages'[q].by = pages[q].by
      /\ \A q \in DOMAIN pages : pages'[q].live => pages[q].live
  <2>1. p \in DOMAIN pages
    BY DEF Live
  <2>2. pages' = [pages EXCEPT ![p] = [pages[p] EXCEPT !.live = FALSE]]
    BY <1>1
  <2>3. pages[p] \in PageType /\ [pages[p] EXCEPT !.live = FALSE] \in PageType
    BY <2>1, PageFacts DEF PageType
  <2>4. /\ [pages[p] EXCEPT !.live = FALSE].by = pages[p].by
        /\ [pages[p] EXCEPT !.live = FALSE].live = FALSE
    BY <2>3 DEF PageType
  <2> QED BY <2>1, <2>2, <2>3, <2>4, ChangeFacts
<1>3. UNCHANGED <<row, op, copies, phase, pulling, ops, at, cand, retry>>
  BY DEF HumanTrash
<1>4. Made' \subseteq Made /\ Orphans' \subseteq Orphans
  BY <1>2, <1>3 DEF Made, Live, Orphans, Tracked
<1>5. Claims \subseteq Claims'
  BY <1>3, <1>4 DEF Claims, Searching, Recorded
<1>6. EnoughClaims'
  <2>1. IsFiniteSet(Claims')
    BY PageFacts, FS_Subset DEF Claims
  <2> QED BY <1>4, <1>5, <2>1, PageFacts, CountSame DEF EnoughClaims
<1>7. RowsApart'
  BY <1>3 DEF RowsApart, Recorded
<1>8. RowsOfSteps'
  <2>1. \A m \in Notes : Recorded(m) => pages'[row[m].page] = pages[row[m].page]
    BY <1>2, FieldTypes DEF Tracked
  <2>2. Human \notin Notes /\ ops' \subseteq ops
    BY <1>3, CreateAssumption
  <2> QED BY <1>3, <2>1, <2>2, OthersRows
<1>9. LateMakers'
  <2>1. \A q \in Orphans : pages'[q].by = pages[q].by
    BY <1>2, PageFacts
  <2>2. \A n \in Notes : Searching(n)' <=> Searching(n)
    BY <1>3 DEF Searching, Recorded
  <2>3. \A q \in Orphans : pages[q].by \in Notes
    BY DEF Orphans, Made
  <2>4. \A n \in Notes : MadeSince(n) => MadeSince(n)'
    BY <1>3, <1>4, <2>1, <2>2, <2>3 DEF MadeSince
  <2> QED BY <1>3, <2>4 DEF LateMakers
<1> QED BY <1>6, <1>7, <1>8, <1>9
--------------------------------------------------------------------------------
(* Runs. *)

(* A step that begins or ends something, and writes nothing. *)
LEMMA RunStep ==
    ASSUME CreateInv, UNCHANGED <<pages, row, op, copies>>,
           \A n \in Notes : at'[n] \in {"off", "start", "update"},
           phase' # "pool" => \A n \in Notes : at'[n] = "off",
           phase' = "recover" => \A n \in Notes \cap ops' : op[n]
    PROVE  RowsApart' /\ RowsOfSteps' /\ LateMakers' /\ EnoughClaims'
<1> USE DEF CreateInv
<1>1. \A n \in Notes : Searching(n) => op'[n] /\ at'[n] # "create"
  BY DEF Searching
<1>2. RowsApart' /\ EnoughClaims' /\ \A n \in Notes : Recorded(n)' <=> Recorded(n)
  BY <1>1, QuietStep
<1>3. LateMakers'
  BY DEF LateMakers
<1>4. ASSUME NEW n \in Notes PROVE RowOfStep(n)'
  <2>1. RowOfStep(n)
    BY DEF RowsOfSteps
  <2>2. row'[n] = row[n] /\ op'[n] = op[n] /\ pages' = pages
    OBVIOUS
  <2>3. at'[n] \in {"off", "start", "update"} /\ (phase' # "pool" => at'[n] = "off")
        /\ (phase' = "recover" /\ n \in ops' => op[n])
    OBVIOUS
  <2> QED BY ONLY <1>2, <2>1, <2>2, <2>3 DEF RowOfStep, Recorded
<1> QED BY <1>2, <1>3, <1>4 DEF RowsOfSteps

(* What begins or ends a run. *)
LEMMA RunSteps ==
    ASSUME CreateInv,
           StartPull \/ StartPush \/ PullDone \/ Crash \/ StartPool \/ PoolDone
    PROVE  RowsApart' /\ RowsOfSteps' /\ LateMakers' /\ EnoughClaims'
<1> USE DEF CreateInv
<1>0. \A n \in Notes : /\ phase # "pool" => at[n] = "off"
                       /\ phase = "recover" /\ n \in ops => op[n]
  BY DEF RowsOfSteps, RowOfStep
<1>1. CASE StartPull
  BY <1>0, <1>1, RunStep DEF StartPull
<1>2. ASSUME Recovers, phase # "pool" PROVE RowsApart' /\ RowsOfSteps' /\ LateMakers' /\ EnoughClaims'
  BY <1>0, <1>2, RunStep DEF Recovers
<1>3. CASE StartPush
  BY <1>2, <1>3 DEF StartPush
<1>4. CASE PullDone
  BY <1>0, <1>2, <1>4, RunStep DEF PullDone
<1>5. CASE Crash
  BY <1>5, RunStep DEF Crash
<1>6. CASE StartPool
  BY <1>6, RunStep DEF StartPool, PushKind
<1>7. CASE PoolDone
  <2>1. CASE phase' = "idle"
    BY <1>7, <2>1, RunStep DEF PoolDone
  <2>2. CASE phase' # "idle"
    BY <1>7, <2>2, RunStep DEF PoolDone
  <2> QED BY <2>1, <2>2
<1> QED BY <1>1, <1>3, <1>4, <1>5, <1>6, <1>7
--------------------------------------------------------------------------------
(* Pull. *)

LEMMA PullRelinkStep ==
    ASSUME CreateInv, NEW p \in pulling, PullRelink(p)
    PROVE  RowsApart' /\ RowsOfSteps' /\ LateMakers' /\ EnoughClaims'
<1> USE DEF CreateInv
<1>1. /\ phase = "pull" /\ UNCHANGED <<pages, op, copies, phase, ops, at, cand>>
      /\ p \notin Tracked /\ row[Natural] = NoRow /\ pages[p].text = Natural
      /\ row' = [row EXCEPT ![Natural] = [state |-> "synced", page |-> p]]
  BY DEF PullRelink, PullsNext
<1>2. Natural \in Notes /\ p \in DOMAIN pages
  BY CreateAssumption DEF TypeOK
<1>3. ~Recorded(Natural) /\ ~op[Natural] /\ Natural \notin Claims
  BY <1>1, <1>2 DEF RowsOfSteps, RowOfStep, Claims, Searching, Recorded, NoRow
<1>4. /\ \A m \in Notes \ {Natural} : row'[m] = row[m]
      /\ row'[Natural].page = p /\ row'[Natural].state = "synced"
  BY <1>1, <1>2 DEF TypeOK
<1>9. RowsApart' /\ EnoughClaims' /\ Recorded(Natural)'
  <2>1. \A m \in Notes \ {Natural} : Searching(m) => op'[m] /\ at'[m] # "create"
    BY <1>1 DEF Searching
  <2> QED BY <1>1, <1>2, <1>3, <1>4, <2>1, TakesPage
<1>5. \A m \in Notes : at[m] = "off"
  BY <1>1 DEF RowsOfSteps, RowOfStep
<1>6. LateMakers'
  BY <1>1, <1>5 DEF LateMakers
<1>7. RowOfStep(Natural)'
  BY <1>1, <1>2, <1>4, <1>5, <1>9 DEF RowOfStep
<1>8. RowsOfSteps'
  BY <1>1, <1>2, <1>4, <1>7, OthersRows
<1> QED BY <1>6, <1>8, <1>9

(* A copy is a page somebody knows of. *)
LEMMA PullCopyStep ==
    ASSUME CreateInv, NEW p \in pulling, PullCopy(p)
    PROVE  RowsApart' /\ RowsOfSteps' /\ LateMakers' /\ EnoughClaims'
<1> USE DEF CreateInv
<1>1. /\ phase = "pull" /\ UNCHANGED <<pages, row, op, phase, ops, at, cand>>
      /\ p \notin Tracked /\ copies' = copies \cup {p}
  BY DEF PullCopy, PullsNext
<1>2. Orphans' \subseteq Orphans /\ Claims' = Claims
  BY <1>1 DEF Orphans, Made, Live, Tracked, Claims, Searching, Recorded
<1>3. EnoughClaims'
  BY <1>2, PageFacts, CountSame DEF EnoughClaims
<1>4. RowsApart'
  BY <1>1 DEF RowsApart, Recorded, Tracked
<1>5. LateMakers'
  BY <1>1 DEF LateMakers, RowsOfSteps, RowOfStep
<1>6. RowsOfSteps'
  <2>1. Human \notin Notes /\ ops' \subseteq ops
    BY <1>1, CreateAssumption
  <2> QED BY <1>1, <2>1, OthersRows
<1> QED BY <1>3, <1>4, <1>5, <1>6

(* A note that was never in step with its page becomes so, or a conflict. *)
LEMMA PullUnsettledStep ==
    ASSUME CreateInv, NEW p \in pulling, PullUnsettled(p)
    PROVE  RowsApart' /\ RowsOfSteps' /\ LateMakers' /\ EnoughClaims'
<1> USE DEF CreateInv
<1>1. /\ phase = "pull" /\ UNCHANGED <<pages, op, copies, phase, ops, at, cand>>
  BY DEF PullUnsettled, PullsNext
<1>2. PICK n \in Notes :
        /\ row[n].page = p /\ row[n].state \in Unsettled
        /\ row' = [row EXCEPT ![n].state =
                      IF pages[p].text = n /\ pages[p].whole THEN "synced" ELSE "conflict"]
  BY DEF PullUnsettled
<1>3. /\ \A m \in Notes \ {n} : row'[m] = row[m]
      /\ row'[n].page = p /\ row'[n].state \in {"synced", "conflict"}
      /\ row'[n].state = "synced" => pages[p].text = n
  <2>1. row[n] = [state |-> row[n].state, page |-> row[n].page]
    BY DEF TypeOK
  <2>2. row'[n] = [row[n] EXCEPT !.state =
                      IF pages[p].text = n /\ pages[p].whole THEN "synced" ELSE "conflict"]
    BY <1>2 DEF TypeOK
  <2>3. row'[n].page = p
    BY <1>2, <2>1, <2>2
  <2>4. row'[n].state = IF pages[p].text = n /\ pages[p].whole THEN "synced" ELSE "conflict"
    BY <2>1, <2>2
  <2> QED BY <1>2, <2>3, <2>4 DEF TypeOK
<1>4. RowsApart' /\ EnoughClaims' /\ \A m \in Notes : Recorded(m)' <=> Recorded(m)
  <2>1. \A m \in Notes : row'[m].page = row[m].page /\ (Searching(m) => op'[m] /\ at'[m] # "create")
    BY <1>1, <1>2, <1>3 DEF Searching
  <2> QED BY <1>1, <2>1, QuietStep
<1>5. \A m \in Notes : at[m] = "off"
  BY <1>1 DEF RowsOfSteps, RowOfStep
<1>6. LateMakers'
  BY <1>1, <1>5 DEF LateMakers
<1>7. RowOfStep(n)'
  <2>1. Recorded(n)
    BY <1>2 DEF RowsOfSteps, RowOfStep, Unsettled
  <2> QED BY <1>1, <1>3, <1>4, <1>5, <2>1 DEF RowOfStep
<1>8. RowsOfSteps'
  BY <1>1, <1>3, <1>7, OthersRows
<1> QED BY <1>4, <1>6, <1>8

(* A page that is as the tool left it. *)
LEMMA PullUnchangedStep ==
    ASSUME CreateInv, NEW p \in pulling, PullUnchanged(p)
    PROVE  RowsApart' /\ RowsOfSteps' /\ LateMakers' /\ EnoughClaims'
<1> USE DEF CreateInv
<1>1. phase = "pull" /\ UNCHANGED <<pages, row, op, copies, phase, ops, at>>
  BY DEF PullUnchanged, PullsNext
<1>2. \A n \in Notes : at[n] = "off"
  BY <1>1 DEF RowsOfSteps, RowOfStep
<1> QED BY <1>1, <1>2, RunStep
--------------------------------------------------------------------------------
(* The recovery of a push. *)

(* No worker is about. *)
LEMMA RecoverFacts ==
    ASSUME CreateInv, NEW n \in ops, RecoversNext(n)
    PROVE  /\ phase = "recover" /\ n \in Notes /\ op[n]
           /\ UNCHANGED <<pages, copies, phase, at, cand>> /\ ops' = ops \ {n}
           /\ \A m \in Notes : at[m] = "off" /\ (Searching(m) <=> ~Recorded(m) /\ op[m])
           /\ LateMakers'
<1> USE DEF CreateInv
<1>1. /\ phase = "recover" /\ n \in Notes /\ UNCHANGED <<pages, copies, phase, at, cand>>
      /\ ops' = ops \ {n}
  BY DEF RecoversNext, TypeOK
<1>2. op[n] /\ \A m \in Notes : at[m] = "off"
  BY <1>1 DEF RowsOfSteps, RowOfStep
<1>3. LateMakers'
  BY <1>1, <1>2 DEF LateMakers
<1> QED BY <1>1, <1>2, <1>3 DEF Searching

(* The note has its page: it needs to search no more. *)
LEMMA RecoverMappedStep ==
    ASSUME CreateInv, NEW n \in ops, RecoverMapped(n)
    PROVE  RowsApart' /\ RowsOfSteps' /\ LateMakers' /\ EnoughClaims'
<1> USE DEF CreateInv
<1>1. /\ phase = "recover" /\ n \in Notes /\ ops' = ops \ {n} /\ LateMakers'
      /\ UNCHANGED <<pages, row, copies, phase, at, cand>>
      /\ \A m \in Notes : at[m] = "off"
      /\ op' = [op EXCEPT ![n] = FALSE] /\ Recorded(n)
  BY RecoverFacts DEF RecoverMapped, Recorded
<1>2. (\A m \in Notes \ {n} : op'[m] = op[m]) /\ ~op'[n]
  BY <1>1 DEF TypeOK
<1>3. RowsApart' /\ EnoughClaims' /\ \A m \in Notes : Recorded(m)' <=> Recorded(m)
  <2>1. \A m \in Notes : Searching(m) => op'[m] /\ at'[m] # "create"
    BY <1>1, <1>2 DEF Searching
  <2> QED BY <1>1, <2>1, QuietStep
<1>4. RowOfStep(n)'
  <2>1. RowOfStep(n)
    BY <1>1 DEF RowsOfSteps
  <2> QED BY <1>1, <1>2, <1>3, <2>1 DEF RowOfStep
<1>5. RowsOfSteps'
  BY <1>1, <1>2, <1>4, OthersRows
<1> QED BY <1>1, <1>3, <1>5

(* The note takes a page nobody knows of, and had a claim on one. *)
LEMMA RecoverAdoptStep ==
    ASSUME CreateInv, NEW n \in ops, RecoverAdopt(n)
    PROVE  RowsApart' /\ RowsOfSteps' /\ LateMakers' /\ EnoughClaims'
<1> USE DEF CreateInv
<1> DEFINE p == Min(Untracked(Live))
<1>1. /\ phase = "recover" /\ n \in Notes /\ ops' = ops \ {n} /\ LateMakers' /\ op[n]
      /\ UNCHANGED <<pages, copies, phase, at, cand>>
      /\ \A m \in Notes : at[m] = "off" /\ (Searching(m) <=> ~Recorded(m) /\ op[m])
  BY RecoverFacts DEF RecoverAdopt
<1>2. /\ op' = [op EXCEPT ![n] = FALSE] /\ ~Recorded(n) /\ Untracked(Live) # {}
      /\ row' = [row EXCEPT ![n] = [state |-> "adopted", page |-> p]]
  BY DEF RecoverAdopt, Recorded
<1>3. p \in DOMAIN pages /\ p \notin Tracked
  <2>1. Untracked(Live) \in SUBSET Nat /\ Live \subseteq DOMAIN pages
    BY PageFacts DEF Untracked
  <2>2. p \in Untracked(Live)
    BY <1>2, <2>1, MinIn
  <2> QED BY <2>1, <2>2 DEF Untracked
<1> HIDE DEF p
<1>4. /\ \A m \in Notes \ {n} : op'[m] = op[m] /\ row'[m] = row[m]
      /\ ~op'[n] /\ row'[n].page = p /\ row'[n].state = "adopted"
  BY <1>1, <1>2 DEF TypeOK
<1>5. RowsApart' /\ EnoughClaims' /\ Recorded(n)'
  <2>1. \A m \in Notes \ {n} : Searching(m) => op'[m] /\ at'[m] # "create"
    BY <1>1, <1>4
  <2>2. Searching(n)
    BY <1>1, <1>2
  <2> QED BY <1>1, <1>2, <1>3, <1>4, <2>1, <2>2, TakesPage
<1>6. RowOfStep(n)'
  BY <1>1, <1>4, <1>5 DEF RowOfStep
<1>7. RowsOfSteps'
  BY <1>1, <1>4, <1>6, OthersRows
<1> QED BY <1>1, <1>5, <1>7

(* When no page is unknown, nobody has to look for one. *)
LEMMA NoOrphans ==
    ASSUME TypeOK, Orphans = {}, Orphans' = Orphans
    PROVE  EnoughClaims'
<1>1. IsFiniteSet(Claims')
  BY PageFacts, FS_Subset DEF Claims
<1>2. Cardinality(Claims') \in Nat /\ Cardinality(Orphans') = 0
  BY <1>1, FS_CardinalityType, FS_EmptySet
<1> QED BY <1>2 DEF EnoughClaims

(* Nothing was made that nobody knows of. *)
LEMMA RecoverNothingStep ==
    ASSUME CreateInv, NEW n \in ops, RecoverNothing(n)
    PROVE  RowsApart' /\ RowsOfSteps' /\ LateMakers' /\ EnoughClaims'
<1> USE DEF CreateInv
<1>1. /\ phase = "recover" /\ n \in Notes /\ ops' = ops \ {n} /\ LateMakers'
      /\ UNCHANGED <<pages, copies, phase, at, cand>>
      /\ \A m \in Notes : at[m] = "off"
  BY RecoverFacts DEF RecoverNothing
<1>2. /\ op' = [op EXCEPT ![n] = FALSE] /\ row[n].page = 0 /\ Untracked(Live) = {}
      /\ row' = [row EXCEPT ![n] = NoRow]
  BY DEF RecoverNothing
<1>3. /\ \A m \in Notes \ {n} : op'[m] = op[m] /\ row'[m] = row[m]
      /\ ~op'[n] /\ row'[n].page = 0 /\ row'[n].state = "none"
  BY <1>1, <1>2 DEF TypeOK, NoRow
<1>4. \A m \in Notes : row'[m].page = row[m].page
  BY <1>2, <1>3
<1>5. Orphans = {} /\ Orphans' = Orphans
  BY <1>1, <1>2, <1>4 DEF Untracked, Orphans, Made, Live, Tracked
<1>6. EnoughClaims'
  BY <1>5, NoOrphans
<1>7. RowsApart'
  BY <1>1, <1>4 DEF RowsApart, Recorded
<1>8. RowOfStep(n)'
  BY <1>1, <1>3 DEF RowOfStep, Recorded
<1>9. RowsOfSteps'
  BY <1>1, <1>3, <1>8, OthersRows
<1> QED BY <1>1, <1>6, <1>7, <1>9

(* The entry stays, and with it the claim. *)
LEMMA RecoverUnreadableStep ==
    ASSUME CreateInv, NEW n \in ops, RecoverUnreadable(n)
    PROVE  RowsApart' /\ RowsOfSteps' /\ LateMakers' /\ EnoughClaims'
<1>1. /\ phase = "recover" /\ ops' = ops \ {n} /\ UNCHANGED <<pages, row, op, copies, phase, at>>
      /\ \A m \in Notes : at[m] = "off"
  BY RecoverFacts DEF RecoverUnreadable, RecoversNext
<1>2. \A m \in Notes \cap ops' : op[m]
  BY <1>1 DEF CreateInv, RowsOfSteps, RowOfStep
<1> QED BY <1>1, <1>2, RunStep
--------------------------------------------------------------------------------
(* The pool of a push. *)

(* A worker that names no page and makes none. *)
LEMMA QuietWork ==
    ASSUME CreateInv, NEW n \in Notes, at[n] \notin {"failed", "map"},
           UNCHANGED <<copies, phase, ops>>, DOMAIN pages' = DOMAIN pages,
           \A p \in DOMAIN pages : /\ pages'[p].by = pages[p].by /\ pages'[p].live = pages[p].live
                                   /\ p # row[n].page => pages'[p].text = pages[p].text,
           \A m \in Notes \ {n} : /\ row'[m] = row[m] /\ op'[m] = op[m] /\ at'[m] = at[m]
                                  /\ cand'[m] = cand[m],
           row'[n].page = row[n].page, Searching(n) => op'[n] /\ at'[n] # "create",
           RowOfStep(n)', Orphans' = Orphans /\ at'[n] = "getPage" => MadeSince(n)'
    PROVE  RowsApart' /\ RowsOfSteps' /\ LateMakers' /\ EnoughClaims'
<1> USE DEF CreateInv
<1>1. RowsApart' /\ EnoughClaims' /\ Orphans' = Orphans
  <2>1. \A m \in Notes : /\ row'[m].page = row[m].page
                         /\ Searching(m) => op'[m] /\ at'[m] # "create"
    BY DEF Searching
  <2> QED BY <2>1, QuietStep
<1>2. RowsOfSteps'
  <2>1. \A m \in Notes \ {n} : Recorded(m) => row[m].page \in DOMAIN pages /\ row[m].page # row[n].page
    BY FieldTypes DEF RowsApart
  <2>2. \A m \in Notes \ {n} : Recorded(m) /\ row[m].state = "synced" =>
             pages'[row[m].page].text = pages[row[m].page].text
    BY <2>1
  <2> QED BY <2>2, OthersRows
<1>3. LateMakers'
  <2>1. \A p \in Orphans : pages'[p].by = pages[p].by
    BY PageFacts
  <2> QED BY <1>1, <2>1, OthersMissed
<1> QED BY <1>1, <1>2, <1>3

(* What a worker finds, and what it leaves to the others. *)
LEMMA WorkFacts ==
    ASSUME CreateInv, NEW n \in Notes, NEW from, Works(n, from)
    PROVE  /\ phase = "pool" /\ at[n] = from /\ UNCHANGED <<copies, phase, ops>>
           /\ RowOfStep(n)
           /\ \A to : Goes(n, to) => (\A m \in Notes \ {n} : at'[m] = at[m]) /\ at'[n] = to
<1>1. at \in [Notes -> Steps] /\ RowOfStep(n)
  BY DEF CreateInv, TypeOK, RowsOfSteps
<1> QED BY <1>1 DEF Works, Goes

(* A note with an entry left over goes on searching. *)
LEMMA BeginCreateStep ==
    ASSUME CreateInv, NEW n \in Notes, BeginCreate(n)
    PROVE  RowsApart' /\ RowsOfSteps' /\ LateMakers' /\ EnoughClaims'
<1>1. /\ phase = "pool" /\ at[n] = "start" /\ UNCHANGED <<copies, phase, ops>> /\ RowOfStep(n)
      /\ \A to : Goes(n, to) => (\A m \in Notes \ {n} : at'[m] = at[m]) /\ at'[n] = to
  BY WorkFacts DEF BeginCreate
<1>2. UNCHANGED <<pages, cand>>
  BY DEF BeginCreate
<1>3. CASE Recorded(n)
  <2>1. UNCHANGED <<row, op>> /\ at'[n] = "update" /\ \A m \in Notes \ {n} : at'[m] = at[m]
    BY <1>1, <1>3 DEF BeginCreate, Recorded
  <2>2. RowOfStep(n)'
    BY <1>1, <1>2, <2>1 DEF RowOfStep, Recorded
  <2> QED BY <1>1, <1>2, <2>1, <2>2, QuietWork DEF Searching
<1>4. CASE ~Recorded(n)
  <2>1. /\ row' = [row EXCEPT ![n] = [state |-> "placeholder", page |-> 0]]
        /\ op' = [op EXCEPT ![n] = TRUE]
        /\ Goes(n, IF op[n] THEN "list" ELSE "create")
    BY <1>4 DEF BeginCreate, Recorded
  <2>2. /\ row'[n].page = 0 /\ row'[n].state = "placeholder" /\ op'[n]
        /\ at'[n] = (IF op[n] THEN "list" ELSE "create")
        /\ \A m \in Notes \ {n} : row'[m] = row[m] /\ op'[m] = op[m] /\ at'[m] = at[m]
    BY <1>1, <2>1 DEF CreateInv, TypeOK
  <2>3. row'[n].page = row[n].page /\ ~Recorded(n)'
    BY <1>4, <2>2 DEF Recorded
  <2>4. RowOfStep(n)'
    BY <1>1, <2>2, <2>3 DEF RowOfStep
  <2>5. Searching(n) => op'[n] /\ at'[n] # "create"
    BY <2>2 DEF Searching
  <2> QED BY <1>1, <1>2, <2>2, <2>3, <2>4, <2>5, QuietWork
<1> QED BY <1>3, <1>4

(* What the search of one note comes to changes nothing else. *)
LEMMA RuledFacts ==
    ASSUME CreateInv, NEW n \in Notes, NEW listed, NEW from, Works(n, from), Ruled(n, listed),
           UNCHANGED <<pages, row, op>>, from \in {"list", "getPage"}
    PROVE  /\ phase = "pool" /\ at[n] = from /\ UNCHANGED <<copies, phase, ops>>
           /\ RowOfStep(n)' /\ ~Recorded(n) /\ op[n] /\ Orphans' = Orphans
           /\ \A m \in Notes \ {n} : at'[m] = at[m] /\ cand'[m] = cand[m]
           /\ cand'[n] = Untracked(listed)
           /\ at'[n] = IF Untracked(listed) = {} THEN "create" ELSE "getPage"
<1>1. /\ phase = "pool" /\ at[n] = from /\ UNCHANGED <<copies, phase, ops>> /\ RowOfStep(n)
      /\ \A to : Goes(n, to) => (\A m \in Notes \ {n} : at'[m] = at[m]) /\ at'[n] = to
  BY WorkFacts
<1>2. ~Recorded(n) /\ op[n]
  BY <1>1 DEF RowOfStep
<1>3. /\ cand' = [cand EXCEPT ![n] = Untracked(listed)]
      /\ at'[n] = IF Untracked(listed) = {} THEN "create" ELSE "getPage"
      /\ \A m \in Notes \ {n} : at'[m] = at[m]
  BY <1>1 DEF Ruled
<1>4. cand'[n] = Untracked(listed) /\ \A m \in Notes \ {n} : cand'[m] = cand[m]
  BY <1>3 DEF CreateInv, TypeOK
<1>5. RowOfStep(n)'
  BY <1>1, <1>2, <1>3, <1>4 DEF RowOfStep, Recorded
<1>6. Orphans' = Orphans
  BY <1>1 DEF Orphans, Made, Live, Tracked
<1> QED BY <1>1, <1>2, <1>3, <1>4, <1>5, <1>6

(* A worker that found nothing will make a page and claims none. *)
LEMMA FoundNothing ==
    ASSUME CreateInv, NEW n \in Notes, NEW listed, NEW from, Works(n, from), Ruled(n, listed),
           UNCHANGED <<pages, row, op>>, from \in {"list", "getPage"}, Untracked(listed) = {}
    PROVE  RowsApart' /\ RowsOfSteps' /\ LateMakers' /\ Claims \ {n} \subseteq Claims'
<1> USE DEF CreateInv
<1>1. /\ phase = "pool" /\ at[n] = from /\ UNCHANGED <<copies, phase, ops>>
      /\ RowOfStep(n)' /\ Orphans' = Orphans
      /\ \A m \in Notes \ {n} : at'[m] = at[m] /\ cand'[m] = cand[m]
      /\ at'[n] = "create"
  BY RuledFacts
<1>2. RowsApart'
  BY <1>1 DEF RowsApart, Recorded
<1>3. RowsOfSteps'
  BY <1>1, OthersRows
<1>4. LateMakers'
  BY <1>1, OthersMissed
<1>5. Claims \ {n} \subseteq Claims'
  BY <1>1 DEF Claims, Searching, Recorded, Made, Live
<1> QED BY <1>2, <1>3, <1>4, <1>5

(* A search begins with every page that nobody knows of. *)
LEMMA ListChildrenStep ==
    ASSUME CreateInv, NEW n \in Notes, ListChildren(n)
    PROVE  RowsApart' /\ RowsOfSteps' /\ LateMakers' /\ EnoughClaims'
<1>1. Works(n, "list") /\ Ruled(n, Live) /\ UNCHANGED <<pages, row, op>>
  BY DEF ListChildren
<1>2. /\ phase = "pool" /\ at[n] = "list" /\ UNCHANGED <<copies, phase, ops>>
      /\ RowOfStep(n)' /\ ~Recorded(n) /\ op[n] /\ Orphans' = Orphans
      /\ \A m \in Notes \ {n} : at'[m] = at[m] /\ cand'[m] = cand[m]
      /\ cand'[n] = Untracked(Live)
      /\ at'[n] = IF Untracked(Live) = {} THEN "create" ELSE "getPage"
  BY <1>1, RuledFacts
<1>3. Orphans \subseteq Untracked(Live)
  BY DEF Orphans, Made, Untracked
<1>4. CASE Untracked(Live) = {}
  <2>1. RowsApart' /\ RowsOfSteps' /\ LateMakers'
    BY <1>1, <1>4, FoundNothing
  <2>2. Orphans = {}
    BY <1>3, <1>4
  <2> QED BY <1>2, <2>1, <2>2, NoOrphans DEF CreateInv
<1>5. CASE Untracked(Live) # {}
  <2>1. Orphans' = Orphans => MadeSince(n)'
    BY <1>2, <1>3 DEF MadeSince
  <2> QED BY <1>1, <1>2, <1>5, <2>1, QuietWork
<1> QED BY <1>4, <1>5

(* When a search saw no page that nobody knows of, every such page has its maker for a claim. *)
LEMMA MakersClaim ==
    ASSUME CreateInv, NEW n \in Notes, MadeSince(n), Orphans \cap cand[n] = {}
    PROVE  Cardinality(Orphans) <= Cardinality(Claims \ {n})
<1> USE DEF CreateInv
<1> DEFINE maker == [p \in Orphans |-> pages[p].by]
<1>1. Orphans \ cand[n] = Orphans
  OBVIOUS
<1>2. \A p \in Orphans : pages[p].by \in Claims \ {n}
  BY <1>1 DEF MadeSince, Claims, Searching, Orphans, Made
<1>3. \A p, q \in Orphans : pages[p].by = pages[q].by => p = q
  BY <1>1 DEF MadeSince
<1>4. maker \in Injection(Orphans, Claims \ {n})
  BY <1>2, <1>3 DEF Injection, IsInjective
<1>5. IsFiniteSet(Claims \ {n})
  BY PageFacts, FS_Subset
<1> QED BY <1>4, <1>5, FS_Injection

(* A page that is found trashed is none that a push lost; what was made since has its maker. *)
LEMMA GetTrashedStep ==
    ASSUME CreateInv, NEW n \in Notes, GetTrashed(n)
    PROVE  RowsApart' /\ RowsOfSteps' /\ LateMakers' /\ EnoughClaims'
<1> DEFINE listed == cand[n] \ {Min(cand[n])}
<1>1. /\ Works(n, "getPage") /\ Ruled(n, listed) /\ UNCHANGED <<pages, row, op>>
      /\ Min(cand[n]) \notin Live
  BY DEF GetTrashed
<1>2. /\ phase = "pool" /\ at[n] = "getPage" /\ UNCHANGED <<copies, phase, ops>>
      /\ RowOfStep(n)' /\ ~Recorded(n) /\ op[n] /\ Orphans' = Orphans
      /\ \A m \in Notes \ {n} : at'[m] = at[m] /\ cand'[m] = cand[m]
      /\ cand'[n] = Untracked(listed)
      /\ at'[n] = IF Untracked(listed) = {} THEN "create" ELSE "getPage"
  BY <1>1, RuledFacts
<1>3. Orphans \cap cand[n] \subseteq Untracked(listed) /\ Untracked(listed) \subseteq cand[n]
  BY <1>1 DEF Orphans, Made, Untracked
<1>4. MadeSince(n)
  BY <1>2 DEF CreateInv, LateMakers
<1> HIDE DEF listed
<1>5. CASE Untracked(listed) = {}
  <2>1. RowsApart' /\ RowsOfSteps' /\ LateMakers' /\ Claims \ {n} \subseteq Claims'
    BY <1>1, <1>5, FoundNothing
  <2>2. Cardinality(Orphans) <= Cardinality(Claims \ {n})
    BY <1>3, <1>4, <1>5, MakersClaim
  <2>3. IsFiniteSet(Orphans) /\ IsFiniteSet(Claims')
    BY PageFacts, FS_Subset DEF CreateInv, Claims
  <2> QED BY <1>2, <2>1, <2>2, <2>3, CountSame DEF EnoughClaims
<1>6. CASE Untracked(listed) # {}
  <2>1. Orphans \ cand'[n] = Orphans \ cand[n]
    BY <1>2, <1>3
  <2>2. MadeSince(n)'
    <3>1. \A p \in Orphans \ cand[n] :
            /\ pages[p].by # n /\ Searching(pages[p].by) /\ pages[p].by \in Notes \ {n}
            /\ at[pages[p].by] \in {"failed", "map"}
            /\ at[pages[p].by] = "map" => cand[pages[p].by] = {p}
      BY <1>4 DEF MadeSince, Orphans, Made
    <3>2. \A m \in Notes \ {n} : Searching(m)' <=> Searching(m)
      BY <1>1, <1>2 DEF Searching, Recorded
    <3>3. \A p, q \in Orphans \ cand[n] : pages[p].by = pages[q].by => p = q
      BY <1>4 DEF MadeSince
    <3> QED BY <1>1, <1>2, <2>1, <3>1, <3>2, <3>3 DEF MadeSince
  <2> QED BY <1>1, <1>2, <1>6, <2>2, QuietWork
<1> QED BY <1>5, <1>6

(* The page is the note's, unless another row came first. *)
LEMMA AdoptStep ==
    ASSUME CreateInv, NEW n \in Notes, Adopt(n)
    PROVE  RowsApart' /\ RowsOfSteps' /\ LateMakers' /\ EnoughClaims'
<1> USE DEF CreateInv
<1> DEFINE p == Min(cand[n])
<1>1. /\ phase = "pool" /\ at[n] = "getPage" /\ UNCHANGED <<copies, phase, ops>> /\ RowOfStep(n)
      /\ \A to : Goes(n, to) => (\A m \in Notes \ {n} : at'[m] = at[m]) /\ at'[n] = to
  BY WorkFacts DEF Adopt
<1>2. /\ p \in Live /\ NamePage(n, p, "adopted", "adopted") /\ UNCHANGED <<pages, op>>
      /\ cand' = [cand EXCEPT ![n] = {}]
  BY DEF Adopt
<1> HIDE DEF p
<1>3. p \in DOMAIN pages /\ ~Recorded(n) /\ Searching(n)
  BY <1>1, <1>2, PageFacts DEF RowOfStep, Searching
<1>4. \A m \in Notes \ {n} : cand'[m] = cand[m] /\ at'[m] = at[m]
  BY <1>1, <1>2 DEF TypeOK, NamePage
<1>5. CASE p \in Tracked
  <2>1. at'[n] = "failed" /\ row' = row
    BY <1>1, <1>2, <1>5 DEF NamePage
  <2>2. RowOfStep(n)'
    BY <1>1, <1>2, <1>3, <2>1 DEF RowOfStep, Recorded
  <2>3. Searching(n) => op'[n] /\ at'[n] # "create"
    BY <1>2, <2>1 DEF Searching
  <2> HIDE DEF CreateInv
  <2> QED BY <1>1, <1>2, <1>4, <2>1, <2>2, <2>3, QuietWork
<1>6. CASE p \notin Tracked
  <2>1. at'[n] = "adopted" /\ row' = [row EXCEPT ![n] = [state |-> "adopted", page |-> p]]
    BY <1>1, <1>2, <1>6 DEF NamePage
  <2>2. /\ \A m \in Notes \ {n} : row'[m] = row[m]
        /\ row'[n].page = p /\ row'[n].state = "adopted"
    BY <2>1 DEF TypeOK
  <2>3. RowsApart' /\ EnoughClaims' /\ Orphans' = Orphans \ {p} /\ Recorded(n)'
    <3>1. \A m \in Notes \ {n} : Searching(m) => op'[m] /\ at'[m] # "create"
      BY <1>2, <1>4 DEF Searching
    <3> QED BY <1>1, <1>2, <1>3, <1>6, <2>2, <3>1, TakesPage
  <2>4. RowOfStep(n)'
    BY <1>1, <2>1, <2>2, <2>3 DEF RowOfStep
  <2>5. RowsOfSteps'
    BY <1>1, <1>2, <1>4, <2>2, <2>4, OthersRows
  <2>6. LateMakers'
    BY <1>1, <1>2, <1>4, <2>1, <2>2, <2>3, OthersMissed
  <2> QED BY <2>3, <2>5, <2>6
<1> QED BY <1>5, <1>6

(* The entry goes when the note has its page. *)
LEMMA CompleteOpStep ==
    ASSUME CreateInv, NEW n \in Notes, CompleteOp(n)
    PROVE  RowsApart' /\ RowsOfSteps' /\ LateMakers' /\ EnoughClaims'
<1>1. PICK from \in {"adopted", "finished"}, to \in {"update", "done"} : Works(n, from) /\ Goes(n, to)
  BY DEF CompleteOp
<1>2. /\ phase = "pool" /\ at[n] = from /\ UNCHANGED <<copies, phase, ops>> /\ RowOfStep(n)
      /\ (\A m \in Notes \ {n} : at'[m] = at[m]) /\ at'[n] = to
  BY <1>1, WorkFacts
<1>3. UNCHANGED <<pages, row, cand>> /\ op' = [op EXCEPT ![n] = FALSE]
  BY DEF CompleteOp
<1>4. ~op'[n] /\ \A m \in Notes \ {n} : op'[m] = op[m]
  BY <1>3 DEF CreateInv, TypeOK
<1>5. Recorded(n)
  BY <1>2 DEF RowOfStep
<1>6. RowOfStep(n)'
  BY <1>2, <1>3, <1>4, <1>5 DEF RowOfStep, Recorded
<1>7. Searching(n) => op'[n] /\ at'[n] # "create"
  BY <1>5 DEF Searching
<1> QED BY <1>2, <1>3, <1>4, <1>6, <1>7, QuietWork

(* The page that is made belongs to nobody yet, and its maker will look for it. *)
LEMMA CreatePageStep ==
    ASSUME CreateInv, NEW n \in Notes, CreatePage(n)
    PROVE  RowsApart' /\ RowsOfSteps' /\ LateMakers' /\ EnoughClaims'
<1> USE DEF CreateInv
<1> DEFINE new == Len(pages')
<1>1. /\ phase = "pool" /\ at[n] = "create" /\ UNCHANGED <<copies, phase, ops>> /\ RowOfStep(n)
      /\ \A to : Goes(n, to) => (\A m \in Notes \ {n} : at'[m] = at[m]) /\ at'[n] = to
  BY WorkFacts DEF CreatePage
<1>2. UNCHANGED <<row, op>>
  BY DEF CreatePage
<1>3. PICK whole \in BOOLEAN :
         pages' = Append(pages, [by |-> n, text |-> n, whole |-> whole, live |-> TRUE])
  BY DEF CreatePage
<1>4. /\ DOMAIN pages' = DOMAIN pages \cup {new} /\ new \notin DOMAIN pages /\ new # 0
      /\ \A p \in DOMAIN pages : pages'[p] = pages[p]
      /\ pages'[new].by = n
  <2>1. [by |-> n, text |-> n, whole |-> whole, live |-> TRUE] \in PageType
    BY DEF PageType
  <2> QED BY <1>3, <2>1, AppendFacts
<1>5. /\ \A m \in Notes \ {n} : at'[m] = at[m] /\ cand'[m] = cand[m]
      /\ at'[n] \in {"failed", "map"}
      /\ at'[n] = "map" => cand'[n] = {new}
  <2>1. \/ Goes(n, "map") /\ cand' = [cand EXCEPT ![n] = {new}]
        \/ Goes(n, "failed") /\ cand' = [cand EXCEPT ![n] = {}]
    BY DEF CreatePage
  <2>2. CASE Goes(n, "map") /\ cand' = [cand EXCEPT ![n] = {new}]
    BY <1>1, <2>2 DEF TypeOK
  <2>3. CASE Goes(n, "failed") /\ cand' = [cand EXCEPT ![n] = {}]
    BY <1>1, <2>3 DEF TypeOK
  <2> QED BY <2>1, <2>2, <2>3
<1> HIDE DEF new
<1>6. ~Recorded(n) /\ op[n] /\ ~Searching(n) /\ n \notin Claims
  BY <1>1 DEF RowOfStep, Searching, Claims
<1>7. \A m \in Notes : (Recorded(m)' <=> Recorded(m)) /\ (Searching(m) => Searching(m)')
  BY <1>2, <1>5, <1>6 DEF Searching, Recorded
<1>8. Searching(n)'
  BY <1>2, <1>5, <1>6 DEF Searching, Recorded
<1>9. Made' \subseteq Made \cup {new} /\ Tracked' = Tracked
  BY <1>1, <1>2, <1>4 DEF Made, Live, Tracked
<1>10. Orphans' \subseteq Orphans \cup {new}
  BY <1>9 DEF Orphans
<1>11. EnoughClaims'
  <2>1. \A m \in Notes : Recorded(m) => row[m].page # new
    BY <1>4, FieldTypes
  <2>2. Claims \cup {n} \subseteq Claims'
    BY <1>2, <1>6, <1>7, <1>8, <1>9, <2>1 DEF Claims
  <2>3. IsFiniteSet(Claims')
    BY PageFacts, FS_Subset DEF Claims
  <2> QED BY <1>6, <1>10, <2>2, <2>3, PageFacts, CountMore DEF EnoughClaims
<1>12. RowsApart'
  BY <1>1, <1>2, <1>7 DEF RowsApart, Recorded
<1>13. RowsOfSteps'
  <2>1. \A m \in Notes : Recorded(m) => pages'[row[m].page] = pages[row[m].page]
    BY <1>4, FieldTypes
  <2>2. RowOfStep(n)'
    BY <1>1, <1>2, <1>5, <1>6, <1>7, <2>1 DEF RowOfStep
  <2> QED BY <1>1, <1>2, <1>5, <2>1, <2>2, OthersRows
<1>14. ASSUME NEW m \in Notes, at'[m] = "getPage" PROVE MadeSince(m)'
  <2>1. m # n /\ at[m] = "getPage" /\ cand'[m] = cand[m] /\ MadeSince(m)
    BY <1>5, <1>14 DEF LateMakers
  <2>2. Orphans' \ cand'[m] \subseteq (Orphans \ cand[m]) \cup {new}
    BY <1>10, <2>1
  <2>3. ASSUME NEW p \in Orphans \ cand[m]
        PROVE  /\ pages'[p].by = pages[p].by /\ pages[p].by \in Notes \ {m, n}
               /\ Searching(pages[p].by)' /\ at'[pages[p].by] \in {"failed", "map"}
               /\ at'[pages[p].by] = "map" => cand'[pages[p].by] = {p}
    <3>1. pages[p].by \in Notes /\ pages'[p].by = pages[p].by
      BY <1>4, PageFacts DEF Orphans, Made
    <3>2. /\ pages[p].by # m /\ Searching(pages[p].by) /\ at[pages[p].by] \in {"failed", "map"}
          /\ at[pages[p].by] = "map" => cand[pages[p].by] = {p}
      BY <2>1 DEF MadeSince
    <3>3. pages[p].by # n
      BY <1>1, <3>2
    <3> QED BY <1>5, <1>7, <3>1, <3>2, <3>3
  <2>4. \A p, q \in Orphans \ cand[m] : pages[p].by = pages[q].by => p = q
    BY <2>1 DEF MadeSince
  <2>5. \A p \in Orphans' \ cand'[m] :
          /\ pages'[p].by # m /\ Searching(pages[p].by)'
          /\ at'[pages'[p].by] \in {"failed", "map"}
          /\ at'[pages'[p].by] = "map" => cand'[pages'[p].by] = {p}
    <3> SUFFICES ASSUME NEW p \in Orphans' \ cand'[m]
                 PROVE  /\ pages'[p].by # m /\ Searching(pages[p].by)'
                        /\ at'[pages'[p].by] \in {"failed", "map"}
                        /\ at'[pages'[p].by] = "map" => cand'[pages'[p].by] = {p}
      OBVIOUS
    <3>1. CASE p = new
      BY <1>4, <1>5, <1>8, <2>1, <3>1
    <3>2. CASE p \in Orphans \ cand[m]
      BY <2>3, <3>2
    <3> QED BY <2>2, <3>1, <3>2
  <2>6. ASSUME NEW p \in Orphans' \ cand'[m], NEW q \in Orphans' \ cand'[m],
               pages'[p].by = pages'[q].by
        PROVE  p = q
    <3>1. \A r \in Orphans \ cand[m] : pages'[r].by = pages[r].by /\ pages'[r].by # n
      BY <2>3
    <3>2. CASE p = new \/ q = new
      BY <1>4, <2>2, <2>6, <3>1, <3>2
    <3>3. CASE p # new /\ q # new
      BY <2>2, <2>4, <2>6, <3>1, <3>3
    <3> QED BY <3>2, <3>3
  <2> QED BY <2>5, <2>6 DEF MadeSince
<1> QED BY <1>11, <1>12, <1>13, <1>14 DEF LateMakers

(* The page the note made is its own, unless another has adopted it: then it searches again. *)
LEMMA MapPageStep ==
    ASSUME CreateInv, NEW n \in Notes, MapPage(n)
    PROVE  RowsApart' /\ RowsOfSteps' /\ LateMakers' /\ EnoughClaims'
<1> USE DEF CreateInv
<1> DEFINE p == Min(cand[n])
<1>1. /\ phase = "pool" /\ at[n] = "map" /\ UNCHANGED <<copies, phase, ops>> /\ RowOfStep(n)
      /\ \A to : Goes(n, to) => (\A m \in Notes \ {n} : at'[m] = at[m]) /\ at'[n] = to
  BY WorkFacts DEF MapPage
<1>2. /\ NamePage(n, p, "mapped", "finish") /\ UNCHANGED <<pages, op>>
      /\ cand' = [cand EXCEPT ![n] = {}]
  BY DEF MapPage
<1>3. p \in cand[n] /\ p \in DOMAIN pages /\ ~Recorded(n) /\ Searching(n)
  BY <1>1, FieldTypes DEF RowOfStep, Searching
<1> HIDE DEF p
<1>4. \A m \in Notes \ {n} : cand'[m] = cand[m] /\ at'[m] = at[m]
  BY <1>1, <1>2 DEF TypeOK, NamePage
<1>5. CASE p \in Tracked
  <2>1. at'[n] = "failed" /\ row' = row
    BY <1>1, <1>2, <1>5 DEF NamePage
  <2>2. RowOfStep(n)'
    BY <1>1, <1>2, <1>3, <2>1 DEF RowOfStep, Recorded
  <2>3. \A m \in Notes : Searching(m) <=> Searching(m)'
    BY <1>2, <1>3, <1>4, <2>1 DEF Searching, Recorded
  <2>4. RowsApart' /\ EnoughClaims' /\ Orphans' = Orphans
    <3>1. \A m \in Notes : Searching(m) => op'[m] /\ at'[m] # "create"
      BY <2>3 DEF Searching
    <3> QED BY <1>1, <1>2, <2>1, <3>1, QuietStep
  <2>5. RowsOfSteps'
    BY <1>1, <1>2, <1>4, <2>1, <2>2, OthersRows
  <2>6. ASSUME NEW m \in Notes, at'[m] = "getPage" PROVE MadeSince(m)'
    <3>1. m # n /\ MadeSince(m) /\ cand'[m] = cand[m]
      BY <1>4, <2>1, <2>6 DEF LateMakers
    <3>2. ASSUME NEW q \in Orphans \ cand[m]
          PROVE  /\ pages[q].by # m /\ Searching(pages[q].by)'
                 /\ at'[pages[q].by] \in {"failed", "map"}
                 /\ at'[pages[q].by] = "map" => cand'[pages[q].by] = {q}
      <4>1. /\ pages[q].by # m /\ Searching(pages[q].by) /\ at[pages[q].by] \in {"failed", "map"}
            /\ at[pages[q].by] = "map" => cand[pages[q].by] = {q}
        BY <3>1 DEF MadeSince
      <4>2. pages[q].by \in Notes /\ pages' = pages
        BY <1>2 DEF Orphans, Made
      <4>3. Searching(pages[q].by)'
        BY <2>3, <4>1, <4>2
      <4> QED BY <1>4, <2>1, <4>1, <4>2, <4>3
    <3>3. \A q, r \in Orphans \ cand[m] : pages[q].by = pages[r].by => q = r
      BY <3>1 DEF MadeSince
    <3> QED BY <1>2, <2>4, <3>1, <3>2, <3>3 DEF MadeSince
  <2> QED BY <2>4, <2>5, <2>6 DEF LateMakers
<1>6. CASE p \notin Tracked
  <2>1. at'[n] = "finish" /\ row' = [row EXCEPT ![n] = [state |-> "mapped", page |-> p]]
    BY <1>1, <1>2, <1>6 DEF NamePage
  <2>2. /\ \A m \in Notes \ {n} : row'[m] = row[m]
        /\ row'[n].page = p /\ row'[n].state = "mapped"
    BY <2>1 DEF TypeOK
  <2>3. RowsApart' /\ EnoughClaims' /\ Orphans' = Orphans \ {p} /\ Recorded(n)'
    <3>1. \A m \in Notes \ {n} : Searching(m) => op'[m] /\ at'[m] # "create"
      BY <1>2, <1>4 DEF Searching
    <3> QED BY <1>1, <1>2, <1>3, <1>6, <2>2, <3>1, TakesPage
  <2>4. RowOfStep(n)'
    BY <1>1, <2>1, <2>2, <2>3 DEF RowOfStep
  <2>5. RowsOfSteps'
    BY <1>1, <1>2, <1>4, <2>2, <2>4, OthersRows
  <2>6. ASSUME NEW m \in Notes, at'[m] = "getPage" PROVE MadeSince(m)'
    <3>1. m # n /\ MadeSince(m) /\ cand'[m] = cand[m]
      BY <1>4, <2>1, <2>6 DEF LateMakers
    <3>2. ASSUME NEW q \in Orphans' \ cand[m]
          PROVE  /\ pages[q].by # m /\ Searching(pages[q].by)'
                 /\ at'[pages[q].by] \in {"failed", "map"}
                 /\ at'[pages[q].by] = "map" => cand'[pages[q].by] = {q}
      <4>1. /\ pages[q].by # m /\ Searching(pages[q].by) /\ at[pages[q].by] \in {"failed", "map"}
            /\ at[pages[q].by] = "map" => cand[pages[q].by] = {q}
        BY <2>3, <3>1 DEF MadeSince
      <4>2. pages[q].by \in Notes /\ pages' = pages /\ q # p
        BY <1>2, <2>3 DEF Orphans, Made
      <4>3. pages[q].by # n
        BY <1>1, <1>3, <4>1, <4>2
      <4>4. Searching(pages[q].by)'
        BY <1>2, <1>4, <2>2, <4>1, <4>2, <4>3 DEF Searching, Recorded
      <4> QED BY <1>4, <4>1, <4>2, <4>3, <4>4
    <3>3. \A q, r \in Orphans' \ cand[m] : pages[q].by = pages[r].by => q = r
      BY <2>3, <3>1 DEF MadeSince
    <3> QED BY <1>2, <3>1, <3>2, <3>3 DEF MadeSince
  <2> QED BY <2>3, <2>5, <2>6 DEF LateMakers
<1> QED BY <1>5, <1>6

(* A worker that writes its page writes no other. *)
LEMMA WritesOwn ==
    ASSUME CreateInv, NEW n \in Notes, Recorded(n),
           \/ pages' = [pages EXCEPT ![row[n].page].text = n, ![row[n].page].whole = TRUE]
           \/ pages' = [pages EXCEPT ![row[n].page].text = n]
    PROVE  /\ DOMAIN pages' = DOMAIN pages /\ row[n].page \in DOMAIN pages
           /\ pages'[row[n].page].text = n
           /\ \A p \in DOMAIN pages : /\ pages'[p].by = pages[p].by /\ pages'[p].live = pages[p].live
                                      /\ p # row[n].page => pages'[p].text = pages[p].text
<1> USE DEF CreateInv
<1> DEFINE p == row[n].page
           written == [pages[p] EXCEPT !.text = n]
           filled == [written EXCEPT !.whole = TRUE]
<1>1. p \in DOMAIN pages /\ pages[p] \in PageType
  BY FieldTypes, PageFacts
<1>2. /\ written.by = pages[p].by /\ written.live = pages[p].live /\ written.text = n
      /\ filled.by = pages[p].by /\ filled.live = pages[p].live /\ filled.text = n
  BY <1>1 DEF PageType
<1>3. written \in PageType /\ filled \in PageType
  BY <1>1, PageChanges
<1>4. PICK q \in {written, filled} : pages' = [pages EXCEPT ![p] = q]
  <2>1. CASE pages' = [pages EXCEPT ![p].text = n, ![p].whole = TRUE]
    <3>1. pages' = [pages EXCEPT ![p] = filled]
      BY <1>1, <2>1, PageFacts
    <3> QED BY <3>1
  <2>2. CASE pages' = [pages EXCEPT ![p].text = n]
    <3>1. pages' = [pages EXCEPT ![p] = written]
      BY <2>2
    <3> QED BY <3>1
  <2> QED BY <2>1, <2>2
<1>5. q \in PageType /\ q.by = pages[p].by /\ q.live = pages[p].live /\ q.text = n
  BY <1>2, <1>3
<1> HIDE DEF p, written, filled
<1>6. /\ DOMAIN pages' = DOMAIN pages
      /\ \A r \in DOMAIN pages : pages'[r] = IF r = p THEN q ELSE pages[r]
  BY <1>1, <1>4, <1>5, ChangeFacts
<1> QED BY <1>1, <1>5, <1>6 DEF p

(* The body is written to the note's own page. *)
LEMMA SettlesStep ==
    ASSUME CreateInv, NEW n \in Notes, NEW from \in {"finish", "update"}, NEW next \in {"finished", "done"},
           Works(n, from), Recorded(n), Settles(n, next)
    PROVE  RowsApart' /\ RowsOfSteps' /\ LateMakers' /\ EnoughClaims'
<1>1. /\ phase = "pool" /\ at[n] = from /\ UNCHANGED <<copies, phase, ops>> /\ RowOfStep(n)
      /\ \A to : Goes(n, to) => (\A m \in Notes \ {n} : at'[m] = at[m]) /\ at'[n] = to
  BY WorkFacts
<1>2. /\ pages' = [pages EXCEPT ![row[n].page].text = n, ![row[n].page].whole = TRUE]
      /\ row' = [row EXCEPT ![n].state = "synced"] /\ UNCHANGED <<op, cand>>
      /\ at'[n] = next /\ \A m \in Notes \ {n} : at'[m] = at[m]
  BY <1>1 DEF Settles
<1>3. /\ \A m \in Notes \ {n} : row'[m] = row[m]
      /\ row'[n].page = row[n].page /\ row'[n].state = "synced"
  <2>1. row[n] \in [state : {"none", "placeholder", "synced", "conflict"} \cup Unsettled,
                    page : {0} \cup DOMAIN pages]
    BY DEF CreateInv, TypeOK
  <2>2. row'[n] = [row[n] EXCEPT !.state = "synced"] /\ \A m \in Notes \ {n} : row'[m] = row[m]
    BY <1>2 DEF CreateInv, TypeOK
  <2> QED BY <2>1, <2>2
<1>4. /\ DOMAIN pages' = DOMAIN pages /\ pages'[row[n].page].text = n
      /\ \A p \in DOMAIN pages : /\ pages'[p].by = pages[p].by /\ pages'[p].live = pages[p].live
                                 /\ p # row[n].page => pages'[p].text = pages[p].text
  BY <1>2, WritesOwn
<1>5. RowOfStep(n)'
  BY <1>1, <1>2, <1>3, <1>4 DEF RowOfStep, Recorded
<1>6. Searching(n) => op'[n] /\ at'[n] # "create"
  BY DEF Searching
<1> QED BY <1>1, <1>2, <1>3, <1>4, <1>5, <1>6, QuietWork

(* An update writes the note's own page, if there is one. *)
LEMMA UpdatePageStep ==
    ASSUME CreateInv, NEW n \in Notes, UpdatePage(n)
    PROVE  RowsApart' /\ RowsOfSteps' /\ LateMakers' /\ EnoughClaims'
<1>1. CASE Recorded(n)
  BY <1>1, SettlesStep DEF UpdatePage, Recorded
<1>2. CASE ~Recorded(n)
  <2>1. /\ phase = "pool" /\ at[n] = "update" /\ UNCHANGED <<copies, phase, ops>> /\ RowOfStep(n)
        /\ \A to : Goes(n, to) => (\A m \in Notes \ {n} : at'[m] = at[m]) /\ at'[n] = to
    BY WorkFacts DEF UpdatePage
  <2>2. UNCHANGED <<pages, row, op, cand>> /\ at'[n] = "done" /\ \A m \in Notes \ {n} : at'[m] = at[m]
    BY <1>2, <2>1 DEF UpdatePage, Recorded
  <2>3. RowOfStep(n)'
    BY <2>1, <2>2 DEF RowOfStep, Recorded
  <2>4. Searching(n) => op'[n] /\ at'[n] # "create"
    BY <2>2 DEF Searching
  <2> QED BY <2>1, <2>2, <2>3, <2>4, QuietWork
<1> QED BY <1>1, <1>2

(* A lost update may have written the note's own page. *)
LEMMA UpdateLostStep ==
    ASSUME CreateInv, NEW n \in Notes, UpdateLost(n)
    PROVE  RowsApart' /\ RowsOfSteps' /\ LateMakers' /\ EnoughClaims'
<1>1. /\ phase = "pool" /\ at[n] = "update" /\ UNCHANGED <<copies, phase, ops>> /\ RowOfStep(n)
      /\ \A to : Goes(n, to) => (\A m \in Notes \ {n} : at'[m] = at[m]) /\ at'[n] = to
  BY WorkFacts DEF UpdateLost
<1>2. /\ Recorded(n) /\ UNCHANGED <<row, op, cand>>
      /\ pages' = [pages EXCEPT ![row[n].page].text = n]
      /\ at'[n] = "failed" /\ \A m \in Notes \ {n} : at'[m] = at[m]
  BY <1>1 DEF UpdateLost, Recorded
<1>3. /\ DOMAIN pages' = DOMAIN pages /\ pages'[row[n].page].text = n
      /\ \A p \in DOMAIN pages : /\ pages'[p].by = pages[p].by /\ pages'[p].live = pages[p].live
                                 /\ p # row[n].page => pages'[p].text = pages[p].text
  BY <1>2, WritesOwn
<1>4. RowOfStep(n)'
  BY <1>1, <1>2, <1>3 DEF RowOfStep, Recorded
<1>5. Searching(n) => op'[n] /\ at'[n] # "create"
  BY <1>2 DEF Searching
<1> QED BY <1>1, <1>2, <1>3, <1>4, <1>5, QuietWork

(* A worker whose request fails keeps its claim. *)
LEMMA RequestFailsStep ==
    ASSUME CreateInv, NEW n \in Notes, RequestFails(n)
    PROVE  RowsApart' /\ RowsOfSteps' /\ LateMakers' /\ EnoughClaims'
<1>1. PICK from \in {"list", "getPage", "create", "finish", "update"} : Works(n, from)
  BY DEF RequestFails
<1>2. /\ phase = "pool" /\ at[n] = from /\ UNCHANGED <<copies, phase, ops>> /\ RowOfStep(n)
      /\ \A to : Goes(n, to) => (\A m \in Notes \ {n} : at'[m] = at[m]) /\ at'[n] = to
  BY <1>1, WorkFacts
<1>3. /\ UNCHANGED <<pages, row, op, cand>>
      /\ at'[n] = "failed" /\ \A m \in Notes \ {n} : at'[m] = at[m]
  BY <1>2 DEF RequestFails
<1>4. RowOfStep(n)'
  BY <1>2, <1>3 DEF RowOfStep, Recorded
<1>5. Searching(n) => op'[n] /\ at'[n] # "create"
  BY <1>3 DEF Searching
<1> QED BY <1>2, <1>3, <1>4, <1>5, QuietWork
--------------------------------------------------------------------------------
(* The invariant. *)

LEMMA CreateInit == Init => CreateInv
<1> SUFFICES ASSUME Init PROVE CreateInv
  OBVIOUS
<1>1. pages = <<>> /\ DOMAIN pages = {} /\ pages \in Seq(PageType)
  BY DEF Init
<1>2. \A n \in Notes : row[n].state = "none" /\ row[n].page = 0 /\ ~op[n] /\ at[n] = "off" /\ cand[n] = {}
  BY DEF Init, NoRow
<1>3. TypeOK
  <2>1. row \in [Notes -> [state : {"none", "placeholder", "synced", "conflict"} \cup Unsettled,
                           page : {0} \cup DOMAIN pages]]
    BY DEF Init, NoRow
  <2>2. trouble \in 0..MaxTrouble
    BY CreateAssumption DEF Init
  <2>3. /\ op \in [Notes -> BOOLEAN] /\ copies \subseteq DOMAIN pages
        /\ phase \in {"idle", "pull", "recover", "pool"}
        /\ pulling \subseteq DOMAIN pages /\ ops \subseteq Notes
        /\ at \in [Notes -> Steps] /\ cand \in [Notes -> SUBSET DOMAIN pages] /\ retry \in BOOLEAN
    BY DEF Init, Steps
  <2> QED BY <1>1, <2>1, <2>2, <2>3 DEF TypeOK, PageType
<1>4. RowsApart /\ LateMakers
  BY <1>2 DEF RowsApart, LateMakers, Recorded
<1>5. RowsOfSteps
  BY <1>2 DEF RowsOfSteps, RowOfStep, Recorded, Init
<1>6. EnoughClaims
  <2>1. Orphans = {}
    BY <1>1 DEF Orphans, Made, Live
  <2> QED BY <1>3, <2>1, PageFacts, FS_EmptySet DEF EnoughClaims
<1> QED BY <1>3, <1>4, <1>5, <1>6 DEF CreateInv

(* Every step keeps the invariant. *)
LEMMA CreateStep == CreateInv /\ [Next]_vars => CreateInv'
<1> SUFFICES ASSUME CreateInv, [Next]_vars
             PROVE  RowsApart' /\ RowsOfSteps' /\ LateMakers' /\ EnoughClaims'
  BY TypeStep DEF CreateInv
<1>1. CASE HumanCreate \/ HumanTrash
  BY <1>1, HumanCreateStep, HumanTrashStep
<1>2. CASE StartPull \/ StartPush \/ PullDone \/ Crash \/ StartPool \/ PoolDone
  BY <1>2, RunSteps
<1>3. ASSUME NEW p \in pulling, PullRelink(p) \/ PullCopy(p) \/ PullUnsettled(p) \/ PullUnchanged(p)
      PROVE  RowsApart' /\ RowsOfSteps' /\ LateMakers' /\ EnoughClaims'
  BY <1>3, PullRelinkStep, PullCopyStep, PullUnsettledStep, PullUnchangedStep
<1>4. ASSUME NEW n \in ops,
             RecoverMapped(n) \/ RecoverAdopt(n) \/ RecoverNothing(n) \/ RecoverUnreadable(n)
      PROVE  RowsApart' /\ RowsOfSteps' /\ LateMakers' /\ EnoughClaims'
  BY <1>4, RecoverMappedStep, RecoverAdoptStep, RecoverNothingStep, RecoverUnreadableStep
<1>5. ASSUME NEW n \in Notes, FinishPage(n)
      PROVE  RowsApart' /\ RowsOfSteps' /\ LateMakers' /\ EnoughClaims'
  <2>1. Works(n, "finish") /\ Settles(n, "finished")
    BY <1>5 DEF FinishPage
  <2>2. Recorded(n)
    BY <2>1, WorkFacts DEF RowOfStep
  <2> QED BY <2>1, <2>2, SettlesStep
<1>6. ASSUME NEW n \in Notes, Work(n)
      PROVE  RowsApart' /\ RowsOfSteps' /\ LateMakers' /\ EnoughClaims'
  BY <1>5, <1>6, BeginCreateStep, ListChildrenStep, GetTrashedStep, AdoptStep, CompleteOpStep,
     CreatePageStep, MapPageStep, UpdatePageStep, UpdateLostStep, RequestFailsStep DEF Work
<1>7. CASE UNCHANGED vars
  <2>1. UNCHANGED <<pages, row, op, copies, phase, ops, at, cand>>
    BY <1>7 DEF vars
  <2>2. RowsApart' /\ EnoughClaims'
    BY <2>1 DEF CreateInv, RowsApart, EnoughClaims, Orphans, Claims, Made, Live, Tracked, Searching,
                Recorded
  <2>3. RowsOfSteps' /\ LateMakers'
    BY <2>1 DEF CreateInv, RowsOfSteps, RowOfStep, LateMakers, MadeSince, Orphans, Made, Live, Tracked,
                Searching, Recorded
  <2> QED BY <2>2, <2>3
<1> QED BY <1>1, <1>2, <1>3, <1>4, <1>6, <1>7 DEF Next, Pull, Push, Recover

(* A synced note and its page (rows, and what their states say). *)
LEMMA SyncedPages == CreateInv => SyncedPageHoldsNote
<1> SUFFICES ASSUME CreateInv, NEW n \in Notes, row[n].state = "synced"
             PROVE  /\ pages[row[n].page].text = n
                    /\ row[n].page \notin copies
                    /\ \A m \in Notes \ {n} : row[m].page # row[n].page
  BY DEF SyncedPageHoldsNote
<1>1. RowOfStep(n) /\ Recorded(n)
  BY DEF CreateInv, RowsOfSteps, RowOfStep
<1> QED BY <1>1 DEF CreateInv, RowsApart, RowOfStep

(* Pages the tool made are those that some row names and those nobody knows of, and *)
(* the notes that name one of the first have no claim on the second.                *)
LEMMA NotesSuffice == CreateInv => PushMakesNoDuplicates
<1> SUFFICES ASSUME CreateInv PROVE PushMakesNoDuplicates
  OBVIOUS
<1> DEFINE Owners == {n \in Notes : row[n].page \in Made}
           Owned == {row[n].page : n \in Owners}
<1>1. /\ IsFiniteSet(Notes) /\ IsFiniteSet(Owners) /\ IsFiniteSet(Claims) /\ IsFiniteSet(Orphans)
      /\ TypeOK /\ EnoughClaims
  BY PageFacts, FS_Subset DEF CreateInv
<1>2. Owners \cap Claims = {}
  <2>1. 0 \notin Made
    BY <1>1, PageFacts
  <2> QED BY <2>1 DEF Claims, Recorded
<1>3. Made \ copies \subseteq Orphans \cup Owned
  BY DEF Orphans, Tracked
<1>4. IsFiniteSet(Owned) /\ Cardinality(Owned) <= Cardinality(Owners)
  <2> DEFINE named == [n \in Owners |-> row[n].page]
  <2>1. named \in Surjection(Owners, Owned)
    BY DEF Surjection
  <2> HIDE DEF named, Owners, Owned
  <2> QED BY <1>1, <2>1, FS_Surjection
<1>5. /\ IsFiniteSet(Owners \cup Claims)
      /\ Cardinality(Owners \cup Claims) = Cardinality(Owners) + Cardinality(Claims)
  <2> HIDE DEF Owners
  <2>1. Cardinality(Owners \cap Claims) = 0
    BY <1>2, FS_EmptySet
  <2>2. IsFiniteSet(Owners) /\ IsFiniteSet(Claims)
    BY <1>1
  <2>3. /\ IsFiniteSet(Owners \cup Claims)
        /\ Cardinality(Owners \cup Claims)
             = Cardinality(Owners) + Cardinality(Claims) - Cardinality(Owners \cap Claims)
    BY ONLY <2>2, FS_Union
  <2>4. Cardinality(Owners) \in Nat /\ Cardinality(Claims) \in Nat
    BY ONLY <2>2, FS_CardinalityType
  <2> QED BY ONLY <2>1, <2>3, <2>4
<1>6. Cardinality(Owners \cup Claims) <= Cardinality(Notes)
  BY <1>1, FS_Subset DEF Claims
<1> HIDE DEF Owners, Owned
<1>7. /\ IsFiniteSet(Orphans \cup Owned)
      /\ Cardinality(Orphans \cup Owned) <= Cardinality(Orphans) + Cardinality(Owned)
  <2>1. IsFiniteSet(Orphans) /\ IsFiniteSet(Owned)
    BY <1>1, <1>4
  <2>2. /\ IsFiniteSet(Orphans \cup Owned)
        /\ Cardinality(Orphans \cup Owned)
             = Cardinality(Orphans) + Cardinality(Owned) - Cardinality(Orphans \cap Owned)
    BY ONLY <2>1, FS_Union
  <2>3. IsFiniteSet(Orphans \cap Owned)
    BY ONLY <2>1, FS_Intersection
  <2>4. /\ Cardinality(Orphans) \in Nat /\ Cardinality(Owned) \in Nat
        /\ Cardinality(Orphans \cap Owned) \in Nat
    BY ONLY <2>1, <2>3, FS_CardinalityType
  <2> QED BY ONLY <2>2, <2>4
<1>8. Cardinality(Made \ copies) <= Cardinality(Orphans \cup Owned)
  BY <1>3, <1>7, FS_Subset
<1>9. /\ IsFiniteSet(Made \ copies)
  BY <1>3, <1>7, FS_Subset
<1>10. /\ Cardinality(Made \ copies) \in Nat /\ Cardinality(Orphans \cup Owned) \in Nat
       /\ Cardinality(Orphans) \in Nat /\ Cardinality(Owned) \in Nat /\ Cardinality(Owners) \in Nat
       /\ Cardinality(Claims) \in Nat /\ Cardinality(Notes) \in Nat
  BY <1>1, <1>4, <1>7, <1>9, FS_CardinalityType
<1> QED BY <1>1, <1>4, <1>5, <1>6, <1>7, <1>8, <1>10 DEF PushMakesNoDuplicates, EnoughClaims

(* The invariant holds whatever pulls, pushes, crashes and people do. *)
THEOREM CreateInvariant == Spec => []CreateInv
BY CreateInit, CreateStep, PTL DEF Spec

(* Rows, entries and workers have their types (sync_state, pending_operations, the pool). *)
THEOREM CreateTypesCorrect == Spec => []TypeOK
<1>1. CreateInv => TypeOK
  BY DEF CreateInv
<1> QED BY <1>1, CreateInvariant, PTL

(* Whatever answers are lost and wherever a run dies, pushes never make more pages than   *)
(* there are notes (pending_operations, InterruptedSyncRecovery, PagePusher.pushCreate).  *)
THEOREM NoDuplicatesByPushes == Spec => []PushMakesNoDuplicates
BY CreateInvariant, NotesSuffice, PTL

(* A note that counts as synced has a page of its own, and that page holds the note *)
(* (upsertSyncState, notion_page_id UNIQUE).                                        *)
THEOREM SyncedPagesHoldNotes == Spec => []SyncedPageHoldsNote
BY CreateInvariant, SyncedPages, PTL
================================================================================
