--------------------------- MODULE RowColumnsProofs ---------------------------
(***************************************************************************)
(* No value of a row is lost but for the causes of NoValueLost, and a pull *)
(* that nothing disturbed leaves every note showing its row (PullShowsRow):*)
(* for any rows, columns, keys, and any number of changes, failures and    *)
(* deaths.  The second half has an invariant of its own, ShowInv: what the *)
(* state DB holds of a row shows it under the ledger's names, or under     *)
(* those it was carried along to, at every step of a pull and of a push.   *)
(***************************************************************************)
EXTENDS RowColumns, TLAPS

(* Values that were written before now. *)
Written == {Nothing} \cup ((Cols \cup {NoName}) \X (0..acts))
Notes == [Keys -> Written]
Schemas == [name : [Cols -> Keys \cup {NoName}], formula : 0..acts]
Renames == [from : Keys, to : Keys, col : Cols, rows : SUBSET Rows, base : [Rows -> Notes]]

AtPages  == [at : {"pages"}, met : Schemas]
AtFollow == [at : {"follow"}, met : Schemas, pages : [Rows -> Notes], cols : Schemas,
             moved : SUBSET Rows, left : SUBSET Rows, half : {Nothing} \cup (Rows \X Notes),
             failed : SUBSET Rows]
AtRows   == [at : {"rows"}, met : Schemas, pages : [Rows -> Notes], cols : Schemas,
             moved : SUBSET Rows, left : SUBSET Rows, fresh : SUBSET Keys]
AtRename == [at : {"rename"}, jobs : SUBSET Rows, plan : SUBSET Renames]
AtSnapshots == [at : {"snapshots"}, jobs : SUBSET Rows, plan : SUBSET Renames, it : Renames,
                left : SUBSET Rows]
AtSent   == [at : {"sent"}, jobs : SUBSET Rows, row : Rows, note : Notes]
Turns == {Idle} \cup AtPages \cup AtFollow \cup AtRows \cup AtRename \cup AtSnapshots \cup AtSent

SettingTyped ==
    /\ computed \in SUBSET Cols
    /\ schema \in Schemas /\ ledger \in Schemas
    /\ cells \in [Rows -> [Cols -> Written]]
    /\ edited \in SUBSET Rows /\ clash \in SUBSET Rows /\ behind \in SUBSET Rows
    /\ renaming \in {Nothing} \cup (Keys \X Keys)
    /\ acts \in 0..MaxActs /\ faults \in 0..MaxFaults
    /\ halfway \in SUBSET Rows /\ undisturbed \in BOOLEAN

ValuesTyped ==
    /\ notes \in [Rows -> Notes] /\ synced \in [Rows -> Notes]
    /\ kept \in [Rows -> SUBSET (Written \ {Nothing})]
    /\ gone \in [Causes -> [Rows -> SUBSET Written]]

ColumnsTyped == SettingTyped /\ ValuesTyped /\ turn \in Turns

(* The values of a row that must still be somewhere, and those of a column. *)
Owed(r) == kept[r] \ UNION {gone[w][r] : w \in Causes}
OfColumns(r) == {v \in Owed(r) : v[1] # NoName}
InRow(r) == {cells[r][c] : c \in Cols}

(* What the state DB remembers of a row, and a run is about to make it remember. *)
Halves(r) == IF turn.at = "follow" /\ turn.half # Nothing /\ turn.half[1] = r
             THEN {turn.half[2]} ELSE {}
Sents(r) == IF turn.at = "sent" /\ turn.row = r THEN {turn.note} ELSE {}
PlanOf == IF turn.at = "rename" THEN turn.plan
          ELSE IF turn.at = "snapshots" THEN turn.plan \cup {turn.it} ELSE {}
InPlan(r) == {p.base[r] : p \in PlanOf}
Copies(r) == {synced[r]} \cup Halves(r) \cup Sents(r) \cup InPlan(r)
Bases(r) == (IF Halves(r) = {} THEN {synced[r]} ELSE Halves(r)) \cup Sents(r) \cup InPlan(r)
PagesOf(r) == IF turn.at \in {"follow", "rows"} THEN {turn.pages[r]} ELSE {}

(* No value of S is in two places. *)
Once(f, S) == \A i, j \in DOMAIN f : i # j /\ f[i] = f[j] => f[i] \notin S

(* Notion computes no value that somebody wrote. *)
NotComputed(r) == \A v \in kept[r] : v[1] \notin computed

OnceEach(r) ==
    /\ Once(cells[r], Owed(r))
    /\ \A f \in {notes[r]} \cup Copies(r) \cup PagesOf(r) : Once(f, Owed(r))

(* What is remembered has not left the note, *)
NoteHolds(r) == \A f \in Bases(r) : Held(f) \cap Owed(r) \subseteq Held(notes[r])

(* and what is remembered of a column, or is about to be received, is in the row. *)
RowHolds(r) ==
    /\ \A f \in Copies(r) : Held(f) \cap OfColumns(r) \subseteq InRow(r)
    /\ \A f \in PagesOf(r) : Held(f) \cap Owed(r) \subseteq InRow(r)

Somewhere(r) == Owed(r) \subseteq Held(notes[r]) \cup InRow(r)

RowInv(r) == NotComputed(r) /\ OnceEach(r) /\ NoteHolds(r) /\ RowHolds(r) /\ Somewhere(r)

ColumnsInv == ColumnsTyped /\ \A r \in Rows : RowInv(r)
--------------------------------------------------------------------------------
(* Values, notes and the turns of a run. *)

LEMMA ValueFacts ==
    /\ Nothing \notin (Cols \cup {NoName}) \X (0..acts)
    /\ NoName \notin Cols /\ NoName \notin Keys
    /\ \A v \in Written \ {Nothing} : v[1] \in Cols \cup {NoName} /\ v[2] \in 0..acts
BY ColumnsAssumption DEF Nothing, Written

LEMMA HeldFacts ==
    ASSUME NEW f \in Notes
    PROVE  \A v : v \in Held(f) <=> v # Nothing /\ \E k \in Keys : f[k] = v
BY DEF Held

LEMMA TwiceFacts ==
    ASSUME NEW f, NEW S, Twice(f) \cap S = {}
    PROVE  Once(f, S)
BY DEF Twice, Once

LEMMA TurnFacts ==
    ASSUME turn \in Turns
    PROVE  /\ turn.at = "idle" => turn = Idle
           /\ turn.at = "pages" => turn \in AtPages
           /\ turn.at = "follow" => turn \in AtFollow
           /\ turn.at = "rows" => turn \in AtRows
           /\ turn.at = "rename" => turn \in AtRename
           /\ turn.at = "snapshots" => turn \in AtSnapshots
           /\ turn.at = "sent" => turn \in AtSent
           /\ turn.at \in Runs
BY DEF Turns, Idle, AtPages, AtFollow, AtRows, AtRename, AtSnapshots, AtSent, Runs

(* As time goes on the types only grow. *)
LEMMA TypesGrow ==
    ASSUME acts \in 0..MaxActs, acts' \in 0..MaxActs, acts <= acts'
    PROVE  /\ Written \subseteq Written' /\ Notes \subseteq Notes' /\ Schemas \subseteq Schemas'
           /\ Turns \subseteq Turns'
           /\ [Rows -> Notes] \subseteq [Rows -> Notes']
           /\ [Rows -> [Cols -> Written]] \subseteq [Rows -> [Cols -> Written']]
           /\ [Rows -> SUBSET (Written \ {Nothing})] \subseteq [Rows -> SUBSET (Written' \ {Nothing})]
           /\ [Causes -> [Rows -> SUBSET Written]] \subseteq [Causes -> [Rows -> SUBSET Written']]
<1>1. 0..acts \subseteq 0..acts'
  BY ColumnsAssumption
<1>2. Written \subseteq Written'
  BY <1>1 DEF Written
<1>3. Notes \subseteq Notes' /\ Schemas \subseteq Schemas'
  BY <1>1, <1>2 DEF Notes, Schemas
<1>4. [Rows -> Notes] \subseteq [Rows -> Notes'] /\ Rows \X Notes \subseteq Rows \X Notes'
  BY <1>3
<1>5. AtPages \subseteq AtPages' /\ AtSent \subseteq AtSent'
  BY <1>3 DEF AtPages, AtSent
<1>6. AtFollow \subseteq AtFollow' /\ AtRows \subseteq AtRows'
  BY <1>3, <1>4 DEF AtFollow, AtRows
<1>7. Renames \subseteq Renames'
  BY <1>4 DEF Renames
<1>8. AtRename \subseteq AtRename' /\ AtSnapshots \subseteq AtSnapshots'
  BY <1>7 DEF AtRename, AtSnapshots
<1>9. Turns \subseteq Turns'
  BY <1>5, <1>6, <1>8 DEF Turns
<1> QED BY <1>2, <1>3, <1>4, <1>9

--------------------------------------------------------------------------------
(* What holds for one row. *)

LEMMA RowParts ==
    ASSUME ColumnsTyped, NEW r \in Rows
    PROVE  /\ notes[r] \in Notes /\ synced[r] \in Notes /\ cells[r] \in [Cols -> Written]
           /\ kept[r] \subseteq Written \ {Nothing} /\ Owed(r) \subseteq kept[r]
           /\ Nothing \notin Owed(r)
           /\ Copies(r) \subseteq Notes /\ PagesOf(r) \subseteq Notes /\ Bases(r) \subseteq Copies(r)
           /\ synced[r] \in Copies(r)
<1>1. notes[r] \in Notes /\ synced[r] \in Notes /\ cells[r] \in [Cols -> Written]
  BY DEF ColumnsTyped, SettingTyped, ValuesTyped
<1>2. kept[r] \subseteq Written \ {Nothing} /\ Owed(r) \subseteq kept[r]
  BY DEF ColumnsTyped, ValuesTyped, Owed
<1>3. Halves(r) \subseteq Notes
  <2>1. CASE turn.at = "follow" /\ turn.half # Nothing
    <3>1. turn \in AtFollow
      BY <2>1, TurnFacts DEF ColumnsTyped
    <3>2. turn.half \in Rows \X Notes
      BY <2>1, <3>1 DEF AtFollow
    <3> QED BY <3>2 DEF Halves
  <2> QED BY <2>1 DEF Halves
<1>4. Sents(r) \subseteq Notes
  BY TurnFacts DEF ColumnsTyped, Sents, AtSent
<1>5. PagesOf(r) \subseteq Notes
  <2>1. CASE turn.at = "follow"
    <3>1. turn \in AtFollow
      BY <2>1, TurnFacts DEF ColumnsTyped
    <3> QED BY <3>1, <2>1 DEF AtFollow, PagesOf
  <2>2. CASE turn.at = "rows"
    <3>1. turn \in AtRows
      BY <2>2, TurnFacts DEF ColumnsTyped
    <3> QED BY <3>1, <2>2 DEF AtRows, PagesOf
  <2> QED BY <2>1, <2>2 DEF PagesOf
<1>6. InPlan(r) \subseteq Notes
  <2>1. PlanOf \subseteq Renames
    BY TurnFacts DEF ColumnsTyped, PlanOf, AtRename, AtSnapshots
  <2> QED BY <2>1 DEF InPlan, Renames
<1> QED BY <1>1, <1>2, <1>3, <1>4, <1>5, <1>6 DEF Copies, Bases

(* A step that leaves the note and the row alone, remembers nothing new, and gives no value *)
(* back that was given up.                                                                  *)
LEMMA RowKeeps ==
    ASSUME NEW r \in Rows, RowInv(r),
           notes'[r] = notes[r], cells'[r] = cells[r], kept'[r] \subseteq kept[r],
           Owed(r)' \subseteq Owed(r), computed' = computed,
           Copies(r)' \subseteq Copies(r), Bases(r)' \subseteq Bases(r), PagesOf(r)' \subseteq PagesOf(r)
    PROVE  RowInv(r)'
<1>1. InRow(r)' = InRow(r) /\ OfColumns(r)' \subseteq OfColumns(r) /\ Held(notes[r])' = Held(notes[r])
  BY DEF InRow, OfColumns, Held
<1>2. \A f : Held(f)' = Held(f)
  BY DEF Held
<1>3. NotComputed(r)'
  BY DEF RowInv, NotComputed
<1>4. OnceEach(r)'
  BY DEF RowInv, OnceEach, Once
<1>5. NoteHolds(r)'
  BY <1>1, <1>2 DEF RowInv, NoteHolds
<1>6. RowHolds(r)'
  BY <1>1, <1>2 DEF RowInv, RowHolds
<1>7. Somewhere(r)'
  BY <1>1 DEF RowInv, Somewhere
<1> QED BY <1>3, <1>4, <1>5, <1>6, <1>7 DEF RowInv

(* What was not given back is not owed again. *)
LEMMA OwedShrinks ==
    ASSUME NEW r \in Rows, kept'[r] \subseteq kept[r], \A w \in Causes : gone[w][r] \subseteq gone'[w][r]
    PROVE  Owed(r)' \subseteq Owed(r)
BY DEF Owed

(* A step beside which nothing of the rows changes but what is given up. *)
LEMMA QuietKeeps ==
    ASSUME \A r \in Rows : RowInv(r),
           notes' = notes, cells' = cells, kept' = kept, computed' = computed,
           \A r \in Rows, w \in Causes : gone[w][r] \subseteq gone'[w][r],
           \A r \in Rows : /\ Copies(r)' \subseteq Copies(r) /\ Bases(r)' \subseteq Bases(r)
                           /\ PagesOf(r)' \subseteq PagesOf(r)
    PROVE  \A r \in Rows : RowInv(r)'
BY RowKeeps, OwedShrinks

LEMMA TurnAlone ==
    ASSUME UNCHANGED <<synced, turn>>
    PROVE  \A r : Copies(r)' = Copies(r) /\ Bases(r)' = Bases(r) /\ PagesOf(r)' = PagesOf(r)
BY DEF Copies, Bases, PagesOf, Halves, Sents, InPlan, PlanOf

LEMMA GoneAlone ==
    ASSUME UNCHANGED gone PROVE \A r \in Rows, w \in Causes : gone[w][r] \subseteq gone'[w][r]
OBVIOUS

(* What a rekeyed note holds it held before, each value once. *)
LEMMA RekeyedFacts ==
    ASSUME NEW note \in Notes, NEW renames, NEW drops, NEW new \in Rekeyed(note, renames, drops),
           NEW S, Nothing \notin S, Once(note, S)
    PROVE  /\ new \in Notes /\ Once(new, S)
           /\ \A n \in Keys : new[n] # Nothing => \E k \in Keys \ drops : note[k] = new[n]
           /\ Held(new) \subseteq Held(note)
<1> DEFINE from(n) == {k \in Keys \ drops : note[k] # Nothing /\ NewKey(note, renames, drops, k) = n}
<1>1. /\ new \in [Keys -> Held(note) \cup {Nothing}]
      /\ \A n \in Keys : (from(n) = {} /\ new[n] = Nothing) \/ \E k \in from(n) : new[n] = note[k]
  BY DEF Rekeyed
<1>2. Held(note) \cup {Nothing} \subseteq Written
  BY DEF Held, Notes, Written
<1>3. new \in Notes
  BY <1>1, <1>2 DEF Notes
<1>4. ASSUME NEW i \in Keys, NEW j \in Keys, i # j, new[i] = new[j], new[i] \in S
      PROVE  FALSE
  <2>1. PICK ki \in from(i) : new[i] = note[ki]
    BY <1>1, <1>4
  <2>2. PICK kj \in from(j) : new[j] = note[kj]
    BY <1>1, <1>4
  <2>3. ki # kj
    BY <1>4
  <2> QED BY <1>4, <2>1, <2>2, <2>3 DEF Once, Notes
<1>5. Once(new, S)
  BY <1>3, <1>4 DEF Once, Notes
<1>6. \A n \in Keys : new[n] # Nothing => \E k \in Keys \ drops : note[k] = new[n]
  BY <1>1
<1> QED BY <1>3, <1>5, <1>6, HeldFacts
--------------------------------------------------------------------------------
(* People. *)

LEMMA ActsFacts ==
    ASSUME ColumnsTyped, Acts
    PROVE  /\ acts' = acts + 1 /\ acts \in Nat /\ acts' \in 0..MaxActs
           /\ Written \subseteq Written' /\ Schemas \subseteq Schemas' /\ Notes \subseteq Notes'
           /\ computed' \in SUBSET Cols /\ ledger' \in Schemas'
           /\ clash' \in SUBSET Rows /\ faults' \in 0..MaxFaults
           /\ halfway' \in SUBSET Rows /\ undisturbed' \in BOOLEAN
           /\ synced' \in [Rows -> Notes'] /\ gone' \in [Causes -> [Rows -> SUBSET Written']]
           /\ turn' \in Turns'
           /\ notes \in [Rows -> Notes'] /\ schema \in Schemas'
           /\ cells \in [Rows -> [Cols -> Written']]
           /\ kept \in [Rows -> SUBSET (Written' \ {Nothing})]
           /\ UNCHANGED <<computed, gone, synced, turn>>
           /\ \A r : Copies(r)' = Copies(r) /\ Bases(r)' = Bases(r) /\ PagesOf(r)' = PagesOf(r)
           /\ \A t : t \in Written /\ t # Nothing => t[2] # acts'
<1>1. acts' = acts + 1 /\ acts \in Nat /\ acts' \in 0..MaxActs /\ acts \in 0..MaxActs /\ acts <= acts'
  BY ColumnsAssumption DEF Acts, ColumnsTyped, SettingTyped
<1>2. UNCHANGED <<computed, turn, faults, synced, clash, ledger, gone, halfway>> /\ undisturbed' = FALSE
  BY DEF Acts, stateDb
<1>3. \A r : Copies(r)' = Copies(r) /\ Bases(r)' = Bases(r) /\ PagesOf(r)' = PagesOf(r)
  BY <1>2, TurnAlone
<1>4. \A t : t \in Written /\ t # Nothing => t[2] # acts'
  BY <1>1, ValueFacts
<1>5. /\ Written \subseteq Written' /\ Notes \subseteq Notes' /\ Schemas \subseteq Schemas'
      /\ Turns \subseteq Turns'
      /\ [Rows -> Notes] \subseteq [Rows -> Notes']
      /\ [Rows -> [Cols -> Written]] \subseteq [Rows -> [Cols -> Written']]
      /\ [Rows -> SUBSET (Written \ {Nothing})] \subseteq [Rows -> SUBSET (Written' \ {Nothing})]
      /\ [Causes -> [Rows -> SUBSET Written]] \subseteq [Causes -> [Rows -> SUBSET Written']]
  BY <1>1, TypesGrow
<1> QED BY <1>1, <1>2, <1>3, <1>4, <1>5 DEF ColumnsTyped, SettingTyped, ValuesTyped

(* A value that takes another's place, in the note or in the row. *)
LEMMA FreshValue ==
    ASSUME ColumnsTyped, Acts, NEW c \in Cols \cup {NoName}
    PROVE  <<c, acts'>> \in Written' \ Written /\ <<c, acts'>> # Nothing
BY ActsFacts DEF Nothing, Written

LEMMA WritesKeyKeeps ==
    ASSUME ColumnsInv, NEW r \in Rows, NEW k \in Keys, WritesKey(r, k)
    PROVE  ColumnsInv'
<1> DEFINE c == IF Named(ledger, k) = {} THEN NoName ELSE CHOOSE d \in Named(ledger, k) : TRUE
           v == <<c, acts'>>
           old == notes[r][k]
<1>1. Acts /\ ColumnsTyped
  BY DEF WritesKey, ColumnsInv
<1>2. /\ notes' = [notes EXCEPT ![r][k] = v]
      /\ kept' = [kept EXCEPT ![r] = (@ \ {old}) \cup {v}]
      /\ UNCHANGED <<schema, cells, edited, renaming, behind>>
      /\ Named(ledger, k) \cap computed = {}
  BY DEF WritesKey
<1>3. c \in (Cols \ computed) \cup {NoName}
  BY <1>2 DEF Named
<1>4. v \in Written' \ Written /\ v # Nothing
  BY <1>1, <1>3, FreshValue
<1> HIDE DEF c, v, old
<1>5. ColumnsTyped'
  <2>1. notes' \in [Rows -> Notes']
    BY <1>1, <1>2, <1>4, ActsFacts DEF Notes
  <2>2. kept' \in [Rows -> SUBSET (Written' \ {Nothing})]
    BY <1>1, <1>2, <1>4, ActsFacts
  <2> QED BY <1>1, <1>2, <2>1, <2>2, ActsFacts DEF ColumnsTyped, SettingTyped, ValuesTyped
<1>6. ASSUME NEW s \in Rows \ {r} PROVE RowInv(s)'
  <2>1. notes'[s] = notes[s] /\ kept'[s] = kept[s]
    BY <1>1, <1>2 DEF ColumnsTyped, ValuesTyped
  <2>2. Owed(s)' = Owed(s)
    BY <1>1, <2>1, ActsFacts DEF Owed
  <2> QED BY <1>1, <1>2, <2>1, <2>2, ActsFacts, RowKeeps DEF ColumnsInv
<1>7. RowInv(r)'
  <2>1. /\ notes[r] \in Notes /\ notes'[r] = [notes[r] EXCEPT ![k] = v] /\ old = notes[r][k]
        /\ kept'[r] = (kept[r] \ {old}) \cup {v}
    BY <1>1, <1>2 DEF ColumnsTyped, ValuesTyped, old
  <2>2. Owed(r)' \subseteq (Owed(r) \ {old}) \cup {v}
    BY <1>1, <2>1, ActsFacts DEF Owed
  <2>3. /\ Copies(r) \subseteq Notes /\ PagesOf(r) \subseteq Notes /\ Bases(r) \subseteq Copies(r)
        /\ cells[r] \in [Cols -> Written] /\ Nothing \notin Owed(r)
    BY <1>1, RowParts
  <2>4. \A f \in Notes : v \notin Held(f)
    BY <1>4, HeldFacts DEF Notes
  <2>5. InRow(r)' = InRow(r) /\ RowInv(r)
    BY <1>2 DEF InRow, ColumnsInv
  <2>6. NotComputed(r)'
    <3>1. v[1] = c /\ c \notin computed
      BY <1>1, <1>3, ValueFacts DEF v, ColumnsTyped, SettingTyped
    <3> QED BY <1>1, <2>1, <2>5, <3>1, ActsFacts DEF RowInv, NotComputed
  <2>7. OnceEach(r)'
    <3>1. Once(notes'[r], Owed(r)')
      <4>1. ASSUME NEW i \in Keys, NEW j \in Keys, i # j, notes'[r][i] = notes'[r][j]
            PROVE  notes'[r][i] \notin Owed(r)'
        <5>1. i # k /\ j # k
          BY <1>4, <2>1, <4>1 DEF Notes
        <5>2. notes[r][i] \notin Owed(r) /\ notes[r][i] # v /\ notes'[r][i] = notes[r][i]
          BY <1>4, <2>1, <2>5, <4>1, <5>1 DEF Notes, RowInv, OnceEach, Once
        <5> QED BY <2>2, <5>2
      <4> QED BY <2>1, <4>1 DEF Once, Notes
    <3>2. ASSUME NEW f \in Notes, Once(f, Owed(r)) PROVE Once(f, Owed(r)')
      BY <1>4, <2>2, <3>2 DEF Once, Notes
    <3>3. Once(cells[r], Owed(r)')
      BY <1>4, <2>2, <2>3, <2>5 DEF RowInv, OnceEach, Once
    <3> QED BY <1>1, <1>2, <2>3, <2>5, <3>1, <3>2, <3>3, ActsFacts DEF RowInv, OnceEach
  <2>8. \A w \in Held(notes[r]) : w \in Held(notes'[r]) \/ w = old
    BY <2>1 DEF Held, Notes
  <2>9. v \in Held(notes'[r])
    BY <1>4, <2>1 DEF Held, Notes
  <2>10. NoteHolds(r)'
    BY <1>1, <2>2, <2>3, <2>4, <2>5, <2>8, <2>9, ActsFacts DEF RowInv, NoteHolds
  <2>11. RowHolds(r)'
    BY <1>1, <2>2, <2>3, <2>4, <2>5, ActsFacts DEF RowInv, RowHolds, OfColumns
  <2>12. Somewhere(r)'
    BY <2>2, <2>5, <2>8, <2>9 DEF RowInv, Somewhere
  <2> QED BY <2>6, <2>7, <2>10, <2>11, <2>12 DEF RowInv
<1> QED BY <1>5, <1>6, <1>7 DEF ColumnsInv

LEMMA DeletesKeyKeeps ==
    ASSUME ColumnsInv, NEW r \in Rows, NEW k \in Keys, DeletesKey(r, k)
    PROVE  ColumnsInv'
<1> DEFINE old == notes[r][k]
<1>1. Acts /\ ColumnsTyped
  BY DEF DeletesKey, ColumnsInv
<1>2. /\ notes' = [notes EXCEPT ![r][k] = Nothing]
      /\ kept' = [kept EXCEPT ![r] = @ \ {old}]
      /\ UNCHANGED <<schema, cells, edited, renaming, behind>>
  BY DEF DeletesKey
<1>3. Nothing \in Written'
  BY DEF Written
<1> HIDE DEF old
<1>5. ColumnsTyped'
  <2>1. notes' \in [Rows -> Notes']
    BY <1>1, <1>2, <1>3, ActsFacts DEF Notes
  <2>2. kept' \in [Rows -> SUBSET (Written' \ {Nothing})]
    BY <1>1, <1>2, ActsFacts
  <2> QED BY <1>1, <1>2, <2>1, <2>2, ActsFacts DEF ColumnsTyped, SettingTyped, ValuesTyped
<1>6. ASSUME NEW s \in Rows \ {r} PROVE RowInv(s)'
  <2>1. notes'[s] = notes[s] /\ kept'[s] = kept[s]
    BY <1>1, <1>2 DEF ColumnsTyped, ValuesTyped
  <2>2. Owed(s)' = Owed(s)
    BY <1>1, <2>1, ActsFacts DEF Owed
  <2> QED BY <1>1, <1>2, <2>1, <2>2, ActsFacts, RowKeeps DEF ColumnsInv
<1>7. RowInv(r)'
  <2>1. /\ notes[r] \in Notes /\ notes'[r] = [notes[r] EXCEPT ![k] = Nothing] /\ old = notes[r][k]
        /\ kept'[r] = kept[r] \ {old}
    BY <1>1, <1>2 DEF ColumnsTyped, ValuesTyped, old
  <2>2. Owed(r)' = Owed(r) \ {old} /\ Nothing \notin Owed(r)
    BY <1>1, <2>1, ActsFacts, RowParts DEF Owed
  <2>3. InRow(r)' = InRow(r) /\ RowInv(r)
    BY <1>2 DEF InRow, ColumnsInv
  <2>4. \A w \in Held(notes[r]) : w \in Held(notes'[r]) \/ w = old
    BY <2>1 DEF Held, Notes
  <2>5. NotComputed(r)'
    BY <1>1, <2>1, <2>3, ActsFacts DEF RowInv, NotComputed
  <2>6. OnceEach(r)'
    <3>1. Once(notes'[r], Owed(r)')
      BY <2>1, <2>2, <2>3 DEF RowInv, OnceEach, Once, Notes
    <3>2. ASSUME NEW f, Once(f, Owed(r)) PROVE Once(f, Owed(r)')
      BY <2>2, <3>2 DEF Once
    <3> QED BY <1>1, <1>2, <2>3, <3>1, <3>2, ActsFacts DEF RowInv, OnceEach
  <2>7. NoteHolds(r)'
    BY <1>1, <2>2, <2>3, <2>4, ActsFacts DEF RowInv, NoteHolds
  <2>8. RowHolds(r)'
    BY <1>1, <2>2, <2>3, ActsFacts DEF RowInv, RowHolds, OfColumns
  <2>9. Somewhere(r)'
    BY <2>2, <2>3, <2>4 DEF RowInv, Somewhere
  <2> QED BY <2>5, <2>6, <2>7, <2>8, <2>9 DEF RowInv
<1> QED BY <1>5, <1>6, <1>7 DEF ColumnsInv

(* An act that writes no value. *)
LEMMA OtherActsKeep ==
    ASSUME ColumnsInv, Acts, UNCHANGED <<cells, notes, kept, edited>>,
           schema' \in Schemas', behind' \in SUBSET Rows,
           renaming' \in {Nothing} \cup (Keys \X Keys)
    PROVE  ColumnsInv'
<1>1. ColumnsTyped
  BY DEF ColumnsInv
<1>2. ColumnsTyped'
  BY <1>1, ActsFacts DEF ColumnsTyped, SettingTyped, ValuesTyped
<1>3. \A r \in Rows : RowInv(r)'
  BY <1>1, ActsFacts, QuietKeeps, GoneAlone DEF ColumnsInv
<1> QED BY <1>2, <1>3 DEF ColumnsInv

LEMMA NamesActsKeep ==
    ASSUME ColumnsInv,
           \/ \E k, j \in Keys : StartsRenaming(k, j)
           \/ \E c \in Cols, k \in Keys : RenamesColumn(c, k)
           \/ ChangesFormula
    PROVE  ColumnsInv'
<1>1. /\ ColumnsTyped /\ behind \in SUBSET Rows /\ halfway \in SUBSET Rows
      /\ renaming \in {Nothing} \cup (Keys \X Keys)
  BY DEF ColumnsInv, ColumnsTyped, SettingTyped
<1>2. ASSUME NEW k \in Keys, NEW j \in Keys, StartsRenaming(k, j) PROVE ColumnsInv'
  <2>1. Acts /\ UNCHANGED <<schema, cells, edited, notes, kept, behind>> /\ renaming' = <<k, j>>
    BY <1>2 DEF StartsRenaming
  <2> QED BY <1>1, <2>1, ActsFacts, OtherActsKeep
<1>3. ASSUME NEW c \in Cols, NEW k \in Keys, RenamesColumn(c, k) PROVE ColumnsInv'
  <2>1. /\ Acts /\ UNCHANGED <<cells, edited, notes, renaming, kept>>
        /\ schema' = [schema EXCEPT !.name[c] = k] /\ behind' = behind \cup halfway
    BY <1>3 DEF RenamesColumn
  <2>2. schema' \in Schemas'
    BY <1>1, <2>1, ActsFacts DEF Schemas
  <2> QED BY <1>1, <2>1, <2>2, OtherActsKeep
<1>4. ASSUME ChangesFormula PROVE ColumnsInv'
  <2>1. /\ Acts /\ UNCHANGED <<cells, edited, notes, renaming, kept, behind>>
        /\ schema' = [schema EXCEPT !.formula = acts']
    BY <1>4 DEF ChangesFormula
  <2>2. schema' \in Schemas'
    BY <1>1, <2>1, ActsFacts DEF Schemas
  <2> QED BY <1>1, <2>1, <2>2, OtherActsKeep
<1> QED BY <1>2, <1>3, <1>4

LEMMA RenamesNextKeeps == ASSUME ColumnsInv, RenamesNext PROVE ColumnsInv'
<1> DEFINE from == renaming[1]
           to == renaming[2]
<1>1. ColumnsTyped
  BY DEF ColumnsInv
<1>2. PICK r \in Rows : /\ notes[r][from] # Nothing /\ notes[r][to] = Nothing
                        /\ notes' = [notes EXCEPT ![r] = WithKey(@, from, to)]
  BY DEF RenamesNext
<1>3. /\ UNCHANGED <<computed, schema, cells, acts, edited, synced, clash, ledger, turn, faults,
                     kept, gone, behind, halfway>>
      /\ undisturbed' = FALSE /\ renaming' \in {renaming, Nothing} /\ renaming # Nothing
  BY DEF RenamesNext, stateDb
<1>4. from \in Keys /\ to \in Keys
  BY <1>1, <1>3 DEF ColumnsTyped, SettingTyped
<1> HIDE DEF from, to
<1>5. /\ notes[r] \in Notes /\ notes'[r] \in Notes /\ from # to
      /\ notes'[r] = [notes[r] EXCEPT ![to] = notes[r][from], ![from] = Nothing]
      /\ \A s \in Rows \ {r} : notes'[s] = notes[s]
      /\ notes' \in [Rows -> Notes]
  <2>1. notes[r] \in Notes /\ notes \in [Rows -> Notes] /\ Nothing \in Written
    BY <1>1 DEF ColumnsTyped, ValuesTyped, Written
  <2>2. notes' = [notes EXCEPT ![r] = [notes[r] EXCEPT ![to] = notes[r][from], ![from] = Nothing]]
    BY <1>2 DEF WithKey
  <2>3. [notes[r] EXCEPT ![to] = notes[r][from], ![from] = Nothing] \in Notes
    BY <1>4, <2>1 DEF Notes
  <2> QED BY <1>2, <2>1, <2>2, <2>3
<1>6. /\ \A x : Copies(x)' = Copies(x) /\ Bases(x)' = Bases(x) /\ PagesOf(x)' = PagesOf(x)
      /\ \A x : Owed(x)' = Owed(x)
  BY <1>3, TurnAlone DEF Owed
<1>7. ColumnsTyped'
  <2>1. Written' = Written /\ Notes' = Notes /\ Schemas' = Schemas /\ Turns' = Turns
    BY <1>3 DEF Written, Notes, Schemas, Turns, AtPages, AtFollow, AtRows, AtRename, AtSnapshots,
       AtSent, Renames
  <2> QED BY <1>1, <1>3, <1>5, <2>1 DEF ColumnsTyped, SettingTyped, ValuesTyped
<1>8. ASSUME NEW s \in Rows \ {r} PROVE RowInv(s)'
  BY <1>3, <1>5, <1>6, RowKeeps DEF ColumnsInv
<1>9. RowInv(r)'
  <2>1. RowInv(r) /\ InRow(r)' = InRow(r)
    BY <1>3 DEF ColumnsInv, InRow
  <2>2. Held(notes'[r]) = Held(notes[r])
    <3>1. \A k \in Keys : notes'[r][k] = IF k = from THEN Nothing
                                       ELSE IF k = to THEN notes[r][from] ELSE notes[r][k]
      BY <1>4, <1>5 DEF Notes
    <3> QED BY <1>2, <1>4, <3>1 DEF Held
  <2>3. Once(notes'[r], Owed(r))
    <3>1. Nothing \notin Owed(r) /\ Once(notes[r], Owed(r))
      BY <1>1, <2>1, RowParts DEF RowInv, OnceEach
    <3> QED BY <1>4, <1>5, <3>1 DEF Once, Notes
  <2>4. NotComputed(r)'
    BY <1>3, <2>1 DEF RowInv, NotComputed
  <2>5. OnceEach(r)'
    BY <1>3, <1>6, <2>1, <2>3 DEF RowInv, OnceEach, Once
  <2>6. NoteHolds(r)' /\ Somewhere(r)'
    <3>1. Held(notes[r])' = Held(notes[r])
      BY <2>2 DEF Held
    <3>2. \A f : Held(f)' = Held(f)
      BY DEF Held
    <3> QED BY <1>6, <2>1, <3>1, <3>2 DEF RowInv, NoteHolds, Somewhere
  <2>7. RowHolds(r)'
    <3>1. OfColumns(r)' = OfColumns(r) /\ \A f : Held(f)' = Held(f)
      BY <1>6 DEF OfColumns, Held
    <3> QED BY <1>6, <2>1, <3>1 DEF RowInv, RowHolds
  <2> QED BY <2>4, <2>5, <2>6, <2>7 DEF RowInv
<1> QED BY <1>7, <1>8, <1>9 DEF ColumnsInv

LEMMA RemovesColumnKeeps ==
    ASSUME ColumnsInv, NEW c \in Cols, RemovesColumn(c) PROVE ColumnsInv'
<1>1. /\ Acts /\ schema' = [schema EXCEPT !.name[c] = NoName]
      /\ cells' = [r \in Rows |-> [cells[r] EXCEPT ![c] = Nothing]]
      /\ kept' = [r \in Rows |-> kept[r] \ {cells[r][c]}]
      /\ UNCHANGED <<edited, notes, renaming, behind>>
  BY DEF RemovesColumn
<1>2. ColumnsTyped
  BY DEF ColumnsInv
<1>3. ColumnsTyped'
  <2>1. schema' \in Schemas'
    BY <1>1, <1>2, ActsFacts DEF Schemas
  <2>2. cells' \in [Rows -> [Cols -> Written']]
    <3>1. Nothing \in Written'
      BY DEF Written
    <3>2. cells \in [Rows -> [Cols -> Written']]
      BY <1>1, <1>2, ActsFacts
    <3> QED BY <1>1, <3>1, <3>2
  <2>3. kept' \in [Rows -> SUBSET (Written' \ {Nothing})]
    BY <1>1, <1>2, ActsFacts
  <2> QED BY <1>1, <1>2, <2>1, <2>2, <2>3, ActsFacts DEF ColumnsTyped, SettingTyped, ValuesTyped
<1>4. ASSUME NEW r \in Rows PROVE RowInv(r)'
  <2> DEFINE old == cells[r][c]
  <2>1. /\ RowInv(r) /\ cells[r] \in [Cols -> Written]
        /\ cells'[r] = [cells[r] EXCEPT ![c] = Nothing] /\ kept'[r] = kept[r] \ {old}
    BY <1>1, <1>2 DEF ColumnsInv, ColumnsTyped, SettingTyped
  <2> HIDE DEF old
  <2>2. Owed(r)' = Owed(r) \ {old} /\ Nothing \notin Owed(r)
    BY <1>1, <1>2, <2>1, ActsFacts, RowParts DEF Owed
  <2>3. \A w \in InRow(r) : w \in InRow(r)' \/ w = old
    BY <2>1 DEF InRow, old
  <2>4. Held(notes[r])' = Held(notes[r]) /\ \A f : Held(f)' = Held(f)
    BY <1>1 DEF Held
  <2>5. NotComputed(r)'
    BY <1>1, <1>2, <2>1, ActsFacts DEF RowInv, NotComputed
  <2>6. OnceEach(r)'
    <3>1. Once(cells'[r], Owed(r)')
      BY <2>1, <2>2 DEF RowInv, OnceEach, Once
    <3>2. ASSUME NEW f, Once(f, Owed(r)) PROVE Once(f, Owed(r)')
      BY <2>2, <3>2 DEF Once
    <3> QED BY <1>1, <1>2, <2>1, <3>1, <3>2, ActsFacts DEF RowInv, OnceEach
  <2>7. NoteHolds(r)' /\ Somewhere(r)'
    BY <1>1, <1>2, <2>1, <2>2, <2>3, <2>4, ActsFacts DEF RowInv, NoteHolds, Somewhere
  <2>8. RowHolds(r)'
    BY <1>1, <1>2, <2>1, <2>2, <2>3, <2>4, ActsFacts DEF RowInv, RowHolds, OfColumns
  <2> QED BY <2>5, <2>6, <2>7, <2>8 DEF RowInv
<1> QED BY <1>3, <1>4 DEF ColumnsInv

LEMMA EditsCellKeeps ==
    ASSUME ColumnsInv, NEW r \in Rows, NEW c \in Cols, NEW v, EditsCell(r, c, v)
    PROVE  ColumnsInv'
<1> DEFINE old == cells[r][c]
<1>1. /\ Acts /\ c \notin computed /\ v \in {Nothing, <<c, acts'>>}
      /\ cells' = [cells EXCEPT ![r][c] = v]
      /\ kept' = [kept EXCEPT ![r] = (@ \ {old}) \cup ({v} \ {Nothing})]
      /\ edited' = edited \cup {r}
      /\ UNCHANGED <<schema, notes, renaming, behind>>
  BY DEF EditsCell
<1>2. ColumnsTyped
  BY DEF ColumnsInv
<1>3. v \in Written' /\ v \notin Written \ {Nothing} /\ (v # Nothing => v[1] = c)
  <2>1. Nothing \in Written'
    BY DEF Written
  <2> QED BY <1>1, <1>2, <2>1, FreshValue
<1> HIDE DEF old
<1>4. ColumnsTyped'
  <2>1. cells' \in [Rows -> [Cols -> Written']]
    BY <1>1, <1>2, <1>3, ActsFacts
  <2>2. kept' \in [Rows -> SUBSET (Written' \ {Nothing})]
    BY <1>1, <1>2, <1>3, ActsFacts
  <2>3. edited' \in SUBSET Rows
    BY <1>1, <1>2 DEF ColumnsTyped, SettingTyped
  <2> QED BY <1>1, <1>2, <2>1, <2>2, <2>3, ActsFacts DEF ColumnsTyped, SettingTyped, ValuesTyped
<1>5. ASSUME NEW s \in Rows \ {r} PROVE RowInv(s)'
  <2>1. cells'[s] = cells[s] /\ kept'[s] = kept[s]
    BY <1>1, <1>2 DEF ColumnsTyped, ValuesTyped, SettingTyped
  <2>2. Owed(s)' = Owed(s)
    BY <1>1, <1>2, <2>1, ActsFacts DEF Owed
  <2> QED BY <1>1, <1>2, <2>1, <2>2, ActsFacts, RowKeeps DEF ColumnsInv
<1>6. RowInv(r)'
  <2>1. /\ RowInv(r) /\ cells[r] \in [Cols -> Written] /\ old = cells[r][c]
        /\ cells'[r] = [cells[r] EXCEPT ![c] = v]
        /\ kept'[r] = (kept[r] \ {old}) \cup ({v} \ {Nothing})
    BY <1>1, <1>2 DEF ColumnsInv, ColumnsTyped, SettingTyped, ValuesTyped, old
  <2>2. Owed(r)' \subseteq (Owed(r) \ {old}) \cup ({v} \ {Nothing}) /\ Nothing \notin Owed(r)
    BY <1>1, <1>2, <2>1, ActsFacts, RowParts DEF Owed
  <2>3. \A w \in InRow(r) : w \in InRow(r)' \/ w = old
    BY <2>1 DEF InRow
  <2>4. v \in InRow(r)'
    BY <2>1 DEF InRow
  <2>5. Held(notes[r])' = Held(notes[r]) /\ \A f : Held(f)' = Held(f)
    BY <1>1 DEF Held
  <2>6. /\ notes[r] \in Notes /\ Copies(r) \subseteq Notes /\ PagesOf(r) \subseteq Notes
        /\ Bases(r) \subseteq Copies(r)
    BY <1>2, RowParts
  <2>7. \A f \in Notes : v \notin Held(f)
    BY <1>3, HeldFacts DEF Notes
  <2>8. NotComputed(r)'
    BY <1>1, <1>2, <1>3, <2>1, ActsFacts DEF RowInv, NotComputed
  <2>9. OnceEach(r)'
    <3>1. Once(cells'[r], Owed(r)')
      <4>1. ASSUME NEW i \in Cols, NEW j \in Cols, i # j, cells'[r][i] = cells'[r][j],
                   cells'[r][i] \in Owed(r)'
            PROVE  FALSE
        <5>1. i # c /\ j # c
          BY <1>3, <2>1, <2>2, <4>1
        <5>2. cells[r][i] = cells[r][j] /\ cells'[r][i] = cells[r][i] /\ cells[r][i] # v
          BY <1>3, <2>1, <2>2, <4>1, <5>1
        <5> QED BY <2>1, <2>2, <4>1, <5>2 DEF RowInv, OnceEach, Once
      <4> QED BY <2>1, <4>1 DEF Once
    <3>2. ASSUME NEW f \in Notes, Once(f, Owed(r)) PROVE Once(f, Owed(r)')
      BY <1>3, <2>2, <3>2 DEF Once, Notes
    <3> QED BY <1>1, <1>2, <2>1, <2>6, <3>1, <3>2, ActsFacts DEF RowInv, OnceEach
  <2>10. NoteHolds(r)'
    BY <1>1, <1>2, <2>1, <2>2, <2>5, <2>6, <2>7, ActsFacts DEF RowInv, NoteHolds
  <2>11. RowHolds(r)'
    <3>1. \A w \in OfColumns(r)' : w = v \/ (w \in OfColumns(r) /\ w # old)
      BY <2>2 DEF OfColumns
    <3>2. /\ \A f \in Copies(r) : Held(f) \cap OfColumns(r)' \subseteq InRow(r)'
          /\ \A f \in PagesOf(r) : Held(f) \cap Owed(r)' \subseteq InRow(r)'
      BY <2>1, <2>2, <2>3, <2>4, <3>1 DEF RowInv, RowHolds
    <3> QED BY <1>1, <1>2, <2>5, <3>2, ActsFacts DEF RowHolds
  <2>12. Somewhere(r)'
    BY <2>1, <2>2, <2>3, <2>4, <2>5 DEF RowInv, Somewhere
  <2> QED BY <2>8, <2>9, <2>10, <2>11, <2>12 DEF RowInv
<1> QED BY <1>4, <1>5, <1>6 DEF ColumnsInv
--------------------------------------------------------------------------------
(* The steps of a pull and of a push. *)

LEMMA SameTypes ==
    ASSUME acts' = acts
    PROVE  Written' = Written /\ Notes' = Notes /\ Schemas' = Schemas /\ Turns' = Turns
BY DEF Written, Notes, Schemas, Turns, AtPages, AtFollow, AtRows, AtRename, AtSnapshots, AtSent, Renames

RunTyped ==
    /\ schema' \in Schemas /\ ledger' \in Schemas
    /\ edited' \in SUBSET Rows /\ clash' \in SUBSET Rows /\ behind' \in SUBSET Rows
    /\ faults' \in 0..MaxFaults /\ halfway' \in SUBSET Rows /\ undisturbed' \in BOOLEAN
    /\ notes' \in [Rows -> Notes] /\ synced' \in [Rows -> Notes]
    /\ cells' \in [Rows -> [Cols -> Written]]
    /\ gone' \in [Causes -> [Rows -> SUBSET Written]]
    /\ turn' \in Turns

LEMMA RunKeepsTypes ==
    ASSUME ColumnsTyped, RunTyped, UNCHANGED <<computed, renaming, acts, kept>>
    PROVE  ColumnsTyped'
BY SameTypes DEF ColumnsTyped, SettingTyped, ValuesTyped, RunTyped

(* A step that writes no note and no cell, and remembers only what it was about to. *)
LEMMA RunKeeps ==
    ASSUME ColumnsInv, RunTyped, UNCHANGED <<computed, cells, notes, renaming, acts, kept>>,
           \A r \in Rows, w \in Causes : gone[w][r] \subseteq gone'[w][r],
           \A r \in Rows : /\ Copies(r)' \subseteq Copies(r) /\ Bases(r)' \subseteq Bases(r)
                           /\ PagesOf(r)' \subseteq PagesOf(r)
    PROVE  ColumnsInv'
<1>1. ColumnsTyped'
  BY RunKeepsTypes DEF ColumnsInv
<1> QED BY <1>1, QuietKeeps DEF ColumnsInv

LEMMA RunFacts ==
    ASSUME ColumnsTyped
    PROVE  /\ schema \in Schemas /\ ledger \in Schemas
           /\ edited \in SUBSET Rows /\ clash \in SUBSET Rows /\ behind \in SUBSET Rows
           /\ faults \in 0..MaxFaults /\ halfway \in SUBSET Rows /\ undisturbed \in BOOLEAN
           /\ notes \in [Rows -> Notes] /\ synced \in [Rows -> Notes]
           /\ cells \in [Rows -> [Cols -> Written]]
           /\ gone \in [Causes -> [Rows -> SUBSET Written]]
           /\ turn \in Turns
BY DEF ColumnsTyped, SettingTyped, ValuesTyped

LEMMA FaultFacts ==
    ASSUME ColumnsTyped, Fault
    PROVE  faults' \in 0..MaxFaults /\ undisturbed' = FALSE
BY ColumnsAssumption DEF Fault, ColumnsTyped, SettingTyped

LEMMA FirstIn == ASSUME NEW S, S # {} PROVE First(S) \in S
BY DEF First

(* Between the turns of a run, and where it has none of a row's notes in hand. *)
LEMMA NothingInHand ==
    ASSUME synced' = synced, turn' \in Turns,
           turn'.at \notin {"follow", "rows", "sent"}
              \/ (turn'.at = "follow" /\ turn'.half = Nothing /\ turn'.pages = turn.pages
                    /\ turn.at = "follow" /\ turn.half = Nothing)
              \/ (turn'.at = "rows" /\ turn'.pages = turn.pages
                    /\ (turn.at = "rows" \/ (turn.at = "follow" /\ turn.half = Nothing))),
           turn.at = "follow" => turn.half = Nothing,
           turn'.at \in {"rename", "snapshots"} => \A p \in PlanOf' : p \in PlanOf \/ p.base = synced
    PROVE  \A r : /\ Copies(r)' \subseteq Copies(r) /\ Bases(r)' \subseteq Bases(r)
                  /\ PagesOf(r)' \subseteq PagesOf(r)
<1> SUFFICES ASSUME NEW r
             PROVE  /\ Copies(r)' \subseteq Copies(r) /\ Bases(r)' \subseteq Bases(r)
                    /\ PagesOf(r)' \subseteq PagesOf(r)
  OBVIOUS
<1>1. InPlan(r)' \subseteq InPlan(r) \cup {synced[r]}
  <2>1. InPlan(r)' = {p.base[r] : p \in PlanOf'} /\ InPlan(r) = {p.base[r] : p \in PlanOf}
    BY DEF InPlan
  <2>2. turn'.at \notin {"rename", "snapshots"} => PlanOf' = {}
    BY DEF PlanOf
  <2> QED BY <2>1, <2>2
<1>2. Halves(r) = {} /\ Halves(r)' = {} /\ Sents(r)' = {} /\ PagesOf(r)' \subseteq PagesOf(r)
  BY DEF Halves, Sents, PagesOf
<1> QED BY <1>1, <1>2 DEF Copies, Bases

LEMMA PullStartsKeeps == ASSUME ColumnsInv, PullStarts PROVE ColumnsInv'
<1>1. /\ turn = Idle /\ turn' = [at |-> "pages", met |-> schema] /\ undisturbed' = TRUE
      /\ UNCHANGED <<computed, schema, cells, notes, renaming, acts, faults, edited, synced, clash,
                     ledger, kept, gone, behind, halfway>>
  BY DEF PullStarts, Untouched, outside, stateDb
<1>2. turn' \in Turns
  BY <1>1, RunFacts DEF Turns, AtPages, ColumnsInv
<1>3. RunTyped
  BY <1>1, <1>2, RunFacts DEF RunTyped, ColumnsInv
<1> QED BY <1>1, <1>2, <1>3, NothingInHand, RunKeeps, GoneAlone DEF Idle

LEMMA RecordsKeysKeeps == ASSUME ColumnsInv, RecordsKeys PROVE ColumnsInv'
<1>1. /\ turn.at = "follow" /\ turn.half # Nothing
      /\ synced' = [synced EXCEPT ![turn.half[1]] = turn.half[2]]
      /\ turn' = [turn EXCEPT !.half = Nothing]
      /\ UNCHANGED <<computed, schema, cells, notes, renaming, acts, faults, edited, clash,
                     ledger, kept, gone, behind, halfway, undisturbed>>
  BY DEF RecordsKeys, Untouched, outside, columnGhosts
<1>2. turn \in AtFollow /\ turn.half[1] \in Rows /\ turn.half[2] \in Notes
  <2>1. turn \in AtFollow
    BY <1>1, TurnFacts DEF ColumnsInv, ColumnsTyped
  <2> QED BY <1>1, <2>1 DEF AtFollow
<1>3. turn' \in AtFollow /\ turn'.half = Nothing /\ turn'.pages = turn.pages /\ turn'.at = "follow"
  BY <1>1, <1>2 DEF AtFollow
<1>4. RunTyped
  BY <1>1, <1>2, <1>3, RunFacts DEF RunTyped, ColumnsInv, Turns
<1>5. ASSUME NEW r \in Rows
      PROVE  /\ Copies(r)' \subseteq Copies(r) /\ Bases(r)' \subseteq Bases(r)
             /\ PagesOf(r)' \subseteq PagesOf(r)
  <2>1. synced'[r] = IF r = turn.half[1] THEN turn.half[2] ELSE synced[r]
    BY <1>1, <1>2, RunFacts DEF ColumnsInv
  <2>2. Halves(r)' = {} /\ Sents(r)' = {} /\ InPlan(r)' = {} /\ PagesOf(r)' = PagesOf(r)
    BY <1>1, <1>3 DEF Halves, Sents, PagesOf, InPlan, PlanOf
  <2>3. Halves(r) = IF r = turn.half[1] THEN {turn.half[2]} ELSE {}
    BY <1>1 DEF Halves
  <2> QED BY <2>1, <2>2, <2>3 DEF Copies, Bases
<1> QED BY <1>1, <1>4, <1>5, RunKeeps, GoneAlone

LEMMA RekeyFailsKeeps == ASSUME ColumnsInv, RekeyFails PROVE ColumnsInv'
<1>1. /\ turn.at = "follow" /\ turn.half = Nothing /\ Fault /\ turn.left # {}
      /\ turn' = [turn EXCEPT !.left = @ \ {First(@)}, !.failed = @ \cup {First(turn.left)}]
      /\ UNCHANGED <<computed, schema, cells, notes, renaming, acts, edited, synced, clash, ledger,
                     kept, gone, behind, halfway>>
  BY DEF RekeyFails, outside, stateDb
<1>2. turn \in AtFollow
  BY <1>1, TurnFacts DEF ColumnsInv, ColumnsTyped
<1>3. turn' \in AtFollow /\ turn'.half = Nothing /\ turn'.pages = turn.pages /\ turn'.at = "follow"
  <2>1. First(turn.left) \in Rows
    BY <1>1, <1>2, FirstIn DEF AtFollow
    <2> QED BY <1>1, <1>2, <2>1 DEF AtFollow
<1>4. RunTyped
  BY <1>1, <1>3, RunFacts, FaultFacts DEF RunTyped, ColumnsInv, Turns
<1> QED BY <1>1, <1>3, <1>4, NothingInHand, RunKeeps, GoneAlone DEF Turns

LEMMA LeftHalfwayFacts ==
    ASSUME ColumnsTyped, LeftHalfway
    PROVE  halfway' \in SUBSET Rows /\ behind' \in SUBSET Rows
<1>1. halfway' \in {halfway, halfway \cup Carried} /\ behind' \in {behind, behind \cup halfway'}
  BY DEF LeftHalfway
<1>2. Carried \subseteq Rows
  BY DEF Carried
<1> QED BY <1>1, <1>2, RunFacts

LEMMA FollowEndsKeeps == ASSUME ColumnsInv, FollowEnds PROVE ColumnsInv'
<1>1. /\ turn.at = "follow" /\ turn.half = Nothing
      /\ ledger' = NowKnown
      /\ (halfway' = {} /\ UNCHANGED behind) \/ LeftHalfway
      /\ turn' = [at |-> "rows", met |-> turn.met, pages |-> turn.pages, cols |-> turn.cols,
                  moved |-> turn.moved, left |-> Rows, fresh |-> Refreshed(ledger, turn.met)]
      /\ UNCHANGED <<computed, schema, cells, notes, renaming, acts, faults, edited, synced, clash,
                     kept, gone, undisturbed>>
  BY DEF FollowEnds, Untouched, outside
<1>2. turn \in AtFollow
  BY <1>1, TurnFacts DEF ColumnsInv, ColumnsTyped
<1>3. Refreshed(ledger, turn.met) \subseteq Keys
  <2>1. computed \subseteq Cols /\ turn.met \in Schemas
    BY <1>2 DEF ColumnsInv, ColumnsTyped, SettingTyped, AtFollow
  <2>2. \A c \in Cols : turn.met.name[c] \in Keys \cup {NoName}
    BY <2>1 DEF Schemas
  <2> QED BY <2>1, <2>2 DEF Refreshed
<1>4. turn' \in AtRows /\ turn'.pages = turn.pages /\ turn'.at = "rows"
  BY <1>1, <1>2, <1>3 DEF AtFollow, AtRows
<1>5. ledger' \in Schemas
  <2>1. turn.met \in Schemas
    BY <1>2 DEF AtFollow
  <2> QED BY <1>1, <2>1, RunFacts DEF NowKnown, ColumnsInv
<1>6. RunTyped
  BY <1>1, <1>4, <1>5, RunFacts, LeftHalfwayFacts DEF RunTyped, ColumnsInv, Turns
<1> QED BY <1>1, <1>4, <1>6, NothingInHand, RunKeeps, GoneAlone DEF Turns

LEMMA RowFailsKeeps == ASSUME ColumnsInv, RowFails PROVE ColumnsInv'
<1> DEFINE r == First(turn.left)
<1>1. /\ turn.at = "rows" /\ Fault /\ turn.left # {}
      /\ edited' = edited \cup (turn.moved \cap {r}) /\ behind' \in {behind, behind \cup {r}}
      /\ turn' = [turn EXCEPT !.left = @ \ {r}]
      /\ UNCHANGED <<computed, schema, cells, notes, renaming, acts, synced, clash, ledger, kept, gone, halfway>>
  BY DEF RowFails, outside, stateDb
<1>2. turn \in AtRows
  BY <1>1, TurnFacts DEF ColumnsInv, ColumnsTyped
<1>3. r \in Rows
  BY <1>1, <1>2, FirstIn DEF AtRows
<1> HIDE DEF r
<1>4. turn' \in AtRows /\ turn'.pages = turn.pages /\ turn'.at = "rows"
  BY <1>1, <1>2 DEF AtRows
<1>5. RunTyped
  BY <1>1, <1>3, <1>4, RunFacts, FaultFacts DEF RunTyped, ColumnsInv, Turns
<1> QED BY <1>1, <1>4, <1>5, NothingInHand, RunKeeps, GoneAlone DEF Turns

LEMMA EndsKeep == ASSUME ColumnsInv, PullEnds \/ PushEnds PROVE ColumnsInv'
<1>1. /\ turn.at \in {"rows", "rename"} /\ turn' = Idle
      /\ UNCHANGED <<computed, schema, cells, notes, renaming, acts, faults, edited, synced, clash,
                     ledger, kept, gone, behind, halfway, undisturbed>>
  BY DEF PullEnds, PushEnds, Untouched, outside, stateDb, columnGhosts
<1>2. RunTyped
  BY <1>1, RunFacts DEF RunTyped, ColumnsInv, Turns
<1> QED BY <1>1, <1>2, NothingInHand, RunKeeps, GoneAlone DEF Turns, Idle

LEMMA PlansPushKeeps == ASSUME ColumnsInv, PlansPush PROVE ColumnsInv'
<1> DEFINE able == {y \in LocalRenames : Named(schema, y[1]) # {} /\ Named(schema, y[2]) = {}}
<1>1. /\ turn = Idle /\ turn' = [at |-> "rename", jobs |-> Unsent, plan |-> {Plans(x) : x \in able}]
      /\ UNCHANGED <<computed, schema, cells, notes, renaming, acts, faults, edited, synced, clash,
                     ledger, kept, gone, behind, halfway, undisturbed>>
  BY DEF PlansPush, Untouched, outside, stateDb, columnGhosts
<1>2. \A x \in able : Plans(x) \in Renames
  <2> SUFFICES ASSUME NEW x \in able PROVE Plans(x) \in Renames
    OBVIOUS
  <2>1. x[1] \in Keys /\ x[2] \in Keys /\ Named(schema, x[1]) # {}
    BY DEF LocalRenames, Pairs
  <2>2. (CHOOSE c \in Named(schema, x[1]) : TRUE) \in Cols
    BY <2>1 DEF Named
  <2>3. synced \in [Rows -> Notes]
    BY RunFacts DEF ColumnsInv
  <2> QED BY <2>1, <2>2, <2>3 DEF Plans, Renames, Unsent
<1> HIDE DEF able
<1>3. turn' \in AtRename /\ turn'.at = "rename"
  BY <1>1, <1>2 DEF AtRename, Unsent
<1>4. RunTyped
  BY <1>1, <1>3, RunFacts DEF RunTyped, ColumnsInv, Turns
<1>5. \A p \in PlanOf' : p.base = synced
  BY <1>1, <1>3 DEF PlanOf, Plans
<1> QED BY <1>1, <1>3, <1>4, <1>5, NothingInHand, RunKeeps, GoneAlone DEF Turns, Idle

LEMMA TakesNameFacts ==
    ASSUME ColumnsTyped, NEW c \in Cols, NEW k, TakesName(c, k) PROVE schema' \in Schemas
<1>1. PICK n \in Keys : schema' = [schema EXCEPT !.name[c] = n]
  BY DEF TakesName
<1>2. schema \in Schemas
  BY RunFacts
<1> QED BY <1>1, <1>2 DEF Schemas

LEMMA RenamesFirstKeeps == ASSUME ColumnsInv, RenamesFirst PROVE ColumnsInv'
<1>1. PICK p \in turn.plan :
        /\ TakesName(p.col, p.to)
        /\ ledger' \in {ledger, [ledger EXCEPT !.name[p.col] = p.to]}
        /\ behind' \in {Rows, behind \cup halfway \cup {r \in Rows : synced[r][p.to] # Nothing}}
        /\ turn' = [at |-> "snapshots", jobs |-> turn.jobs, plan |-> turn.plan \ {p},
                    it |-> p, left |-> p.rows]
  BY DEF RenamesFirst
<1>2. /\ turn.at = "rename"
      /\ UNCHANGED <<computed, cells, notes, renaming, acts, edited, synced, clash, faults,
                     kept, gone, halfway, undisturbed>>
  BY DEF RenamesFirst
<1>3. turn \in AtRename
  BY <1>2, TurnFacts DEF ColumnsInv, ColumnsTyped
<1>4. p \in Renames
  BY <1>3 DEF AtRename
<1>5. turn' \in AtSnapshots /\ turn'.at = "snapshots"
  BY <1>1, <1>3, <1>4 DEF AtRename, AtSnapshots, Renames
<1>6. ledger' \in Schemas
  BY <1>1, <1>4, RunFacts DEF Schemas, Renames, ColumnsInv
<1>7. RunTyped
  BY <1>1, <1>2, <1>4, <1>5, <1>6, RunFacts, TakesNameFacts DEF RunTyped, ColumnsInv, Turns, Renames
<1>8. PlanOf' \subseteq PlanOf
  BY <1>1, <1>2, <1>5 DEF PlanOf
<1> QED BY <1>2, <1>5, <1>7, <1>8, NothingInHand, RunKeeps, GoneAlone DEF Turns

LEMMA RenameFailsKeeps == ASSUME ColumnsInv, RenameFails PROVE ColumnsInv'
<1>1. PICK p \in turn.plan :
        /\ \/ UNCHANGED <<schema, faults, behind, undisturbed>>
           \/ Fault /\ UNCHANGED <<schema, behind>>
           \/ Fault /\ TakesName(p.col, p.to) /\ behind' = behind \cup halfway
        /\ turn' = [turn EXCEPT !.plan = @ \ {p}, !.jobs = @ \ p.rows]
  BY DEF RenameFails
<1>2. /\ turn.at = "rename"
      /\ UNCHANGED <<computed, cells, notes, renaming, acts, edited, synced, clash, ledger,
                     kept, gone, halfway>>
  BY DEF RenameFails, stateDb
<1>3. turn \in AtRename
  BY <1>2, TurnFacts DEF ColumnsInv, ColumnsTyped
<1>4. p \in Renames
  BY <1>3 DEF AtRename
<1>5. turn' \in AtRename /\ turn'.at = "rename"
  BY <1>1, <1>3 DEF AtRename
<1>6. schema' \in Schemas /\ faults' \in 0..MaxFaults /\ behind' \in SUBSET Rows /\ undisturbed' \in BOOLEAN
  BY <1>1, <1>4, RunFacts, FaultFacts, TakesNameFacts DEF Renames, ColumnsInv
<1>7. RunTyped
  BY <1>2, <1>5, <1>6, RunFacts DEF RunTyped, ColumnsInv, Turns
<1>8. PlanOf' \subseteq PlanOf
  BY <1>1, <1>2, <1>3, <1>5 DEF PlanOf, AtRename
<1> QED BY <1>2, <1>5, <1>7, <1>8, NothingInHand, RunKeeps, GoneAlone DEF Turns

LEMMA NextRenameKeeps == ASSUME ColumnsInv, NextRename PROVE ColumnsInv'
<1>1. /\ turn.at = "snapshots" /\ turn' = [at |-> "rename", jobs |-> turn.jobs, plan |-> turn.plan]
      /\ UNCHANGED <<computed, schema, cells, notes, renaming, acts, faults, edited, synced, clash,
                     ledger, kept, gone, behind, halfway, undisturbed>>
  BY DEF NextRename, Untouched, outside, stateDb, columnGhosts
<1>2. turn \in AtSnapshots
  BY <1>1, TurnFacts DEF ColumnsInv, ColumnsTyped
<1>3. turn' \in AtRename /\ turn'.at = "rename"
  BY <1>1, <1>2 DEF AtRename, AtSnapshots
<1>4. RunTyped
  BY <1>1, <1>3, RunFacts DEF RunTyped, ColumnsInv, Turns
<1>5. PlanOf' \subseteq PlanOf
  BY <1>1, <1>3 DEF PlanOf
<1> QED BY <1>1, <1>3, <1>4, <1>5, NothingInHand, RunKeeps, GoneAlone DEF Turns

LEMMA SendFailsKeeps == ASSUME ColumnsInv, SendFails PROVE ColumnsInv'
<1>1. /\ turn.at = "rename" /\ Fault /\ turn' = [turn EXCEPT !.jobs = @ \ {First(@)}]
      /\ UNCHANGED <<computed, schema, cells, notes, renaming, acts, edited, synced, clash, ledger,
                     kept, gone, behind, halfway>>
  BY DEF SendFails, outside, stateDb
<1>2. turn \in AtRename
  BY <1>1, TurnFacts DEF ColumnsInv, ColumnsTyped
<1>3. turn' \in AtRename /\ turn'.at = "rename"
  BY <1>1, <1>2 DEF AtRename
<1>4. RunTyped
  BY <1>1, <1>3, RunFacts, FaultFacts DEF RunTyped, ColumnsInv, Turns
<1>5. PlanOf' \subseteq PlanOf
  BY <1>1, <1>2, <1>3 DEF PlanOf, AtRename
<1> QED BY <1>1, <1>3, <1>4, <1>5, NothingInHand, RunKeeps, GoneAlone DEF Turns

LEMMA RecordsRowKeeps == ASSUME ColumnsInv, RecordsRow PROVE ColumnsInv'
<1>1. /\ turn.at = "sent" /\ synced' = [synced EXCEPT ![turn.row] = turn.note]
      /\ turn' = [at |-> "rename", jobs |-> turn.jobs, plan |-> {}]
      /\ UNCHANGED <<computed, schema, cells, notes, renaming, acts, faults, edited, clash,
                     ledger, kept, gone, behind, halfway, undisturbed>>
  BY DEF RecordsRow, Untouched, outside, columnGhosts
<1>2. turn \in AtSent /\ turn.row \in Rows /\ turn.note \in Notes
  <2>1. turn \in AtSent
    BY <1>1, TurnFacts DEF ColumnsInv, ColumnsTyped
  <2> QED BY <2>1 DEF AtSent
<1>3. turn' \in AtRename /\ turn'.at = "rename"
  BY <1>1, <1>2 DEF AtRename, AtSent
<1>4. RunTyped
  BY <1>1, <1>2, <1>3, RunFacts DEF RunTyped, ColumnsInv, Turns
<1>5. ASSUME NEW r \in Rows
      PROVE  /\ Copies(r)' \subseteq Copies(r) /\ Bases(r)' \subseteq Bases(r)
             /\ PagesOf(r)' \subseteq PagesOf(r)
  <2>1. synced'[r] = IF r = turn.row THEN turn.note ELSE synced[r]
    BY <1>1, <1>2, RunFacts DEF ColumnsInv
  <2>2. Halves(r)' = {} /\ Sents(r)' = {} /\ PagesOf(r)' = {} /\ Halves(r) = {} /\ InPlan(r)' = {}
    BY <1>1, <1>3 DEF Halves, Sents, PagesOf, InPlan, PlanOf
  <2>3. Sents(r) = IF r = turn.row THEN {turn.note} ELSE {}
    BY <1>1 DEF Sents
  <2> QED BY <2>1, <2>2, <2>3 DEF Copies, Bases
<1> QED BY <1>1, <1>4, <1>5, RunKeeps, GoneAlone

LEMMA RunDiesKeeps == ASSUME ColumnsInv, RunDies PROVE ColumnsInv'
<1>1. /\ turn # Idle /\ Fault /\ turn' = Idle
      /\ edited' = edited \cup (IF turn.at \in {"follow", "rows"} THEN
                      turn.moved \cap (IF turn.at = "follow" THEN Rows ELSE turn.left) ELSE {})
      /\ gone' = [gone EXCEPT !["cut off"] = [r \in Rows |-> @[r] \cup CutOff(r)]]
      /\ UNCHANGED <<computed, schema, cells, notes, renaming, acts, synced, clash, ledger, kept>>
  BY DEF RunDies, outside, stateDb
<1>2. ColumnsTyped
  BY DEF ColumnsInv
<1>3. edited' \in SUBSET Rows
  <2>1. edited \in SUBSET Rows
    BY <1>2, RunFacts
  <2>2. CASE turn.at = "follow"
    BY <1>1, <2>1, <2>2
  <2>3. CASE turn.at = "rows"
    <3>1. turn.moved \in SUBSET Rows
      BY <1>2, <2>3, TurnFacts DEF ColumnsTyped, AtRows
    <3> QED BY <1>1, <2>1, <2>3, <3>1
  <2>4. CASE turn.at \notin {"follow", "rows"}
    BY <1>1, <2>1, <2>4
  <2> QED BY <2>2, <2>3, <2>4
<1>4. halfway' \in SUBSET Rows /\ behind' \in SUBSET Rows
  <2>1. CASE turn.at = "follow"
    <3>1. LeftHalfway
      BY <2>1 DEF RunDies
    <3> QED BY <1>2, <3>1, LeftHalfwayFacts
  <2>2. CASE turn.at = "rows"
    <3>1. turn \in AtRows /\ behind' \in {behind, behind \cup turn.left} /\ UNCHANGED halfway
      BY <1>2, <2>2, TurnFacts DEF RunDies, ColumnsTyped
    <3> QED BY <1>2, <3>1, RunFacts DEF AtRows
  <2>3. CASE turn.at = "snapshots"
    <3>1. turn \in AtSnapshots /\ behind' = behind \cup turn.left /\ UNCHANGED halfway
      BY <1>2, <2>3, TurnFacts DEF RunDies, ColumnsTyped
    <3> QED BY <1>2, <3>1, RunFacts DEF AtSnapshots
  <2>4. CASE turn.at \notin {"follow", "rows", "snapshots"}
    <3>1. UNCHANGED <<behind, halfway>>
      BY <2>4 DEF RunDies
    <3> QED BY <1>2, <3>1, RunFacts
  <2> QED BY <2>1, <2>2, <2>3, <2>4
<1>5. ASSUME NEW r \in Rows
      PROVE  /\ CutOff(r) \subseteq Written
             /\ Halves(r) # {} => CutOff(r) = Held(synced[r]) \ Held(notes[r])
  <2>1. Held(synced[r]) \subseteq Written
    BY <1>2, RowParts DEF Held, Notes
  <2> QED BY <2>1 DEF CutOff, Halves
<1>6. /\ gone' \in [Causes -> [Rows -> SUBSET Written]]
      /\ \A r \in Rows, w \in Causes : gone'[w][r] = IF w = "cut off" THEN gone[w][r] \cup CutOff(r)
                                                    ELSE gone[w][r]
  <2>1. gone \in [Causes -> [Rows -> SUBSET Written]] /\ "cut off" \in Causes
    BY <1>2, RunFacts DEF Causes
  <2>2. [r \in Rows |-> gone["cut off"][r] \cup CutOff(r)] \in [Rows -> SUBSET Written]
    BY <1>5, <2>1
  <2> QED BY <1>1, <2>1, <2>2
<1>7. ColumnsTyped'
  <2>1. RunTyped
    BY <1>1, <1>2, <1>3, <1>4, <1>6, RunFacts, FaultFacts DEF RunTyped, Turns
  <2> QED BY <1>1, <1>2, <2>1, RunKeepsTypes
<1>8. ASSUME NEW r \in Rows PROVE RowInv(r)'
  <2>1. Copies(r)' = {synced[r]} /\ Bases(r)' = {synced[r]} /\ PagesOf(r)' = {}
    BY <1>1 DEF Copies, Bases, PagesOf, Halves, Sents, InPlan, PlanOf, Idle
  <2>2. Owed(r)' \subseteq Owed(r)
    BY <1>1, <1>6, OwedShrinks
  <2>3. CASE Halves(r) = {}
    <3>1. Bases(r)' \subseteq Bases(r) /\ Copies(r)' \subseteq Copies(r)
      BY <2>1, <2>3 DEF Bases, Copies
    <3> QED BY <1>1, <2>1, <2>2, <3>1, RowKeeps DEF ColumnsInv
  <2>4. CASE Halves(r) # {}
    <3>1. RowInv(r) /\ synced[r] \in Copies(r)
      BY DEF ColumnsInv, Copies
    <3>2. Held(notes[r])' = Held(notes[r]) /\ InRow(r)' = InRow(r) /\ \A f : Held(f)' = Held(f)
      BY <1>1 DEF Held, InRow
    <3>3. Owed(r)' \cap CutOff(r) = {}
      <4>1. CutOff(r) \subseteq gone'["cut off"][r] /\ "cut off" \in Causes
        BY <1>6 DEF Causes
      <4> QED BY <4>1 DEF Owed
    <3>4. NoteHolds(r)'
      BY <1>5, <2>1, <2>4, <3>2, <3>3 DEF NoteHolds
    <3>5. NotComputed(r)' /\ OnceEach(r)'
      BY <1>1, <2>1, <2>2, <3>1 DEF RowInv, NotComputed, OnceEach, Once
    <3>6. RowHolds(r)' /\ Somewhere(r)'
      BY <2>1, <2>2, <3>1, <3>2 DEF RowInv, RowHolds, Somewhere, OfColumns
    <3> QED BY <3>4, <3>5, <3>6 DEF RowInv
  <2> QED BY <2>3, <2>4
<1> QED BY <1>7, <1>8 DEF ColumnsInv

(* The page of a row as a query returns it. *)
LEMMA RowPageFacts ==
    ASSUME ColumnsInv, NEW r \in Rows
    PROVE  /\ RowPage(r) \in Notes /\ Once(RowPage(r), Owed(r))
           /\ Held(RowPage(r)) \cap Owed(r) \subseteq InRow(r)
<1>1. ColumnsTyped /\ RowInv(r)
  BY DEF ColumnsInv
<1>2. schema \in Schemas /\ computed \subseteq Cols /\ cells[r] \in [Cols -> Written]
  BY <1>1 DEF ColumnsTyped, SettingTyped
<1>3. Nothing \notin Owed(r) /\ \A v \in Owed(r) : v[1] \notin computed
  BY <1>1, RowParts DEF RowInv, NotComputed
<1>4. ASSUME NEW k \in Keys
      PROVE  \/ RowPage(r)[k] = Nothing
             \/ \E c \in Cols : schema.name[c] = k /\ RowPage(r)[k] = Value(r, c)
  <2>1. CASE Named(schema, k) = {}
    BY <2>1 DEF RowPage
  <2>2. CASE Named(schema, k) # {}
    <3>1. (CHOOSE c \in Named(schema, k) : TRUE) \in Named(schema, k)
      BY <2>2
    <3> QED BY <2>2, <3>1 DEF RowPage, Named
  <2> QED BY <2>1, <2>2
<1>5. ASSUME NEW c \in Cols PROVE Value(r, c) \in Written /\ (Value(r, c) \in Owed(r) => Value(r, c) = cells[r][c])
  <2>1. CASE c \in computed
    <3>1. Value(r, c) = <<c, schema.formula>>
      BY <2>1 DEF Value
    <3> QED BY <1>2, <1>3, <2>1, <3>1 DEF Schemas, Written
  <2>2. CASE c \notin computed
    BY <1>2, <2>2 DEF Value
  <2> QED BY <2>1, <2>2
<1>6. RowPage(r) \in Notes
  <2>1. Nothing \in Written
    BY DEF Written
  <2>2. \A k \in Keys : RowPage(r)[k] \in Written
    BY <1>4, <1>5, <2>1
  <2>3. RowPage(r) = [k \in Keys |-> RowPage(r)[k]]
    BY DEF RowPage
  <2> QED BY <2>2, <2>3 DEF Notes
<1>7. Once(RowPage(r), Owed(r))
  <2> SUFFICES ASSUME NEW i \in Keys, NEW j \in Keys, i # j, RowPage(r)[i] = RowPage(r)[j],
                      RowPage(r)[i] \in Owed(r)
               PROVE  FALSE
    BY <1>6 DEF Once, Notes
  <2>1. PICK c \in Cols : schema.name[c] = i /\ RowPage(r)[i] = cells[r][c]
    BY <1>3, <1>4, <1>5
  <2>2. PICK d \in Cols : schema.name[d] = j /\ RowPage(r)[j] = cells[r][d]
    BY <1>3, <1>4, <1>5
  <2> QED BY <1>1, <1>2, <2>1, <2>2 DEF RowInv, OnceEach, Once
<1>8. Held(RowPage(r)) \cap Owed(r) \subseteq InRow(r)
  <2> SUFFICES ASSUME NEW v \in Held(RowPage(r)), v \in Owed(r) PROVE v \in InRow(r)
    OBVIOUS
  <2>1. PICK k \in Keys : RowPage(r)[k] = v
    BY DEF Held
  <2>2. \E c \in Cols : v = cells[r][c]
    BY <1>3, <1>4, <1>5, <2>1
  <2> QED BY <2>2 DEF InRow
<1> QED BY <1>6, <1>7, <1>8

LEMMA PullQueriesKeeps == ASSUME ColumnsInv, PullQueries PROVE ColumnsInv'
<1>1. /\ turn.at = "pages"
      /\ turn' = [at |-> "follow", met |-> turn.met, pages |-> [r \in Rows |-> RowPage(r)],
                  cols |-> schema, moved |-> edited,
                  left |-> IF turn.met.name = ledger.name THEN {} ELSE Rows,
                  half |-> Nothing, failed |-> {}]
      /\ edited' = {}
      /\ UNCHANGED <<computed, schema, cells, notes, renaming, acts, faults, synced, clash, ledger,
                     kept, gone, behind, halfway, undisturbed>>
  BY DEF PullQueries, Untouched, outside, stateDb, columnGhosts
<1>2. ColumnsTyped
  BY DEF ColumnsInv
<1>3. turn \in AtPages
  BY <1>1, <1>2, TurnFacts DEF ColumnsTyped
<1>4. turn' \in AtFollow
  <2>1. [r \in Rows |-> RowPage(r)] \in [Rows -> Notes]
    BY RowPageFacts
  <2>2. turn.met \in Schemas /\ schema \in Schemas /\ edited \in SUBSET Rows
    BY <1>2, <1>3, RunFacts DEF AtPages
  <2> QED BY <1>1, <2>1, <2>2 DEF AtFollow
<1>5. ColumnsTyped'
  <2>1. RunTyped
    BY <1>1, <1>2, <1>4, RunFacts DEF RunTyped, Turns
  <2> QED BY <1>1, <1>2, <2>1, RunKeepsTypes
<1>6. ASSUME NEW r \in Rows PROVE RowInv(r)'
  <2>1. Copies(r)' = {synced[r]} /\ Bases(r)' = {synced[r]} /\ PagesOf(r)' = {RowPage(r)}
    BY <1>1 DEF Copies, Bases, PagesOf, Halves, Sents, InPlan, PlanOf
  <2>2. Copies(r) = {synced[r]} /\ Bases(r) = {synced[r]} /\ PagesOf(r) = {} /\ RowInv(r)
    BY <1>1 DEF Copies, Bases, PagesOf, Halves, Sents, InPlan, PlanOf, ColumnsInv
  <2>3. Owed(r)' = Owed(r) /\ OfColumns(r)' = OfColumns(r) /\ InRow(r)' = InRow(r)
        /\ \A f : Held(f)' = Held(f)
    BY <1>1 DEF Owed, OfColumns, InRow, Held
  <2>4. OnceEach(r)'
    BY <1>1, <2>1, <2>2, <2>3, RowPageFacts DEF RowInv, OnceEach
  <2>5. RowHolds(r)'
    BY <1>1, <2>1, <2>2, <2>3, RowPageFacts DEF RowInv, RowHolds
  <2>6. NotComputed(r)' /\ NoteHolds(r)' /\ Somewhere(r)'
    BY <1>1, <2>1, <2>2, <2>3 DEF RowInv, NotComputed, NoteHolds, Somewhere, Held
  <2> QED BY <2>4, <2>5, <2>6 DEF RowInv
<1> QED BY <1>5, <1>6 DEF ColumnsInv

LEMMA RekeysSnapshotKeeps == ASSUME ColumnsInv, RekeysSnapshot PROVE ColumnsInv'
<1> DEFINE r == First(turn.left)
           base == turn.it.base[r]
<1>1. PICK new \in Rekeyed(base, {<<turn.it.from, turn.it.to>>}, {}) :
        /\ synced' = IF new = base THEN synced ELSE [synced EXCEPT ![r] = new]
        /\ turn' = [turn EXCEPT !.left = @ \ {r},
                      !.jobs = IF new # base /\ notes[r] = new THEN @ \ {r} ELSE @]
        /\ behind' \in {behind, behind \cup {r}}
  BY DEF RekeysSnapshot
<1>2. /\ turn.at = "snapshots" /\ turn.left # {}
      /\ UNCHANGED <<computed, schema, cells, notes, renaming, acts, faults, edited, clash, ledger,
                     kept, gone, halfway, undisturbed>>
  BY DEF RekeysSnapshot, Untouched, outside
<1>3. ColumnsTyped
  BY DEF ColumnsInv
<1>4. turn \in AtSnapshots
  BY <1>2, <1>3, TurnFacts DEF ColumnsTyped
<1>5. r \in Rows
  BY <1>2, <1>4, FirstIn DEF AtSnapshots
<1>11. base \in InPlan(r) /\ base \in Copies(r) /\ base \in Bases(r)
  BY <1>2 DEF InPlan, PlanOf, Copies, Bases
<1> HIDE DEF r, base
<1>6. turn' \in AtSnapshots /\ turn'.at = "snapshots" /\ turn'.plan = turn.plan /\ turn'.it = turn.it
  BY <1>1, <1>2, <1>4 DEF AtSnapshots
<1>7. RowInv(r) /\ base \in Notes /\ Nothing \notin Owed(r) /\ Once(base, Owed(r))
  BY <1>3, <1>5, <1>11, RowParts DEF ColumnsInv, RowInv, OnceEach
<1>8. new \in Notes /\ Once(new, Owed(r)) /\ Held(new) \subseteq Held(base)
  BY <1>1, <1>7, RekeyedFacts
<1>9. ColumnsTyped'
  <2>1. synced' \in [Rows -> Notes] /\ behind' \in SUBSET Rows
    BY <1>1, <1>3, <1>5, <1>8, RunFacts
  <2>2. RunTyped
    BY <1>2, <1>3, <1>6, <2>1, RunFacts DEF RunTyped, Turns
  <2> QED BY <1>2, <1>3, <2>2, RunKeepsTypes
<1>10. ASSUME NEW s \in Rows PROVE RowInv(s)'
  <2>1. InPlan(s)' = InPlan(s)
    BY <1>2, <1>6 DEF InPlan, PlanOf
  <2>2. /\ Copies(s)' = {synced'[s]} \cup InPlan(s) /\ Bases(s)' = {synced'[s]} \cup InPlan(s)
        /\ Copies(s) = {synced[s]} \cup InPlan(s) /\ Bases(s) = {synced[s]} \cup InPlan(s)
        /\ PagesOf(s)' = {} /\ PagesOf(s) = {} /\ RowInv(s)
    BY <1>2, <1>6, <2>1 DEF Copies, Bases, PagesOf, Halves, Sents, ColumnsInv
  <2>3. synced'[s] = synced[s] \/ (s = r /\ synced'[s] = new)
    BY <1>1, <1>3, <1>5, RunFacts
  <2>4. CASE synced'[s] = synced[s]
    <3>1. Owed(s)' = Owed(s)
      BY <1>2 DEF Owed
    <3> QED BY <1>2, <2>2, <2>4, <3>1, RowKeeps
  <2>5. CASE s = r /\ synced'[s] = new
    <3>1. Owed(s)' = Owed(s) /\ OfColumns(s)' = OfColumns(s) /\ InRow(s)' = InRow(s)
          /\ \A f : Held(f)' = Held(f)
      BY <1>2 DEF Owed, OfColumns, InRow, Held
    <3>2. OnceEach(s)'
      BY <1>2, <1>8, <2>2, <2>5, <3>1 DEF RowInv, OnceEach
    <3>3. RowHolds(s)'
      BY <1>2, <1>8, <1>11, <2>2, <2>5, <3>1 DEF RowInv, RowHolds
    <3>4. NotComputed(s)' /\ Somewhere(s)'
      BY <1>2, <2>2, <3>1 DEF RowInv, NotComputed, Somewhere, Held
    <3>5. NoteHolds(s)'
      BY <1>2, <1>8, <1>11, <2>2, <2>5, <3>1 DEF RowInv, NoteHolds
    <3> QED BY <3>2, <3>3, <3>4, <3>5 DEF RowInv
  <2> QED BY <2>3, <2>4, <2>5
<1> QED BY <1>9, <1>10 DEF ColumnsInv

(* A key that is carried along loses a value only when its column is gone and the value *)
(* is the one that was synced.                                                           *)
LEMMA RekeysKeeps == ASSUME ColumnsInv, Rekeys PROVE ColumnsInv'
<1>2. /\ turn.at = "follow" /\ turn.half = Nothing /\ turn.left # {}
      /\ UNCHANGED <<computed, schema, cells, renaming, acts, edited, synced, clash, ledger, faults,
                     kept, halfway, undisturbed>>
  BY DEF Rekeys, stateDb
<1>3. ColumnsTyped
  BY DEF ColumnsInv
<1>4. turn \in AtFollow
  BY <1>2, <1>3, TurnFacts DEF ColumnsTyped
<1>5. PICK r \in Rows : r = First(turn.left)
  BY <1>2, <1>4, FirstIn DEF AtFollow
<1> DEFINE renames == Renamed(ledger, turn.met)
           removed == Removed(ledger, turn.met)
           drops == Drops(r, removed)
<1>1. PICK new \in Rekeyed(notes[r], renames, drops), remembered \in Rekeyed(synced[r], renames, removed) :
        /\ notes' = [notes EXCEPT ![r] = new]
        /\ gone' = [gone EXCEPT
               !["squeezed"][r] = @ \cup ({notes[r][k] : k \in
                    Keys \ (drops \ {x[2] : x \in renames})} \ Held(new)),
               !["taken"][r] = @ \cup (Taken(r, new) \cap {synced[r][k] : k \in drops})]
        /\ behind' \in {behind \cup {r}, behind}
        /\ turn' = [turn EXCEPT !.left = @ \ {r}, !.half =
              IF new = notes[r] /\ remembered = synced[r] THEN Nothing
              ELSE <<r, IF Unmodified(r) THEN new ELSE remembered>>]
  <2>1. RekeysRow(r)
    BY <1>5 DEF Rekeys
  <2> QED BY <2>1 DEF RekeysRow
<1>6. removed \subseteq Keys \cup {NoName}
  BY <1>3, RunFacts DEF Removed, Schemas
<1> HIDE DEF renames, removed
<1>7. /\ RowInv(r) /\ synced[r] \in Notes /\ notes[r] \in Notes /\ Nothing \notin Owed(r)
      /\ Once(synced[r], Owed(r)) /\ Once(notes[r], Owed(r))
  BY <1>3, <1>5, RowParts DEF ColumnsInv, RowInv, OnceEach
<1>8. /\ new \in Notes /\ Once(new, Owed(r)) /\ Held(new) \subseteq Held(notes[r])
  BY <1>1, <1>7, RekeyedFacts
<1>9. /\ remembered \in Notes /\ Once(remembered, Owed(r)) /\ Held(remembered) \subseteq Held(synced[r])
      /\ \A n \in Keys : remembered[n] # Nothing => \E k \in Keys \ removed : synced[r][k] = remembered[n]
  BY <1>1, <1>7, RekeyedFacts
<1> DEFINE half == IF Unmodified(r) THEN new ELSE remembered
           squeezed == {notes[r][k] : k \in Keys \ (drops \ {x[2] : x \in renames})} \ Held(new)
           taken == Taken(r, new) \cap {synced[r][k] : k \in drops}
<1>10. half \in Notes /\ Once(half, Owed(r)) /\ Held(half) \subseteq Held(synced[r])
  BY <1>8, <1>9 DEF Unmodified
<1>11. /\ gone' \in [Causes -> [Rows -> SUBSET Written]]
       /\ \A s \in Rows, w \in Causes : gone[w][s] \subseteq gone'[w][s]
       /\ squeezed \subseteq gone'["squeezed"][r] /\ taken \subseteq gone'["taken"][r]
  <2>1. gone \in [Causes -> [Rows -> SUBSET Written]] /\ "squeezed" \in Causes /\ "taken" \in Causes
    BY <1>3, RunFacts DEF Causes
  <2>2. squeezed \subseteq Written /\ taken \subseteq Written
    BY <1>7 DEF Notes, Taken, Held
  <2> HIDE DEF squeezed, taken
  <2>3. gone' = [gone EXCEPT !["squeezed"][r] = @ \cup squeezed, !["taken"][r] = @ \cup taken]
    BY <1>1 DEF squeezed, taken
  <2>4. /\ gone'["squeezed"] = [gone["squeezed"] EXCEPT ![r] = @ \cup squeezed]
        /\ gone'["taken"] = [gone["taken"] EXCEPT ![r] = @ \cup taken]
        /\ \A w \in Causes \ {"squeezed", "taken"} : gone'[w] = gone[w]
        /\ gone' = [w \in Causes |-> gone'[w]]
    BY <2>1, <2>3
  <2>5. \A w \in Causes : gone'[w] \in [Rows -> SUBSET Written]
    BY <1>5, <2>1, <2>2, <2>4
  <2>6. \A s \in Rows, w \in Causes : gone[w][s] \subseteq gone'[w][s]
    BY <1>5, <2>1, <2>4
  <2>7. squeezed \subseteq gone'["squeezed"][r] /\ taken \subseteq gone'["taken"][r]
    BY <1>5, <2>1, <2>4
  <2> QED BY <2>4, <2>5, <2>6, <2>7 DEF squeezed, taken
<1>12. turn' \in AtFollow /\ turn'.at = "follow" /\ turn'.pages = turn.pages
       /\ turn'.half = IF new = notes[r] /\ remembered = synced[r] THEN Nothing ELSE <<r, half>>
  BY <1>1, <1>4, <1>5, <1>10 DEF AtFollow
<1> HIDE DEF half
<1>13. notes' \in [Rows -> Notes] /\ notes'[r] = new /\ \A s \in Rows \ {r} : notes'[s] = notes[s]
  BY <1>1, <1>3, <1>5, <1>8, RunFacts
<1>14. ColumnsTyped'
  <2>1. RunTyped
    BY <1>1, <1>2, <1>3, <1>5, <1>11, <1>12, <1>13, RunFacts DEF RunTyped, Turns
  <2> QED BY <1>2, <1>3, <2>1, RunKeepsTypes
<1>15. \A s \in Rows : Owed(s)' \subseteq Owed(s)
  BY <1>2, <1>11, OwedShrinks
<1>16. ASSUME NEW s \in Rows
       PROVE  /\ Copies(s) = {synced[s]} /\ Bases(s) = {synced[s]} /\ PagesOf(s)' = PagesOf(s)
              /\ Copies(s)' = {synced[s]} \cup Halves(s)'
              /\ Bases(s)' = IF Halves(s)' = {} THEN {synced[s]} ELSE Halves(s)'
              /\ Halves(s)' = IF s = r /\ ~(new = notes[r] /\ remembered = synced[r]) THEN {half} ELSE {}
  <2>1. Halves(s) = {} /\ Sents(s) = {} /\ Sents(s)' = {} /\ PagesOf(s)' = PagesOf(s)
        /\ InPlan(s) = {} /\ InPlan(s)' = {}
    BY <1>2, <1>12 DEF Halves, Sents, PagesOf, InPlan, PlanOf
  <2>2. <<r, half>> # Nothing /\ <<r, half>>[1] = r /\ <<r, half>>[2] = half
    BY DEF Nothing
  <2>3. Halves(s)' = IF s = r /\ ~(new = notes[r] /\ remembered = synced[r]) THEN {half} ELSE {}
    BY <1>12, <2>2 DEF Halves
  <2> QED BY <1>2, <2>1, <2>3 DEF Copies, Bases
<1>17. ASSUME NEW s \in Rows, s # r \/ (new = notes[r] /\ remembered = synced[r]) PROVE RowInv(s)'
  BY <1>2, <1>7, <1>13, <1>15, <1>16, <1>17, RowKeeps DEF ColumnsInv
<1>18. ASSUME ~(new = notes[r] /\ remembered = synced[r]) PROVE RowInv(r)'
  <2>1. Copies(r)' = {synced[r], half} /\ Bases(r)' = {half} /\ PagesOf(r)' = PagesOf(r)
    BY <1>5, <1>16, <1>18
  <2>2. /\ InRow(r)' = InRow(r) /\ OfColumns(r)' \subseteq OfColumns(r) /\ Owed(r)' \subseteq Owed(r)
        /\ \A f : Held(f)' = Held(f)
    BY <1>2, <1>5, <1>15 DEF InRow, OfColumns, Held
  <2>3. ASSUME NEW v \in Held(notes[r]) \ Held(new), v \in Owed(r)'
        PROVE  v \in InRow(r) /\ \E k \in removed \cap Keys : synced[r][k] = v
    <3>1. v[1] # NoName /\ \E k \in removed \cap Keys : notes[r][k] = v /\ synced[r][k] = v
      <4>1. v \notin squeezed /\ v \notin taken
        BY <1>5, <1>11, <2>3 DEF Owed, Causes
      <4>2. PICK k \in Keys : notes[r][k] = v
        BY <2>3 DEF Held
      <4>3. k \in drops
        BY <2>3, <4>1, <4>2
      <4>4. k \in removed /\ synced[r][k] = v
        BY <4>2, <4>3 DEF Drops, Unmodified
      <4>5. v \notin Taken(r, new)
        BY <4>1, <4>3, <4>4
      <4> QED BY <2>3, <4>2, <4>4, <4>5 DEF Taken
    <3>2. v \in Held(synced[r]) /\ v \in OfColumns(r)
      BY <1>7, <2>2, <2>3, <3>1 DEF Held, OfColumns
    <3> QED BY <1>7, <3>1, <3>2 DEF RowInv, RowHolds, Copies
  <2>4. Held(notes[r])' = Held(new)
    BY <1>13 DEF Held
  <2>5. NotComputed(r)'
    BY <1>2, <1>7 DEF RowInv, NotComputed
  <2>6. OnceEach(r)'
    <3>1. ASSUME NEW f, Once(f, Owed(r)) PROVE Once(f, Owed(r)')
      BY <2>2, <3>1 DEF Once
    <3>2. \A f \in PagesOf(r) : Once(f, Owed(r))
      BY <1>7 DEF RowInv, OnceEach
    <3> QED BY <1>2, <1>7, <1>8, <1>10, <1>13, <2>1, <3>1, <3>2 DEF RowInv, OnceEach
  <2>7. NoteHolds(r)'
    <3> SUFFICES ASSUME NEW v \in Held(half), v \in Owed(r)', v \notin Held(new) PROVE FALSE
      BY <2>1, <2>2, <2>4 DEF NoteHolds
    <3>1. half = remembered
      BY DEF half
    <3>2. PICK k \in Keys \ removed : synced[r][k] = v
      BY <1>9, <3>1 DEF Held
    <3>3. v \in Held(notes[r])
      <4>1. v \in Held(synced[r]) /\ synced[r] \in Bases(r) /\ v \in Owed(r)
        BY <1>5, <1>9, <1>16, <2>2, <3>1
      <4> QED BY <1>7, <4>1 DEF RowInv, NoteHolds
    <3>4. PICK j \in removed \cap Keys : synced[r][j] = v
      BY <2>3, <3>3
    <3>5. v \in Owed(r) /\ j # k
      BY <2>2, <3>2, <3>4
    <3> QED BY <1>7, <3>2, <3>4, <3>5 DEF Once, Notes
  <2>8. RowHolds(r)'
    <3>1. \A f \in Copies(r)' : Held(f) \subseteq Held(synced[r])
      BY <1>10, <2>1
    <3>2. synced[r] \in Copies(r)
      BY DEF Copies
    <3> QED BY <1>7, <2>1, <2>2, <3>1, <3>2 DEF RowInv, RowHolds
  <2>9. Somewhere(r)'
    BY <1>7, <2>2, <2>3, <2>4 DEF RowInv, Somewhere
  <2> QED BY <2>5, <2>6, <2>7, <2>8, <2>9 DEF RowInv
<1> QED BY <1>14, <1>17, <1>18 DEF ColumnsInv
(* A row's note and what is remembered of it are written alike, from what was remembered *)
(* and what the query returned.                                                          *)
LEMMA RowWritten ==
    ASSUME ColumnsInv, NEW r \in Rows, NEW new \in Notes,
           turn.at = "rows", turn'.at = "rows", turn'.pages = turn.pages,
           UNCHANGED <<computed, cells, kept>>,
           notes'[r] = new, synced'[r] = new, Owed(r)' \subseteq Owed(r), Once(new, Owed(r)'),
           \A v \in Held(notes[r]) \ Held(new) : v \in Owed(r)' => v \in InRow(r),
           \A v \in Held(new) : v \in OfColumns(r)' => v \in InRow(r)
    PROVE  RowInv(r)'
<1>1. RowInv(r)
  BY DEF ColumnsInv
<1>2. Copies(r)' = {new} /\ Bases(r)' = {new} /\ PagesOf(r)' = PagesOf(r)
  BY DEF Copies, Bases, PagesOf, Halves, Sents, InPlan, PlanOf
<1>3. InRow(r)' = InRow(r) /\ Held(notes[r])' = Held(new) /\ \A f : Held(f)' = Held(f)
  BY DEF InRow, Held
<1>4. NotComputed(r)'
  BY <1>1 DEF RowInv, NotComputed
<1>5. OnceEach(r)'
  <2>1. ASSUME NEW f, Once(f, Owed(r)) PROVE Once(f, Owed(r)')
    BY <2>1 DEF Once
  <2>2. Once(cells[r], Owed(r)) /\ \A f \in PagesOf(r) : Once(f, Owed(r))
    BY <1>1 DEF RowInv, OnceEach
  <2> QED BY <1>2, <2>1, <2>2 DEF OnceEach
<1>6. NoteHolds(r)'
  BY <1>2, <1>3 DEF NoteHolds
<1>7. RowHolds(r)'
  <2>1. \A f \in Copies(r)' : Held(f)' \cap OfColumns(r)' \subseteq InRow(r)'
    BY <1>2, <1>3
  <2>2. \A f \in PagesOf(r)' : Held(f)' \cap Owed(r)' \subseteq InRow(r)'
    BY <1>1, <1>2, <1>3 DEF RowInv, RowHolds
  <2> QED BY <2>1, <2>2 DEF RowHolds
<1>8. Somewhere(r)'
  BY <1>1, <1>3 DEF RowInv, Somewhere
<1> QED BY <1>4, <1>5, <1>6, <1>7, <1>8 DEF RowInv

(* What a note that is as it was synced loses to a column is in the row, or was the user's. *)
LEMMA UnmodifiedLoses ==
    ASSUME ColumnsInv, NEW r \in Rows, Unmodified(r), NEW new,
           NEW v \in Held(notes[r]) \ Held(new), v \in Owed(r), v \notin Taken(r, new)
    PROVE  v \in InRow(r)
<1>1. v[1] # NoName /\ v \in OfColumns(r)
  BY DEF Taken, OfColumns
<1> QED BY <1>1 DEF Unmodified, ColumnsInv, RowInv, RowHolds, Copies

LEMMA ReceivesRowKeeps ==
    ASSUME ColumnsInv, turn \in AtRows, NEW r \in Rows, ReceivesRow(r),
           turn'.at = "rows", turn'.pages = turn.pages,
           UNCHANGED <<computed, schema, cells, acts, kept>>
    PROVE  /\ edited' \in SUBSET Rows /\ clash' \in SUBSET Rows /\ behind' \in SUBSET Rows
           /\ halfway' \in SUBSET Rows
           /\ notes' \in [Rows -> Notes] /\ synced' \in [Rows -> Notes]
           /\ gone' \in [Causes -> [Rows -> SUBSET Written]]
           /\ \A s \in Rows : RowInv(s)'
<1> DEFINE new == Received(r)
           taken == Taken(r, new)
           unheard == Unheard(r, NamesIn(turn.cols))
           twice == Twice(new)
<1>1. ColumnsTyped /\ RowInv(r) /\ turn.at = "rows"
  BY DEF ColumnsInv, AtRows
<1>2. /\ edited' \in SUBSET Rows /\ clash' \in SUBSET Rows /\ behind' \in SUBSET Rows
      /\ halfway' \in SUBSET Rows
  <2>1. edited' \in {edited, edited \cup {r}} /\ clash' \in {clash, clash \ {r}, clash \cup {r}}
        /\ behind' \in {behind, behind \ {r}, behind \cup {r}} /\ halfway' \in {halfway, halfway \ {r}}
    BY DEF ReceivesRow
  <2> QED BY <1>1, <2>1, RunFacts
<1>3. CASE UNCHANGED <<notes, synced, gone>>
  <2>1. ASSUME NEW s \in Rows PROVE RowInv(s)'
    <3>1. Copies(s)' = Copies(s) /\ Bases(s)' = Bases(s) /\ PagesOf(s)' = PagesOf(s)
      BY <1>1, <1>3 DEF Copies, Bases, PagesOf, Halves, Sents, InPlan, PlanOf
    <3> QED BY <1>3, <3>1, RowKeeps, OwedShrinks DEF ColumnsInv
  <2> QED BY <1>1, <1>2, <1>3, <2>1, RunFacts
<1>4. CASE ~UNCHANGED <<notes, synced, gone>>
  <2>1. /\ Unmodified(r) \/ notes[r] = new
        /\ notes' = [notes EXCEPT ![r] = new] /\ synced' = [synced EXCEPT ![r] = new]
        /\ gone' = [gone EXCEPT !["taken"][r] = @ \cup taken, !["unheard"][r] = @ \cup unheard,
                                !["twice"][r] = @ \cup twice]
    BY <1>4 DEF ReceivesRow
  <2>2. turn.pages[r] \in Notes /\ notes[r] \in Notes /\ synced[r] \in Notes
    BY <1>1, RowParts DEF AtRows
  <2>3. /\ new \in Notes
        /\ \A k \in Keys : new[k] = IF k \in NamesIn(turn.cols) THEN turn.pages[r][k] ELSE notes[r][k]
    BY <2>2 DEF Received, Notes
  <2>4. taken \subseteq Written /\ unheard \subseteq Written /\ twice \subseteq Written
    BY <2>2, <2>3 DEF Taken, Held, Unheard, Differing, Twice, Notes
  <2> HIDE DEF new, taken, unheard, twice
  <2>5. /\ gone' \in [Causes -> [Rows -> SUBSET Written]]
        /\ \A s \in Rows, w \in Causes : gone[w][s] \subseteq gone'[w][s]
        /\ taken \subseteq gone'["taken"][r] /\ unheard \subseteq gone'["unheard"][r]
        /\ twice \subseteq gone'["twice"][r]
    <3>1. gone \in [Causes -> [Rows -> SUBSET Written]]
          /\ "taken" \in Causes /\ "unheard" \in Causes /\ "twice" \in Causes
      BY <1>1, RunFacts DEF Causes
    <3>2. /\ gone'["taken"] = [gone["taken"] EXCEPT ![r] = @ \cup taken]
          /\ gone'["unheard"] = [gone["unheard"] EXCEPT ![r] = @ \cup unheard]
          /\ gone'["twice"] = [gone["twice"] EXCEPT ![r] = @ \cup twice]
          /\ \A w \in Causes \ {"taken", "unheard", "twice"} : gone'[w] = gone[w]
          /\ gone' = [w \in Causes |-> gone'[w]]
      BY <2>1, <3>1
    <3>3. \A w \in Causes : gone'[w] \in [Rows -> SUBSET Written]
      <4>1. \A w \in Causes : gone[w] \in [Rows -> SUBSET Written]
        BY <3>1
      <4>2. gone'["taken"] \in [Rows -> SUBSET Written]
        BY <2>4, <3>1, <3>2, <4>1
      <4>3. gone'["unheard"] \in [Rows -> SUBSET Written]
        BY <2>4, <3>1, <3>2, <4>1
      <4>4. gone'["twice"] \in [Rows -> SUBSET Written]
        BY <2>4, <3>1, <3>2, <4>1
      <4> QED BY <3>2, <4>1, <4>2, <4>3, <4>4
    <3>4. \A s \in Rows, w \in Causes : gone[w][s] \subseteq gone'[w][s]
      BY <3>1, <3>2
    <3>5. /\ taken \subseteq gone'["taken"][r] /\ unheard \subseteq gone'["unheard"][r]
          /\ twice \subseteq gone'["twice"][r]
      BY <3>1, <3>2
    <3> QED BY <3>2, <3>3, <3>4, <3>5
  <2>6. /\ notes' \in [Rows -> Notes] /\ synced' \in [Rows -> Notes]
        /\ notes'[r] = new /\ synced'[r] = new
        /\ \A s \in Rows \ {r} : notes'[s] = notes[s] /\ synced'[s] = synced[s]
    BY <1>1, <2>1, <2>3, RunFacts
  <2>7. \A s \in Rows : Owed(s)' \subseteq Owed(s)
    BY <2>5, OwedShrinks
  <2>8. Owed(r)' \cap taken = {} /\ Owed(r)' \cap unheard = {} /\ Owed(r)' \cap twice = {}
    BY <2>5 DEF Owed, Causes
  <2>9. ASSUME NEW s \in Rows \ {r} PROVE RowInv(s)'
    <3>1. Copies(s)' = Copies(s) /\ Bases(s)' = Bases(s) /\ PagesOf(s)' = PagesOf(s)
      BY <1>1, <2>6 DEF Copies, Bases, PagesOf, Halves, Sents, InPlan, PlanOf
    <3> QED BY <2>6, <2>7, <3>1, RowKeeps DEF ColumnsInv
  <2>10. RowInv(r)'
    <3>1. Once(new, Owed(r)')
      BY <2>8, TwiceFacts DEF twice
    <3>2. ASSUME NEW v \in Held(notes[r]) \ Held(new), v \in Owed(r)' PROVE v \in InRow(r)
      <4>1. Unmodified(r)
        BY <2>1, <3>2
      <4>2. v \notin Taken(r, new) /\ v \in Owed(r)
        BY <2>7, <2>8, <3>2 DEF taken
      <4> QED BY <3>2, <4>1, <4>2, UnmodifiedLoses
    <3>3. ASSUME NEW v \in Held(new), v \in OfColumns(r)' PROVE v \in InRow(r)
      <4>1. PICK k \in Keys : new[k] = v /\ v # Nothing
        BY DEF Held
      <4>2. v \in Owed(r) /\ v \in OfColumns(r) /\ v[1] # NoName /\ v \in Owed(r)'
        BY <2>7, <3>3 DEF OfColumns
      <4>3. CASE k \in NamesIn(turn.cols)
        <5>1. v \in Held(turn.pages[r]) /\ turn.pages[r] \in PagesOf(r)
          BY <1>1, <2>3, <4>1, <4>3 DEF Held, PagesOf
        <5> QED BY <1>1, <4>2, <5>1 DEF RowInv, RowHolds
      <4>4. CASE k \notin NamesIn(turn.cols)
        <5>1. notes[r][k] = v
          BY <2>3, <4>1, <4>4
        <5>2. k \notin Differing(r)
          BY <2>8, <4>1, <4>2, <4>4, <5>1 DEF unheard, Unheard
        <5>3. v \in Held(synced[r]) /\ synced[r] \in Copies(r)
          BY <4>1, <5>1, <5>2 DEF Differing, Held, Copies
        <5> QED BY <1>1, <4>2, <5>3 DEF RowInv, RowHolds
      <4> QED BY <4>3, <4>4
    <3> QED BY <1>1, <2>3, <2>6, <2>7, <3>1, <3>2, <3>3, RowWritten
  <2> QED BY <1>2, <2>5, <2>6, <2>9, <2>10
<1> QED BY <1>3, <1>4
LEMMA ReformsRowKeeps ==
    ASSUME ColumnsInv, turn \in AtRows, NEW r \in Rows, ReformsRow(r),
           turn'.at = "rows", turn'.pages = turn.pages,
           UNCHANGED <<computed, schema, cells, acts, kept>>
    PROVE  /\ edited' \in SUBSET Rows /\ clash' \in SUBSET Rows /\ behind' \in SUBSET Rows
           /\ halfway' \in SUBSET Rows
           /\ notes' \in [Rows -> Notes] /\ synced' \in [Rows -> Notes]
           /\ gone' \in [Causes -> [Rows -> SUBSET Written]]
           /\ \A s \in Rows : RowInv(s)'
<1> DEFINE new == Reformed(r)
           taken == Taken(r, new)
           twice == Twice(new)
<1>1. ColumnsTyped /\ RowInv(r) /\ turn.at = "rows" /\ UNCHANGED <<edited, clash>>
  BY DEF ColumnsInv, AtRows, ReformsRow
<1>2. /\ edited' \in SUBSET Rows /\ clash' \in SUBSET Rows /\ behind' \in SUBSET Rows
      /\ halfway' \in SUBSET Rows
  <2>1. behind' \in {behind, behind \cup {r}} /\ UNCHANGED halfway
    BY DEF ReformsRow
  <2> QED BY <1>1, <2>1, RunFacts
<1>3. CASE ~Unmodified(r)
  <2>1. UNCHANGED <<notes, synced, gone>>
    BY <1>3 DEF ReformsRow
  <2>2. ASSUME NEW s \in Rows PROVE RowInv(s)'
    <3>1. Copies(s)' = Copies(s) /\ Bases(s)' = Bases(s) /\ PagesOf(s)' = PagesOf(s)
      BY <1>1, <2>1 DEF Copies, Bases, PagesOf, Halves, Sents, InPlan, PlanOf
    <3> QED BY <2>1, <3>1, RowKeeps, OwedShrinks DEF ColumnsInv
  <2> QED BY <1>1, <1>2, <2>1, <2>2, RunFacts
<1>4. CASE Unmodified(r)
  <2>1. /\ notes' = [notes EXCEPT ![r] = new] /\ synced' = [synced EXCEPT ![r] = new]
        /\ gone' = [gone EXCEPT !["taken"][r] = @ \cup taken, !["twice"][r] = @ \cup twice]
    BY <1>4 DEF ReformsRow
  <2>2. turn.pages[r] \in Notes /\ notes[r] \in Notes /\ synced[r] = notes[r]
    BY <1>1, <1>4, RowParts DEF AtRows, Unmodified
  <2>3. /\ new \in Notes
        /\ \A k \in Keys : new[k] \in {turn.pages[r][k], notes[r][k]}
    BY <2>2 DEF Reformed, Notes
  <2>4. taken \subseteq Written /\ twice \subseteq Written
    BY <2>2, <2>3 DEF Taken, Held, Twice, Notes
  <2> HIDE DEF new, taken, twice
  <2>5. /\ gone' \in [Causes -> [Rows -> SUBSET Written]]
        /\ \A s \in Rows, w \in Causes : gone[w][s] \subseteq gone'[w][s]
        /\ taken \subseteq gone'["taken"][r] /\ twice \subseteq gone'["twice"][r]
    <3>1. gone \in [Causes -> [Rows -> SUBSET Written]] /\ "taken" \in Causes /\ "twice" \in Causes
      BY <1>1, RunFacts DEF Causes
    <3>2. /\ gone'["taken"] = [gone["taken"] EXCEPT ![r] = @ \cup taken]
          /\ gone'["twice"] = [gone["twice"] EXCEPT ![r] = @ \cup twice]
          /\ \A w \in Causes \ {"taken", "twice"} : gone'[w] = gone[w]
          /\ gone' = [w \in Causes |-> gone'[w]]
      BY <2>1, <3>1
    <3>3. \A w \in Causes : gone'[w] \in [Rows -> SUBSET Written]
      <4>1. \A w \in Causes : gone[w] \in [Rows -> SUBSET Written]
        BY <3>1
      <4>2. \A w \in {"taken", "twice"} : gone'[w] \in [Rows -> SUBSET Written]
        BY <2>4, <3>1, <3>2, <4>1
      <4> QED BY <3>2, <4>1, <4>2
    <3>4. \A s \in Rows, w \in Causes : gone[w][s] \subseteq gone'[w][s]
      BY <3>1, <3>2
    <3>5. taken \subseteq gone'["taken"][r] /\ twice \subseteq gone'["twice"][r]
      BY <3>1, <3>2
    <3> QED BY <3>2, <3>3, <3>4, <3>5
  <2>6. /\ notes' \in [Rows -> Notes] /\ synced' \in [Rows -> Notes]
        /\ notes'[r] = new /\ synced'[r] = new
        /\ \A s \in Rows \ {r} : notes'[s] = notes[s] /\ synced'[s] = synced[s]
    BY <1>1, <2>1, <2>3, RunFacts
  <2>7. \A s \in Rows : Owed(s)' \subseteq Owed(s)
    BY <2>5, OwedShrinks
  <2>8. Owed(r)' \cap taken = {} /\ Owed(r)' \cap twice = {}
    BY <2>5 DEF Owed, Causes
  <2>9. ASSUME NEW s \in Rows \ {r} PROVE RowInv(s)'
    <3>1. Copies(s)' = Copies(s) /\ Bases(s)' = Bases(s) /\ PagesOf(s)' = PagesOf(s)
      BY <1>1, <2>6 DEF Copies, Bases, PagesOf, Halves, Sents, InPlan, PlanOf
    <3> QED BY <2>6, <2>7, <3>1, RowKeeps DEF ColumnsInv
  <2>10. RowInv(r)'
    <3>1. Once(new, Owed(r)')
      BY <2>8, TwiceFacts DEF twice
    <3>2. ASSUME NEW v \in Held(notes[r]) \ Held(new), v \in Owed(r)' PROVE v \in InRow(r)
      <4>1. v \notin Taken(r, new) /\ v \in Owed(r)
        BY <2>7, <2>8, <3>2 DEF taken
      <4> QED BY <1>4, <3>2, <4>1, UnmodifiedLoses
    <3>3. ASSUME NEW v \in Held(new), v \in OfColumns(r)' PROVE v \in InRow(r)
      <4>1. PICK k \in Keys : new[k] = v /\ v # Nothing
        BY DEF Held
      <4>2. v \in Owed(r) /\ v \in OfColumns(r)
        BY <2>7, <3>3 DEF OfColumns
      <4>3. CASE v = turn.pages[r][k]
        <5>1. v \in Held(turn.pages[r]) /\ turn.pages[r] \in PagesOf(r)
          BY <1>1, <4>1, <4>3 DEF Held, PagesOf
        <5> QED BY <1>1, <4>2, <5>1 DEF RowInv, RowHolds
      <4>4. CASE v = notes[r][k]
        <5>1. v \in Held(synced[r]) /\ synced[r] \in Copies(r)
          BY <2>2, <4>1, <4>4 DEF Held, Copies
        <5> QED BY <1>1, <4>2, <5>1 DEF RowInv, RowHolds
      <4> QED BY <2>3, <4>1, <4>3, <4>4
    <3> QED BY <1>1, <2>3, <2>6, <2>7, <3>1, <3>2, <3>3, RowWritten
  <2> QED BY <1>2, <2>5, <2>6, <2>9, <2>10
<1> QED BY <1>3, <1>4

LEMMA PullsRowKeeps == ASSUME ColumnsInv, PullsRow PROVE ColumnsInv'
<1>1. /\ turn.at = "rows" /\ turn.left # {} /\ turn' = [turn EXCEPT !.left = @ \ {First(@)}]
      /\ UNCHANGED <<computed, schema, cells, renaming, acts, ledger, faults, kept, undisturbed>>
  BY DEF PullsRow
<1>2. turn \in AtRows /\ ColumnsTyped
  BY <1>1, TurnFacts DEF ColumnsInv, ColumnsTyped
<1>3. PICK r \in Rows : ReceivesRow(r) \/ ReformsRow(r)
  BY <1>1, <1>2, FirstIn DEF PullsRow, AtRows
<1>4. turn' \in AtRows /\ turn'.at = "rows" /\ turn'.pages = turn.pages
  BY <1>1, <1>2 DEF AtRows
<1>5. /\ edited' \in SUBSET Rows /\ clash' \in SUBSET Rows /\ behind' \in SUBSET Rows
      /\ halfway' \in SUBSET Rows
      /\ notes' \in [Rows -> Notes] /\ synced' \in [Rows -> Notes]
      /\ gone' \in [Causes -> [Rows -> SUBSET Written]]
      /\ \A s \in Rows : RowInv(s)'
  BY <1>1, <1>2, <1>3, <1>4, ReceivesRowKeeps, ReformsRowKeeps
<1>6. RunTyped
  BY <1>1, <1>2, <1>4, <1>5, RunFacts DEF RunTyped, Turns
<1>7. ColumnsTyped'
  BY <1>1, <1>2, <1>6, RunKeepsTypes
<1> QED BY <1>5, <1>7 DEF ColumnsInv
(* The cells a push sends: a value stays in the row, or comes back to it with another key. *)
LEMMA SendsRowKeeps == ASSUME ColumnsInv, SendsRow PROVE ColumnsInv'
<1>1. /\ turn.at = "rename" /\ turn.plan = {} /\ turn.jobs # {}
      /\ UNCHANGED <<computed, schema, notes, renaming, acts, synced, clash, ledger, kept, halfway>>
  BY DEF SendsRow, stateDb
<1>2. turn \in AtRename /\ ColumnsTyped
  BY <1>1, TurnFacts DEF ColumnsInv, ColumnsTyped
<1>3. PICK r \in Rows : r = First(turn.jobs)
  BY <1>1, <1>2, FirstIn DEF AtRename
<1>4. /\ SendsCells(r)
      /\ \/ turn' = [at |-> "sent", jobs |-> turn.jobs \ {r}, row |-> r, note |-> notes[r]]
            /\ UNCHANGED <<faults, undisturbed>>
         \/ Fault /\ turn' = [turn EXCEPT !.jobs = @ \ {r}]
  BY <1>3 DEF SendsRow
<1> DEFINE row == [c \in Cols |-> IF schema.name[c] \in Sent(r) THEN notes[r][schema.name[c]] ELSE cells[r][c]]
           unseen == {v \in {cells[r][c] : c \in {d \in Cols :
              schema.name[d] \in Sent(r) /\ cells[r][d] # synced[r][schema.name[d]]}} : v # Nothing}
           unheard == Unheard(r, Sent(r))
           twice == Twice(row)
<1>5. /\ RowInv(r) /\ schema \in Schemas /\ Sent(r) \subseteq Keys
      /\ notes[r] \in Notes /\ synced[r] \in Notes /\ cells[r] \in [Cols -> Written]
  BY <1>2, RowParts, RunFacts DEF ColumnsInv, Sent, Differing
<1>6. row \in [Cols -> Written]
  BY <1>5 DEF Notes
<1>7. /\ cells' = [cells EXCEPT ![r] = row] /\ cells'[r] = row
      /\ cells' \in [Rows -> [Cols -> Written]]
      /\ \A s \in Rows \ {r} : cells'[s] = cells[s]
  <2>1. cells' = [cells EXCEPT ![r] = row]
    BY <1>4 DEF SendsCells
  <2> HIDE DEF row
  <2> QED BY <1>2, <1>6, <2>1, RunFacts
<1>8. gone' = [gone EXCEPT !["unseen"][r] = @ \cup unseen, !["unheard"][r] = @ \cup unheard,
                           !["twice"][r] = @ \cup twice]
  <2>1. gone' = [gone EXCEPT !["unseen"][r] = @ \cup unseen, !["unheard"][r] = @ \cup unheard,
                           !["twice"][r] = @ \cup Twice(cells'[r])]
    BY <1>4 DEF SendsCells
  <2> QED BY <1>7, <2>1
<1>9. edited' \in SUBSET Rows /\ behind' \in SUBSET Rows
  <2>1. edited' \in {edited, edited \cup {r}} /\ behind' \in {behind, behind \cup {r}}
    BY <1>4 DEF SendsCells
  <2> QED BY <1>2, <2>1, RunFacts
<1>10. unseen \subseteq Written /\ unheard \subseteq Written /\ twice \subseteq Written
  BY <1>5, <1>6 DEF Unheard, Differing, Twice, Notes
<1>11. /\ \A c \in Cols : row[c] = IF schema.name[c] \in Sent(r) THEN notes[r][schema.name[c]] ELSE cells[r][c]
       /\ \A c \in Cols : schema.name[c] \in Sent(r) /\ cells[r][c] # synced[r][schema.name[c]]
              /\ cells[r][c] # Nothing => cells[r][c] \in unseen
       /\ twice = Twice(row)
  OBVIOUS
<1> HIDE DEF row, unseen, unheard, twice
<1>12. /\ gone' \in [Causes -> [Rows -> SUBSET Written]]
       /\ \A s \in Rows, w \in Causes : gone[w][s] \subseteq gone'[w][s]
       /\ unseen \subseteq gone'["unseen"][r] /\ unheard \subseteq gone'["unheard"][r]
       /\ twice \subseteq gone'["twice"][r]
  <2>1. gone \in [Causes -> [Rows -> SUBSET Written]]
        /\ "unseen" \in Causes /\ "unheard" \in Causes /\ "twice" \in Causes
    BY <1>2, RunFacts DEF Causes
  <2>2. /\ gone'["unseen"] = [gone["unseen"] EXCEPT ![r] = @ \cup unseen]
        /\ gone'["unheard"] = [gone["unheard"] EXCEPT ![r] = @ \cup unheard]
        /\ gone'["twice"] = [gone["twice"] EXCEPT ![r] = @ \cup twice]
        /\ \A w \in Causes \ {"unseen", "unheard", "twice"} : gone'[w] = gone[w]
        /\ gone' = [w \in Causes |-> gone'[w]]
    BY <1>8, <2>1
  <2>3. \A w \in Causes : gone'[w] \in [Rows -> SUBSET Written]
    <3>1. \A w \in Causes : gone[w] \in [Rows -> SUBSET Written]
      BY <2>1
    <3>2. gone'["unseen"] \in [Rows -> SUBSET Written]
      BY <1>10, <2>1, <2>2, <3>1
    <3>3. gone'["unheard"] \in [Rows -> SUBSET Written]
      BY <1>10, <2>1, <2>2, <3>1
    <3>4. gone'["twice"] \in [Rows -> SUBSET Written]
      BY <1>10, <2>1, <2>2, <3>1
    <3> QED BY <2>2, <3>1, <3>2, <3>3, <3>4
  <2>4. \A s \in Rows, w \in Causes : gone[w][s] \subseteq gone'[w][s]
    BY <2>1, <2>2
  <2>5. /\ unseen \subseteq gone'["unseen"][r] /\ unheard \subseteq gone'["unheard"][r]
        /\ twice \subseteq gone'["twice"][r]
    BY <2>1, <2>2
  <2> QED BY <2>2, <2>3, <2>4, <2>5
<1>13. /\ turn' \in Turns /\ faults' \in 0..MaxFaults /\ undisturbed' \in BOOLEAN
       /\ turn'.at \in {"rename", "sent"}
       /\ turn'.at = "sent" => turn'.row = r /\ turn'.note = notes[r]
  <2>1. CASE turn' = [at |-> "sent", jobs |-> turn.jobs \ {r}, row |-> r, note |-> notes[r]]
             /\ UNCHANGED <<faults, undisturbed>>
    <3>1. turn' \in AtSent
      BY <1>2, <1>5, <2>1 DEF AtRename, AtSent
    <3> QED BY <1>2, <2>1, <3>1, RunFacts DEF Turns
  <2>2. CASE Fault /\ turn' = [turn EXCEPT !.jobs = @ \ {r}]
    <3>1. turn' \in AtRename /\ turn'.at = "rename"
      BY <1>2, <2>2 DEF AtRename
    <3> QED BY <1>2, <2>2, <3>1, FaultFacts DEF Turns
  <2> QED BY <1>4, <2>1, <2>2
<1>14. ColumnsTyped'
  <2>1. RunTyped
    BY <1>1, <1>2, <1>7, <1>9, <1>12, <1>13, RunFacts DEF RunTyped
  <2> QED BY <1>1, <1>2, <2>1, RunKeepsTypes
<1>15. \A s \in Rows : Owed(s)' \subseteq Owed(s)
  BY <1>1, <1>12, OwedShrinks
<1>16. ASSUME NEW s \in Rows
       PROVE  /\ Copies(s) = {synced[s]} /\ Bases(s) = {synced[s]} /\ PagesOf(s) = {} /\ PagesOf(s)' = {}
              /\ Sents(s)' \subseteq IF s = r THEN {notes[r]} ELSE {}
              /\ Copies(s)' = {synced[s]} \cup Sents(s)' /\ Bases(s)' = {synced[s]} \cup Sents(s)'
  <2>1. PlanOf = {} /\ PlanOf' = {}
    BY <1>1, <1>2, <1>4, <1>13 DEF PlanOf, AtRename
  <2>2. InPlan(s) = {} /\ InPlan(s)' = {}
    BY <2>1 DEF InPlan
  <2> QED BY <1>1, <1>13, <2>2 DEF Copies, Bases, PagesOf, Halves, Sents
<1>17. ASSUME NEW s \in Rows \ {r} PROVE RowInv(s)'
  BY <1>1, <1>7, <1>15, <1>16, RowKeeps DEF ColumnsInv
<1>18. RowInv(r)'
  <2>1. Owed(r)' \subseteq Owed(r) /\ Nothing \notin Owed(r) /\ OfColumns(r)' \subseteq OfColumns(r)
    BY <1>2, <1>15, RowParts DEF OfColumns
  <2>2. Owed(r)' \cap unseen = {} /\ Owed(r)' \cap unheard = {} /\ Owed(r)' \cap twice = {}
    <3>1. \A w \in Causes : Owed(r)' \cap gone'[w][r] = {}
      BY DEF Owed
    <3>2. "unseen" \in Causes /\ "unheard" \in Causes /\ "twice" \in Causes
      BY DEF Causes
    <3> QED BY <1>12, <3>1, <3>2
  <2>3. Held(notes[r])' = Held(notes[r]) /\ \A f : Held(f)' = Held(f)
    BY <1>1 DEF Held
  <2>4. \A c \in Cols : row[c] \in InRow(r)'
    BY <1>7 DEF InRow
  <2>5. ASSUME NEW k \in Sent(r) PROVE notes[r][k] \in InRow(r)'
    <3>1. PICK c \in Cols : schema.name[c] = k
      BY <2>5 DEF Sent, Writable, Named
    <3> QED BY <1>11, <2>4, <2>5, <3>1
  <2>6. ASSUME NEW v \in InRow(r), v \in Owed(r)' PROVE v \in InRow(r)' \/ (v \in Held(notes[r]) /\ v[1] = NoName)
    <3> SUFFICES ASSUME v \notin InRow(r)' PROVE v \in Held(notes[r]) /\ v[1] = NoName
      OBVIOUS
    <3>1. PICK c \in Cols : cells[r][c] = v
      BY <2>6 DEF InRow
    <3> DEFINE k == schema.name[c]
    <3>2. k \in Sent(r)
      BY <1>11, <2>4, <3>1
    <3>3. synced[r][k] = v /\ notes[r][k] # v /\ v \in Owed(r) /\ v # Nothing /\ k \in Keys
      <4>1. v # Nothing /\ v \in Owed(r) /\ v \notin unseen
        BY <2>1, <2>2, <2>6
      <4> QED BY <1>5, <1>11, <2>5, <3>1, <3>2, <4>1
    <3> HIDE DEF k
    <3>4. v \in Held(notes[r])
      <4>1. v \in Held(synced[r]) /\ synced[r] \in Bases(r)
        BY <1>16, <3>3 DEF Held
      <4> QED BY <1>5, <3>3, <4>1 DEF RowInv, NoteHolds
    <3>5. PICK j \in Keys : notes[r][j] = v /\ j # k
      BY <3>3, <3>4 DEF Held
    <3>6. synced[r][j] # v
      <4>1. Once(synced[r], Owed(r))
        BY <1>5 DEF RowInv, OnceEach, Copies
      <4> QED BY <1>5, <3>3, <3>5, <4>1 DEF Once, Notes
    <3>7. j \in Differing(r) \ Sent(r)
      BY <2>5, <3>5, <3>6 DEF Differing
    <3>8. v[1] = NoName
      BY <2>2, <2>6, <3>3, <3>5, <3>7 DEF unheard, Unheard
    <3> QED BY <3>4, <3>8
  <2>7. ASSUME NEW v \in OfColumns(r)', v \in InRow(r) PROVE v \in InRow(r)'
    <3>1. v \in Owed(r)' /\ v[1] # NoName
      BY <2>7 DEF OfColumns
    <3> QED BY <2>6, <2>7, <3>1
  <2>8. ASSUME NEW v \in OfColumns(r)', v \in Held(notes[r]) PROVE v \in InRow(r)'
    <3>1. PICK k \in Keys : notes[r][k] = v /\ v # Nothing
      BY <2>8 DEF Held
    <3>2. v \in Owed(r)' /\ v[1] # NoName /\ v \in OfColumns(r)
      BY <2>1, <2>8 DEF OfColumns
    <3>3. CASE k \in Sent(r)
      BY <2>5, <3>1, <3>3
    <3>4. CASE k \in Differing(r) \ Sent(r)
      BY <2>2, <3>1, <3>2, <3>4 DEF unheard, Unheard
    <3>5. CASE k \notin Differing(r)
      <4>1. v \in Held(synced[r]) /\ synced[r] \in Copies(r)
        BY <3>1, <3>5 DEF Differing, Held, Copies
      <4>2. v \in InRow(r)
        BY <1>5, <3>2, <4>1 DEF RowInv, RowHolds
      <4> QED BY <2>7, <2>8, <4>2
    <3> QED BY <3>3, <3>4, <3>5
  <2>9. NotComputed(r)'
    BY <1>1, <1>5 DEF RowInv, NotComputed
  <2>10. OnceEach(r)'
    <3>1. ASSUME NEW f, Once(f, Owed(r)) PROVE Once(f, Owed(r)')
      BY <2>1, <3>1 DEF Once
    <3>2. Once(row, Owed(r)')
      BY <1>11, <2>2, TwiceFacts
    <3>3. Once(notes[r], Owed(r)) /\ Once(synced[r], Owed(r))
      BY <1>5 DEF RowInv, OnceEach, Copies
    <3>4. \A f \in {notes[r]} \cup Copies(r)' \cup PagesOf(r)' : f = notes[r] \/ f = synced[r]
      BY <1>16
    <3> QED BY <1>1, <1>7, <3>1, <3>2, <3>3, <3>4 DEF OnceEach
  <2>11. NoteHolds(r)'
    <3>1. Held(synced[r]) \cap Owed(r)' \subseteq Held(notes[r])
      BY <1>5, <1>16, <2>1 DEF RowInv, NoteHolds
    <3> QED BY <1>16, <2>3, <3>1 DEF NoteHolds
  <2>12. RowHolds(r)'
    <3>1. Held(synced[r]) \cap OfColumns(r)' \subseteq InRow(r)'
      BY <1>5, <1>16, <2>1, <2>7 DEF RowInv, RowHolds
    <3>2. Held(notes[r]) \cap OfColumns(r)' \subseteq InRow(r)'
      BY <2>8
    <3> QED BY <1>16, <2>3, <3>1, <3>2 DEF RowHolds
  <2>13. Somewhere(r)'
    BY <1>5, <2>1, <2>3, <2>6 DEF RowInv, Somewhere
  <2> QED BY <2>9, <2>10, <2>11, <2>12, <2>13 DEF RowInv
<1> QED BY <1>14, <1>17, <1>18 DEF ColumnsInv
--------------------------------------------------------------------------------
LEMMA ColumnsStart == ASSUME ColumnsInit PROVE ColumnsInv
<1>1. PICK filled \in SUBSET (Rows \X (Cols \ computed)), own \in SUBSET (Rows \X Keys) :
        /\ cells = [r \in Rows |-> [c \in Cols |-> IF <<r, c>> \in filled THEN <<c, 0>> ELSE Nothing]]
        /\ notes = [r \in Rows |-> [k \in Keys |-> IF <<r, k>> \in own THEN <<NoName, 0>> ELSE RowPage(r)[k]]]
  BY DEF ColumnsInit
<1>2. /\ computed \in SUBSET Cols
      /\ schema \in [name : [Cols -> Keys], formula : {0}]
      /\ synced = notes /\ ledger = schema /\ edited = {} /\ clash = {} /\ behind = {}
      /\ renaming = Nothing /\ turn = Idle /\ acts = 0 /\ faults = 0
      /\ halfway = {} /\ undisturbed = FALSE
      /\ kept = [r \in Rows |-> {v \in Held(notes[r]) : v[1] \notin computed}]
      /\ gone = [w \in Causes |-> [r \in Rows |-> IF w = "twice" THEN Twice(notes[r]) ELSE {}]]
  BY DEF ColumnsInit
<1>3. Nothing \in Written /\ \A c \in Cols \cup {NoName} : <<c, 0>> \in Written
  BY <1>2 DEF Written
<1>4. cells \in [Rows -> [Cols -> Written]]
  BY <1>1, <1>3
<1>5. ASSUME NEW r \in Rows, NEW k \in Keys
      PROVE  /\ RowPage(r)[k] \in Written
             /\ RowPage(r)[k] # Nothing /\ RowPage(r)[k][1] \notin computed => RowPage(r)[k] \in InRow(r)
  <2>1. CASE Named(schema, k) = {}
    BY <1>3, <2>1 DEF RowPage
  <2>2. CASE Named(schema, k) # {}
    <3>1. PICK c \in Named(schema, k) : RowPage(r)[k] = Value(r, c)
      BY <2>2 DEF RowPage
    <3>2. c \in Cols
      BY <3>1 DEF Named
    <3>3. CASE c \in computed
      <4>1. RowPage(r)[k] = <<c, 0>>
        BY <1>2, <3>1, <3>3 DEF Value
      <4> QED BY <1>3, <3>2, <3>3, <4>1
    <3>4. CASE c \notin computed
      BY <1>4, <3>1, <3>2, <3>4 DEF Value, InRow
    <3> QED BY <3>3, <3>4
  <2> QED BY <2>1, <2>2
<1>6. notes \in [Rows -> Notes]
  BY <1>1, <1>3, <1>5 DEF Notes
<1>7. ColumnsTyped
  <2>1. acts \in 0..MaxActs /\ faults \in 0..MaxFaults /\ schema \in Schemas
    BY <1>2, ColumnsAssumption DEF Schemas
  <2>2. kept \in [Rows -> SUBSET (Written \ {Nothing})]
    BY <1>2, <1>6 DEF Held, Notes
  <2>3. gone \in [Causes -> [Rows -> SUBSET Written]]
    BY <1>2, <1>6 DEF Twice, Notes
  <2> QED BY <1>2, <1>4, <1>6, <2>1, <2>2, <2>3 DEF ColumnsTyped, SettingTyped, ValuesTyped, Turns
<1>8. ASSUME NEW r \in Rows PROVE RowInv(r)
  <2>1. Copies(r) = {notes[r]} /\ Bases(r) = {notes[r]} /\ PagesOf(r) = {}
    BY <1>2 DEF Copies, Bases, PagesOf, Halves, Sents, InPlan, PlanOf, Idle
  <2>2. kept[r] = {v \in Held(notes[r]) : v[1] \notin computed} /\ Owed(r) \cap Twice(notes[r]) = {}
    BY <1>2 DEF Owed, Causes
  <2>3. Owed(r) \subseteq Held(notes[r]) /\ \A v \in Owed(r) : v[1] \notin computed
    BY <2>2 DEF Owed
  <2>4. NotComputed(r)
    BY <2>2 DEF NotComputed
  <2>5. OnceEach(r)
    <3>1. Once(notes[r], Owed(r))
      BY <2>2, TwiceFacts
    <3>2. Once(cells[r], Owed(r))
      <4>1. \A c \in Cols : cells[r][c] # Nothing => cells[r][c] = <<c, 0>>
        BY <1>1
      <4>2. Nothing \notin Owed(r)
        BY <2>3 DEF Held
      <4>3. \A c, d \in Cols : cells[r][c] = cells[r][d] /\ cells[r][c] # Nothing => c = d
        BY <4>1
      <4> QED BY <1>4, <4>2, <4>3 DEF Once
    <3> QED BY <2>1, <3>1, <3>2 DEF OnceEach
  <2>6. NoteHolds(r) /\ Somewhere(r)
    BY <2>1, <2>3 DEF NoteHolds, Somewhere
  <2>7. RowHolds(r)
    <3>1. ASSUME NEW v \in Held(notes[r]), v \in OfColumns(r) PROVE v \in InRow(r)
      <4>1. PICK k \in Keys : notes[r][k] = v /\ v # Nothing
        BY <3>1 DEF Held
      <4>2. v[1] # NoName /\ v[1] \notin computed
        BY <2>3, <3>1 DEF OfColumns
      <4>3. notes[r][k] = IF <<r, k>> \in own THEN <<NoName, 0>> ELSE RowPage(r)[k]
        BY <1>1
      <4>4. v = RowPage(r)[k]
        BY <4>1, <4>2, <4>3
      <4> QED BY <1>5, <4>1, <4>2, <4>4
    <3> QED BY <2>1, <3>1 DEF RowHolds
  <2> QED BY <2>4, <2>5, <2>6, <2>7 DEF RowInv
<1> QED BY <1>7, <1>8 DEF ColumnsInv

LEMMA ColumnsStep == ASSUME ColumnsInv, [ColumnsNext]_columnsVars PROVE ColumnsInv'
<1>1. ASSUME NEW r \in Rows, NEW k \in Keys, WritesKey(r, k) \/ DeletesKey(r, k) PROVE ColumnsInv'
  BY <1>1, WritesKeyKeeps, DeletesKeyKeeps
<1>2. CASE \/ \E k, j \in Keys : StartsRenaming(k, j)
           \/ \E c \in Cols, k \in Keys : RenamesColumn(c, k)
           \/ ChangesFormula
  BY <1>2, NamesActsKeep
<1>3. CASE RenamesNext
  BY <1>3, RenamesNextKeeps
<1>4. ASSUME NEW c \in Cols, RemovesColumn(c) PROVE ColumnsInv'
  BY <1>4, RemovesColumnKeeps
<1>5. ASSUME NEW r \in Rows, NEW c \in Cols, NEW v \in Values, EditsCell(r, c, v) PROVE ColumnsInv'
  BY <1>5, EditsCellKeeps
<1>6. CASE PullStarts \/ PullQueries \/ Rekeys \/ RecordsKeys \/ RekeyFails \/ FollowEnds
  BY <1>6, PullStartsKeeps, PullQueriesKeeps, RekeysKeeps, RecordsKeysKeeps, RekeyFailsKeeps,
     FollowEndsKeeps
<1>7. CASE PullsRow \/ RowFails \/ PullEnds \/ PushEnds \/ RunDies
  BY <1>7, PullsRowKeeps, RowFailsKeeps, EndsKeep, RunDiesKeeps
<1>8. CASE PlansPush \/ RenamesFirst \/ RenameFails \/ RekeysSnapshot \/ NextRename
  BY <1>8, PlansPushKeeps, RenamesFirstKeeps, RenameFailsKeeps, RekeysSnapshotKeeps, NextRenameKeeps
<1>9. CASE SendsRow \/ RecordsRow \/ SendFails
  BY <1>9, SendsRowKeeps, RecordsRowKeeps, SendFailsKeeps
<1>10. CASE UNCHANGED columnsVars
  <2>1. UNCHANGED <<computed, schema, cells, notes, renaming, acts, faults, edited, synced, clash,
                    ledger, turn, kept, gone, behind, halfway, undisturbed>>
    BY <1>10 DEF columnsVars, outside, stateDb, columnGhosts
  <2>2. RunTyped
    BY <2>1, RunFacts DEF RunTyped, ColumnsInv
  <2> QED BY <2>1, <2>2, TurnAlone, RunKeeps, GoneAlone
<1> QED BY <1>1, <1>2, <1>3, <1>4, <1>5, <1>6, <1>7, <1>8, <1>9, <1>10 DEF ColumnsNext

LEMMA ColumnsInvHolds == ColumnsSpec => []ColumnsInv
<1>1. ColumnsInit => ColumnsInv
  BY ColumnsStart
<1>2. ColumnsInv /\ [ColumnsNext]_columnsVars => ColumnsInv'
  BY ColumnsStep
<1> QED BY <1>1, <1>2, PTL DEF ColumnsSpec

(* Every value somebody wrote in a row and nobody deleted or replaced is in the note or in  *)
(* the row, or was given up for one of the six causes of the code: whatever schema-follow.ts *)
(* carries along (rekeyTrackedRows), database-syncer.ts receives and takes afresh           *)
(* (pullDatabaseRow, rewriteStaleKeys) and page-pusher.ts sends (pushRowUpdate), between    *)
(* any acts, faults and deaths.                                                             *)
THEOREM NoValueIsLost == ColumnsSpec => []NoValueLost
<1>1. ColumnsInv => NoValueLost
  <2> SUFFICES ASSUME ColumnsInv, NEW r \in Rows
               PROVE  kept[r] \subseteq Held(notes[r]) \cup {cells[r][c] : c \in Cols}
                        \cup UNION {gone[w][r] : w \in Causes}
    BY DEF NoValueLost
  <2>1. Somewhere(r)
    BY DEF ColumnsInv, RowInv
  <2> QED BY <2>1 DEF Somewhere, Owed, InRow
<1> QED BY <1>1, ColumnsInvHolds, PTL

(* Types of the columns, the rows, the notes, what is remembered of them, and the run. *)
THEOREM ColumnsTypes == ColumnsSpec => []ColumnsTypeOK
<1>1. ColumnsInv => ColumnsTypeOK
  <2> SUFFICES ASSUME ColumnsInv PROVE ColumnsTypeOK
    OBVIOUS
  <2>1. ColumnsTyped /\ acts \in 0..MaxActs
    BY DEF ColumnsInv, ColumnsTyped, SettingTyped
  <2>2. 0..acts \subseteq 0..MaxActs
    BY <2>1, ColumnsAssumption
  <2>3. Written \subseteq Values
    BY <2>2 DEF Written, Values
  <2>4. schema \in [name : [Cols -> Keys \cup {NoName}], formula : 0..MaxActs]
        /\ ledger \in [name : [Cols -> Keys \cup {NoName}], formula : 0..MaxActs]
    BY <2>1, <2>2, RunFacts DEF Schemas
  <2>5. /\ notes \in [Rows -> [Keys -> Values]] /\ synced \in [Rows -> [Keys -> Values]]
        /\ cells \in [Rows -> [Cols -> Values]]
    BY <2>1, <2>3, RunFacts DEF Notes
  <2>6. kept \in [Rows -> SUBSET (Values \ {Nothing})] /\ gone \in [Causes -> [Rows -> SUBSET Values]]
    BY <2>1, <2>3 DEF ColumnsTyped, ValuesTyped
  <2>7. turn.at \in Runs
    BY <2>1, TurnFacts DEF ColumnsTyped
  <2> QED BY <2>1, <2>4, <2>5, <2>6, <2>7 DEF ColumnsTypeOK, ColumnsTyped, SettingTyped
<1> QED BY <1>1, ColumnsInvHolds, PTL
--------------------------------------------------------------------------------
(* What a note shows of its row. *)

(* No two columns have one name, in what one request says of them. *)
OneName(s) == \A c, d \in Cols : s.name[c] = s.name[d] /\ s.name[c] # NoName => c = d
(* As the columns go from s to t, none comes back, and formulas only get newer. *)
Becomes(s, t) == s.formula <= t.formula /\ \A c \in Cols : t.name[c] # NoName => s.name[c] # NoName
(* The columns that are there in s have in m the names they have in s. *)
Agree(m, s) == \A c \in Cols : s.name[c] # NoName => m.name[c] = s.name[c]

(* The names that a renaming takes away, and those it gives. *)
OldNames(a, b) == {x[1] : x \in Renamed(a, b)}
NewNames(a, b) == {x[2] : x \in Renamed(a, b)}
(* No column got the name of another. *)
Clean(a, b) == (OldNames(a, b) \cup Removed(a, b)) \cap NewNames(a, b) = {}

(* The columns a pull goes by. *)
Met == IF turn.at \in {"pages", "follow", "rows"} THEN turn.met ELSE schema

(* What a note should hold of a row: of a computed column, when its formula is the one last
   seen and the pull under way is not about to take its value afresh. *)
Fresh(r) == turn.at = "rows" => r \notin turn.left \/ turn.fresh = {}
Settled(r) == {c \in Cols : schema.name[c] # NoName
                 /\ (c \in computed => ledger.formula = schema.formula /\ Fresh(r))}
Holds(r) == [c \in Settled(r) |-> Value(r, c)]
Shows(f, name, V) == \A c \in DOMAIN V : f[name[c]] = V[c]

(* f shows V under the names that the ledger, l, has; or it was carried to those of m. *)
Known(f, V, half, l, m, s) ==
    IF half THEN /\ Clean(l, m) /\ Agree(m, s) /\ Shows(f, m.name, V)
                 /\ \A k \in OldNames(l, m) : f[k] = Nothing
    ELSE Shows(f, l.name, V)
(* A note carried along from the names of l to those of m: nothing is left under the old ones. *)
CarriedTo(f, V, l, m) ==
    /\ Shows(f, m.name, V)
    /\ \A k \in OldNames(l, m) \ NewNames(l, m) : f[k] = Nothing

(* Rows this pull has carried along; rows whose rename the column already has; the row being
   carried along; the row sent and not yet recorded. *)
Ahead(r) == turn.at = "follow" /\ r \in Carried
Trailing(r) == turn.at = "snapshots" /\ r \in turn.left
InHand(r) == turn.at = "follow" /\ turn.half # Nothing /\ turn.half[1] = r
Awaited(r) == turn.at = "sent" /\ turn.row = r

(* The ledger's names without the rename that is being applied. *)
Before(it, l) == [l.name EXCEPT ![it.col] = it.from]

(* Where a row stands: in the state DB, in the run's hand, and between the two. *)
RowShows(r) ==
    /\ OneName(ledger)
    /\ ~Ahead(r) /\ ~Trailing(r) => Known(synced[r], Holds(r), r \in halfway, ledger, Met, schema)
    /\ Ahead(r) => CarriedTo(synced[r], Holds(r), ledger, turn.met)
    /\ InHand(r) => CarriedTo(turn.half[2], Holds(r), ledger, turn.met)
    /\ Trailing(r) =>
         /\ r \notin halfway /\ Shows(synced[r], Before(turn.it, ledger), Holds(r))
         /\ synced[r][turn.it.to] = Nothing
         /\ Named(ledger, turn.it.from) = {} /\ Named(ledger, turn.it.to) = {turn.it.col}
    /\ Awaited(r) => Known(turn.note, Holds(r), r \in halfway, ledger, Met, schema)

(* Rows that are neither exempt nor about to be received. *)
Calm(r) == /\ r \notin clash \cup behind \cup edited
           /\ turn.at = "follow" => r \notin turn.moved
           /\ turn.at = "rows" => r \notin turn.moved \cap turn.left

(* The ledger is older than what the pull met, that than the query, that than Notion. *)
ReadInOrder ==
    /\ OneName(schema) /\ OneName(Met) /\ Becomes(ledger, Met) /\ Becomes(Met, schema)
    /\ turn.at \in {"follow", "rows"} =>
         OneName(turn.cols) /\ Becomes(turn.met, turn.cols) /\ Becomes(turn.cols, schema)

(* The rows of a pull: done, in hand, failed or still to come; the keys taken afresh. *)
Tidy ==
    /\ turn.at = "follow" =>
         /\ turn.left \cap turn.failed = {}
         /\ turn.half # Nothing => turn.half[1] \notin turn.left \cup turn.failed
    /\ turn.at = "rows" => turn.fresh \in {{}, {turn.met.name[c] : c \in computed} \ {NoName}}

(* The pages of rows nobody edited since the query are what the rows hold. *)
Queried == turn.at \in {"follow", "rows"} => \A r \in Rows \ edited, c \in Cols :
    schema.name[c] # NoName =>
      turn.pages[r][turn.cols.name[c]] = IF c \in computed THEN <<c, turn.cols.formula>> ELSE cells[r][c]

(* A row that does not carry a planned rename has nothing under its old name. *)
Planned ==
    /\ turn.at \in {"rename", "snapshots"} =>
         /\ \A p \in turn.plan : \A r \in Rows \ p.rows : Calm(r) => synced[r][p.from] = Nothing
         /\ \A p, q \in turn.plan : (p.from = q.from => p = q) /\ p.from # q.to
    /\ turn.at = "snapshots" => \A p \in turn.plan : p.from \notin {turn.it.from, turn.it.to}

(* What a pull that nothing disturbed may rely on, and a push right after it. *)
Alone == undisturbed =>
    /\ Met = schema
    /\ turn.at \in {"follow", "rows"} => turn.cols = schema
    /\ turn.at = "follow" => turn.failed = {}
    /\ turn.at \notin {"pages", "follow"} => ledger = schema /\ halfway = {}
    /\ turn.at \in {"rename", "snapshots"} =>
         /\ \A p \in turn.plan : p.to \notin NamesIn(schema)
         /\ \A p, q \in turn.plan : p.to = q.to => p = q

ShowInv == ReadInOrder /\ Tidy /\ (\A r \in Rows : Calm(r) => RowShows(r)) /\ Queried /\ Planned /\ Alone
--------------------------------------------------------------------------------
(* Names. *)

LEMMA SchemaFacts ==
    ASSUME NEW s \in Schemas
    PROVE  /\ \A c \in Cols : s.name[c] \in Keys \cup {NoName}
           /\ \A c \in Cols : s.name[c] # NoName => s.name[c] \in Keys
           /\ s.formula \in 0..acts
BY DEF Schemas

LEMMA RenamedFacts ==
    ASSUME NEW a, NEW b
    PROVE  /\ \A x : x \in Renamed(a, b) <=>
                \E c \in Cols : /\ x = <<a.name[c], b.name[c]>>
                                /\ b.name[c] # a.name[c] /\ b.name[c] # NoName
           /\ \A k : k \in OldNames(a, b) <=>
                \E c \in Cols : k = a.name[c] /\ b.name[c] # a.name[c] /\ b.name[c] # NoName
           /\ \A k : k \in NewNames(a, b) <=>
                \E c \in Cols : k = b.name[c] /\ b.name[c] # a.name[c] /\ b.name[c] # NoName
           /\ \A k : k \in Removed(a, b) <=>
                \E c \in Cols : k = a.name[c] /\ b.name[c] = NoName /\ a.name[c] # NoName
<1>1. \A x : x \in Renamed(a, b) <=>
                \E c \in Cols : /\ x = <<a.name[c], b.name[c]>>
                                /\ b.name[c] # a.name[c] /\ b.name[c] # NoName
  BY DEF Renamed
<1>2. \A k : k \in OldNames(a, b) <=>
                \E c \in Cols : k = a.name[c] /\ b.name[c] # a.name[c] /\ b.name[c] # NoName
  <2>1. ASSUME NEW k \in OldNames(a, b)
        PROVE  \E c \in Cols : k = a.name[c] /\ b.name[c] # a.name[c] /\ b.name[c] # NoName
    <3>1. PICK x \in Renamed(a, b) : k = x[1]
      BY DEF OldNames
    <3> QED BY <1>1, <3>1
  <2>2. ASSUME NEW c \in Cols, b.name[c] # a.name[c], b.name[c] # NoName
        PROVE  a.name[c] \in OldNames(a, b)
    <3>1. <<a.name[c], b.name[c]>> \in Renamed(a, b)
      BY <1>1, <2>2
    <3> QED BY <3>1 DEF OldNames
  <2> QED BY <2>1, <2>2
<1>3. \A k : k \in NewNames(a, b) <=>
                \E c \in Cols : k = b.name[c] /\ b.name[c] # a.name[c] /\ b.name[c] # NoName
  <2>1. ASSUME NEW k \in NewNames(a, b)
        PROVE  \E c \in Cols : k = b.name[c] /\ b.name[c] # a.name[c] /\ b.name[c] # NoName
    <3>1. PICK x \in Renamed(a, b) : k = x[2]
      BY DEF NewNames
    <3> QED BY <1>1, <3>1
  <2>2. ASSUME NEW c \in Cols, b.name[c] # a.name[c], b.name[c] # NoName
        PROVE  b.name[c] \in NewNames(a, b)
    <3>1. <<a.name[c], b.name[c]>> \in Renamed(a, b)
      BY <1>1, <2>2
    <3> QED BY <3>1 DEF NewNames
  <2> QED BY <2>1, <2>2
<1>4. \A k : k \in Removed(a, b) <=>
                \E c \in Cols : k = a.name[c] /\ b.name[c] = NoName /\ a.name[c] # NoName
  BY DEF Removed
<1> QED BY <1>1, <1>2, <1>3, <1>4

(* Removing a column renames none. *)
LEMMA CleanStays ==
    ASSUME NEW l, NEW m, NEW t, OneName(m), Clean(l, m),
           \A c \in Cols : t.name[c] = m.name[c] \/ t.name[c] = NoName
    PROVE  Clean(l, t) /\ OldNames(l, t) \subseteq OldNames(l, m)
<1>1. OldNames(l, t) \subseteq OldNames(l, m) /\ NewNames(l, t) \subseteq NewNames(l, m)
  BY RenamedFacts
<1>2. ASSUME NEW k \in Removed(l, t), k \in NewNames(l, t) PROVE FALSE
  <2>1. PICK c \in Cols : k = l.name[c] /\ t.name[c] = NoName /\ l.name[c] # NoName
    BY <1>2, RenamedFacts
  <2>2. PICK d \in Cols : k = t.name[d] /\ t.name[d] # l.name[d] /\ t.name[d] # NoName
    BY <1>2, RenamedFacts
  <2>3. m.name[d] = k /\ k \in NewNames(l, m)
    BY <1>1, <1>2, <2>2
  <2>4. CASE m.name[c] = NoName
    <3>1. k \in Removed(l, m)
      BY <2>1, <2>4, RenamedFacts
    <3> QED BY <2>3, <3>1 DEF Clean
  <2>5. CASE m.name[c] # NoName /\ m.name[c] # l.name[c]
    <3>1. k \in OldNames(l, m)
      BY <2>1, <2>5, RenamedFacts
    <3> QED BY <2>3, <3>1 DEF Clean
  <2>6. CASE m.name[c] # NoName /\ m.name[c] = l.name[c]
    <3>1. c = d
      BY <2>1, <2>3, <2>6 DEF OneName
    <3> QED BY <2>1, <2>2, <3>1
  <2> QED BY <2>4, <2>5, <2>6
<1>3. OldNames(l, t) \cap NewNames(l, t) = {}
  BY <1>1 DEF Clean
<1> QED BY <1>1, <1>2, <1>3 DEF Clean

(* What holds of a note's values still holds of fewer of them. *)
Within(W, V) == DOMAIN W \subseteq DOMAIN V /\ \A c \in DOMAIN W : W[c] = V[c]

LEMMA ShowsLess ==
    ASSUME NEW f, NEW name, NEW V, NEW W, Shows(f, name, V), Within(W, V)
    PROVE  Shows(f, name, W)
BY DEF Shows, Within

LEMMA CarriedToLess ==
    ASSUME NEW f, NEW V, NEW W, NEW l, NEW m, CarriedTo(f, V, l, m), Within(W, V)
    PROVE  CarriedTo(f, W, l, m)
BY ShowsLess DEF CarriedTo

LEMMA KnownLess ==
    ASSUME NEW f, NEW V, NEW W, NEW half \in BOOLEAN, NEW l, NEW m, NEW t, NEW s, NEW u,
           Known(f, V, half, l, m, s), Within(W, V), DOMAIN W \subseteq {c \in Cols : u.name[c] # NoName},
           half => /\ OneName(m) /\ t \in {m, u}
                   /\ \A c \in Cols : u.name[c] = s.name[c] \/ u.name[c] = NoName
    PROVE  Known(f, W, half, l, t, u)
<1>1. CASE ~half
  BY <1>1, ShowsLess DEF Known
<1>2. CASE half
  <2>1. Clean(l, m) /\ Agree(m, s) /\ Shows(f, m.name, V) /\ \A k \in OldNames(l, m) : f[k] = Nothing
    BY <1>2 DEF Known
  <2>2. \A c \in Cols : t.name[c] = m.name[c] \/ t.name[c] = NoName
    BY <1>2, <2>1 DEF Agree
  <2>3. Clean(l, t) /\ OldNames(l, t) \subseteq OldNames(l, m)
    BY <1>2, <2>1, <2>2, CleanStays
  <2>4. Agree(t, u)
    BY <1>2, <2>1 DEF Agree
  <2>5. \A c \in DOMAIN W : t.name[c] = m.name[c]
    BY <1>2, <2>1 DEF Agree
  <2>6. Shows(f, t.name, W)
    BY <2>1, <2>5 DEF Shows, Within
  <2> QED BY <1>2, <2>1, <2>3, <2>4, <2>6 DEF Known
<1> QED BY <1>1, <1>2
--------------------------------------------------------------------------------
(* Keys that are carried along. *)

LEMMA NewKeyFacts ==
    ASSUME NEW note, NEW renames, NEW drops, NEW k, NEW n, n = NewKey(note, renames, drops, k)
    PROVE  \/ n = k
           \/ /\ \E x \in renames : x[1] = k /\ x[2] = n
              /\ n \in Keys /\ note[n] # Nothing /\ n \notin drops => \E x \in renames : x[1] = n
<1> DEFINE staying == {j \in Keys : note[j] # Nothing /\ j \notin drops /\ \A x \in renames : x[1] # j}
           to == {x[2] : x \in {y \in renames : y[1] = k}} \ staying
<1>1. n = IF to = {} THEN k ELSE CHOOSE i \in to : TRUE
  BY DEF NewKey
<1>2. CASE to = {}
  BY <1>1, <1>2
<1>3. CASE to # {}
  <2>1. n \in to
    BY <1>1, <1>3
  <2> QED BY <2>1
<1> QED BY <1>2, <1>3

LEMMA RekeyedKeys ==
    ASSUME NEW note, NEW renames, NEW drops, NEW new \in Rekeyed(note, renames, drops), NEW n \in Keys
    PROVE  \/ new[n] = Nothing /\ \A k \in Keys \ drops :
                note[k] # Nothing => NewKey(note, renames, drops, k) # n
           \/ \E k \in Keys \ drops : /\ note[k] # Nothing /\ NewKey(note, renames, drops, k) = n
                                      /\ new[n] = note[k]
BY DEF Rekeyed

(* One key that comes to n, if any does. *)
LEMMA OneComes ==
    ASSUME NEW note, NEW renames, NEW drops, NEW new \in Rekeyed(note, renames, drops),
           NEW n \in Keys, NEW o \in Keys \ drops, NewKey(note, renames, drops, o) = n,
           \A k \in Keys \ drops : note[k] # Nothing /\ NewKey(note, renames, drops, k) = n => k = o
    PROVE  new[n] = note[o]
BY RekeyedKeys

LEMMA NoneComes ==
    ASSUME NEW note, NEW renames, NEW drops, NEW new \in Rekeyed(note, renames, drops),
           NEW n \in Keys,
           \A k \in Keys \ drops : note[k] # Nothing => NewKey(note, renames, drops, k) # n
    PROVE  new[n] = Nothing
BY RekeyedKeys

(* When no key stands in the way, each column's value goes to the column's new name. *)
LEMMA CarriesAll ==
    ASSUME NEW l \in Schemas, NEW m \in Schemas, OneName(l), OneName(m), Becomes(l, m),
           NEW note \in Notes, NEW new \in Rekeyed(note, Renamed(l, m), Removed(l, m)),
           \A x \in Renamed(l, m) : NewKey(note, Renamed(l, m), Removed(l, m), x[1]) # x[1]
    PROVE  /\ \A c \in Cols : m.name[c] # NoName => new[m.name[c]] = note[l.name[c]]
           /\ \A k \in OldNames(l, m) \ NewNames(l, m) : new[k] = Nothing
<1> DEFINE ren == Renamed(l, m)
           rem == Removed(l, m)
           to(k) == NewKey(note, ren, rem, k)
<1>1. \A c \in Cols : m.name[c] # NoName => m.name[c] \in Keys /\ l.name[c] \in Keys \ rem
  <2> SUFFICES ASSUME NEW c \in Cols, m.name[c] # NoName PROVE m.name[c] \in Keys /\ l.name[c] \in Keys \ rem
    OBVIOUS
  <2>1. m.name[c] \in Keys /\ l.name[c] # NoName /\ l.name[c] \in Keys
    BY SchemaFacts DEF Becomes
  <2>2. l.name[c] \notin rem
    BY <2>1, RenamedFacts DEF OneName
  <2> QED BY <2>1, <2>2
<1>2. ASSUME NEW k \in Keys \ rem, note[k] # Nothing
      PROVE  \/ to(k) = k /\ k \notin OldNames(l, m)
             \/ \E c \in Cols : /\ k = l.name[c] /\ to(k) = m.name[c] /\ m.name[c] # l.name[c]
                                /\ m.name[c] # NoName
  <2>1. CASE k \in OldNames(l, m)
    <3>1. PICK x \in ren : x[1] = k
      BY <2>1 DEF OldNames
    <3>2. to(k) # k
      BY <3>1
    <3>3. PICK y \in ren : y[1] = k /\ y[2] = to(k)
      BY <3>2, NewKeyFacts
    <3> QED BY <3>3, RenamedFacts
  <2>2. CASE k \notin OldNames(l, m)
    <3>1. to(k) = k
      BY <2>2, NewKeyFacts DEF OldNames
    <3> QED BY <2>2, <3>1
  <2> QED BY <2>1, <2>2
<1>3. ASSUME NEW c \in Cols, m.name[c] # NoName PROVE new[m.name[c]] = note[l.name[c]]
  <2>1. CASE m.name[c] = l.name[c]
    <3>1. l.name[c] \notin OldNames(l, m)
      BY <1>1, <1>3, <2>1, RenamedFacts DEF OneName
    <3>2. to(l.name[c]) = l.name[c]
      BY <3>1, NewKeyFacts DEF OldNames
    <3>3. ASSUME NEW k \in Keys \ rem, note[k] # Nothing, to(k) = m.name[c] PROVE k = l.name[c]
      BY <1>2, <1>3, <2>1, <3>3 DEF OneName
    <3> HIDE DEF to
    <3> QED BY <1>1, <1>3, <2>1, <3>2, <3>3, OneComes DEF to
  <2>2. CASE m.name[c] # l.name[c]
    <3>1. <<l.name[c], m.name[c]>> \in ren
      BY <1>3, <2>2, RenamedFacts
    <3>2. to(l.name[c]) # l.name[c]
      BY <3>1
    <3>3. to(l.name[c]) = m.name[c]
      <4>1. PICK y \in ren : y[1] = l.name[c] /\ y[2] = to(l.name[c])
        BY <3>2, NewKeyFacts
      <4>2. PICK d \in Cols : y = <<l.name[d], m.name[d]>>
        BY RenamedFacts
      <4>3. d = c
        BY <1>1, <1>3, <4>1, <4>2, SchemaFacts, ColumnsAssumption DEF OneName
      <4> QED BY <4>1, <4>2, <4>3
    <3>4. ASSUME NEW k \in Keys \ rem, note[k] # Nothing, to(k) = m.name[c] PROVE k = l.name[c]
      <4>1. CASE to(k) = k /\ k \notin OldNames(l, m)
        <5>1. \E x \in ren : x[1] = k
          BY <3>2, <3>3, <3>4, <4>1, NewKeyFacts
        <5> QED BY <4>1, <5>1 DEF OldNames
      <4>2. CASE \E d \in Cols : k = l.name[d] /\ to(k) = m.name[d] /\ m.name[d] # NoName
        BY <3>4, <4>2 DEF OneName
      <4> QED BY <1>2, <3>4, <4>1, <4>2
    <3> HIDE DEF to
    <3> QED BY <1>1, <1>3, <3>3, <3>4, OneComes DEF to
  <2> QED BY <2>1, <2>2
<1>4. ASSUME NEW n \in OldNames(l, m) \ NewNames(l, m) PROVE new[n] = Nothing
  <2>1. n \in Keys
    BY <1>1, RenamedFacts
  <2>2. ASSUME NEW k \in Keys \ rem, note[k] # Nothing PROVE to(k) # n
    BY <1>2, <2>2, RenamedFacts
  <2> HIDE DEF to
  <2> QED BY <2>1, <2>2, NoneComes DEF to
<1> QED BY <1>3, <1>4

(* What was carried along already stays as it is. *)
LEMMA CarriesNothing ==
    ASSUME NEW l \in Schemas, NEW m \in Schemas, OneName(l), OneName(m), Becomes(l, m), Clean(l, m),
           NEW note \in Notes, \A k \in OldNames(l, m) : note[k] = Nothing,
           NEW new \in Rekeyed(note, Renamed(l, m), Removed(l, m))
    PROVE  /\ \A c \in Cols : m.name[c] # NoName => new[m.name[c]] = note[m.name[c]]
           /\ \A k \in OldNames(l, m) : new[k] = Nothing
<1> DEFINE ren == Renamed(l, m)
           rem == Removed(l, m)
           to(k) == NewKey(note, ren, rem, k)
<1>1. ASSUME NEW k \in Keys, note[k] # Nothing PROVE to(k) = k
  <2>1. k \notin OldNames(l, m)
    BY <1>1
  <2> QED BY <2>1, NewKeyFacts DEF OldNames
<1>2. ASSUME NEW c \in Cols, m.name[c] # NoName PROVE new[m.name[c]] = note[m.name[c]]
  <2>1. m.name[c] \in Keys
    BY <1>2, SchemaFacts
  <2>2. m.name[c] \notin rem
    <3> SUFFICES ASSUME m.name[c] \in rem PROVE FALSE
      OBVIOUS
    <3>1. PICK d \in Cols : m.name[c] = l.name[d] /\ m.name[d] = NoName /\ l.name[d] # NoName
      BY RenamedFacts
    <3>2. m.name[c] \notin NewNames(l, m)
      BY DEF Clean
    <3>3. m.name[c] = l.name[c]
      BY <1>2, <3>2, RenamedFacts
    <3> QED BY <1>2, <3>1, <3>3 DEF OneName
  <2>3. CASE note[m.name[c]] = Nothing
    <3>1. \A k \in Keys \ rem : note[k] # Nothing => to(k) # m.name[c]
      BY <1>1, <2>3
    <3> HIDE DEF to
    <3> QED BY <2>1, <2>3, <3>1, NoneComes DEF to
  <2>4. CASE note[m.name[c]] # Nothing
    <3>1. \A k \in Keys \ rem : note[k] # Nothing /\ to(k) = m.name[c] => k = m.name[c]
      BY <1>1
    <3>2. to(m.name[c]) = m.name[c]
      BY <1>1, <2>1, <2>4
    <3> HIDE DEF to
    <3> QED BY <2>1, <2>2, <3>1, <3>2, OneComes DEF to
  <2> QED BY <2>3, <2>4
<1>3. ASSUME NEW n \in OldNames(l, m) PROVE new[n] = Nothing
  <2>1. n \in Keys
    BY RenamedFacts, SchemaFacts DEF Becomes
  <2>2. \A k \in Keys \ rem : note[k] # Nothing => to(k) # n
    BY <1>1
  <2> HIDE DEF to
  <2> QED BY <2>1, <2>2, NoneComes DEF to
<1> QED BY <1>2, <1>3

(* One key is renamed to one that is free. *)
LEMMA CarriesOne ==
    ASSUME NEW note \in Notes, NEW a \in Keys, NEW b \in Keys, a # b, note[b] = Nothing,
           NEW renames, \A x : x \in renames <=> x = <<a, b>>,
           NEW drops, \A k : k \notin drops,
           NEW new \in Rekeyed(note, renames, drops)
    PROVE  /\ new[b] = note[a] /\ new[a] = Nothing
           /\ \A k \in Keys \ {a, b} : new[k] = note[k]
<1> DEFINE to(k) == NewKey(note, renames, drops, k)
<1>0. Keys \ drops = Keys
  OBVIOUS
<1>1. to(a) = b
  <2> DEFINE staying == {j \in Keys : note[j] # Nothing /\ j \notin drops /\ \A x \in renames : x[1] # j}
             free == {x[2] : x \in {y \in renames : y[1] = a}} \ staying
  <2>1. \A n \in free : n = b
    OBVIOUS
  <2>2. <<a, b>> \in {y \in renames : y[1] = a} /\ <<a, b>>[2] = b
    OBVIOUS
  <2>3. b \in free
    BY <2>2
  <2>4. to(a) = IF free = {} THEN a ELSE CHOOSE n \in free : TRUE
    BY DEF NewKey
  <2> HIDE DEF free
  <2> QED BY <2>1, <2>3, <2>4
<1>2. ASSUME NEW k \in Keys \ {a} PROVE to(k) = k
  BY <1>2, NewKeyFacts
<1> HIDE DEF to
<1>3. new[b] = note[a]
  <2>1. \A k \in Keys : note[k] # Nothing /\ to(k) = b => k = a
    BY <1>2
  <2> QED BY <1>0, <1>1, <2>1, OneComes DEF to
<1>4. new[a] = Nothing
  <2>1. \A k \in Keys : note[k] # Nothing => to(k) # a
    BY <1>1, <1>2
  <2> QED BY <1>0, <2>1, NoneComes DEF to
<1>5. ASSUME NEW n \in Keys \ {a, b} PROVE new[n] = note[n]
  <2>1. \A k \in Keys : note[k] # Nothing /\ to(k) = n => k = n
    BY <1>1, <1>2
  <2>2. to(n) = n
    BY <1>2
  <2> QED BY <1>0, <2>1, <2>2, OneComes DEF to
<1> QED BY <1>3, <1>4, <1>5
--------------------------------------------------------------------------------
(* Rows that a step leaves as they are. *)

LEMMA MetFacts ==
    ASSUME ColumnsTyped
    PROVE  /\ schema \in Schemas /\ ledger \in Schemas /\ Met \in Schemas
           /\ turn.at \in {"pages", "follow", "rows"} => turn.met \in Schemas /\ Met = turn.met
           /\ turn.at \in {"follow", "rows"} => turn.cols \in Schemas
           /\ turn.at \notin {"pages", "follow", "rows"} => Met = schema
<1>1. schema \in Schemas /\ ledger \in Schemas /\ turn \in Turns
  BY DEF ColumnsTyped, SettingTyped
<1>2. turn.at = "pages" => turn.met \in Schemas
  BY <1>1, TurnFacts DEF AtPages
<1>3. turn.at = "follow" => turn.met \in Schemas /\ turn.cols \in Schemas
  BY <1>1, TurnFacts DEF AtFollow
<1>4. turn.at = "rows" => turn.met \in Schemas /\ turn.cols \in Schemas
  BY <1>1, TurnFacts DEF AtRows
<1> QED BY <1>1, <1>2, <1>3, <1>4 DEF Met

LEMMA HoldsStay ==
    ASSUME NEW r \in Rows, computed' = computed,
           \A c \in Cols : schema'.name[c] # NoName => schema.name[c] # NoName,
           \A c \in Cols \ computed : schema'.name[c] # NoName => cells'[r][c] = cells[r][c],
           \A c \in Cols \cap computed : schema'.name[c] # NoName /\ ledger'.formula = schema'.formula /\ Fresh(r)'
              => ledger.formula = schema.formula /\ Fresh(r) /\ schema'.formula = schema.formula
    PROVE  Within(Holds(r)', Holds(r))
<1>1. DOMAIN Holds(r) = Settled(r) /\ DOMAIN Holds(r)' = Settled(r)'
  BY DEF Holds
<1>2. ASSUME NEW c \in Settled(r)' PROVE c \in Settled(r) /\ Holds(r)'[c] = Holds(r)[c]
  <2>1. c \in Cols /\ schema'.name[c] # NoName /\ schema.name[c] # NoName
    BY DEF Settled
  <2>2. c \in computed => ledger'.formula = schema'.formula /\ Fresh(r)'
    BY DEF Settled
  <2>3. c \in Settled(r)
    BY <2>1, <2>2 DEF Settled
  <2>4. Value(r, c)' = Value(r, c)
    BY <2>1, <2>2 DEF Value
  <2> QED BY <2>3, <2>4 DEF Holds
<1> QED BY <1>1, <1>2 DEF Within

LEMMA HoldsAlive ==
    ASSUME NEW r
    PROVE  DOMAIN Holds(r) \subseteq {c \in Cols : schema.name[c] # NoName} /\ DOMAIN Holds(r) = Settled(r)
BY DEF Holds, Settled

LEMMA KnownStays ==
    ASSUME NEW r \in Rows, ReadInOrder, NEW f, ledger' = ledger, r \in halfway' <=> r \in halfway,
           Known(f, Holds(r), r \in halfway, ledger, Met, schema), Within(Holds(r)', Holds(r)),
           r \in halfway => /\ Met' \in {Met, schema'}
                            /\ \A c \in Cols : schema'.name[c] = schema.name[c] \/ schema'.name[c] = NoName
    PROVE  Known(f, Holds(r)', r \in halfway', ledger', Met', schema')
<1>1. DOMAIN Holds(r)' \subseteq {c \in Cols : schema'.name[c] # NoName}
  BY DEF Holds, Settled
<1>2. OneName(Met)
  BY DEF ReadInOrder
<1>3. (r \in halfway') = (r \in halfway) /\ (r \in halfway) \in BOOLEAN
  OBVIOUS
<1> DEFINE V == Holds(r)
           W == Holds(r)'
           half == r \in halfway
           m == Met
           t == Met'
           u == schema'
<1>4. Known(f, W, half, ledger, t, u)
  <2>1. half \in BOOLEAN /\ Known(f, V, half, ledger, m, schema) /\ Within(W, V)
        /\ DOMAIN W \subseteq {c \in Cols : u.name[c] # NoName}
    BY <1>1
  <2>2. half => /\ OneName(m) /\ t \in {m, u}
                /\ \A c \in Cols : u.name[c] = schema.name[c] \/ u.name[c] = NoName
    BY <1>2
  <2> HIDE DEF V, W, half, m, t, u
  <2> QED BY <2>1, <2>2, KnownLess
<1> QED BY <1>3, <1>4

LEMMA RowStays ==
    ASSUME ReadInOrder, NEW r \in Rows, RowShows(r),
           ledger' = ledger, synced'[r] = synced[r], r \in halfway' <=> r \in halfway,
           Within(Holds(r)', Holds(r)),
           r \in halfway => /\ Met' \in {Met, schema'}
                            /\ \A c \in Cols : schema'.name[c] = schema.name[c] \/ schema'.name[c] = NoName,
           Ahead(r)' <=> Ahead(r), Trailing(r)' <=> Trailing(r),
           Ahead(r) \/ InHand(r)' => turn'.met = turn.met,
           Trailing(r) => turn'.it = turn.it,
           InHand(r)' => InHand(r) /\ turn'.half = turn.half,
           Awaited(r)' => Awaited(r) /\ turn'.note = turn.note
    PROVE  RowShows(r)'
<1>1. OneName(ledger')
  BY DEF RowShows
<1>2. ASSUME ~Ahead(r)', ~Trailing(r)'
      PROVE  Known(synced'[r], Holds(r)', r \in halfway', ledger', Met', schema')
  <2>1. Known(synced[r], Holds(r), r \in halfway, ledger, Met, schema)
    BY <1>2 DEF RowShows
  <2> QED BY <2>1, KnownStays
<1>3. ASSUME Ahead(r)' PROVE CarriedTo(synced'[r], Holds(r)', ledger', turn'.met)
  <2>1. CarriedTo(synced[r], Holds(r), ledger, turn.met)
    BY <1>3 DEF RowShows
  <2> QED BY <1>3, <2>1, CarriedToLess
<1>4. ASSUME InHand(r)' PROVE CarriedTo(turn'.half[2], Holds(r)', ledger', turn'.met)
  <2>1. CarriedTo(turn.half[2], Holds(r), ledger, turn.met)
    BY <1>4 DEF RowShows
  <2> QED BY <1>4, <2>1, CarriedToLess
<1>5. ASSUME Trailing(r)'
      PROVE  /\ r \notin halfway' /\ Shows(synced'[r], Before(turn'.it, ledger'), Holds(r)')
             /\ synced'[r][turn'.it.to] = Nothing
             /\ Named(ledger', turn'.it.from) = {} /\ Named(ledger', turn'.it.to) = {turn'.it.col}
  <2>1. /\ r \notin halfway /\ Shows(synced[r], Before(turn.it, ledger), Holds(r))
        /\ synced[r][turn.it.to] = Nothing
        /\ Named(ledger, turn.it.from) = {} /\ Named(ledger, turn.it.to) = {turn.it.col}
    BY <1>5 DEF RowShows
  <2>2. turn'.it = turn.it
    BY <1>5
  <2>3. Shows(synced[r], Before(turn.it, ledger), Holds(r)')
    BY <2>1, ShowsLess
  <2> QED BY <2>1, <2>2, <2>3
<1>6. ASSUME Awaited(r)' PROVE Known(turn'.note, Holds(r)', r \in halfway', ledger', Met', schema')
  <2>1. Known(turn.note, Holds(r), r \in halfway, ledger, Met, schema)
    BY <1>6 DEF RowShows
  <2> QED BY <1>6, <2>1, KnownStays
<1> QED BY <1>1, <1>2, <1>3, <1>4, <1>5, <1>6 DEF RowShows
--------------------------------------------------------------------------------
(* What people do. *)

LEMMA PeopleShow ==
    ASSUME ColumnsTyped, ShowInv, UNCHANGED <<computed, synced, clash, ledger, halfway, turn>>,
           behind \subseteq behind', edited \subseteq edited', undisturbed' = FALSE,
           schema'.formula \in Nat, OneName(schema'), Becomes(schema, schema'),
           schema'.formula = schema.formula \/ schema'.formula # ledger.formula,
           \A r \in Rows \ edited', c \in Cols : schema'.name[c] # NoName => cells'[r][c] = cells[r][c],
           \A r \in halfway \ behind', c \in Cols : schema'.name[c] = schema.name[c] \/ schema'.name[c] = NoName
    PROVE  ShowInv'
<1>1. \A r \in Rows : Calm(r)' => Calm(r)
  BY DEF Calm
<1>2. Met' = IF turn.at \in {"pages", "follow", "rows"} THEN Met ELSE schema'
  BY DEF Met
<1>3. Met.formula \in Nat /\ schema.formula \in Nat /\ ledger.formula \in Nat
  <2>1. acts \in Nat
    BY ColumnsAssumption DEF ColumnsTyped, SettingTyped
  <2> QED BY <2>1, MetFacts, SchemaFacts
<1>4. ReadInOrder'
  <2>1. OneName(schema') /\ OneName(Met') /\ Becomes(ledger', Met') /\ Becomes(Met', schema')
    BY <1>2, <1>3 DEF ShowInv, ReadInOrder, Becomes
  <2>2. ASSUME turn.at \in {"follow", "rows"}
        PROVE  OneName(turn.cols) /\ Becomes(turn.met, turn.cols) /\ Becomes(turn.cols, schema')
    <3>1. turn.cols.formula \in Nat
      <4>1. acts \in Nat
        BY ColumnsAssumption DEF ColumnsTyped, SettingTyped
      <4> QED BY <2>2, <4>1, MetFacts, SchemaFacts
    <3> QED BY <1>3, <2>2, <3>1 DEF ShowInv, ReadInOrder, Becomes
  <2> QED BY <2>1, <2>2 DEF ReadInOrder
<1>5. ASSUME NEW r \in Rows, Calm(r)' PROVE RowShows(r)'
  <2>1. RowShows(r) /\ r \notin edited' /\ r \notin behind'
    BY <1>1, <1>5 DEF ShowInv, Calm
  <2>2. Within(Holds(r)', Holds(r))
    <3>1. Fresh(r)' = Fresh(r)
      BY DEF Fresh
    <3> QED BY <2>1, <3>1, HoldsStay DEF Becomes
  <2>3. /\ Ahead(r)' = Ahead(r) /\ Trailing(r)' = Trailing(r)
        /\ InHand(r)' = InHand(r) /\ Awaited(r)' = Awaited(r)
    BY DEF Ahead, Trailing, InHand, Awaited, Carried
  <2>4. r \in halfway => /\ Met' \in {Met, schema'}
                         /\ \A c \in Cols : schema'.name[c] = schema.name[c] \/ schema'.name[c] = NoName
    BY <1>2, <2>1
  <2> QED BY <2>1, <2>2, <2>3, <2>4, RowStays DEF ShowInv
<1>6. Tidy' /\ Planned' /\ Alone'
  BY <1>1 DEF ShowInv, Tidy, Planned, Alone
<1>7. Queried'
  BY DEF ShowInv, Queried, Becomes
<1> QED BY <1>4, <1>5, <1>6, <1>7 DEF ShowInv

LEMMA ActsShow ==
    ASSUME ColumnsTyped, ShowInv,
           \/ \E r \in Rows, k \in Keys : WritesKey(r, k) \/ DeletesKey(r, k)
           \/ \E k, j \in Keys : StartsRenaming(k, j)
           \/ RenamesNext
    PROVE  ShowInv'
<1>1. /\ UNCHANGED <<computed, synced, clash, ledger, halfway, turn, behind, edited, schema, cells>>
      /\ undisturbed' = FALSE
  BY DEF WritesKey, DeletesKey, StartsRenaming, RenamesNext, Acts, stateDb
<1>2. schema.formula \in Nat /\ OneName(schema) /\ Becomes(schema, schema)
  <2>1. acts \in Nat
    BY ColumnsAssumption DEF ColumnsTyped, SettingTyped
  <2> QED BY <2>1, MetFacts, SchemaFacts DEF ShowInv, ReadInOrder, Becomes
<1> QED BY <1>1, <1>2, PeopleShow

LEMMA RenamesColumnShows ==
    ASSUME ColumnsTyped, ShowInv, NEW c \in Cols, NEW k \in Keys, RenamesColumn(c, k)
    PROVE  ShowInv'
<1>1. /\ schema.name[c] # NoName /\ k \notin NamesIn(schema)
      /\ schema' = [schema EXCEPT !.name[c] = k] /\ behind' = behind \cup halfway
      /\ UNCHANGED <<computed, synced, clash, ledger, halfway, turn, edited, cells>>
      /\ undisturbed' = FALSE
  BY DEF RenamesColumn, Acts, stateDb
<1>2. /\ schema'.formula = schema.formula
      /\ \A d \in Cols : schema'.name[d] = IF d = c THEN k ELSE schema.name[d]
  BY <1>1, MetFacts DEF Schemas
<1>3. OneName(schema')
  <2>1. \A d \in Cols : schema.name[d] # k
    BY <1>1, ColumnsAssumption DEF NamesIn
  <2> QED BY <1>2, <2>1 DEF ShowInv, ReadInOrder, OneName
<1>4. schema'.formula \in Nat /\ Becomes(schema, schema')
  <2>1. acts \in Nat
    BY ColumnsAssumption DEF ColumnsTyped, SettingTyped
  <2> QED BY <1>1, <1>2, <2>1, MetFacts, SchemaFacts DEF Becomes
<1> QED BY <1>1, <1>2, <1>3, <1>4, PeopleShow

LEMMA RemovesColumnShows ==
    ASSUME ColumnsTyped, ShowInv, NEW c \in Cols, RemovesColumn(c)
    PROVE  ShowInv'
<1>1. /\ schema' = [schema EXCEPT !.name[c] = NoName]
      /\ cells' = [r \in Rows |-> [cells[r] EXCEPT ![c] = Nothing]]
      /\ UNCHANGED <<computed, synced, clash, ledger, halfway, turn, edited, behind>>
      /\ undisturbed' = FALSE
  BY DEF RemovesColumn, Acts, stateDb
<1>2. /\ schema'.formula = schema.formula
      /\ \A d \in Cols : schema'.name[d] = IF d = c THEN NoName ELSE schema.name[d]
  BY <1>1, MetFacts DEF Schemas
<1>3. OneName(schema')
  BY <1>2 DEF ShowInv, ReadInOrder, OneName
<1>4. schema'.formula \in Nat /\ Becomes(schema, schema')
  <2>1. acts \in Nat
    BY ColumnsAssumption DEF ColumnsTyped, SettingTyped
  <2> QED BY <1>1, <1>2, <2>1, MetFacts, SchemaFacts DEF Becomes
<1>5. \A r \in Rows, d \in Cols : schema'.name[d] # NoName => cells'[r][d] = cells[r][d]
  <2>1. cells \in [Rows -> [Cols -> Written]]
    BY DEF ColumnsTyped, SettingTyped
  <2> QED BY <1>1, <1>2, <2>1
<1> QED BY <1>1, <1>2, <1>3, <1>4, <1>5, PeopleShow

LEMMA ChangesFormulaShows ==
    ASSUME ColumnsTyped, ShowInv, ChangesFormula PROVE ShowInv'
<1>1. /\ acts' = acts + 1 /\ schema' = [schema EXCEPT !.formula = acts']
      /\ UNCHANGED <<computed, synced, clash, ledger, halfway, turn, edited, behind, cells>>
      /\ undisturbed' = FALSE
  BY DEF ChangesFormula, Acts, stateDb
<1>2. schema'.formula = acts + 1 /\ \A d \in Cols : schema'.name[d] = schema.name[d]
  BY <1>1, MetFacts DEF Schemas
<1>3. acts \in Nat /\ schema.formula \in 0..acts /\ ledger.formula \in 0..acts
  <2>1. acts \in Nat
    BY ColumnsAssumption DEF ColumnsTyped, SettingTyped
  <2> QED BY <2>1, MetFacts, SchemaFacts
<1>4. schema'.formula \in Nat /\ schema.formula <= schema'.formula /\ schema'.formula # ledger.formula
  BY <1>2, <1>3
<1>5. OneName(schema') /\ Becomes(schema, schema')
  BY <1>2, <1>4 DEF ShowInv, ReadInOrder, OneName, Becomes
<1> QED BY <1>1, <1>2, <1>4, <1>5, PeopleShow

LEMMA EditsCellShows ==
    ASSUME ColumnsTyped, ShowInv, NEW r \in Rows, NEW c \in Cols, NEW v, EditsCell(r, c, v)
    PROVE  ShowInv'
<1>1. /\ cells' = [cells EXCEPT ![r][c] = v] /\ edited' = edited \cup {r}
      /\ UNCHANGED <<computed, synced, clash, ledger, halfway, turn, behind, schema>>
      /\ undisturbed' = FALSE
  BY DEF EditsCell, Acts, stateDb
<1>2. schema.formula \in Nat /\ OneName(schema) /\ Becomes(schema, schema)
  <2>1. acts \in Nat
    BY ColumnsAssumption DEF ColumnsTyped, SettingTyped
  <2> QED BY <2>1, MetFacts, SchemaFacts DEF ShowInv, ReadInOrder, Becomes
<1>3. \A s \in Rows \ edited' : cells'[s] = cells[s]
  <2>1. cells \in [Rows -> [Cols -> Written]]
    BY DEF ColumnsTyped, SettingTyped
  <2> QED BY <1>1, <2>1
<1> QED BY <1>1, <1>2, <1>3, PeopleShow
--------------------------------------------------------------------------------
(* A pull. *)

LEMMA FormulasAreNat ==
    ASSUME ColumnsTyped
    PROVE  /\ schema.formula \in Nat /\ ledger.formula \in Nat /\ Met.formula \in Nat
           /\ turn.at \in {"follow", "rows"} => turn.cols.formula \in Nat
           /\ Becomes(schema, schema)
<1>1. acts \in Nat
  BY ColumnsAssumption DEF ColumnsTyped, SettingTyped
<1> QED BY <1>1, MetFacts, SchemaFacts DEF Becomes

LEMMA PullStartsShows == ASSUME ColumnsTyped, ShowInv, PullStarts PROVE ShowInv'
<1>1. /\ turn = Idle /\ turn' = [at |-> "pages", met |-> schema]
      /\ UNCHANGED <<computed, schema, cells, edited, synced, clash, ledger, behind, halfway>>
  BY DEF PullStarts, Untouched, outside, stateDb
<1>2. turn.at = "idle" /\ turn'.at = "pages" /\ turn'.met = schema
  BY <1>1 DEF Idle
<1>3. Met = schema /\ Met' = schema
  BY <1>1, <1>2 DEF Met
<1>4. ReadInOrder'
  BY <1>1, <1>2, <1>3 DEF ShowInv, ReadInOrder
<1>5. ASSUME NEW r \in Rows, Calm(r)' PROVE RowShows(r)'
  <2>1. Calm(r)
    BY <1>1, <1>2, <1>5 DEF Calm
  <2>2. Within(Holds(r)', Holds(r))
    BY <1>1, <1>2, HoldsStay DEF Fresh
  <2>3. /\ ~Ahead(r) /\ ~Trailing(r) /\ ~InHand(r) /\ ~Awaited(r)
        /\ ~Ahead(r)' /\ ~Trailing(r)' /\ ~InHand(r)' /\ ~Awaited(r)'
    BY <1>2 DEF Ahead, Trailing, InHand, Awaited
  <2> QED BY <1>1, <1>3, <2>1, <2>2, <2>3, RowStays DEF ShowInv
<1>6. Tidy' /\ Planned' /\ Alone' /\ Queried'
  BY <1>1, <1>2, <1>3 DEF Tidy, Planned, Alone, Queried
<1> QED BY <1>4, <1>5, <1>6 DEF ShowInv

LEMMA RowPageAt ==
    ASSUME ColumnsTyped, ReadInOrder, NEW r \in Rows, NEW c \in Cols, schema.name[c] # NoName
    PROVE  RowPage(r)[schema.name[c]] = Value(r, c)
<1>1. schema.name[c] \in Keys
  BY MetFacts, SchemaFacts
<1>2. Named(schema, schema.name[c]) = {c}
  BY DEF Named, ReadInOrder, OneName
<1> QED BY <1>1, <1>2 DEF RowPage

LEMMA PullQueriesShows == ASSUME ColumnsTyped, ShowInv, PullQueries PROVE ShowInv'
<1>1. /\ turn.at = "pages"
      /\ turn' = [at |-> "follow", met |-> turn.met, pages |-> [r \in Rows |-> RowPage(r)],
                  cols |-> schema, moved |-> edited,
                  left |-> IF turn.met.name = ledger.name THEN {} ELSE Rows,
                  half |-> Nothing, failed |-> {}]
      /\ edited' = {}
      /\ UNCHANGED <<computed, schema, cells, synced, clash, ledger, behind, halfway, undisturbed>>
  BY DEF PullQueries, Untouched, outside, stateDb, columnGhosts
<1>2. /\ turn'.at = "follow" /\ turn'.met = turn.met /\ turn'.cols = schema /\ turn'.moved = edited
      /\ turn'.left = IF turn.met.name = ledger.name THEN {} ELSE Rows
      /\ turn'.half = Nothing /\ turn'.failed = {}
      /\ \A r \in Rows : turn'.pages[r] = RowPage(r)
  BY <1>1
<1>3. Met = turn.met /\ Met' = turn.met
  BY <1>1, <1>2 DEF Met
<1>4. ReadInOrder'
  BY <1>1, <1>2, <1>3, FormulasAreNat DEF ShowInv, ReadInOrder
<1>5. ASSUME NEW r \in Rows, Calm(r)' PROVE RowShows(r)'
  <2>1. Calm(r) /\ RowShows(r)
    BY <1>1, <1>2, <1>5 DEF Calm, ShowInv
  <2>2. Within(Holds(r)', Holds(r))
    BY <1>1, <1>2, HoldsStay DEF Fresh
  <2>3. /\ ~Ahead(r) /\ ~Trailing(r) /\ ~InHand(r) /\ ~Awaited(r)
        /\ ~Trailing(r)' /\ ~InHand(r)' /\ ~Awaited(r)'
    BY <1>1, <1>2 DEF Ahead, Trailing, InHand, Awaited
  <2>4. CASE turn.met.name # ledger.name
    <3>1. ~Ahead(r)'
      BY <1>2, <2>4 DEF Ahead, Carried
    <3> QED BY <1>1, <1>3, <2>1, <2>2, <2>3, <3>1, RowStays DEF ShowInv
  <2>5. CASE turn.met.name = ledger.name
    <3>1. Known(synced[r], Holds(r), r \in halfway, ledger, Met, schema) /\ OneName(ledger)
      BY <2>1, <2>3 DEF RowShows
    <3>2. Shows(synced[r], turn.met.name, Holds(r))
      BY <1>3, <2>5, <3>1 DEF Known
    <3>3. OldNames(ledger, turn.met) = {}
      BY <2>5, RenamedFacts
    <3>4. CarriedTo(synced[r], Holds(r)', ledger, turn.met)
      BY <2>2, <3>2, <3>3, ShowsLess DEF CarriedTo
    <3>5. Ahead(r)'
      BY <1>2, <2>5 DEF Ahead, Carried
    <3> QED BY <1>1, <1>2, <2>3, <3>1, <3>4, <3>5 DEF RowShows
  <2> QED BY <2>4, <2>5
<1>6. Queried'
  <2>1. \A r \in Rows, c \in Cols : schema.name[c] # NoName => RowPage(r)[schema.name[c]] = Value(r, c)
    BY RowPageAt DEF ShowInv
  <2> QED BY <1>1, <1>2, <2>1 DEF Queried, Value
<1>7. Tidy' /\ Planned' /\ Alone'
  BY <1>1, <1>2, <1>3 DEF Tidy, Planned, Alone, ShowInv
<1> QED BY <1>4, <1>5, <1>6, <1>7 DEF ShowInv

(* Within the first part of a pull: what is known of the columns stays. *)
LEMMA FollowStays ==
    ASSUME ShowInv, turn.at = "follow", turn'.at = "follow",
           turn'.met = turn.met, turn'.cols = turn.cols, turn'.pages = turn.pages, edited' = edited,
           UNCHANGED <<computed, schema, cells, ledger, halfway>>,
           undisturbed' = FALSE \/ (undisturbed' = undisturbed /\ turn'.failed = turn.failed)
    PROVE  ReadInOrder' /\ Queried' /\ Planned' /\ Alone' /\ Met = turn.met /\ Met' = turn.met
<1>1. Met = turn.met /\ Met' = turn.met
  BY DEF Met
<1>2. ReadInOrder'
  BY <1>1 DEF ShowInv, ReadInOrder
<1>3. Queried' /\ Planned' /\ Alone'
  BY <1>1 DEF ShowInv, Queried, Planned, Alone
<1> QED BY <1>1, <1>2, <1>3

LEMMA RecordsKeysShows == ASSUME ColumnsTyped, ShowInv, RecordsKeys PROVE ShowInv'
<1>1. /\ turn.at = "follow" /\ turn.half # Nothing
      /\ synced' = [synced EXCEPT ![turn.half[1]] = turn.half[2]]
      /\ turn' = [turn EXCEPT !.half = Nothing]
      /\ UNCHANGED <<computed, schema, cells, edited, clash, ledger, behind, halfway, undisturbed>>
  BY DEF RecordsKeys, Untouched, outside, columnGhosts
<1>2. turn \in AtFollow /\ turn.half \in Rows \X Notes
  <2>1. turn \in AtFollow
    BY <1>1, TurnFacts DEF ColumnsTyped
  <2> QED BY <1>1, <2>1 DEF AtFollow
<1>3. /\ turn'.at = "follow" /\ turn'.met = turn.met /\ turn'.cols = turn.cols /\ turn'.pages = turn.pages
      /\ turn'.moved = turn.moved /\ turn'.left = turn.left /\ turn'.failed = turn.failed
      /\ turn'.half = Nothing
  BY <1>1, <1>2 DEF AtFollow
<1>4. ReadInOrder' /\ Queried' /\ Planned' /\ Alone' /\ Met = turn.met /\ Met' = turn.met
  BY <1>1, <1>3, FollowStays
<1>5. turn.half[1] \notin turn.left \cup turn.failed
  BY <1>1 DEF ShowInv, Tidy
<1>6. ASSUME NEW r \in Rows, Calm(r)' PROVE RowShows(r)'
  <2>1. Calm(r) /\ RowShows(r)
    BY <1>1, <1>3, <1>6 DEF Calm, ShowInv
  <2>2. Within(Holds(r)', Holds(r))
    BY <1>1, <1>3, HoldsStay DEF Fresh
  <2>3. /\ ~Trailing(r) /\ ~Awaited(r)
        /\ ~Trailing(r)' /\ ~InHand(r)' /\ ~Awaited(r)'
    BY <1>1, <1>3 DEF Ahead, Trailing, InHand, Awaited
  <2>4. CASE r # turn.half[1]
    <3>1. synced'[r] = synced[r]
      BY <1>1, <2>4, RunFacts
    <3>2. Ahead(r)' = Ahead(r)
      BY <1>1, <1>3, <2>4 DEF Ahead, Carried
    <3> QED BY <1>1, <1>3, <1>4, <2>1, <2>2, <2>3, <3>1, <3>2, RowStays DEF ShowInv
  <2>5. CASE r = turn.half[1]
    <3>1. synced'[r] = turn.half[2]
      BY <1>1, <2>5, RunFacts
    <3>2. Ahead(r)'
      BY <1>3, <1>5, <2>5 DEF Ahead, Carried
    <3>3. InHand(r)
      BY <1>1, <2>5 DEF InHand
    <3>4. CarriedTo(turn.half[2], Holds(r)', ledger, turn.met) /\ OneName(ledger)
      BY <2>1, <2>2, <3>3, CarriedToLess DEF RowShows
    <3> QED BY <1>1, <1>3, <2>3, <3>1, <3>2, <3>4 DEF RowShows
  <2> QED BY <2>4, <2>5
<1>7. Tidy'
  BY <1>1, <1>3 DEF ShowInv, Tidy
<1> QED BY <1>4, <1>6, <1>7 DEF ShowInv

LEMMA RekeyFailsShows == ASSUME ColumnsTyped, ShowInv, RekeyFails PROVE ShowInv'
<1> DEFINE s == First(turn.left)
<1>1. /\ turn.at = "follow" /\ turn.half = Nothing /\ turn.left # {} /\ undisturbed' = FALSE
      /\ turn' = [turn EXCEPT !.left = @ \ {s}, !.failed = @ \cup {s}]
      /\ UNCHANGED <<computed, schema, cells, edited, synced, clash, ledger, behind, halfway>>
  BY DEF RekeyFails, Fault, outside, stateDb
<1>2. turn \in AtFollow
  BY <1>1, TurnFacts DEF ColumnsTyped
<1>3. s \in turn.left
  BY <1>1, FirstIn
<1> HIDE DEF s
<1>4. /\ turn'.at = "follow" /\ turn'.met = turn.met /\ turn'.cols = turn.cols /\ turn'.pages = turn.pages
      /\ turn'.moved = turn.moved /\ turn'.left = turn.left \ {s} /\ turn'.failed = turn.failed \cup {s}
      /\ turn'.half = Nothing
  BY <1>1, <1>2 DEF AtFollow
<1>5. ReadInOrder' /\ Queried' /\ Planned' /\ Alone' /\ Met = turn.met /\ Met' = turn.met
  BY <1>1, <1>4, FollowStays
<1>6. ASSUME NEW r \in Rows, Calm(r)' PROVE RowShows(r)'
  <2>1. Calm(r) /\ RowShows(r)
    BY <1>1, <1>4, <1>6 DEF Calm, ShowInv
  <2>2. Within(Holds(r)', Holds(r))
    BY <1>1, <1>4, HoldsStay DEF Fresh
  <2>3. /\ ~Trailing(r) /\ ~Awaited(r) /\ ~InHand(r)
        /\ ~Trailing(r)' /\ ~InHand(r)' /\ ~Awaited(r)'
    BY <1>1, <1>4 DEF Ahead, Trailing, InHand, Awaited
  <2>4. Ahead(r)' = Ahead(r)
    BY <1>1, <1>3, <1>4 DEF Ahead, Carried
  <2> QED BY <1>1, <1>4, <1>5, <2>1, <2>2, <2>3, <2>4, RowStays DEF ShowInv
<1>7. Tidy'
  BY <1>1, <1>4 DEF ShowInv, Tidy
<1> QED BY <1>5, <1>6, <1>7 DEF ShowInv

(* What carrying a row along makes of a note that shows the row. *)
LEMMA CarriesRow ==
    ASSUME ColumnsTyped, ReadInOrder, turn.at = "follow", NEW r \in Rows, OneName(ledger),
           NEW note \in Notes,
           Known(note, Holds(r), r \in halfway, ledger, Met, schema),
           NEW new \in Rekeyed(note, Renamed(ledger, turn.met), Removed(ledger, turn.met)),
           r \in halfway \/ \A x \in Renamed(ledger, turn.met) :
              NewKey(note, Renamed(ledger, turn.met), Removed(ledger, turn.met), x[1]) # x[1]
    PROVE  CarriedTo(new, Holds(r), ledger, turn.met)
<1>1. ledger \in Schemas /\ turn.met \in Schemas /\ Met = turn.met
  BY MetFacts
<1>2. OneName(turn.met) /\ Becomes(ledger, turn.met) /\ Becomes(turn.met, schema)
  BY <1>1 DEF ReadInOrder
<1>3. \A c \in DOMAIN Holds(r) : c \in Cols /\ turn.met.name[c] # NoName
  BY <1>2, HoldsAlive DEF Becomes
<1>4. CASE r \notin halfway
  <2>1. /\ \A c \in Cols : turn.met.name[c] # NoName => new[turn.met.name[c]] = note[ledger.name[c]]
        /\ \A k \in OldNames(ledger, turn.met) \ NewNames(ledger, turn.met) : new[k] = Nothing
    BY <1>1, <1>2, <1>4, CarriesAll
  <2>2. Shows(note, ledger.name, Holds(r))
    BY <1>4 DEF Known
  <2> QED BY <1>3, <2>1, <2>2 DEF CarriedTo, Shows
<1>5. CASE r \in halfway
  <2>1. /\ Clean(ledger, turn.met) /\ Shows(note, turn.met.name, Holds(r))
        /\ \A k \in OldNames(ledger, turn.met) : note[k] = Nothing
    BY <1>1, <1>5 DEF Known
  <2>2. /\ \A c \in Cols : turn.met.name[c] # NoName => new[turn.met.name[c]] = note[turn.met.name[c]]
        /\ \A k \in OldNames(ledger, turn.met) : new[k] = Nothing
    BY <1>1, <1>2, <2>1, CarriesNothing
  <2> QED BY <1>3, <2>1, <2>2 DEF CarriedTo, Shows
<1> QED BY <1>4, <1>5

LEMMA RekeysShows == ASSUME ColumnsTyped, ShowInv, Rekeys PROVE ShowInv'
<1> DEFINE s == First(turn.left)
           renames == Renamed(ledger, turn.met)
           removed == Removed(ledger, turn.met)
<1>1. /\ turn.at = "follow" /\ turn.half = Nothing /\ turn.left # {}
      /\ UNCHANGED <<computed, schema, cells, edited, synced, clash, ledger, halfway, undisturbed>>
  BY DEF Rekeys, stateDb
<1>2. turn \in AtFollow
  BY <1>1, TurnFacts DEF ColumnsTyped
<1>3. s \in turn.left /\ s \in Rows
  BY <1>1, <1>2, FirstIn DEF AtFollow
<1>4. PICK new \in Rekeyed(notes[s], renames, Drops(s, removed)),
           remembered \in Rekeyed(synced[s], renames, removed) :
        /\ behind' = IF s \notin halfway /\ \E x \in renames : NewKey(synced[s], renames, removed, x[1]) = x[1]
                        THEN behind \cup {s} ELSE behind
        /\ turn' = [turn EXCEPT !.left = @ \ {s}, !.half =
              IF new = notes[s] /\ remembered = synced[s] THEN Nothing
              ELSE <<s, IF Unmodified(s) THEN new ELSE remembered>>]
  BY DEF Rekeys, RekeysRow
<1> DEFINE carried == IF Unmodified(s) THEN new ELSE remembered
<1>5. /\ turn'.at = "follow" /\ turn'.met = turn.met /\ turn'.cols = turn.cols /\ turn'.pages = turn.pages
      /\ turn'.moved = turn.moved /\ turn'.left = turn.left \ {s} /\ turn'.failed = turn.failed
      /\ turn'.half \in {Nothing, <<s, carried>>}
      /\ turn'.half = Nothing => remembered = synced[s]
  <2>1. <<s, carried>> # Nothing
    BY DEF Nothing
  <2> QED BY <1>2, <1>4, <2>1 DEF AtFollow
<1>6. ReadInOrder' /\ Queried' /\ Planned' /\ Alone' /\ Met = turn.met /\ Met' = turn.met
  BY <1>1, <1>5, FollowStays
<1>7. ASSUME Calm(s), RowShows(s), s \notin behind'
      PROVE  /\ CarriedTo(remembered, Holds(s), ledger, turn.met)
             /\ CarriedTo(carried, Holds(s), ledger, turn.met)
  <2>1. ~Ahead(s) /\ ~Trailing(s)
    BY <1>1, <1>3 DEF Ahead, Trailing, Carried
  <2>2. Known(synced[s], Holds(s), s \in halfway, ledger, Met, schema) /\ OneName(ledger)
    BY <1>7, <2>1 DEF RowShows
  <2>3. s \in halfway \/ \A x \in renames : NewKey(synced[s], renames, removed, x[1]) # x[1]
    BY <1>4, <1>7
  <2>4. synced[s] \in Notes /\ notes[s] \in Notes
    BY <1>3, RowParts
  <2>5. CarriedTo(remembered, Holds(s), ledger, turn.met)
    BY <1>1, <1>3, <2>2, <2>3, <2>4, CarriesRow DEF ShowInv
  <2>6. CASE ~Unmodified(s)
    BY <2>5, <2>6
  <2>7. CASE Unmodified(s)
    <3>1. notes[s] = synced[s] /\ Drops(s, removed) = removed
      BY <2>7 DEF Unmodified, Drops
    <3>2. new \in Rekeyed(synced[s], renames, removed)
      BY <3>1
    <3>3. CarriedTo(new, Holds(s), ledger, turn.met)
      BY <1>1, <1>3, <2>2, <2>3, <2>4, <3>2, CarriesRow DEF ShowInv
    <3> QED BY <2>5, <2>7, <3>3
  <2> QED BY <2>5, <2>6, <2>7
<1> HIDE DEF s, carried, renames, removed
<1>8. ASSUME NEW r \in Rows, Calm(r)' PROVE RowShows(r)'
  <2>1. Calm(r) /\ RowShows(r) /\ r \notin behind'
    BY <1>1, <1>4, <1>5, <1>8 DEF Calm, ShowInv
  <2>2. Within(Holds(r)', Holds(r))
    BY <1>1, <1>5, HoldsStay DEF Fresh
  <2>3. ~Trailing(r) /\ ~Awaited(r) /\ ~InHand(r) /\ ~Trailing(r)' /\ ~Awaited(r)'
    BY <1>1, <1>5 DEF Trailing, InHand, Awaited
  <2>4. CASE r # s
    <3>1. ~InHand(r)'
      BY <1>5, <2>4 DEF InHand
    <3>2. Ahead(r)' = Ahead(r)
      BY <1>1, <1>5, <2>4 DEF Ahead, Carried
    <3> QED BY <1>1, <1>5, <1>6, <2>1, <2>2, <2>3, <3>1, <3>2, RowStays DEF ShowInv
  <2>5. CASE r = s
    <3>1. /\ CarriedTo(remembered, Holds(r)', ledger, turn.met)
          /\ CarriedTo(carried, Holds(r)', ledger, turn.met)
      BY <1>7, <2>1, <2>2, <2>5, CarriedToLess
    <3>2. ~Ahead(r) /\ OneName(ledger)
      BY <1>3, <2>1, <2>5 DEF Ahead, Carried, RowShows
    <3>3. Known(synced[r], Holds(r), r \in halfway, ledger, Met, schema)
      BY <2>1, <2>3, <3>2 DEF RowShows
    <3>4. Known(synced[r], Holds(r)', r \in halfway', ledger', Met', schema')
      BY <1>1, <1>6, <2>2, <3>3, KnownStays DEF ShowInv
    <3>5. Ahead(r)' => CarriedTo(synced[r], Holds(r)', ledger, turn.met)
      <4>1. Ahead(r)' => turn'.half = Nothing
        BY <1>5, <2>5 DEF Ahead, Carried
      <4> QED BY <1>5, <2>5, <3>1, <4>1
    <3>6. InHand(r)' => CarriedTo(turn'.half[2], Holds(r)', ledger, turn.met)
      <4>1. InHand(r)' => turn'.half[2] = carried
        BY <1>5 DEF InHand
      <4> QED BY <3>1, <4>1
    <3> QED BY <1>1, <1>5, <2>3, <3>2, <3>4, <3>5, <3>6 DEF RowShows
  <2> QED BY <2>4, <2>5
<1>9. Tidy'
  <2>1. s \notin turn.failed
    BY <1>1, <1>3 DEF ShowInv, Tidy
  <2> QED BY <1>1, <1>5, <2>1 DEF ShowInv, Tidy
<1> QED BY <1>6, <1>8, <1>9 DEF ShowInv

LEMMA LeftHalfwayShows ==
    ASSUME ColumnsTyped, ReadInOrder, turn.at = "follow", LeftHalfway, NEW r \in Rows, RowShows(r),
           r \notin behind', UNCHANGED <<schema, synced, ledger>>,
           turn'.at \in {"rows", "idle"}, Met' \in {Met, schema}, Within(Holds(r)', Holds(r))
    PROVE  RowShows(r)'
<1> DEFINE renames == Renamed(ledger, turn.met)
<1>1. Met = turn.met /\ OneName(Met) /\ Becomes(Met, schema) /\ OneName(ledger)
  BY MetFacts DEF ReadInOrder, RowShows
<1>2. /\ halfway' = IF renames = {} THEN halfway ELSE halfway \cup Carried
      /\ schema.name # turn.met.name \/ ~Clean(ledger, turn.met) => behind' = behind \cup halfway'
  BY DEF LeftHalfway, Clean, OldNames, NewNames
<1>3. r \in halfway' => (schema.name = turn.met.name /\ Clean(ledger, turn.met)) \/ r \notin Carried
  BY <1>2
<1>4. Known(synced[r], Holds(r), r \in halfway', ledger, Met, schema)
  <2>1. CASE r \notin Carried
    <3>1. Known(synced[r], Holds(r), r \in halfway, ledger, Met, schema)
      BY <2>1 DEF RowShows, Ahead, Trailing
    <3>2. (r \in halfway') = (r \in halfway)
      BY <1>2, <2>1
    <3> QED BY <3>1, <3>2
  <2>2. CASE r \in Carried
    <3>1. CarriedTo(synced[r], Holds(r), ledger, turn.met)
      BY <2>2 DEF RowShows, Ahead
    <3>2. CASE r \in halfway'
      <4>1. schema.name = turn.met.name /\ Clean(ledger, turn.met)
        BY <1>3, <2>2, <3>2
      <4>2. Agree(turn.met, schema)
        BY <4>1 DEF Agree
      <4>3. \A k \in OldNames(ledger, turn.met) : synced[r][k] = Nothing
        BY <3>1, <4>1 DEF CarriedTo, Clean
      <4> QED BY <1>1, <3>1, <3>2, <4>1, <4>2, <4>3 DEF Known, CarriedTo
    <3>3. CASE r \notin halfway'
      <4>1. renames = {}
        BY <1>2, <2>2, <3>3
      <4>2. \A c \in DOMAIN Holds(r) : turn.met.name[c] = ledger.name[c]
        <5> SUFFICES ASSUME NEW c \in DOMAIN Holds(r) PROVE turn.met.name[c] = ledger.name[c]
          OBVIOUS
        <5>1. c \in Cols /\ turn.met.name[c] # NoName
          BY <1>1, HoldsAlive DEF Becomes
        <5>2. turn.met.name[c] # ledger.name[c] => <<ledger.name[c], turn.met.name[c]>> \in renames
          BY <5>1, RenamedFacts
        <5> QED BY <4>1, <5>2
      <4> QED BY <3>1, <3>3, <4>2 DEF Known, CarriedTo, Shows
    <3> QED BY <3>2, <3>3
  <2> QED BY <2>1, <2>2
<1>5. Known(synced[r], Holds(r)', r \in halfway', ledger, Met', schema)
  <2> DEFINE V == Holds(r)
             W == Holds(r)'
             half == r \in halfway'
             t == Met'
  <2>1. half \in BOOLEAN /\ DOMAIN W \subseteq {c \in Cols : schema.name[c] # NoName}
    BY DEF Holds, Settled
  <2>2. t \in {Met, schema} /\ Within(W, V) /\ Known(synced[r], V, half, ledger, Met, schema)
    BY <1>4
  <2> HIDE DEF V, W, half, t
  <2>3. Known(synced[r], W, half, ledger, t, schema)
    BY <1>1, <2>1, <2>2, KnownLess
  <2> QED BY <2>3 DEF V, W, half, t
<1>6. ~Ahead(r)' /\ ~Trailing(r)' /\ ~InHand(r)' /\ ~Awaited(r)'
  BY DEF Ahead, Trailing, InHand, Awaited
<1> QED BY <1>1, <1>5, <1>6 DEF RowShows

LEMMA FollowEndsShows == ASSUME ColumnsTyped, ShowInv, FollowEnds PROVE ShowInv'
<1>1. /\ turn.at = "follow" /\ turn.left = {} /\ turn.half = Nothing
      /\ ledger' = IF turn.failed = {} THEN turn.met ELSE ledger
      /\ IF turn.failed = {} THEN halfway' = {} /\ UNCHANGED behind ELSE LeftHalfway
      /\ turn' = [at |-> "rows", met |-> turn.met, pages |-> turn.pages, cols |-> turn.cols,
                  moved |-> turn.moved, left |-> Rows, fresh |-> Refreshed(ledger, turn.met)]
      /\ UNCHANGED <<computed, schema, cells, edited, synced, clash, undisturbed>>
  BY DEF FollowEnds, NowKnown, Untouched, outside
<1>2. /\ turn'.at = "rows" /\ turn'.met = turn.met /\ turn'.cols = turn.cols /\ turn'.pages = turn.pages
      /\ turn'.moved = turn.moved /\ turn'.left = Rows /\ turn'.fresh = Refreshed(ledger, turn.met)
  BY <1>1
<1>3. Met = turn.met /\ Met' = turn.met /\ OneName(turn.met)
      /\ Becomes(ledger, turn.met) /\ Becomes(turn.met, schema)
  BY <1>1, <1>2 DEF Met, ShowInv, ReadInOrder
<1>4. ReadInOrder'
  <2>1. Becomes(turn.met, turn.met)
    BY <1>1, <1>3, FormulasAreNat DEF Becomes
  <2> QED BY <1>1, <1>2, <1>3, <2>1 DEF ShowInv, ReadInOrder
<1>5. turn'.fresh = IF ledger.formula = turn.met.formula THEN {}
                    ELSE {turn.met.name[c] : c \in computed} \ {NoName}
  BY <1>2 DEF Refreshed
<1>6. ASSUME NEW r \in Rows, Calm(r)' PROVE RowShows(r)'
  <2>1. Calm(r) /\ RowShows(r) /\ r \notin behind'
    <3>1. r \notin turn.moved
      BY <1>2, <1>6 DEF Calm
    <3>2. behind \subseteq behind'
      BY <1>1 DEF LeftHalfway
    <3>3. Calm(r) /\ r \notin behind'
      BY <1>1, <1>6, <3>1, <3>2 DEF Calm
    <3> QED BY <3>3 DEF ShowInv
  <2>2. Within(Holds(r)', Holds(r))
    <3>1. ASSUME NEW c \in Cols \cap computed, schema'.name[c] # NoName, ledger'.formula = schema'.formula, Fresh(r)'
          PROVE  ledger.formula = schema.formula
      <4>1. turn'.fresh = {}
        BY <1>2, <3>1 DEF Fresh
      <4>2. turn.met.name[c] # NoName
        BY <1>1, <1>3, <3>1 DEF Becomes
      <4>3. ledger.formula = turn.met.formula
        BY <1>5, <3>1, <4>1, <4>2
      <4> QED BY <1>1, <3>1, <4>3
    <3>2. Fresh(r)
      BY <1>1 DEF Fresh
    <3> QED BY <1>1, <3>1, <3>2, HoldsStay
  <2>3. CASE turn.failed # {}
    <3>1. LeftHalfway /\ ledger' = ledger
      BY <1>1, <2>3
    <3> QED BY <1>1, <1>2, <1>3, <2>1, <2>2, <3>1, LeftHalfwayShows DEF ShowInv
  <2>4. CASE turn.failed = {}
    <3>1. Ahead(r)
      BY <1>1, <2>4 DEF Ahead, Carried
    <3>2. Shows(synced[r], turn.met.name, Holds(r)')
      BY <2>1, <2>2, <3>1, ShowsLess DEF RowShows, CarriedTo
    <3>3. Known(synced[r], Holds(r)', r \in halfway', ledger', Met', schema')
      BY <1>1, <2>4, <3>2 DEF Known
    <3>4. ~Ahead(r)' /\ ~Trailing(r)' /\ ~InHand(r)' /\ ~Awaited(r)'
      BY <1>2 DEF Ahead, Trailing, InHand, Awaited
    <3> QED BY <1>1, <1>3, <2>4, <3>3, <3>4 DEF RowShows
  <2> QED BY <2>3, <2>4
<1>7. Tidy' /\ Queried' /\ Planned'
  BY <1>1, <1>2, <1>5 DEF ShowInv, Tidy, Queried, Planned
<1>8. Alone'
  <2>1. undisturbed => turn.failed = {} /\ Met = schema /\ turn.cols = schema
    BY <1>1 DEF ShowInv, Alone
  <2> QED BY <1>1, <1>2, <1>3, <2>1 DEF Alone
<1> QED BY <1>4, <1>6, <1>7, <1>8 DEF ShowInv

(* The end of a turn, and a death. *)
LEMMA TurnEnds ==
    ASSUME ColumnsTyped, ReadInOrder, NEW r \in Rows, RowShows(r), turn' = Idle,
           UNCHANGED <<computed, schema, cells, synced, ledger>>, r \in halfway' <=> r \in halfway,
           ~Ahead(r), ~Trailing(r), Fresh(r)
    PROVE  RowShows(r)'
<1>1. turn'.at = "idle" /\ Met' = schema
  BY DEF Idle, Met
<1>2. Within(Holds(r)', Holds(r))
  BY HoldsStay
<1>3. ~Ahead(r)' /\ ~Trailing(r)' /\ ~InHand(r)' /\ ~Awaited(r)'
  BY <1>1 DEF Ahead, Trailing, InHand, Awaited
<1> QED BY <1>1, <1>2, <1>3, RowStays

LEMMA IdleShows ==
    ASSUME ColumnsTyped, ReadInOrder, turn' = Idle, UNCHANGED schema, Becomes(ledger', schema),
           undisturbed' => ledger' = schema /\ halfway' = {}
    PROVE  ReadInOrder' /\ Tidy' /\ Queried' /\ Planned' /\ Alone'
<1>1. turn'.at = "idle" /\ Met' = schema
  BY DEF Idle, Met
<1> QED BY <1>1, FormulasAreNat DEF ReadInOrder, Tidy, Queried, Planned, Alone

LEMMA LedgerBecomes ==
    ASSUME ColumnsTyped, ReadInOrder PROVE Becomes(ledger, schema)
BY FormulasAreNat DEF ReadInOrder, Becomes

LEMMA EndsShow == ASSUME ColumnsTyped, ShowInv, PullEnds \/ PushEnds PROVE ShowInv'
<1>1. /\ \/ turn.at = "rows" /\ turn.left = {}
         \/ turn.at = "rename"
      /\ turn' = Idle
      /\ UNCHANGED <<computed, schema, cells, edited, synced, clash, ledger, behind, halfway, undisturbed>>
  BY DEF PullEnds, PushEnds, Untouched, outside, stateDb, columnGhosts
<1>2. turn'.at = "idle"
  BY <1>1 DEF Idle
<1>3. ASSUME NEW r \in Rows, Calm(r)' PROVE RowShows(r)'
  <2>1. Calm(r) /\ RowShows(r)
    BY <1>1, <1>2, <1>3 DEF Calm, ShowInv
  <2>2. ~Ahead(r) /\ ~Trailing(r) /\ Fresh(r)
    BY <1>1 DEF Ahead, Trailing, Fresh
  <2> QED BY <1>1, <2>1, <2>2, TurnEnds DEF ShowInv
<1>4. undisturbed => ledger = schema /\ halfway = {}
  BY <1>1 DEF ShowInv, Alone
<1> QED BY <1>1, <1>3, <1>4, IdleShows, LedgerBecomes DEF ShowInv

LEMMA RunDiesShows == ASSUME ColumnsTyped, ShowInv, RunDies PROVE ShowInv'
<1>1. /\ turn' = Idle /\ undisturbed' = FALSE
      /\ edited' = edited \cup (IF turn.at \in {"follow", "rows"} THEN
                      turn.moved \cap (IF turn.at = "follow" THEN Rows ELSE turn.left) ELSE {})
      /\ UNCHANGED <<computed, schema, cells, synced, clash, ledger>>
  BY DEF RunDies, Fault, outside, stateDb
<1>2. turn'.at = "idle" /\ Met' = schema
  BY <1>1 DEF Idle, Met
<1>3. ASSUME NEW r \in Rows, Calm(r)' PROVE RowShows(r)'
  <2>1. r \notin clash \cup edited \cup behind'
    BY <1>1, <1>3 DEF Calm
  <2>2. CASE turn.at = "follow"
    <3>1. LeftHalfway
      BY <2>2 DEF RunDies
    <3>2. r \notin behind /\ r \notin turn.moved
      BY <1>1, <1>3, <2>1, <2>2, <3>1 DEF LeftHalfway, Calm
    <3>3. RowShows(r)
      BY <2>1, <2>2, <3>2 DEF Calm, ShowInv
    <3>4. Within(Holds(r)', Holds(r))
      BY <1>1, <2>2, HoldsStay DEF Fresh
    <3> QED BY <1>1, <1>2, <2>1, <2>2, <3>1, <3>3, <3>4, LeftHalfwayShows DEF ShowInv
  <2>3. CASE turn.at # "follow"
    <3>1. /\ halfway' = halfway
          /\ behind' = IF turn.at = "snapshots" \/ (turn.at = "rows" /\ turn.fresh # {})
                       THEN behind \cup turn.left ELSE behind
      BY <2>3 DEF RunDies
    <3>2. r \notin behind
      BY <2>1, <3>1
    <3>3. turn.at = "rows" => r \notin turn.moved \cap turn.left
      BY <1>1, <1>3 DEF Calm
    <3>4. RowShows(r)
      BY <2>1, <2>3, <3>2, <3>3 DEF Calm, ShowInv
    <3>5. ~Ahead(r) /\ ~Trailing(r) /\ Fresh(r)
      BY <2>1, <2>3, <3>1 DEF Ahead, Trailing, Fresh
    <3> QED BY <1>1, <3>1, <3>4, <3>5, TurnEnds DEF ShowInv
  <2> QED BY <2>2, <2>3
<1> QED BY <1>1, <1>3, IdleShows, LedgerBecomes DEF ShowInv

(* Within the second part of a pull. *)
LEMMA RowsStay ==
    ASSUME ShowInv, turn.at = "rows", turn'.at = "rows",
           turn'.met = turn.met, turn'.cols = turn.cols, turn'.pages = turn.pages, turn'.fresh = turn.fresh,
           edited \subseteq edited', UNCHANGED <<computed, schema, cells, ledger>>,
           halfway' \subseteq halfway, undisturbed' => undisturbed
    PROVE  /\ ReadInOrder' /\ Tidy' /\ Queried' /\ Planned' /\ Alone'
           /\ Met = turn.met /\ Met' = turn.met
<1>1. Met = turn.met /\ Met' = turn.met
  BY DEF Met
<1>2. ReadInOrder' /\ Tidy'
  BY <1>1 DEF ShowInv, ReadInOrder, Tidy
<1>3. Queried' /\ Planned'
  BY DEF ShowInv, Queried, Planned
<1>4. Alone'
  BY <1>1 DEF ShowInv, Alone
<1> QED BY <1>1, <1>2, <1>3, <1>4

(* A row of the second part that the step leaves as it is: its values stand as before, or were
   not to be taken afresh. *)
LEMMA RowStaysInRows ==
    ASSUME ColumnsTyped, ShowInv, NEW r \in Rows, RowShows(r), turn.at = "rows", turn'.at = "rows",
           UNCHANGED <<computed, schema, cells, ledger>>, synced'[r] = synced[r],
           r \in halfway' <=> r \in halfway, Met' = Met, Fresh(r)' => Fresh(r)
    PROVE  RowShows(r)'
<1>1. Within(Holds(r)', Holds(r))
  BY HoldsStay
<1>2. /\ ~Ahead(r) /\ ~Trailing(r) /\ ~InHand(r) /\ ~Awaited(r)
      /\ ~Ahead(r)' /\ ~Trailing(r)' /\ ~InHand(r)' /\ ~Awaited(r)'
  BY DEF Ahead, Trailing, InHand, Awaited
<1> QED BY <1>1, <1>2, RowStays DEF ShowInv

LEMMA RowFailsShows == ASSUME ColumnsTyped, ShowInv, RowFails PROVE ShowInv'
<1> DEFINE s == First(turn.left)
<1>1. /\ turn.at = "rows" /\ turn.left # {} /\ undisturbed' = FALSE
      /\ edited' = edited \cup (turn.moved \cap {s})
      /\ behind' = IF turn.fresh = {} THEN behind ELSE behind \cup {s}
      /\ turn' = [turn EXCEPT !.left = @ \ {s}]
      /\ UNCHANGED <<computed, schema, cells, synced, clash, ledger, halfway>>
  BY DEF RowFails, Fault, outside, stateDb
<1>2. turn \in AtRows
  BY <1>1, TurnFacts DEF ColumnsTyped
<1>3. s \in turn.left
  BY <1>1, FirstIn
<1> HIDE DEF s
<1>4. /\ turn'.at = "rows" /\ turn'.met = turn.met /\ turn'.cols = turn.cols /\ turn'.pages = turn.pages
      /\ turn'.moved = turn.moved /\ turn'.left = turn.left \ {s} /\ turn'.fresh = turn.fresh
  BY <1>1, <1>2 DEF AtRows
<1>5. ReadInOrder' /\ Tidy' /\ Queried' /\ Planned' /\ Alone' /\ Met = turn.met /\ Met' = turn.met
  BY <1>1, <1>4, RowsStay
<1>6. ASSUME NEW r \in Rows, Calm(r)' PROVE RowShows(r)'
  <2>1. Calm(r) /\ RowShows(r) /\ r \notin behind'
    BY <1>1, <1>4, <1>6 DEF Calm, ShowInv
  <2>2. Fresh(r)' => Fresh(r)
    BY <1>1, <1>4, <2>1 DEF Fresh
  <2> QED BY <1>1, <1>4, <1>5, <2>1, <2>2, RowStaysInRows
<1> QED BY <1>5, <1>6 DEF ShowInv

(* A page that is received shows the row under the names the ledger has. *)
LEMMA ReceivedShows ==
    ASSUME ColumnsTyped, ShowInv, turn.at = "rows", NEW r \in Rows \ edited, turn.cols.name = ledger.name
    PROVE  Shows(Received(r), ledger.name, [c \in {d \in Cols : schema.name[d] # NoName
               /\ (d \in computed => ledger.formula = schema.formula)} |-> Value(r, c)])
<1> SUFFICES ASSUME NEW c \in Cols, schema.name[c] # NoName,
                    c \in computed => ledger.formula = schema.formula
             PROVE  Received(r)[ledger.name[c]] = Value(r, c)
  BY DEF Shows
<1>1. turn.cols \in Schemas /\ Becomes(turn.cols, schema) /\ Becomes(turn.met, turn.cols)
      /\ Met = turn.met /\ Becomes(ledger, Met)
  BY MetFacts DEF ShowInv, ReadInOrder
<1>2. turn.cols.name[c] \in Keys /\ turn.cols.name[c] \in NamesIn(turn.cols)
  BY <1>1, SchemaFacts DEF Becomes, NamesIn
<1>3. Received(r)[ledger.name[c]] = turn.pages[r][turn.cols.name[c]]
  BY <1>2 DEF Received
<1>4. turn.pages[r][turn.cols.name[c]] = IF c \in computed THEN <<c, turn.cols.formula>> ELSE cells[r][c]
  BY DEF ShowInv, Queried
<1>5. c \in computed => turn.cols.formula = schema.formula
  BY <1>1, FormulasAreNat DEF Becomes
<1> QED BY <1>3, <1>4, <1>5 DEF Value

LEMMA ReceivesRowShows ==
    ASSUME ColumnsTyped, ShowInv, turn.at = "rows", turn'.at = "rows", NEW r \in Rows, ReceivesRow(r),
           turn'.moved = turn.moved, turn'.left = turn.left \ {r}, Met' = Met,
           UNCHANGED <<computed, schema, cells, ledger>>, Calm(r)'
    PROVE  RowShows(r)'
<1>1. r \notin behind' /\ r \notin clash' /\ r \notin edited'
  BY DEF Calm
<1>2. /\ synced' = [synced EXCEPT ![r] = Received(r)] /\ UNCHANGED edited
      /\ IF turn.cols.name = ledger.name THEN behind' = behind \ {r} /\ halfway' = halfway \ {r}
         ELSE behind' = behind \cup {r} /\ UNCHANGED halfway
  BY <1>1 DEF ReceivesRow
<1>3. turn.cols.name = ledger.name /\ r \notin halfway'
  BY <1>1, <1>2
<1>4. synced'[r] = Received(r)
  BY <1>2, RunFacts
<1>5. OneName(ledger)
  BY <1>3 DEF ShowInv, ReadInOrder, OneName
<1>6. Shows(Received(r), ledger.name, Holds(r)')
  <2> DEFINE V == [c \in {d \in Cols : schema.name[d] # NoName
                      /\ (d \in computed => ledger.formula = schema.formula)} |-> Value(r, c)]
             W == Holds(r)'
  <2>1. Shows(Received(r), ledger.name, V)
    BY <1>1, <1>2, <1>3, ReceivedShows
  <2>2. Within(W, V)
    BY DEF Within, Holds, Settled, Value
  <2> HIDE DEF V, W
  <2>3. Shows(Received(r), ledger.name, W)
    BY <2>1, <2>2, ShowsLess
  <2> QED BY <2>3 DEF W
<1>7. Known(synced'[r], Holds(r)', r \in halfway', ledger', Met', schema')
  BY <1>3, <1>4, <1>6 DEF Known
<1>8. ~Ahead(r)' /\ ~Trailing(r)' /\ ~InHand(r)' /\ ~Awaited(r)'
  BY DEF Ahead, Trailing, InHand, Awaited
<1> QED BY <1>5, <1>7, <1>8 DEF RowShows

(* Values that are taken afresh go under names the ledger has, or the row was carried to. *)
LEMMA FreshIsApart ==
    ASSUME ColumnsTyped, NEW l \in Schemas, NEW m \in Schemas, OneName(l), OneName(m), Clean(l, m),
           NEW k \in OldNames(l, m), NEW d \in Cols, m.name[d] # NoName
    PROVE  m.name[d] # k
<1> SUFFICES ASSUME m.name[d] = k PROVE FALSE
  OBVIOUS
<1>1. PICK c \in Cols : k = l.name[c] /\ m.name[c] # l.name[c] /\ m.name[c] # NoName
  BY RenamedFacts
<1>2. k \notin NewNames(l, m)
  BY DEF Clean
<1>3. m.name[d] = l.name[d]
  BY <1>2, RenamedFacts
<1>4. d = c
  BY <1>1, <1>3 DEF OneName
<1> QED BY <1>1, <1>3, <1>4

LEMMA ReformsRowShows ==
    ASSUME ColumnsTyped, ShowInv, turn \in AtRows, turn.at = "rows", turn'.at = "rows", NEW r \in Rows,
           r \in turn.left, ReformsRow(r),
           turn'.moved = turn.moved, turn'.left = turn.left \ {r}, Met' = Met,
           UNCHANGED <<computed, schema, cells, ledger>>, Calm(r)'
    PROVE  RowShows(r)'
<1>1. /\ r \notin turn.moved /\ UNCHANGED <<edited, clash, halfway>>
      /\ synced' = IF Unmodified(r) THEN [synced EXCEPT ![r] = Reformed(r)] ELSE synced
      /\ behind' = IF turn.fresh # {} /\ (OtherNames(r) \/ (~Unmodified(r) /\ Stale(r) # {}))
                      THEN behind \cup {r} ELSE behind
  BY DEF ReformsRow
<1>2. /\ r \notin clash /\ r \notin edited /\ r \notin behind
      /\ turn.fresh # {} => ~OtherNames(r) /\ (Unmodified(r) \/ Stale(r) = {})
  BY <1>1 DEF Calm
<1>3. RowShows(r)
  BY <1>1, <1>2 DEF Calm, ShowInv
<1>4. synced[r] \in Notes /\ turn.fresh \in SUBSET Keys
  BY RowParts DEF AtRows
<1>5. synced'[r] = IF Unmodified(r) THEN Reformed(r) ELSE synced[r]
  BY <1>1, RunFacts
<1>6. CASE turn.fresh = {}
  <2>1. synced'[r] = synced[r]
    <3>1. Unmodified(r) => Reformed(r) = [k \in Keys |-> synced[r][k]]
      BY <1>6 DEF Reformed, Stale, Unmodified
    <3>2. [k \in Keys |-> synced[r][k]] = synced[r]
      BY <1>4 DEF Notes
    <3> QED BY <1>5, <3>1, <3>2
  <2>2. Fresh(r)
    BY <1>6 DEF Fresh
  <2> QED BY <1>1, <1>3, <2>1, <2>2, RowStaysInRows
<1>7. CASE turn.fresh # {}
  <2>1. \A k \in Keys : synced'[r][k] = IF k \in turn.fresh THEN turn.pages[r][k] ELSE synced[r][k]
    <3>1. CASE Unmodified(r)
      BY <1>5, <3>1 DEF Reformed, Stale, Unmodified
    <3>2. CASE ~Unmodified(r)
      BY <1>2, <1>5, <1>7, <3>2 DEF Stale
    <3> QED BY <3>1, <3>2
  <2>2. /\ Met = turn.met /\ turn.met \in Schemas /\ turn.cols \in Schemas /\ ledger \in Schemas
        /\ OneName(turn.met) /\ Becomes(ledger, turn.met) /\ Becomes(turn.met, schema)
        /\ Becomes(turn.met, turn.cols) /\ Becomes(turn.cols, schema)
    BY MetFacts DEF ShowInv, ReadInOrder
  <2>3. turn.cols.name = turn.met.name /\ (r \in halfway \/ ledger.name = turn.met.name)
    BY <1>2, <1>7 DEF OtherNames
  <2>4. turn.fresh = {turn.met.name[c] : c \in computed} \ {NoName}
    BY <1>7 DEF ShowInv, Tidy
  <2>5. Known(synced[r], Holds(r), r \in halfway, ledger, Met, schema) /\ OneName(ledger)
    BY <1>3 DEF RowShows, Ahead, Trailing
  <2>6. Shows(synced[r], turn.met.name, Holds(r))
    BY <2>2, <2>3, <2>5 DEF Known
  <2>7. ASSUME NEW c \in Settled(r)' PROVE synced'[r][turn.met.name[c]] = Value(r, c)
    <3>1. c \in Cols /\ schema.name[c] # NoName /\ (c \in computed => ledger.formula = schema.formula)
      BY DEF Settled
    <3>2. turn.met.name[c] \in Keys
      BY <2>2, <3>1, SchemaFacts DEF Becomes
    <3>3. CASE c \in computed
      <4>1. turn.met.name[c] \in turn.fresh
        BY <2>2, <2>4, <3>1, <3>3 DEF Becomes
      <4>2. turn.pages[r][turn.cols.name[c]] = <<c, turn.cols.formula>>
        BY <1>2, <3>1, <3>3 DEF ShowInv, Queried
      <4>3. turn.cols.formula = schema.formula
        BY <2>2, <3>1, <3>3, FormulasAreNat DEF Becomes
      <4> QED BY <2>1, <2>3, <3>2, <3>3, <4>1, <4>2, <4>3 DEF Value
    <3>4. CASE c \notin computed
      <4>1. turn.met.name[c] \notin turn.fresh
        <5>1. computed \subseteq Cols
          BY DEF ColumnsTyped, SettingTyped
        <5> QED BY <2>2, <2>4, <3>1, <3>4, <5>1 DEF OneName
      <4>2. c \in Settled(r)
        BY <3>1, <3>4 DEF Settled
      <4>3. c \in DOMAIN Holds(r) /\ Holds(r)[c] = Value(r, c)
        BY <4>2 DEF Holds
      <4> QED BY <2>1, <2>6, <3>2, <4>1, <4>3 DEF Shows
    <3> QED BY <3>3, <3>4
  <2>8. Shows(synced'[r], turn.met.name, Holds(r)')
    <3>1. \A c \in Settled(r)' : Value(r, c)' = Value(r, c)
      BY DEF Value
    <3>2. DOMAIN Holds(r)' = Settled(r)' /\ \A c \in Settled(r)' : Holds(r)'[c] = Value(r, c)'
      BY DEF Holds
    <3> QED BY <2>7, <3>1, <3>2 DEF Shows
  <2>9. Known(synced'[r], Holds(r)', r \in halfway', ledger', Met', schema')
    <3>1. CASE r \notin halfway
      BY <1>1, <2>3, <2>8, <3>1 DEF Known
    <3>2. CASE r \in halfway
      <4>1. Clean(ledger, turn.met) /\ Agree(turn.met, schema)
            /\ \A k \in OldNames(ledger, turn.met) : synced[r][k] = Nothing
        BY <2>2, <2>5, <3>2 DEF Known
      <4>2. ASSUME NEW k \in OldNames(ledger, turn.met) PROVE synced'[r][k] = Nothing
        <5>1. k \in Keys
          BY <2>2, RenamedFacts, SchemaFacts DEF Becomes
        <5>2. k \notin turn.fresh
          <6>1. computed \subseteq Cols
            BY DEF ColumnsTyped, SettingTyped
          <6> QED BY <2>2, <2>4, <2>5, <4>1, <6>1, FreshIsApart
        <5> QED BY <2>1, <4>1, <5>1, <5>2
      <4> QED BY <1>1, <2>2, <2>8, <3>2, <4>1, <4>2 DEF Known
    <3> QED BY <3>1, <3>2
  <2>10. ~Ahead(r)' /\ ~Trailing(r)' /\ ~InHand(r)' /\ ~Awaited(r)'
    BY DEF Ahead, Trailing, InHand, Awaited
  <2> QED BY <2>5, <2>9, <2>10 DEF RowShows
<1> QED BY <1>6, <1>7

LEMMA PullsRowShows == ASSUME ColumnsTyped, ShowInv, PullsRow PROVE ShowInv'
<1> DEFINE s == First(turn.left)
<1>1. /\ turn.at = "rows" /\ turn.left # {} /\ turn' = [turn EXCEPT !.left = @ \ {s}]
      /\ ReceivesRow(s) \/ ReformsRow(s)
      /\ UNCHANGED <<computed, schema, cells, ledger, undisturbed>>
  BY DEF PullsRow
<1>2. turn \in AtRows
  BY <1>1, TurnFacts DEF ColumnsTyped
<1>3. s \in turn.left /\ s \in Rows
  BY <1>1, <1>2, FirstIn DEF AtRows
<1> HIDE DEF s
<1>4. /\ turn'.at = "rows" /\ turn'.met = turn.met /\ turn'.cols = turn.cols /\ turn'.pages = turn.pages
      /\ turn'.moved = turn.moved /\ turn'.left = turn.left \ {s} /\ turn'.fresh = turn.fresh
  BY <1>1, <1>2 DEF AtRows
<1>5. edited \subseteq edited' /\ halfway' \in {halfway, halfway \ {s}}
      /\ \A r \in Rows \ {s} : /\ r \in clash' <=> r \in clash
                               /\ r \in behind' <=> r \in behind
                               /\ r \in edited' <=> r \in edited
                               /\ synced'[r] = synced[r]
  <2>1. synced \in [Rows -> Notes]
    BY RunFacts
  <2>2. CASE ReceivesRow(s)
    BY <1>3, <2>1, <2>2 DEF ReceivesRow
  <2>3. CASE ReformsRow(s)
    BY <1>3, <2>1, <2>3 DEF ReformsRow
  <2> QED BY <1>1, <2>2, <2>3
<1>6. ReadInOrder' /\ Tidy' /\ Queried' /\ Planned' /\ Alone' /\ Met = turn.met /\ Met' = turn.met
  BY <1>1, <1>4, <1>5, RowsStay
<1>7. ASSUME NEW r \in Rows, Calm(r)' PROVE RowShows(r)'
  <2>1. CASE r = s
    BY <1>1, <1>2, <1>3, <1>4, <1>6, <1>7, <2>1, ReceivesRowShows, ReformsRowShows
  <2>2. CASE r # s
    <3>1. Calm(r) /\ RowShows(r)
      BY <1>1, <1>4, <1>5, <1>7, <2>2 DEF Calm, ShowInv
    <3>2. Fresh(r)' => Fresh(r)
      BY <1>1, <1>4, <2>2 DEF Fresh
    <3> QED BY <1>1, <1>4, <1>5, <1>6, <2>2, <3>1, <3>2, RowStaysInRows
  <2> QED BY <2>1, <2>2
<1> QED BY <1>6, <1>7 DEF ShowInv
--------------------------------------------------------------------------------
(* A push. *)

LEMMA PlansPushShows == ASSUME ColumnsTyped, ShowInv, PlansPush PROVE ShowInv'
<1> DEFINE chosen == {y \in LocalRenames : Named(schema, y[1]) # {} /\ Named(schema, y[2]) = {}}
<1>1. /\ turn = Idle
      /\ turn' = [at |-> "rename", jobs |-> Unsent, plan |-> {Plans(x) : x \in chosen}]
      /\ UNCHANGED <<computed, schema, cells, edited, synced, clash, ledger, behind, halfway, undisturbed>>
  BY DEF PlansPush, Untouched, outside, stateDb, columnGhosts
<1>2. turn.at = "idle" /\ turn'.at = "rename" /\ turn'.plan = {Plans(x) : x \in chosen}
  BY <1>1 DEF Idle
<1>3. Met = schema /\ Met' = schema
  BY <1>1, <1>2 DEF Met
<1>4. ReadInOrder' /\ Tidy' /\ Queried'
  BY <1>1, <1>2, <1>3 DEF ShowInv, ReadInOrder, Tidy, Queried
<1>5. ASSUME NEW r \in Rows, Calm(r)' PROVE RowShows(r)'
  <2>1. Calm(r)
    BY <1>1, <1>2, <1>5 DEF Calm
  <2>2. Within(Holds(r)', Holds(r))
    BY <1>1, <1>2, HoldsStay DEF Fresh
  <2>3. /\ ~Ahead(r) /\ ~Trailing(r) /\ ~InHand(r) /\ ~Awaited(r)
        /\ ~Ahead(r)' /\ ~Trailing(r)' /\ ~InHand(r)' /\ ~Awaited(r)'
    BY <1>2 DEF Ahead, Trailing, InHand, Awaited
  <2> QED BY <1>1, <1>3, <2>1, <2>2, <2>3, RowStays DEF ShowInv
<1>6. ASSUME NEW x \in chosen
      PROVE  /\ Plans(x).from = x[1] /\ Plans(x).to = x[2]
             /\ Plans(x).rows = {r \in Unsent : notes[r][x[2]] # Nothing}
             /\ MayBeRename(x[1], x[2]) /\ NobodyDenies(x[1], x[2])
             /\ \A y \in chosen : y[1] = x[1] \/ y[2] = x[2] => y = x
             /\ Named(schema, x[1]) # {} /\ Named(schema, x[2]) = {}
  <2>1. x \in Pairs /\ x \in Keys \X Keys /\ NobodyDenies(x[1], x[2])
        /\ Named(schema, x[1]) # {} /\ Named(schema, x[2]) = {}
    BY DEF LocalRenames, Pairs
  <2>2. MayBeRename(x[1], x[2])
    BY <2>1 DEF Pairs
  <2>3. ASSUME NEW y \in chosen, y[1] = x[1] \/ y[2] = x[2] PROVE y = x
    <3>1. y \in Pairs /\ y \in Keys \X Keys
      BY DEF LocalRenames, Pairs
    <3>2. CASE y[1] = x[1]
      <4>1. {x[2]} = {y[2]}
        BY <2>1, <3>1, <3>2 DEF Pairs
      <4> QED BY <2>1, <3>1, <3>2, <4>1
    <3>3. CASE y[2] = x[2]
      BY <3>1, <3>3 DEF LocalRenames
    <3> QED BY <2>3, <3>2, <3>3
  <2>4. Plans(x).from = x[1] /\ Plans(x).to = x[2]
        /\ Plans(x).rows = {r \in Unsent : notes[r][x[2]] # Nothing}
    BY DEF Plans
  <2> HIDE DEF chosen
  <2> QED BY <2>1, <2>2, <2>3, <2>4
<1> HIDE DEF chosen
<1>7. Planned'
  <2>1. ASSUME NEW x \in chosen, NEW r \in Rows \ Plans(x).rows, r \notin clash
        PROVE  synced[r][Plans(x).from] = Nothing
    <3>1. CASE r \in Unsent
      <4>1. notes[r][x[2]] = Nothing
        BY <1>6, <3>1
      <4> QED BY <1>6, <3>1, <4>1 DEF MayBeRename
    <3>2. CASE r \notin Unsent
      <4>1. notes[r] = synced[r]
        BY <2>1, <3>2 DEF Unsent, Unmodified
      <4> QED BY <1>6, <3>2, <4>1 DEF NobodyDenies
    <3> QED BY <3>1, <3>2
  <2>2. ASSUME NEW x \in chosen, NEW y \in chosen, Plans(x).from = Plans(y).from PROVE x = y
    BY <1>6, <2>2
  <2>3. ASSUME NEW x \in chosen, NEW y \in chosen PROVE Plans(x).from # Plans(y).to
    BY <1>6
  <2>4. \A r \in Rows : Calm(r)' => r \notin clash
    BY <1>1 DEF Calm
  <2> QED BY <1>1, <1>2, <2>1, <2>2, <2>3, <2>4 DEF Planned
<1>8. Alone'
  <2>1. \A x \in chosen : Plans(x).to \notin NamesIn(schema)
    BY <1>6 DEF Named, NamesIn
  <2>2. ASSUME NEW x \in chosen, NEW y \in chosen, Plans(x).to = Plans(y).to PROVE x = y
    BY <1>6, <2>2
  <2> QED BY <1>1, <1>2, <1>3, <2>1, <2>2 DEF ShowInv, Alone
<1> QED BY <1>4, <1>5, <1>7, <1>8 DEF ShowInv

LEMMA TakenName ==
    ASSUME ColumnsTyped, NEW c \in Cols, NEW k \in Keys, TakesName(c, k), OneName(schema)
    PROVE  /\ OneName(schema') /\ schema'.formula = schema.formula
           /\ \A d \in Cols : schema'.name[d] # NoName <=> schema.name[d] # NoName
           /\ schema.name[c] # NoName
           /\ k \notin NamesIn(schema) => schema' = [schema EXCEPT !.name[c] = k]
<1>1. PICK n \in Keys \ (NamesIn(schema) \ {schema.name[c]}) :
        (n = k \/ k \in NamesIn(schema)) /\ schema' = [schema EXCEPT !.name[c] = n]
  BY DEF TakesName
<1>2. schema.name[c] # NoName /\ n # NoName
  BY ColumnsAssumption DEF TakesName
<1>3. schema'.formula = schema.formula /\ \A d \in Cols : schema'.name[d] = IF d = c THEN n ELSE schema.name[d]
  BY <1>1, MetFacts DEF Schemas
<1>4. \A d \in Cols : d # c => schema.name[d] # n
  BY <1>1, <1>2 DEF NamesIn, OneName
<1>5. OneName(schema')
  BY <1>3, <1>4 DEF OneName
<1> QED BY <1>1, <1>2, <1>3, <1>5

LEMMA RenamesFirstShows == ASSUME ColumnsTyped, ShowInv, RenamesFirst PROVE ShowInv'
<1>1. PICK p \in turn.plan :
        /\ TakesName(p.col, p.to)
        /\ ledger' = IF ledger.name[p.col] = NoName THEN ledger
                     ELSE [ledger EXCEPT !.name[p.col] = p.to]
        /\ behind' = IF Named(ledger, p.from) # {p.col} \/ Named(ledger, p.to) # {} THEN Rows
                     ELSE behind \cup halfway \cup {r \in Rows : synced[r][p.to] # Nothing}
        /\ turn' = [at |-> "snapshots", jobs |-> turn.jobs, plan |-> turn.plan \ {p},
                    it |-> p, left |-> p.rows]
  BY DEF RenamesFirst
<1>2. /\ turn.at = "rename"
      /\ UNCHANGED <<computed, cells, edited, synced, clash, halfway, undisturbed>>
  BY DEF RenamesFirst
<1>3. turn \in AtRename /\ p \in Renames
  <2>1. turn \in AtRename
    BY <1>2, TurnFacts DEF ColumnsTyped
  <2> QED BY <2>1 DEF AtRename
<1>4. p.col \in Cols /\ p.from \in Keys /\ p.to \in Keys
  BY <1>3 DEF Renames
<1>5. /\ turn'.at = "snapshots" /\ turn'.plan = turn.plan \ {p} /\ turn'.it = p /\ turn'.left = p.rows
      /\ Met = schema /\ Met' = schema'
  BY <1>1, <1>2 DEF Met
<1>6. /\ OneName(schema') /\ schema'.formula = schema.formula
      /\ \A d \in Cols : schema'.name[d] # NoName <=> schema.name[d] # NoName
      /\ schema.name[p.col] # NoName
      /\ p.to \notin NamesIn(schema) => schema' = [schema EXCEPT !.name[p.col] = p.to]
  BY <1>1, <1>4, TakenName DEF ShowInv, ReadInOrder
<1>7. /\ ledger'.formula = ledger.formula
      /\ \A d \in Cols : ledger'.name[d] = IF d = p.col /\ ledger.name[d] # NoName THEN p.to ELSE ledger.name[d]
  BY <1>1, <1>4, MetFacts DEF Schemas
<1>8. p.to # NoName
  BY <1>4, ColumnsAssumption
<1>9. ReadInOrder'
  <2>1. Becomes(ledger, schema)
    BY LedgerBecomes DEF ShowInv
  <2>2. Becomes(ledger', schema')
    BY <1>6, <1>7, <1>8, <2>1 DEF Becomes
  <2>3. Becomes(schema', schema')
    BY <1>6, FormulasAreNat DEF Becomes
  <2> QED BY <1>5, <1>6, <2>2, <2>3 DEF ReadInOrder
<1>10. ASSUME NEW r \in Rows, Calm(r)' PROVE Calm(r)
  BY <1>1, <1>2, <1>5, <1>10 DEF Calm
<1>11. ASSUME NEW r \in Rows, Calm(r)' PROVE RowShows(r)'
  <2>1. RowShows(r) /\ r \notin behind'
    BY <1>10, <1>11 DEF Calm, ShowInv
  <2>2. /\ Named(ledger, p.from) = {p.col} /\ Named(ledger, p.to) = {}
        /\ r \notin halfway /\ synced[r][p.to] = Nothing
    BY <1>1, <2>1
  <2>3. /\ ledger.name[p.col] = p.from /\ p.from # NoName /\ p.from # p.to
        /\ \A d \in Cols : (ledger.name[d] = p.from => d = p.col) /\ ledger.name[d] # p.to
    BY <1>4, <2>2, ColumnsAssumption DEF Named
  <2>4. \A d \in Cols : ledger'.name[d] = IF d = p.col THEN p.to ELSE ledger.name[d]
    BY <1>7, <2>3
  <2>5. Named(ledger', p.from) = {} /\ Named(ledger', p.to) = {p.col}
    BY <1>4, <2>3, <2>4 DEF Named
  <2>6. OneName(ledger')
    BY <2>1, <2>3, <2>4 DEF RowShows, OneName
  <2>7. ~Ahead(r) /\ ~Trailing(r) /\ ~Ahead(r)' /\ ~InHand(r)' /\ ~Awaited(r)'
    BY <1>2, <1>5 DEF Ahead, Trailing, InHand, Awaited
  <2>8. Within(Holds(r)', Holds(r))
    BY <1>2, <1>5, <1>6, <1>7, HoldsStay DEF Fresh
  <2>9. Shows(synced[r], ledger.name, Holds(r))
    BY <2>1, <2>2, <2>7 DEF RowShows, Known
  <2>10. Shows(synced[r], ledger.name, Holds(r)') /\ DOMAIN Holds(r)' \subseteq Cols
    BY <2>8, <2>9, ShowsLess DEF Holds, Settled
  <2>11. CASE r \in p.rows
    <3>1. Trailing(r)'
      BY <1>5, <2>11 DEF Trailing
    <3>2. \A d \in Cols : Before(p, ledger')[d] = ledger.name[d]
      <4>1. ledger' \in Schemas
        BY <1>1, <1>4, MetFacts DEF Schemas
      <4> QED BY <1>4, <2>3, <2>4, <4>1 DEF Before, Schemas
    <3>3. Shows(synced[r], Before(p, ledger'), Holds(r)')
      BY <2>10, <3>2 DEF Shows
    <3> QED BY <1>2, <1>5, <2>2, <2>5, <2>6, <2>7, <3>1, <3>3 DEF RowShows
  <2>12. CASE r \notin p.rows
    <3>1. synced[r][p.from] = Nothing
      BY <1>2, <1>10, <1>11, <2>12 DEF ShowInv, Planned
    <3>2. Shows(synced[r], ledger'.name, Holds(r)')
      BY <2>2, <2>3, <2>4, <2>10, <3>1 DEF Shows
    <3>3. ~Trailing(r)'
      BY <1>5, <2>12 DEF Trailing
    <3> QED BY <1>2, <2>2, <2>6, <2>7, <3>2, <3>3 DEF RowShows, Known
  <2> QED BY <2>11, <2>12
<1>12. Tidy' /\ Queried'
  BY <1>5 DEF Tidy, Queried
<1>13. Planned'
  <2>1. /\ \A q \in turn.plan : \A r \in Rows \ q.rows : Calm(r)' => synced[r][q.from] = Nothing
        /\ \A q, o \in turn.plan : (q.from = o.from => q = o) /\ q.from # o.to
    BY <1>2, <1>10 DEF ShowInv, Planned
  <2> QED BY <1>2, <1>5, <2>1 DEF Planned
<1>14. Alone'
  <2> SUFFICES ASSUME undisturbed PROVE Alone'
    BY <1>2 DEF Alone
  <2>1. /\ ledger = schema /\ halfway = {}
        /\ \A q \in turn.plan : q.to \notin NamesIn(schema)
        /\ \A q, o \in turn.plan : q.to = o.to => q = o
    BY <1>2 DEF ShowInv, Alone
  <2>2. ledger' = schema' /\ schema' = [schema EXCEPT !.name[p.col] = p.to]
    BY <1>1, <1>6, <2>1
  <2>3. \A d \in Cols : schema'.name[d] = IF d = p.col THEN p.to ELSE schema.name[d]
    BY <1>4, <2>2, MetFacts DEF Schemas
  <2>4. ASSUME NEW q \in turn.plan \ {p} PROVE q.to \notin NamesIn(schema')
    <3>1. q.to # p.to /\ q.to \notin NamesIn(schema)
      BY <2>1
    <3> QED BY <2>3, <3>1 DEF NamesIn
  <2> QED BY <1>2, <1>5, <2>1, <2>2, <2>4 DEF Alone
<1> QED BY <1>9, <1>11, <1>12, <1>13, <1>14 DEF ShowInv

LEMMA RenameFailsShows == ASSUME ColumnsTyped, ShowInv, RenameFails PROVE ShowInv'
<1>1. PICK p \in turn.plan :
        /\ \/ schema.name[p.col] = NoName /\ UNCHANGED <<schema, faults, behind, undisturbed>>
           \/ Fault /\ UNCHANGED <<schema, behind>>
           \/ Fault /\ TakesName(p.col, p.to) /\ behind' = behind \cup halfway
        /\ turn' = [turn EXCEPT !.plan = @ \ {p}, !.jobs = @ \ p.rows]
  BY DEF RenameFails
<1>2. turn.at = "rename" /\ UNCHANGED <<computed, cells, edited, synced, clash, ledger, halfway>>
  BY DEF RenameFails, stateDb
<1>3. turn \in AtRename /\ p.col \in Cols /\ p.to \in Keys
  <2>1. turn \in AtRename
    BY <1>2, TurnFacts DEF ColumnsTyped
  <2> QED BY <2>1 DEF AtRename, Renames
<1>4. turn'.at = "rename" /\ turn'.plan = turn.plan \ {p} /\ Met = schema /\ Met' = schema'
  BY <1>1, <1>2, <1>3 DEF AtRename, Met
<1>5. /\ behind \subseteq behind'
      /\ undisturbed' => undisturbed /\ schema' = schema
      /\ schema' = schema \/ (TakesName(p.col, p.to) /\ halfway \subseteq behind')
  BY <1>1 DEF Fault
<1>6. /\ OneName(schema') /\ schema'.formula = schema.formula
      /\ \A d \in Cols : schema'.name[d] # NoName <=> schema.name[d] # NoName
  BY <1>3, <1>5, TakenName DEF ShowInv, ReadInOrder
<1>7. ReadInOrder'
  <2>1. Becomes(ledger, schema)
    BY LedgerBecomes DEF ShowInv
  <2>2. Becomes(ledger', schema') /\ Becomes(schema', schema')
    BY <1>2, <1>6, <2>1, FormulasAreNat DEF Becomes
  <2> QED BY <1>4, <1>6, <2>2 DEF ReadInOrder
<1>8. ASSUME NEW r \in Rows, Calm(r)' PROVE Calm(r) /\ r \notin behind'
  BY <1>2, <1>4, <1>5, <1>8 DEF Calm
<1>9. ASSUME NEW r \in Rows, Calm(r)' PROVE RowShows(r)'
  <2>1. RowShows(r) /\ (r \in halfway => schema' = schema)
    BY <1>5, <1>8, <1>9 DEF ShowInv
  <2>2. Within(Holds(r)', Holds(r))
    BY <1>2, <1>4, <1>6, HoldsStay DEF Fresh
  <2>3. /\ ~Ahead(r) /\ ~Trailing(r) /\ ~InHand(r) /\ ~Awaited(r)
        /\ ~Ahead(r)' /\ ~Trailing(r)' /\ ~InHand(r)' /\ ~Awaited(r)'
    BY <1>2, <1>4 DEF Ahead, Trailing, InHand, Awaited
  <2> QED BY <1>2, <1>4, <2>1, <2>2, <2>3, RowStays DEF ShowInv
<1>10. Tidy' /\ Queried'
  BY <1>4 DEF Tidy, Queried
<1>11. Planned'
  <2>1. /\ \A q \in turn.plan : \A r \in Rows \ q.rows : Calm(r)' => synced[r][q.from] = Nothing
        /\ \A q, o \in turn.plan : (q.from = o.from => q = o) /\ q.from # o.to
    BY <1>2, <1>8 DEF ShowInv, Planned
  <2> QED BY <1>2, <1>4, <2>1 DEF Planned
<1>12. Alone'
  BY <1>2, <1>4, <1>5 DEF ShowInv, Alone
<1> QED BY <1>7, <1>9, <1>10, <1>11, <1>12 DEF ShowInv

LEMMA RekeysSnapshotShows == ASSUME ColumnsTyped, ShowInv, RekeysSnapshot PROVE ShowInv'
<1> PICK s : s = First(turn.left)
  OBVIOUS
<1> DEFINE from == turn.it.from
           to == turn.it.to
           renames == {<<from, to>>}
           drops == {}
<1>1. /\ turn.at = "snapshots" /\ turn.left # {}
      /\ UNCHANGED <<computed, schema, cells, edited, clash, ledger, halfway, undisturbed>>
  BY DEF RekeysSnapshot, Untouched, outside
<1>2. turn \in AtSnapshots
  BY <1>1, TurnFacts DEF ColumnsTyped
<1>3. s \in turn.left /\ s \in Rows /\ from \in Keys /\ to \in Keys /\ turn.it.col \in Cols
  BY <1>1, <1>2, FirstIn DEF AtSnapshots, Renames
<1>4. PICK new \in Rekeyed(turn.it.base[s], renames, drops) :
        /\ synced' = IF new = turn.it.base[s] THEN synced ELSE [synced EXCEPT ![s] = new]
        /\ turn' = [turn EXCEPT !.left = @ \ {s},
                      !.jobs = IF new # turn.it.base[s] /\ notes[s] = new THEN @ \ {s} ELSE @]
        /\ behind' = IF OldRecord(s) THEN behind \cup {s} ELSE behind
  BY DEF RekeysSnapshot
<1>5. /\ turn'.at = "snapshots" /\ turn'.plan = turn.plan /\ turn'.it = turn.it
      /\ turn'.left = turn.left \ {s} /\ Met = schema /\ Met' = schema
  BY <1>1, <1>2, <1>4 DEF AtSnapshots, Met
<1>6. \A r \in Rows \ {s} : synced'[r] = synced[r]
  <2>1. synced \in [Rows -> Notes]
    BY DEF ColumnsTyped, ValuesTyped
  <2> QED BY <1>4, <2>1
<1>14. ASSUME Calm(s)' PROVE new \in Rekeyed(synced[s], renames, drops) /\ synced'[s] = new
  <2>1. synced \in [Rows -> Notes]
    BY DEF ColumnsTyped, ValuesTyped
  <2>2. turn.it.base[s] = synced[s]
    BY <1>4, <1>14 DEF Calm, OldRecord
  <2> QED BY <1>3, <1>4, <2>1, <2>2
<1>7. (\A x : x \in renames <=> x = <<from, to>>) /\ \A k : k \notin drops
  OBVIOUS
<1>8. synced[s] \in Notes
  BY <1>3, RowParts
<1> HIDE DEF from, to, renames, drops
<1>9. ReadInOrder' /\ Tidy' /\ Queried' /\ Alone'
  BY <1>1, <1>5 DEF ShowInv, ReadInOrder, Tidy, Queried, Alone
<1>10. ASSUME NEW r \in Rows, Calm(r)' PROVE Calm(r) /\ RowShows(r) /\ Within(Holds(r)', Holds(r))
  <2>1. Calm(r)
    BY <1>1, <1>4, <1>5, <1>10 DEF Calm
  <2> QED BY <1>1, <1>5, <2>1, HoldsStay DEF ShowInv, Fresh
<1>11. ASSUME Calm(s)', RowShows(s)
       PROVE  /\ OneName(ledger) /\ s \notin halfway /\ synced[s][to] = Nothing
              /\ Shows(synced[s], Before(turn.it, ledger), Holds(s))
              /\ Named(ledger, from) = {} /\ Named(ledger, to) = {turn.it.col} /\ from # to
              /\ new[to] = synced[s][from] /\ \A k \in Keys \ {from, to} : new[k] = synced[s][k]
  <2>1. Trailing(s)
    BY <1>1, <1>3 DEF Trailing
  <2>2. /\ OneName(ledger) /\ s \notin halfway /\ synced[s][to] = Nothing
        /\ Shows(synced[s], Before(turn.it, ledger), Holds(s))
        /\ Named(ledger, from) = {} /\ Named(ledger, to) = {turn.it.col}
    BY <1>11, <2>1 DEF RowShows, from, to
  <2>3. from # to
    BY <1>3, <2>2
  <2>4. /\ from \in Keys /\ to \in Keys /\ synced[s] \in Notes /\ new \in Rekeyed(synced[s], renames, drops)
        /\ \A x : x \in renames <=> x = <<from, to>>
        /\ \A k : k \notin drops
    BY <1>3, <1>7, <1>8, <1>11, <1>14
  <2>5. new[to] = synced[s][from] /\ \A k \in Keys \ {from, to} : new[k] = synced[s][k]
    BY <2>2, <2>3, <2>4, CarriesOne
  <2> QED BY <2>2, <2>3, <2>5
<1>12. ASSUME NEW r \in Rows, Calm(r)' PROVE RowShows(r)'
  <2>1. CASE r # s
    <3>1. Ahead(r)' = Ahead(r) /\ Trailing(r)' = Trailing(r) /\ ~InHand(r)' /\ ~Awaited(r)' /\ ~Ahead(r)
      BY <1>1, <1>5, <2>1 DEF Ahead, Trailing, InHand, Awaited
    <3> QED BY <1>1, <1>5, <1>6, <1>10, <1>12, <2>1, <3>1, RowStays DEF ShowInv
  <2>2. CASE r = s
    <3>1. /\ OneName(ledger) /\ s \notin halfway
          /\ Shows(synced[s], Before(turn.it, ledger), Holds(s))
          /\ Named(ledger, from) = {} /\ Named(ledger, to) = {turn.it.col}
          /\ new[to] = synced[s][from] /\ \A k \in Keys \ {from, to} : new[k] = synced[s][k]
      BY <1>10, <1>11, <1>12, <2>2
    <3>2. Shows(synced[s], Before(turn.it, ledger), Holds(s)') /\ DOMAIN Holds(s)' \subseteq Cols
      BY <1>10, <1>12, <2>2, <3>1, ShowsLess DEF Holds, Settled
    <3>3. ASSUME NEW c \in DOMAIN Holds(s)' PROVE new[ledger.name[c]] = Holds(s)'[c]
      <4>1. c \in Cols /\ synced[s][Before(turn.it, ledger)[c]] = Holds(s)'[c]
        BY <3>2 DEF Shows
      <4>2. ledger.name \in [Cols -> Keys \cup {NoName}]
        BY MetFacts DEF Schemas
      <4>3. CASE c = turn.it.col
        <5>1. ledger.name[c] = to /\ Before(turn.it, ledger)[c] = from
          BY <3>1, <4>2, <4>3, <4>1 DEF Before, Named, from
        <5> QED BY <3>1, <4>1, <5>1
      <4>4. CASE c # turn.it.col
        <5>1. Before(turn.it, ledger)[c] = ledger.name[c] /\ ledger.name[c] \notin {from, to}
          BY <3>1, <4>1, <4>2, <4>4 DEF Before, Named
        <5>2. schema.name[c] # NoName
          BY <1>1, <1>5, <3>3 DEF Holds, Settled
        <5>3. ledger.name[c] \in Keys
          <6>1. Becomes(ledger, schema)
            BY LedgerBecomes DEF ShowInv
          <6> QED BY <4>1, <4>2, <5>2, <6>1 DEF Becomes
        <5> QED BY <3>1, <4>1, <5>1, <5>3
      <4> QED BY <4>3, <4>4
    <3>4. Shows(synced'[s], ledger.name, Holds(s)')
      BY <1>12, <1>14, <2>2, <3>3 DEF Shows
    <3>5. ~Ahead(s)' /\ ~Trailing(s)' /\ ~InHand(s)' /\ ~Awaited(s)'
      BY <1>5 DEF Ahead, Trailing, InHand, Awaited
    <3> QED BY <1>1, <2>2, <3>1, <3>4, <3>5 DEF RowShows, Known
  <2> QED BY <2>1, <2>2
<1>13. Planned'
  <2>1. ASSUME NEW p \in turn.plan, NEW r \in Rows \ p.rows, Calm(r)' PROVE synced'[r][p.from] = Nothing
    <3>1. synced[r][p.from] = Nothing
      BY <1>1, <1>10, <2>1 DEF ShowInv, Planned
    <3>2. p.from \in Keys \ {from, to}
      <4>1. p \in Renames
        BY <1>2, <2>1 DEF AtSnapshots
      <4> QED BY <1>1, <2>1, <4>1 DEF ShowInv, Planned, Renames, from, to
    <3>3. CASE r = s
      BY <1>10, <1>11, <1>14, <2>1, <3>1, <3>2, <3>3
    <3> QED BY <1>6, <3>1, <3>3
  <2> QED BY <1>1, <1>5, <2>1 DEF ShowInv, Planned
<1> QED BY <1>9, <1>12, <1>13 DEF ShowInv

(* The next rename, or a row that is not sent. *)
LEMMA PushGoesOnShows == ASSUME ColumnsTyped, ShowInv, NextRename \/ SendFails PROVE ShowInv'
<1>1. /\ UNCHANGED <<computed, schema, cells, edited, synced, clash, ledger, behind, halfway>>
      /\ undisturbed' => undisturbed
      /\ \/ turn.at = "snapshots" /\ turn.left = {}
            /\ turn' = [at |-> "rename", jobs |-> turn.jobs, plan |-> turn.plan]
         \/ turn.at = "rename" /\ turn' = [turn EXCEPT !.jobs = @ \ {First(@)}]
  BY DEF NextRename, SendFails, Fault, Untouched, outside, stateDb, columnGhosts
<1>2. turn'.at = "rename" /\ turn'.plan = turn.plan /\ turn.at \in {"rename", "snapshots"}
  <2>1. turn.at = "rename" => turn \in AtRename
    BY TurnFacts DEF ColumnsTyped
  <2> QED BY <1>1, <2>1 DEF AtRename
<1>3. Met = schema /\ Met' = schema
  BY <1>1, <1>2 DEF Met
<1>4. ASSUME NEW r \in Rows, Calm(r)' PROVE Calm(r)
  BY <1>1, <1>2, <1>4 DEF Calm
<1>5. ASSUME NEW r \in Rows, Calm(r)' PROVE RowShows(r)'
  <2>1. RowShows(r)
    BY <1>4, <1>5 DEF ShowInv
  <2>2. Within(Holds(r)', Holds(r))
    BY <1>1, <1>2, HoldsStay DEF Fresh
  <2>3. /\ ~Ahead(r) /\ ~Trailing(r) /\ ~InHand(r) /\ ~Awaited(r)
        /\ ~Ahead(r)' /\ ~Trailing(r)' /\ ~InHand(r)' /\ ~Awaited(r)'
    BY <1>1, <1>2 DEF Ahead, Trailing, InHand, Awaited
  <2> QED BY <1>1, <1>2, <1>3, <2>1, <2>2, <2>3, RowStays DEF ShowInv
<1>6. ReadInOrder' /\ Tidy' /\ Queried' /\ Alone'
  BY <1>1, <1>2, <1>3 DEF ShowInv, ReadInOrder, Tidy, Queried, Alone
<1>7. Planned'
  BY <1>1, <1>2, <1>4 DEF ShowInv, Planned
<1> QED BY <1>5, <1>6, <1>7 DEF ShowInv

(* A note that agrees with f under all the columns' names. *)
LEMMA KnownAlike ==
    ASSUME NEW f, NEW g, NEW V, NEW half, NEW l, NEW m, NEW s, Becomes(l, s), half => Becomes(l, m),
           half => Becomes(m, s), DOMAIN V \subseteq {c \in Cols : s.name[c] # NoName},
           \A c \in Cols : l.name[c] # NoName => g[l.name[c]] = f[l.name[c]],
           half => \A c \in Cols : m.name[c] # NoName => g[m.name[c]] = f[m.name[c]],
           Known(f, V, half, l, m, s)
    PROVE  Known(g, V, half, l, m, s)
<1>1. CASE ~half
  <2>1. \A c \in DOMAIN V : c \in Cols /\ l.name[c] # NoName
    BY DEF Becomes
  <2> QED BY <1>1, <2>1 DEF Known, Shows
<1>2. CASE half
  <2>1. \A c \in DOMAIN V : c \in Cols /\ m.name[c] # NoName
    BY <1>2 DEF Becomes
  <2>2. Shows(g, m.name, V)
    BY <1>2, <2>1 DEF Known, Shows
  <2>3. ASSUME NEW k \in OldNames(l, m) PROVE g[k] = Nothing
    <3>1. PICK c \in Cols : k = l.name[c] /\ m.name[c] # NoName
      BY RenamedFacts
    <3>2. l.name[c] # NoName
      BY <1>2, <3>1 DEF Becomes
    <3> QED BY <1>2, <2>3, <3>1, <3>2 DEF Known
  <2> QED BY <1>2, <2>2, <2>3 DEF Known
<1> QED BY <1>1, <1>2

(* A row is sent only for a cell that changed: then its stamp says so. *)
LEMMA SendsRowShows == ASSUME ColumnsTyped, ShowInv, SendsRow PROVE ShowInv'
<1> PICK s : s = First(turn.jobs)
  OBVIOUS
<1>1. /\ turn.at = "rename" /\ turn.plan = {} /\ turn.jobs # {} /\ SendsCells(s)
      /\ UNCHANGED <<computed, schema, synced, clash, ledger, halfway>>
      /\ \/ /\ turn' = [at |-> "sent", jobs |-> turn.jobs \ {s}, row |-> s, note |-> notes[s]]
            /\ undisturbed' = undisturbed
         \/ /\ undisturbed' = FALSE
            /\ turn' = [turn EXCEPT !.jobs = @ \ {s}]
  BY DEF SendsRow, Fault, stateDb
<1>2. turn \in AtRename /\ s \in Rows
  <2>1. turn \in AtRename
    BY <1>1, TurnFacts DEF ColumnsTyped
  <2> QED BY <1>1, <2>1, FirstIn DEF AtRename
<1>3. /\ turn'.at \in {"rename", "sent"}
      /\ turn'.at = "rename" => turn'.plan = {}
      /\ turn'.at = "sent" => turn'.row = s /\ turn'.note = notes[s]
      /\ undisturbed' => undisturbed
  BY <1>1, <1>2 DEF AtRename
<1>4. Met = schema /\ Met' = schema
  BY <1>1, <1>3 DEF Met
<1>5. /\ cells' = [cells EXCEPT ![s] = [c \in Cols |->
             IF schema.name[c] \in Sent(s) THEN notes[s][schema.name[c]] ELSE cells[s][c]]]
      /\ edited' = IF \E k \in Differing(s) : Named(schema, k) # {} THEN edited \cup {s} ELSE edited
      /\ behind' = IF \E k \in Differing(s) \ Sent(s) : Named(ledger, k) # {}
                      THEN behind \cup {s} ELSE behind
  BY <1>1 DEF SendsCells
<1>6. cells \in [Rows -> [Cols -> Written]]
  BY DEF ColumnsTyped, SettingTyped
<1>7. ASSUME NEW r \in Rows, Calm(r)' PROVE Calm(r) /\ (r = s => s \notin edited' \cup behind')
  BY <1>1, <1>3, <1>5, <1>7 DEF Calm
<1>8. ASSUME s \notin edited' \cup behind'
      PROVE  /\ \A c \in Cols : cells'[s][c] = cells[s][c]
             /\ \A c \in Cols : schema.name[c] # NoName => notes[s][schema.name[c]] = synced[s][schema.name[c]]
             /\ \A c \in Cols : ledger.name[c] # NoName => notes[s][ledger.name[c]] = synced[s][ledger.name[c]]
  <2>1. \A k \in Differing(s) : Named(schema, k) = {}
    BY <1>5, <1>8
  <2>2. Sent(s) = {}
    BY <2>1 DEF Sent, Writable
  <2>3. \A k \in Differing(s) : Named(ledger, k) = {}
    BY <1>5, <1>8, <2>2
  <2>4. ASSUME NEW c \in Cols, schema.name[c] # NoName
        PROVE  notes[s][schema.name[c]] = synced[s][schema.name[c]]
    <3>1. schema.name[c] \in Keys
      BY <2>4, MetFacts, SchemaFacts
    <3> QED BY <2>1, <3>1 DEF Differing, Named
  <2>5. ASSUME NEW c \in Cols, ledger.name[c] # NoName
        PROVE  notes[s][ledger.name[c]] = synced[s][ledger.name[c]]
    <3>1. ledger.name[c] \in Keys
      BY <2>5, MetFacts, SchemaFacts
    <3> QED BY <2>3, <3>1 DEF Differing, Named
  <2>6. cells'[s] = [c \in Cols |-> cells[s][c]]
    BY <1>2, <1>5, <1>6, <2>2
  <2> QED BY <2>4, <2>5, <2>6
<1>9. ASSUME NEW r \in Rows, Calm(r)' PROVE RowShows(r)'
  <2>1. Calm(r) /\ RowShows(r)
    BY <1>7, <1>9 DEF ShowInv
  <2>2. Within(Holds(r)', Holds(r))
    <3>1. \A c \in Cols : cells'[r][c] = cells[r][c]
      <4>1. CASE r = s
        BY <1>7, <1>8, <1>9, <4>1
      <4>2. CASE r # s
        BY <1>5, <1>6, <4>2
      <4> QED BY <4>1, <4>2
    <3> QED BY <1>1, <1>3, <3>1, HoldsStay DEF Fresh
  <2>3. ~Ahead(r) /\ ~Trailing(r) /\ ~Ahead(r)' /\ ~Trailing(r)' /\ ~InHand(r)'
    BY <1>1, <1>3 DEF Ahead, Trailing, InHand
  <2>4. Known(synced[r], Holds(r), r \in halfway, ledger, Met, schema)
    BY <2>1, <2>3 DEF RowShows
  <2>5. Known(synced[r], Holds(r)', r \in halfway', ledger', Met', schema')
    BY <1>1, <1>4, <2>2, <2>4, KnownStays DEF ShowInv
  <2>6. ASSUME Awaited(r)' PROVE Known(turn'.note, Holds(r)', r \in halfway', ledger', Met', schema')
    <3>1. r = s /\ turn'.note = notes[s]
      BY <1>3, <2>6 DEF Awaited
    <3>2. Becomes(ledger, schema) /\ Becomes(schema, schema)
      BY LedgerBecomes, FormulasAreNat DEF ShowInv
    <3>3. DOMAIN Holds(r)' \subseteq {c \in Cols : schema.name[c] # NoName}
      BY <1>1 DEF Holds, Settled
    <3> DEFINE f == synced[r]
               g == notes[r]
               V == Holds(r)'
               half == r \in halfway
    <3>4. Known(f, V, half, ledger, schema, schema)
      BY <1>1, <1>4, <2>5
    <3>5. /\ \A c \in Cols : ledger.name[c] # NoName => g[ledger.name[c]] = f[ledger.name[c]]
          /\ \A c \in Cols : schema.name[c] # NoName => g[schema.name[c]] = f[schema.name[c]]
      BY <1>7, <1>8, <1>9, <3>1
    <3> HIDE DEF f, g, V, half
    <3>6. Known(g, V, half, ledger, schema, schema)
      BY <3>2, <3>3, <3>4, <3>5, KnownAlike DEF V
    <3> QED BY <1>1, <1>4, <3>1, <3>6 DEF g, V, half
  <2> QED BY <1>1, <2>1, <2>3, <2>5, <2>6 DEF RowShows
<1>10. ReadInOrder' /\ Tidy' /\ Queried' /\ Planned' /\ Alone'
  BY <1>1, <1>3, <1>4 DEF ShowInv, ReadInOrder, Tidy, Queried, Planned, Alone
<1> QED BY <1>9, <1>10 DEF ShowInv

LEMMA RecordsRowShows == ASSUME ColumnsTyped, ShowInv, RecordsRow PROVE ShowInv'
<1>1. /\ turn.at = "sent"
      /\ synced' = [synced EXCEPT ![turn.row] = turn.note]
      /\ turn' = [at |-> "rename", jobs |-> turn.jobs, plan |-> {}]
      /\ UNCHANGED <<computed, schema, cells, edited, clash, ledger, behind, halfway, undisturbed>>
  BY DEF RecordsRow, Untouched, outside, columnGhosts
<1>2. synced \in [Rows -> Notes]
  BY DEF ColumnsTyped, ValuesTyped
<1>3. turn'.at = "rename" /\ turn'.plan = {} /\ Met = schema /\ Met' = schema
  BY <1>1 DEF Met
<1>4. ASSUME NEW r \in Rows, Calm(r)' PROVE RowShows(r)'
  <2>1. RowShows(r)
    BY <1>1, <1>3, <1>4 DEF Calm, ShowInv
  <2>2. Within(Holds(r)', Holds(r))
    BY <1>1, <1>3, HoldsStay DEF Fresh
  <2>3. /\ ~Ahead(r) /\ ~Trailing(r) /\ ~Ahead(r)' /\ ~Trailing(r)' /\ ~InHand(r)' /\ ~Awaited(r)'
    BY <1>1, <1>3 DEF Ahead, Trailing, InHand, Awaited
  <2>4. Known(synced'[r], Holds(r), r \in halfway, ledger, Met, schema)
    <3>1. CASE turn.row = r
      BY <1>1, <1>2, <2>1, <3>1 DEF RowShows, Awaited
    <3>2. CASE turn.row # r
      BY <1>1, <1>2, <2>1, <2>3, <3>2 DEF RowShows
    <3> QED BY <3>1, <3>2
  <2>5. Known(synced'[r], Holds(r)', r \in halfway', ledger', Met', schema')
    BY <1>1, <1>3, <2>2, <2>4, KnownStays DEF ShowInv
  <2> QED BY <1>1, <2>1, <2>3, <2>5 DEF RowShows
<1>5. ReadInOrder' /\ Tidy' /\ Queried' /\ Planned' /\ Alone'
  BY <1>1, <1>3 DEF ShowInv, ReadInOrder, Tidy, Queried, Planned, Alone
<1> QED BY <1>4, <1>5 DEF ShowInv

LEMMA ShowStart == ASSUME ColumnsInit PROVE ShowInv
<1>1. ColumnsTyped
  BY ColumnsStart DEF ColumnsInv
<1>2. PICK filled \in SUBSET (Rows \X (Cols \ computed)), own \in SUBSET (Rows \X Keys) :
        /\ \A x \in own : Named(schema, x[2]) = {}
        /\ notes = [r \in Rows |-> [k \in Keys |-> IF <<r, k>> \in own THEN <<NoName, 0>> ELSE RowPage(r)[k]]]
  BY DEF ColumnsInit
<1>3. /\ \A c, d \in Cols : schema.name[c] = schema.name[d] => c = d
      /\ \A c \in Cols : schema.name[c] \in Keys
      /\ synced = notes /\ ledger = schema /\ turn = Idle /\ undisturbed = FALSE /\ halfway = {}
  BY DEF ColumnsInit
<1>4. turn.at = "idle" /\ Met = schema
  BY <1>3 DEF Idle, Met
<1>5. ReadInOrder
  BY <1>1, <1>3, <1>4, FormulasAreNat DEF ReadInOrder, OneName
<1>6. ASSUME NEW r \in Rows PROVE RowShows(r)
  <2>1. ASSUME NEW c \in Settled(r) PROVE synced[r][schema.name[c]] = Value(r, c)
    <3>1. c \in Cols /\ schema.name[c] # NoName /\ schema.name[c] \in Keys
      BY <1>3 DEF Settled
    <3>2. c \in Named(schema, schema.name[c])
      BY <3>1 DEF Named
    <3>3. <<r, schema.name[c]>> \notin own
      BY <1>2, <3>2
    <3> QED BY <1>1, <1>2, <1>3, <1>5, <3>1, <3>3, RowPageAt
  <2>2. Known(synced[r], Holds(r), r \in halfway, ledger, Met, schema)
    BY <1>3, <2>1 DEF Known, Shows, Holds
  <2> QED BY <1>3, <1>4, <1>5, <2>2 DEF RowShows, Ahead, Trailing, InHand, Awaited, ReadInOrder
<1>7. Tidy /\ Queried /\ Planned /\ Alone
  BY <1>3, <1>4 DEF Tidy, Queried, Planned, Alone
<1> QED BY <1>5, <1>6, <1>7 DEF ShowInv

LEMMA ShowStep == ASSUME ColumnsTyped, ShowInv, [ColumnsNext]_columnsVars PROVE ShowInv'
<1>1. CASE \/ \E r \in Rows, k \in Keys : WritesKey(r, k) \/ DeletesKey(r, k)
           \/ \E k, j \in Keys : StartsRenaming(k, j)
           \/ RenamesNext
  BY <1>1, ActsShow
<1>2. ASSUME NEW c \in Cols, NEW k \in Keys, RenamesColumn(c, k) PROVE ShowInv'
  BY <1>2, RenamesColumnShows
<1>3. ASSUME NEW c \in Cols, RemovesColumn(c) PROVE ShowInv'
  BY <1>3, RemovesColumnShows
<1>4. CASE ChangesFormula
  BY <1>4, ChangesFormulaShows
<1>5. ASSUME NEW r \in Rows, NEW c \in Cols, NEW v \in Values, EditsCell(r, c, v) PROVE ShowInv'
  BY <1>5, EditsCellShows
<1>6. CASE PullStarts \/ PullQueries \/ Rekeys \/ RecordsKeys \/ RekeyFails \/ FollowEnds
  BY <1>6, PullStartsShows, PullQueriesShows, RekeysShows, RecordsKeysShows, RekeyFailsShows,
     FollowEndsShows
<1>7. CASE PullsRow \/ RowFails \/ PullEnds \/ PushEnds \/ RunDies
  BY <1>7, PullsRowShows, RowFailsShows, EndsShow, RunDiesShows
<1>8. CASE PlansPush \/ RenamesFirst \/ RenameFails \/ RekeysSnapshot
  BY <1>8, PlansPushShows, RenamesFirstShows, RenameFailsShows, RekeysSnapshotShows
<1>9. CASE NextRename \/ SendFails \/ SendsRow \/ RecordsRow
  BY <1>9, PushGoesOnShows, SendsRowShows, RecordsRowShows
<1>10. CASE UNCHANGED columnsVars
  BY <1>10 DEF columnsVars, outside, stateDb, columnGhosts, ShowInv, ReadInOrder, Tidy, Calm, RowShows,
     Queried, Planned, Alone, Met, Ahead, Trailing, InHand, Awaited, Carried, Holds, Settled, Fresh, Value
<1> QED BY <1>1, <1>2, <1>3, <1>4, <1>5, <1>6, <1>7, <1>8, <1>9, <1>10 DEF ColumnsNext

LEMMA ShowInvHolds == ColumnsSpec => []ShowInv
<1>1. ColumnsInit => ShowInv
  BY ShowStart
<1>2. ColumnsInv => ColumnsTyped
  BY DEF ColumnsInv
<1>3. ColumnsTyped /\ ShowInv /\ [ColumnsNext]_columnsVars => ShowInv'
  BY ShowStep
<1> QED BY <1>1, <1>2, <1>3, ColumnsInvHolds, PTL DEF ColumnsSpec

(* After a pull that nothing disturbed, a note with nothing to send shows what its row holds: *)
(* the renames and removals that schema-follow.ts carries along and the values that           *)
(* database-syncer.ts takes afresh reach every note, whatever failed, died or met before.     *)
THEOREM PullsShowRows == ColumnsSpec => []PullShowsRow
<1>1. ColumnsTyped /\ ShowInv => PullShowsRow
  <2> SUFFICES ASSUME ColumnsTyped, ShowInv, undisturbed, turn = Idle,
                      NEW r \in Rows \ (clash \cup behind \cup edited), Unmodified(r),
                      NEW k \in NamesIn(schema)
               PROVE  notes[r][k] = RowPage(r)[k]
    BY DEF PullShowsRow
  <2>1. PICK c \in Cols : k = schema.name[c] /\ k # NoName
    BY DEF NamesIn
  <2>2. turn.at = "idle"
    BY DEF Idle
  <2>3. ledger = schema /\ halfway = {} /\ Met = schema
    BY <2>2 DEF ShowInv, Alone
  <2>4. RowShows(r) /\ ~Ahead(r) /\ ~Trailing(r)
    BY <2>2 DEF ShowInv, Calm, Ahead, Trailing
  <2>5. Shows(synced[r], schema.name, Holds(r))
    BY <2>3, <2>4 DEF RowShows, Known
  <2>6. c \in Settled(r)
    BY <2>1, <2>2, <2>3 DEF Settled, Fresh
  <2>7. synced[r][schema.name[c]] = Value(r, c)
    BY <2>5, <2>6 DEF Shows, Holds
  <2> QED BY <2>1, <2>7, RowPageAt DEF ShowInv, Unmodified
<1>2. ColumnsInv => ColumnsTyped
  BY DEF ColumnsInv
<1> QED BY <1>1, <1>2, ColumnsInvHolds, ShowInvHolds, PTL
================================================================================
