------------------------------ MODULE RowColumns ------------------------------
(***************************************************************************)
(* The columns of one Notion database and the frontmatter keys of its row  *)
(* notes.  A pull compares the columns with those the last pull saw, by    *)
(* id, and carries renamed and removed columns into the notes and into     *)
(* what the state DB remembers of them (SchemaLedger, followSchema,        *)
(* rekeyTrackedRows), then takes changed rows and recomputed values.  A    *)
(* push reads a renamed key out of the changed rows, renames the column    *)
(* first (VaultSchemaRenames), then sends the cells that changed.  People  *)
(* edit, rename and remove on both sides between any two steps.            *)
(*                                                                         *)
(* A value is a token: the column it was written for and when.  A note is  *)
(* its frontmatter alone, a function from keys to values.  Nobody writes   *)
(* under the key of a computed column.                                     *)
(***************************************************************************)
EXTENDS FiniteSets, Naturals

CONSTANTS
    Rows, Cols, Keys,
    NoName,         \* the name of a column that is not there any more
    MaxActs,        \* bound: what people do on both sides
    MaxFaults       \* bound: failed requests and files, lost answers and deaths

ASSUME ColumnsAssumption ==
    /\ NoName \notin Keys \cup Cols
    /\ MaxActs \in Nat /\ MaxFaults \in Nat

VARIABLES
    computed,   \* the columns whose values Notion computes
    schema,     \* Notion: the columns' names, the version of the computed ones' formulas
    cells,      \*         the values of the other columns, per row
    edited,     \* rows whose stamp does not prove that they are as last seen
    notes,      \* the row notes
    renaming,   \* the vault: a key being renamed, note by note
    synced,     \* the state DB: baseSnapshot of each row (contentHash is its hash)
    clash,      \*               rows in conflict
    ledger,     \*               db_schemas: the columns as the last pull saw them
    turn,       \* the operation under way
    acts, faults,
    kept,       \* ghost: values written that nobody deleted or replaced, per row
    gone,       \* ghost: values given up, per row and cause (see NoValueLost)
    behind,     \* ghost: rows that may not show their page until it is received
    halfway,    \* ghost: rows carried along to names the ledger does not have
    undisturbed \* ghost: nothing happened beside the last pull, and nothing since

outside == <<computed, schema, cells, notes, renaming, acts>>
stateDb == <<synced, clash, ledger>>
columnGhosts == <<kept, gone, behind, halfway, undisturbed>>
columnsVars == <<outside, edited, stateDb, turn, faults, columnGhosts>>

(* A value of a key that is no column's is written for the column NoName. *)
Nothing == <<>>
Values == {Nothing} \cup ((Cols \cup {NoName}) \X (0..MaxActs))
Held(note) == {note[k] : k \in Keys} \ {Nothing}
Causes == {"unseen", "unheard", "squeezed", "taken", "twice", "cut off"}
(* Ghost: values that stand in two places of one note or row. *)
Twice(f) == {f[k] : k \in {j \in DOMAIN f : \E i \in DOMAIN f \ {j} : f[i] = f[j]}}

Named(s, k) == {c \in Cols : s.name[c] = k}
NamesIn(s) == {s.name[c] : c \in Cols} \ {NoName}
Writable(s, k) == Named(s, k) # {} /\ Named(s, k) \cap computed = {}
Value(r, c) == IF c \in computed THEN <<c, schema.formula>> ELSE cells[r][c]

(* The properties of a row's page go by the names the columns have now. *)
RowPage(r) == [k \in Keys |->
    IF Named(schema, k) = {} THEN Nothing ELSE Value(r, CHOOSE c \in Named(schema, k) : TRUE)]

Idle == [at |-> "idle"]
Unmodified(r) == notes[r] = synced[r]
(* Rows are gone through in one order, whatever it is. *)
First(S) == CHOOSE r \in S : TRUE
Untouched == UNCHANGED <<outside, faults>>

ColumnsInit ==
    /\ computed \in SUBSET Cols
    /\ schema \in [name : {n \in [Cols -> Keys] : \A c, d \in Cols : n[c] = n[d] => c = d},
                   formula : {0}]
    /\ \E filled \in SUBSET (Rows \X (Cols \ computed)), own \in SUBSET (Rows \X Keys) :
         /\ cells = [r \in Rows |-> [c \in Cols |->
                       IF <<r, c>> \in filled THEN <<c, 0>> ELSE Nothing]]
         /\ \A x \in own : Named(schema, x[2]) = {}
         /\ notes = [r \in Rows |-> [k \in Keys |->
                       IF <<r, k>> \in own THEN <<NoName, 0>> ELSE RowPage(r)[k]]]
    /\ synced = notes /\ ledger = schema /\ edited = {} /\ clash = {}
    /\ renaming = Nothing /\ turn = Idle /\ acts = 0 /\ faults = 0
    /\ kept = [r \in Rows |-> {v \in Held(notes[r]) : v[1] \notin computed}]
    /\ gone = [w \in Causes |-> [r \in Rows |-> IF w = "twice" THEN Twice(notes[r]) ELSE {}]]
    /\ behind = {} /\ halfway = {} /\ undisturbed = FALSE
--------------------------------------------------------------------------------
(* People. *)

Acts == /\ acts < MaxActs /\ acts' = acts + 1
        /\ undisturbed' = FALSE /\ UNCHANGED <<computed, turn, faults, stateDb, gone, halfway>>

(* A value is typed, under the key of a column or under a key of the user's own. *)
WritesKey(r, k) ==
    /\ Acts /\ renaming = Nothing
    /\ Named(ledger, k) \cap computed = {}
    /\ LET c == IF Named(ledger, k) = {} THEN NoName ELSE CHOOSE d \in Named(ledger, k) : TRUE
       IN  /\ notes' = [notes EXCEPT ![r][k] = <<c, acts'>>]
           /\ kept' = [kept EXCEPT ![r] = (@ \ {notes[r][k]}) \cup {<<c, acts'>>}]
    /\ UNCHANGED <<schema, cells, edited, renaming, behind>>

DeletesKey(r, k) ==
    /\ Acts /\ renaming = Nothing /\ notes[r][k] # Nothing
    /\ notes' = [notes EXCEPT ![r][k] = Nothing]
    /\ kept' = [kept EXCEPT ![r] = @ \ {notes[r][k]}]
    /\ UNCHANGED <<schema, cells, edited, renaming, behind>>

(* Obsidian's renaming of a property rewrites one note after the other. *)
StartsRenaming(from, to) ==
    /\ Acts /\ renaming = Nothing
    /\ \E r \in Rows : notes[r][from] # Nothing
    /\ \A r \in Rows : notes[r][to] = Nothing
    /\ renaming' = <<from, to>>
    /\ UNCHANGED <<schema, cells, edited, notes, kept, behind>>

WithKey(note, from, to) == [note EXCEPT ![to] = note[from], ![from] = Nothing]

RenamesNext ==
    /\ renaming # Nothing
    /\ \E r \in Rows :
         /\ notes[r][renaming[1]] # Nothing /\ notes[r][renaming[2]] = Nothing
         /\ notes' = [notes EXCEPT ![r] = WithKey(@, renaming[1], renaming[2])]
    /\ renaming' = IF \E r \in Rows : notes'[r][renaming[1]] # Nothing
                      THEN renaming ELSE Nothing
    /\ undisturbed' = FALSE
    /\ UNCHANGED <<computed, schema, cells, acts, edited, stateDb, turn, faults, kept, gone, behind, halfway>>

RenamesColumn(c, k) ==
    /\ Acts /\ schema.name[c] # NoName /\ k \notin NamesIn(schema)
    /\ schema' = [schema EXCEPT !.name[c] = k]
    /\ behind' = behind \cup halfway
    /\ UNCHANGED <<cells, edited, notes, renaming, kept>>

RemovesColumn(c) ==
    /\ Acts /\ schema.name[c] # NoName
    /\ schema' = [schema EXCEPT !.name[c] = NoName]
    /\ cells' = [r \in Rows |-> [cells[r] EXCEPT ![c] = Nothing]]
    /\ kept' = [r \in Rows |-> kept[r] \ {cells[r][c]}]
    /\ UNCHANGED <<edited, notes, renaming, behind>>

(* The stamps of the rows stay as they are. *)
ChangesFormula ==
    /\ Acts /\ \E c \in computed : schema.name[c] # NoName
    /\ schema' = [schema EXCEPT !.formula = acts']
    /\ UNCHANGED <<cells, edited, notes, renaming, kept, behind>>

EditsCell(r, c, v) ==
    /\ Acts /\ schema.name[c] # NoName /\ c \notin computed
    /\ v \in {Nothing, <<c, acts'>>} /\ v # cells[r][c]
    /\ cells' = [cells EXCEPT ![r][c] = v]
    /\ kept' = [kept EXCEPT ![r] = (@ \ {cells[r][c]}) \cup ({v} \ {Nothing})]
    /\ edited' = edited \cup {r}
    /\ UNCHANGED <<schema, notes, renaming, behind>>
--------------------------------------------------------------------------------
(* Pull.  getDatabaseMeta, then the rows: two requests. *)

PullStarts ==
    /\ turn = Idle
    /\ turn' = [at |-> "pages", met |-> schema]
    /\ undisturbed' = TRUE
    /\ Untouched /\ UNCHANGED <<edited, stateDb, kept, gone, behind, halfway>>

(* diffSourceSchema, by the columns' ids. *)
Renamed(before, after) == {<<before.name[c], after.name[c]>> : c \in
    {d \in Cols : after.name[d] \notin {before.name[d], NoName}}}
Removed(before, after) == {before.name[c] : c \in
    {d \in Cols : after.name[d] = NoName /\ before.name[d] # NoName}}
Refreshed(before, after) ==
    IF before.formula = after.formula THEN {}
    ELSE {after.name[c] : c \in computed} \ {NoName}

(* The rows, and which of them have a stamp that says they may differ.  Only a renamed
   or a removed column is carried into the notes. *)
PullQueries ==
    /\ turn.at = "pages"
    /\ turn' = [at |-> "follow", met |-> turn.met, pages |-> [r \in Rows |-> RowPage(r)],
               cols |-> schema, moved |-> edited,
               left |-> IF turn.met.name = ledger.name THEN {} ELSE Rows,
               half |-> Nothing, failed |-> {}]
    /\ edited' = {}
    /\ Untouched /\ UNCHANGED <<stateDb, columnGhosts>>

(* rekeyRowFrontmatter.  A key that stays keeps another from taking its name. *)
NewKey(note, renames, drops, k) ==
    LET staying == {j \in Keys : note[j] # Nothing /\ j \notin drops
                                 /\ \A x \in renames : x[1] # j}
        to == {x[2] : x \in {y \in renames : y[1] = k}} \ staying
    IN  IF to = {} THEN k ELSE CHOOSE n \in to : TRUE

Rekeyed(note, renames, drops) ==
    LET from(n) == {k \in Keys \ drops : note[k] # Nothing
                                         /\ NewKey(note, renames, drops, k) = n}
    IN  {new \in [Keys -> Held(note) \cup {Nothing}] : \A n \in Keys :
            \/ from(n) = {} /\ new[n] = Nothing
            \/ \E k \in from(n) : new[n] = note[k]}

(* Mutant of Drops: a removed column takes its key with it. *)
DropsAll(r, removed) == removed

(* dropLocal: the key of a removed column goes when its value is the one last synced. *)
Drops(r, removed) == {k \in removed : Unmodified(r) \/ notes[r][k] = synced[r][k]}

(* Ghost: values of the user's own keys that a column of the same name replaces. *)
Taken(r, new) == {v \in Held(notes[r]) \ Held(new) : v[1] = NoName}

(* rekeyRow reads the note and writes it; what it will remember is known by then. *)
RekeysRow(r) ==
    LET renames == Renamed(ledger, turn.met)
        removed == Removed(ledger, turn.met)
    IN  \E new \in Rekeyed(notes[r], renames, Drops(r, removed)),
           remembered \in Rekeyed(synced[r], renames, removed) :
          /\ notes' = [notes EXCEPT ![r] = new]
          /\ gone' = [gone EXCEPT
               !["squeezed"][r] = @ \cup ({notes[r][k] : k \in
                    Keys \ (Drops(r, removed) \ {x[2] : x \in renames})} \ Held(new)),
               !["taken"][r] = @ \cup (Taken(r, new) \cap {synced[r][k] : k \in Drops(r, removed)})]
          /\ behind' = IF r \notin halfway /\ \E x \in renames : NewKey(synced[r], renames, removed, x[1]) = x[1]
                          THEN behind \cup {r} ELSE behind
          /\ turn' = [turn EXCEPT !.left = @ \ {r}, !.half =
                IF new = notes[r] /\ remembered = synced[r] THEN Nothing
                ELSE <<r, IF Unmodified(r) THEN new ELSE remembered>>]

Rekeys ==
    /\ turn.at = "follow" /\ turn.half = Nothing
    /\ turn.left # {} /\ RekeysRow(First(turn.left))
    /\ UNCHANGED <<computed, schema, cells, renaming, acts, edited, stateDb, faults,
                   kept, halfway, undisturbed>>

RecordsKeys ==
    /\ turn.at = "follow" /\ turn.half # Nothing
    /\ synced' = [synced EXCEPT ![turn.half[1]] = turn.half[2]]
    /\ turn' = [turn EXCEPT !.half = Nothing]
    /\ Untouched /\ UNCHANGED <<edited, clash, ledger, columnGhosts>>

Fault == faults < MaxFaults /\ faults' = faults + 1 /\ undisturbed' = FALSE

RekeyFails ==
    /\ turn.at = "follow" /\ turn.half = Nothing /\ Fault
    /\ turn.left # {}
    /\ turn' = [turn EXCEPT !.left = @ \ {First(@)}, !.failed = @ \cup {First(turn.left)}]
    /\ UNCHANGED <<outside, edited, stateDb, kept, gone, behind, halfway>>

(* Ghost: rows that this pull has carried along, and recorded. *)
Carried == Rows \ (turn.left \cup turn.failed \cup {r \in Rows : turn.half # Nothing /\ turn.half[1] = r})

(* Ghost: some rows were carried along and the ledger does not know it.  They are carried
   along again, which goes wrong when a name was given from one column to another. *)
LeftHalfway ==
    LET renames == Renamed(ledger, turn.met)
        old == {x[1] : x \in renames} \cup Removed(ledger, turn.met)
    IN  /\ halfway' = IF renames = {} THEN halfway ELSE halfway \cup Carried
        /\ behind' = IF schema.name # turn.met.name \/ old \cap {x[2] : x \in renames} # {}
                        THEN behind \cup halfway' ELSE behind

(* Mutant of NowKnown: the columns are recorded although a row was not carried along. *)
AllKnown == turn.met

(* What the pull saw is recorded when every row was carried along. *)
NowKnown == IF turn.failed = {} THEN turn.met ELSE ledger

FollowEnds ==
    /\ turn.at = "follow" /\ turn.left = {} /\ turn.half = Nothing
    /\ ledger' = NowKnown
    /\ IF turn.failed = {} THEN halfway' = {} /\ UNCHANGED behind ELSE LeftHalfway
    /\ turn' = [at |-> "rows", met |-> turn.met, pages |-> turn.pages, cols |-> turn.cols,
               moved |-> turn.moved, left |-> Rows, fresh |-> Refreshed(ledger, turn.met)]
    /\ Untouched /\ UNCHANGED <<edited, synced, clash, kept, gone, undisturbed>>

(* Ghost: values of a column that are remembered as synced and were not sent. *)
Differing(r) == {k \in Keys : notes[r][k] # synced[r][k]}
Unheard(r, heard) ==
    {notes[r][k] : k \in {j \in Differing(r) \ heard : notes[r][j] # Nothing
                            /\ (Named(ledger, j) # {} \/ notes[r][j][1] # NoName)}}

(* A row's note as it would be received: Notion's keys from the page, the others stay. *)
Received(r) == [k \in Keys |-> IF k \in NamesIn(turn.cols) THEN turn.pages[r][k] ELSE notes[r][k]]
SameOnNotion(r) ==
    \A k \in Keys : Writable(turn.met, k) => turn.pages[r][k] = synced[r][k]

(* pullDatabaseRow, resolvePullConflict with strategy "manual". *)
ReceivesRow(r) ==
    /\ r \in turn.moved
    /\ \/ /\ Unmodified(r) \/ notes[r] = Received(r)
          /\ notes' = [notes EXCEPT ![r] = Received(r)]
          /\ synced' = [synced EXCEPT ![r] = Received(r)]
          /\ clash' = clash \ {r}
          /\ IF turn.cols.name = ledger.name
               THEN behind' = behind \ {r} /\ halfway' = halfway \ {r}
               ELSE behind' = behind \cup {r} /\ UNCHANGED halfway
          /\ gone' = [gone EXCEPT
               !["taken"][r] = @ \cup Taken(r, Received(r)),
               !["unheard"][r] = @ \cup Unheard(r, NamesIn(turn.cols)),
               !["twice"][r] = @ \cup Twice(Received(r))]
          /\ UNCHANGED edited
       \/ /\ ~Unmodified(r) /\ notes[r] # Received(r) /\ SameOnNotion(r)
          /\ behind' = behind \cup {r}
          /\ UNCHANGED <<notes, synced, clash, edited, gone, halfway>>
       \/ /\ ~Unmodified(r) /\ notes[r] # Received(r) /\ ~SameOnNotion(r)
          /\ clash' = clash \cup {r} /\ edited' = edited \cup {r}
          /\ UNCHANGED <<notes, synced, behind, gone, halfway>>

Stale(r) == {k \in turn.fresh : synced[r][k] # turn.pages[r][k]}
Reformed(r) == [k \in Keys |-> IF k \in Stale(r) THEN turn.pages[r][k] ELSE notes[r][k]]

(* Ghost: the keys whose values are taken afresh are named otherwise in the row's page, or in
   what the state DB holds of it. *)
OtherNames(r) == turn.cols.name # turn.met.name \/ (ledger.name # turn.met.name /\ r \notin halfway)

(* rewriteStaleKeys, for a note that nobody changed. *)
ReformsRow(r) ==
    /\ r \notin turn.moved
    /\ IF Unmodified(r)
         THEN /\ notes' = [notes EXCEPT ![r] = Reformed(r)]
              /\ synced' = [synced EXCEPT ![r] = Reformed(r)]
              /\ gone' = [gone EXCEPT !["taken"][r] = @ \cup Taken(r, Reformed(r)),
                                     !["twice"][r] = @ \cup Twice(Reformed(r))]
         ELSE UNCHANGED <<notes, synced, gone>>
    /\ behind' = IF turn.fresh # {} /\ (OtherNames(r) \/ (~Unmodified(r) /\ Stale(r) # {}))
                    THEN behind \cup {r} ELSE behind
    /\ UNCHANGED <<edited, clash, halfway>>

PullsRow ==
    /\ turn.at = "rows"
    /\ turn.left # {} /\ turn' = [turn EXCEPT !.left = @ \ {First(@)}]
    /\ ReceivesRow(First(turn.left)) \/ ReformsRow(First(turn.left))
    /\ UNCHANGED <<computed, schema, cells, renaming, acts, ledger, faults, kept, undisturbed>>

(* A row that fails: what the query said of it was not recorded. *)
RowFails ==
    /\ turn.at = "rows" /\ Fault
    /\ turn.left # {}
    /\ LET r == First(turn.left) IN
         /\ edited' = edited \cup (turn.moved \cap {r})
         /\ behind' = IF turn.fresh = {} THEN behind ELSE behind \cup {r}
         /\ turn' = [turn EXCEPT !.left = @ \ {r}]
    /\ UNCHANGED <<outside, stateDb, kept, gone, halfway>>

PullEnds ==
    /\ turn.at = "rows" /\ turn.left = {}
    /\ turn' = Idle
    /\ Untouched /\ UNCHANGED <<edited, stateDb, columnGhosts>>
--------------------------------------------------------------------------------
(* Push.  localRenames: what the changed rows say, and the others do not deny. *)

Unsent == {r \in Rows \ clash : ~Unmodified(r)}

SaysRename(r, from, to) ==
    /\ synced[r][from] # Nothing /\ notes[r][from] = Nothing
    /\ synced[r][to] = Nothing /\ notes[r][to] = synced[r][from]

MayBeRename(from, to) ==
    /\ \E r \in Unsent : SaysRename(r, from, to)
    /\ \A r \in Unsent : notes[r][from] = Nothing
                          /\ (synced[r][from] = Nothing \/ notes[r][to] # Nothing)

NobodyDenies(from, to) ==
    \A r \in Rows \ Unsent : notes[r][from] = Nothing /\ notes[r][to] = Nothing

(* Keys that can have become one other key, and no other. *)
Pairs == {x \in Keys \X Keys : {k \in Keys : MayBeRename(x[1], k)} = {x[2]}}

LocalRenames ==
    {x \in Pairs : (\A y \in Pairs : y[2] = x[2] => y = x) /\ NobodyDenies(x[1], x[2])}

(* Only the name of a column, and to a name no column has.  The rows' records are read now. *)
Plans(x) == [from |-> x[1], to |-> x[2], col |-> CHOOSE c \in Named(schema, x[1]) : TRUE,
             rows |-> {r \in Unsent : notes[r][x[2]] # Nothing}, base |-> synced]

PlansPush ==
    /\ turn = Idle /\ Unsent # {}
    /\ turn' = [at |-> "rename", jobs |-> Unsent,
               plan |-> {Plans(x) : x \in {y \in LocalRenames :
                            Named(schema, y[1]) # {} /\ Named(schema, y[2]) = {}}}]
    /\ Untouched /\ UNCHANGED <<edited, stateDb, columnGhosts>>

(* Notion gives another name when the name was taken meanwhile. *)
TakesName(c, k) ==
    /\ schema.name[c] # NoName
    /\ \E n \in Keys \ (NamesIn(schema) \ {schema.name[c]}) :
         /\ n = k \/ k \in NamesIn(schema)
         /\ schema' = [schema EXCEPT !.name[c] = n]

(* apply: the column first, then the ledger (noteRenamed). *)
RenamesFirst ==
    /\ turn.at = "rename"
    /\ \E p \in turn.plan :
         /\ TakesName(p.col, p.to)
         /\ ledger' = IF ledger.name[p.col] = NoName THEN ledger
                      ELSE [ledger EXCEPT !.name[p.col] = p.to]
         /\ behind' = IF Named(ledger, p.from) # {p.col} \/ Named(ledger, p.to) # {} THEN Rows
                      ELSE behind \cup halfway \cup {r \in Rows : synced[r][p.to] # Nothing}
         /\ turn' = [at |-> "snapshots", jobs |-> turn.jobs, plan |-> turn.plan \ {p},
                    it |-> p, left |-> p.rows]
    /\ UNCHANGED <<computed, cells, notes, renaming, acts, edited, synced, clash, faults,
                   kept, gone, halfway, undisturbed>>

(* Refused, or the answer was lost: the rows that carry the name are not sent. *)
RenameFails ==
    /\ turn.at = "rename"
    /\ \E p \in turn.plan :
         /\ \/ schema.name[p.col] = NoName /\ UNCHANGED <<schema, faults, behind, undisturbed>>
            \/ Fault /\ UNCHANGED <<schema, behind>>
            \/ Fault /\ TakesName(p.col, p.to) /\ behind' = behind \cup halfway
         /\ turn' = [turn EXCEPT !.plan = @ \ {p}, !.jobs = @ \ p.rows]
    /\ UNCHANGED <<computed, cells, notes, renaming, acts, edited, stateDb, kept, gone, halfway>>

(* Ghost: an earlier rename of this push has rekeyed the row, and the record that was read
   for the plan does not have that. *)
OldRecord(r) == turn.it.base[r] # synced[r]

(* rekeySnapshot, of the record in the plan: a row that differs in nothing else is settled. *)
RekeysSnapshot ==
    /\ turn.at = "snapshots"
    /\ turn.left # {}
    /\ LET r == First(turn.left)
           base == turn.it.base[r]
       IN  \E new \in Rekeyed(base, {<<turn.it.from, turn.it.to>>}, {}) :
             /\ synced' = IF new = base THEN synced ELSE [synced EXCEPT ![r] = new]
             /\ turn' = [turn EXCEPT !.left = @ \ {r},
                          !.jobs = IF new # base /\ notes[r] = new THEN @ \ {r} ELSE @]
             /\ behind' = IF OldRecord(r) THEN behind \cup {r} ELSE behind
    /\ Untouched /\ UNCHANGED <<edited, clash, ledger, kept, gone, halfway, undisturbed>>

NextRename ==
    /\ turn.at = "snapshots" /\ turn.left = {}
    /\ turn' = [at |-> "rename", jobs |-> turn.jobs, plan |-> turn.plan]
    /\ Untouched /\ UNCHANGED <<edited, stateDb, columnGhosts>>

(* pushRowUpdate: the keys that differ from the last sync, of those that are columns. *)
Sent(r) == {k \in Differing(r) : Writable(schema, k)}

SendsCells(r) ==
    /\ cells' = [cells EXCEPT ![r] = [c \in Cols |->
         IF schema.name[c] \in Sent(r) THEN notes[r][schema.name[c]] ELSE cells[r][c]]]
    /\ gone' = [gone EXCEPT
         !["unseen"][r] = @ \cup {v \in {cells[r][c] : c \in {d \in Cols :
              schema.name[d] \in Sent(r) /\ cells[r][d] # synced[r][schema.name[d]]}} :
              v # Nothing},
         !["unheard"][r] = @ \cup Unheard(r, Sent(r)),
         !["twice"][r] = @ \cup Twice(cells'[r])]
    /\ edited' = IF \E k \in Differing(r) : Named(schema, k) # {} THEN edited \cup {r} ELSE edited
    /\ behind' = IF \E k \in Differing(r) \ Sent(r) : Named(ledger, k) # {}
                    THEN behind \cup {r} ELSE behind

SendsRow ==
    /\ turn.at = "rename" /\ turn.plan = {} /\ turn.jobs # {}
    /\ LET r == First(turn.jobs) IN
         /\ SendsCells(r)
         /\ \/ turn' = [at |-> "sent", jobs |-> turn.jobs \ {r}, row |-> r, note |-> notes[r]]
               /\ UNCHANGED <<faults, undisturbed>>
            \/ Fault /\ turn' = [turn EXCEPT !.jobs = @ \ {r}]
    /\ UNCHANGED <<computed, schema, notes, renaming, acts, stateDb, kept, halfway>>

(* The note that was read is what both sides have. *)
RecordsRow ==
    /\ turn.at = "sent"
    /\ synced' = [synced EXCEPT ![turn.row] = turn.note]
    /\ turn' = [at |-> "rename", jobs |-> turn.jobs, plan |-> {}]
    /\ Untouched /\ UNCHANGED <<edited, clash, ledger, columnGhosts>>

(* A row is not sent: a request fails. *)
SendFails ==
    /\ turn.at = "rename" /\ turn.plan = {} /\ Fault
    /\ turn.jobs # {} /\ turn' = [turn EXCEPT !.jobs = @ \ {First(@)}]
    /\ UNCHANGED <<outside, edited, stateDb, kept, gone, behind, halfway>>

PushEnds ==
    /\ turn.at = "rename" /\ turn.plan = {} /\ turn.jobs = {}
    /\ turn' = Idle
    /\ Untouched /\ UNCHANGED <<edited, stateDb, columnGhosts>>

(* Ghost: values that a note has no more and the state DB still holds for it. *)
CutOff(r) == IF turn.at = "follow" /\ turn.half # Nothing /\ turn.half[1] = r
             THEN Held(synced[r]) \ Held(notes[r]) ELSE {}

(* The process dies: what the state DB and the vault hold stays. *)
RunDies ==
    /\ turn # Idle /\ Fault
    /\ turn' = Idle
    /\ edited' = edited \cup (IF turn.at \in {"follow", "rows"} THEN
                    turn.moved \cap (IF turn.at = "follow" THEN Rows ELSE turn.left) ELSE {})
    /\ CASE turn.at = "follow" -> LeftHalfway
         [] turn.at = "snapshots" \/ (turn.at = "rows" /\ turn.fresh # {}) ->
                behind' = behind \cup turn.left /\ UNCHANGED halfway
         [] OTHER -> UNCHANGED <<behind, halfway>>
    /\ gone' = [gone EXCEPT !["cut off"] = [r \in Rows |-> @[r] \cup CutOff(r)]]
    /\ UNCHANGED <<outside, stateDb, kept>>

ColumnsNext ==
    \/ \E r \in Rows, k \in Keys : WritesKey(r, k) \/ DeletesKey(r, k)
    \/ \E k, j \in Keys : StartsRenaming(k, j)
    \/ RenamesNext
    \/ \E c \in Cols, k \in Keys : RenamesColumn(c, k)
    \/ \E c \in Cols : RemovesColumn(c)
    \/ ChangesFormula
    \/ \E r \in Rows, c \in Cols, v \in Values : EditsCell(r, c, v)
    \/ PullStarts \/ PullQueries \/ Rekeys \/ RecordsKeys \/ RekeyFails \/ FollowEnds
    \/ PullsRow \/ RowFails \/ PullEnds
    \/ PlansPush \/ RenamesFirst \/ RenameFails \/ RekeysSnapshot \/ NextRename
    \/ SendsRow \/ RecordsRow \/ SendFails \/ PushEnds \/ RunDies

ColumnsSpec == ColumnsInit /\ [][ColumnsNext]_columnsVars
--------------------------------------------------------------------------------
Runs == {"idle", "pages", "follow", "rows", "rename", "snapshots", "sent"}

(* Types, and what each state of an operation has. *)
ColumnsTypeOK ==
    /\ computed \in SUBSET Cols
    /\ schema \in [name : [Cols -> Keys \cup {NoName}], formula : 0..MaxActs]
    /\ cells \in [Rows -> [Cols -> Values]]
    /\ edited \in SUBSET Rows /\ clash \in SUBSET Rows /\ behind \in SUBSET Rows
    /\ notes \in [Rows -> [Keys -> Values]] /\ synced \in [Rows -> [Keys -> Values]]
    /\ renaming \in {Nothing} \cup (Keys \X Keys)
    /\ ledger \in [name : [Cols -> Keys \cup {NoName}], formula : 0..MaxActs]
    /\ turn.at \in Runs
    /\ acts \in 0..MaxActs /\ faults \in 0..MaxFaults
    /\ kept \in [Rows -> SUBSET (Values \ {Nothing})]
    /\ gone \in [Causes -> [Rows -> SUBSET Values]]
    /\ halfway \in SUBSET Rows /\ undisturbed \in BOOLEAN

(* Every value somebody wrote and nobody deleted or replaced is in the note or in the row,
   whatever is renamed, removed, interrupted or done at once, unless it was given up for a
   cause this code accepts: a push replaced a cell it had not seen change (unseen); a push
   had no column to send it to and recorded the note as synced (unheard); two keys became
   one (squeezed); a column took the name of a key of the user's own (taken); the value
   stood in one note or row twice, and is not told from its copy (twice); a death came
   between the writing of a carried note and the record of it (cut off). *)
NoValueLost ==
    \A r \in Rows : kept[r] \subseteq Held(notes[r])
        \cup {cells[r][c] : c \in Cols} \cup UNION {gone[w][r] : w \in Causes}

(* After a pull that nothing disturbed, a note with nothing to send, not in conflict, shows
   under the columns' names what its row holds: what was renamed, removed or recomputed has
   reached every note although the pages' stamps say nothing of it, and after a pull that
   failed in the middle too.  Exempt are the rows `behind`, until their page is received
   again: those whose own keys stood in a column's way; that had an unsent edit, failed or
   were left when values were refreshed; that met a renaming from the other side; that were
   carried along halfway, and then a column was renamed once more or took another's name;
   whose two requests of one pull read other names; or whose snapshot a push rekeyed from a
   record that an earlier rename of the same push had made old. *)
PullShowsRow ==
    undisturbed /\ turn = Idle =>
        \A r \in Rows \ (clash \cup behind \cup edited) :
            Unmodified(r) => \A k \in NamesIn(schema) : notes[r][k] = RowPage(r)[k]
================================================================================
