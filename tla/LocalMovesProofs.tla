--------------------------- MODULE LocalMovesProofs ---------------------------
(***************************************************************************)
(* A page is where the state DB records it, a note that the scan can       *)
(* follow keeps its page, and a push that nothing disturbs brings every    *)
(* page to its note: for any notes, folders and names, and any number of   *)
(* changes, failed requests and crashes.                                   *)
(***************************************************************************)
EXTENDS LocalMoves, TLAPS

Kinds == {"created", "deleted", "moved", "modified"}
Steps == {"start", "parent", "title", "store", "body"}
Tasks == [kind : Kinds, at : Paths, from : Paths \cup {Nowhere}, text : Texts \cup {NoText},
          step : Steps, dir : Dirs \cup {"same"}, name : Names \cup {"same"}, again : BOOLEAN]
Hints == [Paths -> Paths \cup {Nowhere}]
Plans == [hints : Hints, pairs : SUBSET (Pages \X Paths), changes : SUBSET Tasks]

MovesTyped ==
    /\ MovesTypeOK
    /\ \A n \in Notes : version[n] <= changed
    /\ listing \in {NoListing} \cup SUBSET (Paths \X Texts)
    /\ plan \in {NoPlan} \cup Plans
    /\ tasks \in SUBSET Tasks
    /\ calm \in BOOLEAN

(* A file is one note, a path one record's, a task one path's; the records are the pages. *)
OneEach ==
    /\ \A m, n \in Notes : where[m] = where[n] /\ where[m] # Nowhere => m = n
    /\ \A g, h \in Records : tracked[g].path = tracked[h].path => g = h
    /\ \A j, k \in tasks : j.at = k.at => j = k
    /\ \A g \in Pages : onNotion[g] = Gone <=> tracked[g] = Untracked
    /\ \A g \in Records : onNotion[g].text = tracked[g].text

(* Listing, planning and pushing take turns; a plan is of the records as they are. *)
InTurn ==
    /\ Planning => tasks = {}
    /\ listing # NoListing => plan = NoPlan
PlanFits ==
    plan # NoPlan =>
        /\ OneToOne(plan.pairs)
        /\ \A r \in plan.pairs : r[1] \in Records /\ RecordAt(r[2]) = {}
        /\ \A j, k \in plan.changes : j.at = k.at => j = k
        /\ \A j \in plan.changes :
             /\ j.step = "start"
             /\ j.kind = "created" => RecordAt(j.at) = {} /\ \A r \in plan.pairs : r[2] # j.at
             /\ j.kind = "deleted" => RecordAt(j.at) # {}
CreatesNew == \A j \in tasks : j.kind = "created" => RecordAt(j.at) = {}

(* The parent remembered is where Notion was last told of, and what a move has done and *)
(* is about to do of its place.                                                          *)
Told(g) ==
    /\ tracked[g].dir = Dir(LastKnown(g))
    /\ g \notin torn =>
        /\ tracked[g].origin = Nowhere => PlaceOf(g) = tracked[g].path
        /\ onNotion[g].dir \in {Dir(LastKnown(g)), Dir(tracked[g].path)}
        /\ onNotion[g].name \in {Name(LastKnown(g)), Name(tracked[g].path)}
UnderWay(j, g) ==
    /\ j.dir = "same" => tracked[g].dir = Dir(j.at)
    /\ j.dir # "same" => j.dir = Dir(j.at)
    /\ j.name # "same" => j.name = Name(j.at)
    /\ g \notin torn =>
        /\ j.name = "same" \/ j.step = "store" => onNotion[g].name = Name(j.at)
        /\ j.step \in {"title", "store"} => onNotion[g].dir = Dir(j.at)
Moving ==
    /\ \A g \in Records : Told(g)
    /\ \A j \in tasks : j.kind = "moved" /\ j.step \in {"parent", "title", "store"} =>
          \A g \in RecordAt(j.at) : UnderWay(j, g)

PagesInv == MovesTyped /\ OneEach /\ InTurn /\ PlanFits /\ CreatesNew /\ Moving
--------------------------------------------------------------------------------
(* The places the state DB holds for a page. *)
Known(g) == {tracked[g].path, tracked[g].origin} \ {Nowhere}

(* A note that can be followed is the only claim on its page's places, and leads to them; *)
Tied(n, g) ==
    IF hinting THEN \/ where[n] = tracked[g].path /\ hints[where[n]] = Nowhere
                    \/ hints[where[n]] = tracked[g].path
    ELSE where[n] = tracked[g].path \/ tracked[g].text = Text(n)
OwnPage(n, g) ==
    /\ where[n] # Nowhere
    /\ \A h \in Pages : HasRecord(h, n) => h = g
    /\ \A a \in Known(g) : NotesAt(a) \subseteq {n} /\ \A q \in Paths : hints[q] = a => where[n] = q
    /\ Tied(n, g)

(* it has no claim on the places of another page. *)
OwnPlace(n) ==
    /\ \A q \in Paths : hints[q] # where[n]
    /\ \A g \in Records : where[n] \in Known(g) => HasRecord(g, n)
OwnHint(n) ==
    LET a == hints[where[n]] IN
    a # Nowhere =>
        /\ NotesAt(a) = {}
        /\ \A q \in Paths : hints[q] = a => q = where[n]
        /\ \A g \in Records : a \in Known(g) => HasRecord(g, n)
Followed ==
    \A n \in Notes \ severed :
        /\ \A g \in Pages : HasRecord(g, n) => OwnPage(n, g)
        /\ where[n] # Nowhere => OwnPlace(n) /\ OwnHint(n)
HintsOfNotes == \A p \in Paths : hints[p] # Nowhere => hinting /\ NotesAt(p) # {}

(* What the scan has seen of it still holds, *)
SeenSo ==
    listing # NoListing =>
        \A n \in Notes \ severed :
            /\ where[n] # Nowhere => hints[where[n]] \notin Listed
            /\ \A g \in Pages : HasRecord(g, n) =>
                 where[n] \in Listed /\ Known(g) \cap Listed \subseteq {where[n]}
(* and what the plan and the push are about to do with its page is right. *)
PairedSo ==
    plan # NoPlan =>
        \A n \in Notes \ severed :
            /\ \A r \in plan.pairs :
                 /\ where[n] # Nowhere => hints[where[n]] # r[2]
                 /\ where[n] = r[2] <=> HasRecord(r[1], n)
            /\ \A g \in Pages, q \in Paths :
                 HasRecord(g, n) /\ plan.hints[q] = tracked[g].path => <<g, q>> \in plan.pairs
            /\ where[n] \in Adopting \cup Creating =>
                 hints[where[n]] \in {Nowhere, plan.hints[where[n]]}
Right(changes) ==
    \A j \in changes, n \in Notes \ severed, g \in Pages :
        HasRecord(g, n) => /\ j.kind = "created" => where[n] # j.at
                           /\ j.kind = "deleted" => tracked[g].path # j.at
PushedSo ==
    /\ Right(tasks) /\ (plan # NoPlan => Right(plan.changes))
    /\ \A j \in tasks, n \in Notes \ severed :
         j.kind = "created" /\ where[n] = j.at => hints[j.at] = Nowhere

FollowInv == Followed /\ HintsOfNotes /\ SeenSo /\ PairedSo /\ PushedSo
--------------------------------------------------------------------------------
(* Of a push that nothing disturbs: every note is seen, planned for, and brought home. *)
CalmListing == calm /\ listing # NoListing => listing = {<<p, TextAt(p)>> : p \in Files}

Planned(n) ==
    \/ \E j \in plan.changes : j.kind = "created" /\ j.at = where[n]
    \/ \E g \in Pages :
         /\ HasRecord(g, n)
         /\ \/ <<g, where[n]>> \in plan.pairs
            \/ tracked[g].path = where[n] /\ \A r \in plan.pairs : r[1] # g
         /\ LastKnown(g) # where[n] =>
              \E j \in plan.changes : j.kind = "moved" /\ j.at = where[n] /\ j.text = Text(n)
         /\ tracked[g].text # Text(n) =>
              \E j \in plan.changes : j.kind \in {"moved", "modified"} /\ j.at = where[n] /\ j.text = Text(n)
Coming(n) ==
    \/ \E j \in tasks : j.kind = "created" /\ j.at = where[n]
    \/ \E g \in Pages :
         /\ HasRecord(g, n) /\ tracked[g].path = where[n]
         /\ tracked[g].origin # Nowhere =>
              \E j \in tasks : j.kind = "moved" /\ j.at = where[n] /\ j.step # "body" /\ j.text = Text(n)
         /\ tracked[g].text # Text(n) =>
              \E j \in tasks : j.at = where[n] /\ (j.kind = "modified" \/
                  (j.kind = "moved" /\ (j.step = "body" \/ j.text = Text(n))))
CalmInv ==
    /\ CalmListing
    /\ calm => \A n \in Notes \ severed : where[n] # Nowhere =>
          /\ plan # NoPlan => Planned(n)
          /\ ~Planning => Coming(n)
--------------------------------------------------------------------------------
(* Places, records and files. *)

LEMMA PathFacts ==
    /\ Nowhere \notin Paths /\ NoListing \notin SUBSET (Paths \X Texts) /\ NoPlan \notin Plans
    /\ \A p \in Paths : Dir(p) \in Dirs /\ Name(p) \in Names /\ p = <<Dir(p), Name(p)>>
    /\ \A p, q \in Paths : Dir(p) = Dir(q) /\ Name(p) = Name(q) => p = q
    /\ NoListing # {}
<1>1. Nowhere \notin Paths
  BY DEF Nowhere, Paths
<1>2. NoListing \notin SUBSET (Paths \X Texts)
  BY DEF Nowhere, NoListing
<1>3. NoPlan \notin Plans
  BY DEF NoPlan, Plans
<1> QED BY <1>1, <1>2, <1>3 DEF Paths, Dir, Name, NoListing

LEMMA RecordFacts ==
    ASSUME MovesTyped, NEW g \in Pages
    PROVE  /\ g \in Records <=> tracked[g] \in Tracking
           /\ onNotion[g] # Gone <=> onNotion[g] \in NotionPage
           /\ g \in Records => /\ tracked[g].path \in Paths /\ tracked[g].text \in Texts
                               /\ tracked[g].dir \in Dirs /\ LastKnown(g) \in Paths
                               /\ tracked[g].origin \in Paths \cup {Nowhere}
           /\ onNotion[g] # Gone => /\ onNotion[g].text \in Texts /\ onNotion[g].dir \in Dirs
                                    /\ onNotion[g].name \in Names
<1>1. tracked[g] \in Tracking \cup {Untracked} /\ onNotion[g] \in NotionPage \cup {Gone}
  BY DEF MovesTyped, MovesTypeOK
<1>2. Untracked \notin Tracking /\ Gone \notin NotionPage
  BY DEF Untracked, Tracking, Gone, NotionPage
<1>3. g \in Records <=> tracked[g] \in Tracking
  BY <1>1, <1>2 DEF Records
<1> QED BY <1>1, <1>2, <1>3 DEF Tracking, NotionPage, LastKnown

LEMMA FileFacts ==
    ASSUME MovesTyped, OneEach, NEW p
    PROVE  /\ p \in Files <=> p \in Paths /\ \E n \in Notes : where[n] = p
           /\ p \in Files => TextAt(p) \in Texts
           /\ \A n \in Notes : where[n] = p /\ p # Nowhere => TextAt(p) = Text(n) /\ NotesAt(p) = {n}
                                                              /\ p \in Files
           /\ p \in Files => \E n \in Notes : where[n] = p /\ TextAt(p) = Text(n)
<1>1. p \in Files <=> p \in Paths /\ \E n \in Notes : where[n] = p
  BY DEF Files, NotesAt
<1>2. \A n \in Notes : Text(n) \in Texts /\ where[n] \in Paths \cup {Nowhere}
  BY DEF Text, Texts, MovesTyped, MovesTypeOK
<1>3. ASSUME NEW n \in Notes, where[n] = p, p # Nowhere PROVE TextAt(p) = Text(n) /\ NotesAt(p) = {n}
  <2>1. NotesAt(p) = {n}
    BY <1>3 DEF NotesAt, OneEach
  <2> QED BY <2>1 DEF TextAt
<1>4. p \in Files => p # Nowhere
  BY <1>1, PathFacts
<1> QED BY <1>1, <1>2, <1>3, <1>4

(* People leave the state DB, Notion and the push's work alone. *)
PeopleStep ==
    /\ UNCHANGED <<onNotion, misses, tracked, torn, listing, plan, tasks>>
    /\ MovesTyped'
    /\ \A m, n \in Notes : where'[m] = where'[n] /\ where'[m] # Nowhere => m = n

LEMMA PeopleKeepPages == ASSUME PagesInv, PeopleStep PROVE PagesInv'
<1>1. /\ Records' = Records /\ \A p : RecordAt(p)' = RecordAt(p)
      /\ \A g : LastKnown(g)' = LastKnown(g) /\ PlaceOf(g)' = PlaceOf(g) /\ Told(g)' = Told(g)
      /\ \A j, g : UnderWay(j, g)' = UnderWay(j, g)
  BY DEF PeopleStep, Records, RecordAt, LastKnown, PlaceOf, Told, UnderWay
<1>2. OneEach' /\ InTurn' /\ CreatesNew' /\ Moving'
  BY <1>1 DEF PagesInv, PeopleStep, OneEach, InTurn, Planning, CreatesNew, Moving
<1>3. PlanFits'
  BY <1>1 DEF PagesInv, PeopleStep, PlanFits
<1> QED BY <1>2, <1>3 DEF PagesInv, PeopleStep

LEMMA PeopleStepsAre == ASSUME PagesInv, People PROVE PeopleStep
<1>1. PICK n \in Notes, p \in Paths : Rename(n, p) \/ CreateNote(n, p) \/ EditNote(n) \/ DeleteNote(n)
  <2>1. CASE \E n \in Notes, p \in Paths : Rename(n, p) \/ CreateNote(n, p)
    BY <2>1
  <2>2. ASSUME NEW n \in Notes, EditNote(n) \/ DeleteNote(n)
        PROVE  \E m \in Notes, p \in Paths : Rename(m, p) \/ CreateNote(m, p) \/ EditNote(m) \/ DeleteNote(m)
    <3>1. where[n] \in Paths
      BY <2>2 DEF EditNote, DeleteNote, PagesInv, MovesTyped, MovesTypeOK
    <3> QED BY <2>2, <3>1
  <2> QED BY <2>1, <2>2 DEF People
<1>2. /\ VaultChange
      /\ UNCHANGED <<hinting, onNotion, misses, tracked, torn, listing, plan, tasks>>
      /\ where' = where \/ where' = [where EXCEPT ![n] = Nowhere]
           \/ (where' = [where EXCEPT ![n] = p] /\ NotesAt(p) = {})
      /\ version' = version \/ version' = [version EXCEPT ![n] = @ + 1]
      /\ \/ hints' = hints
         \/ hints' = Recorded(where[n], p) /\ where[n] # Nowhere
         \/ hints' = [hints EXCEPT ![where[n]] = Nowhere]
      /\ severed' \subseteq severed \cup Notes
  BY <1>1 DEF Rename, CreateNote, EditNote, DeleteNote, notion, state, work, SeveredBy
<1>3. MovesTyped /\ OneEach
  BY DEF PagesInv
<1>4. changed' \in 0..MaxChanges /\ changed' = changed + 1 /\ changed \in Nat /\ calm' = FALSE
  BY <1>2, <1>3, MovesAssumption DEF VaultChange, MovesTyped, MovesTypeOK
<1>5. version' \in [Notes -> 0..MaxChanges] /\ \A m \in Notes : version'[m] <= changed'
  <2>1. version \in [Notes -> 0..MaxChanges] /\ \A m \in Notes : version[m] <= changed
    BY <1>3 DEF MovesTyped, MovesTypeOK
  <2>2. \A m \in Notes : version'[m] \in {version[m], version[m] + 1}
    BY <1>2, <2>1
  <2>3. \A m \in Notes : version'[m] \in 0..MaxChanges /\ version'[m] <= changed'
    BY <1>4, <2>1, <2>2, MovesAssumption
  <2>4. version' = [m \in Notes |-> version'[m]]
    BY <1>2, <2>1
  <2> QED BY <2>3, <2>4
<1>6. where' \in [Notes -> Paths \cup {Nowhere}]
  BY <1>2, <1>3 DEF MovesTyped, MovesTypeOK
<1>7. hints' \in Hints
  <2>1. hints \in Hints /\ where[n] \in Paths \cup {Nowhere}
    BY <1>3 DEF MovesTyped, MovesTypeOK, Hints
  <2>2. CASE hints' = Recorded(where[n], p) /\ where[n] # Nowhere
    BY <2>1, <2>2 DEF Recorded, Hints
  <2> QED BY <1>2, <2>1, <2>2 DEF Hints
<1>8. \A l, m \in Notes : where'[l] = where'[m] /\ where'[l] # Nowhere => l = m
  BY <1>2, <1>3 DEF OneEach, NotesAt, MovesTyped, MovesTypeOK
<1>9. MovesTyped'
  <2>1. Texts' = Texts /\ Paths' = Paths /\ Tasks' = Tasks /\ Plans' = Plans
    BY DEF Texts, Paths, Tasks, Plans
  <2> QED BY <1>2, <1>3, <1>4, <1>5, <1>6, <1>7, <2>1 DEF MovesTyped, MovesTypeOK, Hints
<1> QED BY <1>2, <1>8, <1>9 DEF PeopleStep
--------------------------------------------------------------------------------
(* The scan. *)

LEMMA ListFilesKeepsPages == ASSUME PagesInv, ListFiles PROVE PagesInv'
<1>1. /\ listing = NoListing /\ plan = NoPlan /\ tasks = {} /\ calm' = TRUE
      /\ listing' = {<<p, TextAt(p)>> : p \in Files}
      /\ UNCHANGED <<hinting, where, version, changed, onNotion, misses, hints, tracked, torn,
                     plan, tasks, severed>>
  BY DEF ListFiles, world, notion, state
<1>2. MovesTyped /\ OneEach
  BY DEF PagesInv
<1>3. listing' \in SUBSET (Paths \X Texts)
  <2>1. \A p \in Files : p \in Paths /\ TextAt(p) \in Texts
    BY <1>2, FileFacts
  <2> QED BY <1>1, <2>1
<1>4. MovesTyped'
  <2>1. Texts' = Texts /\ Paths' = Paths /\ Tasks' = Tasks /\ Plans' = Plans
    BY DEF Texts, Paths, Tasks, Plans
  <2> QED BY <1>1, <1>2, <1>3, <2>1 DEF MovesTyped, MovesTypeOK
<1>5. /\ Records' = Records /\ \A p : RecordAt(p)' = RecordAt(p)
      /\ \A g : LastKnown(g)' = LastKnown(g) /\ PlaceOf(g)' = PlaceOf(g) /\ Told(g)' = Told(g)
      /\ \A j, g : UnderWay(j, g)' = UnderWay(j, g)
  BY <1>1 DEF Records, RecordAt, LastKnown, PlaceOf, Told, UnderWay
<1>6. OneEach' /\ InTurn' /\ CreatesNew' /\ Moving'
  BY <1>1, <1>5 DEF PagesInv, OneEach, InTurn, Planning, CreatesNew, Moving
<1>7. PlanFits'
  BY <1>1 DEF PlanFits
<1> QED BY <1>4, <1>6, <1>7 DEF PagesInv

LEMMA ListedFacts ==
    ASSUME MovesTyped, listing # NoListing
    PROVE  /\ Listed \subseteq Paths /\ MustRead \subseteq Listed
           /\ Missing \subseteq Records /\ UntrackedFiles \subseteq Listed
           /\ \A g \in Missing : tracked[g].path \in Paths \ Listed
<1>1. listing \in SUBSET (Paths \X Texts)
  BY DEF MovesTyped
<1>2. Listed \subseteq Paths /\ MustRead \subseteq Listed
  BY <1>1 DEF Listed, MustRead
<1> QED BY <1>2, RecordFacts DEF Missing, UntrackedFiles, Records

(* Pairs to which one that shares nothing with them is added. *)
LEMMA OneToOneSum ==
    ASSUME NEW S, NEW T, OneToOne(S), OneToOne(T),
           \A t \in T, s \in S : s[1] # t[1] /\ s[2] # t[2]
    PROVE  OneToOne(S \cup T)
BY DEF OneToOne

(* The pairs are made by hints first, then by equal texts, then by like ones. *)
LEMMA PairingFacts ==
    ASSUME NEW pairs \in Pairings
    PROVE  /\ pairs \subseteq Missing \X UntrackedFiles /\ OneToOne(pairs)
           /\ \A r \in pairs : r \in ByHint \/ tracked[r[1]].text[1] = TextAt(r[2])[1]
           /\ \E H \in Fullest(ByHint) : \E T \in Fullest(ByText(H)) : H \cup T \subseteq pairs
<1>1. PICK S \in UNION {{H \cup T : T \in Fullest(ByText(H))} : H \in Fullest(ByHint)} :
        pairs \in {S \cup T : T \in Matchings(Alike(S))}
  BY DEF Pairings
<1>2. PICK U \in Matchings(Alike(S)) : pairs = S \cup U
  BY <1>1
<1>3. PICK H \in Fullest(ByHint) : S \in {H \cup T : T \in Fullest(ByText(H))}
  BY <1>1
<1>4. PICK T \in Fullest(ByText(H)) : S = H \cup T
  BY <1>3
<1>5. /\ H \subseteq ByHint /\ OneToOne(H) /\ T \subseteq ByText(H) /\ OneToOne(T)
      /\ U \subseteq Alike(S) /\ OneToOne(U)
  BY DEF Fullest, Matchings
<1>6. \A t \in ByText(H), s \in H : s[1] # t[1] /\ s[2] # t[2]
  BY DEF ByText
<1>7. \A t \in Alike(S), s \in S : s[1] # t[1] /\ s[2] # t[2]
  BY DEF Alike
<1>8. OneToOne(S)
  BY <1>4, <1>5, <1>6, OneToOneSum
<1>9. OneToOne(pairs)
  BY <1>2, <1>5, <1>7, <1>8, OneToOneSum
<1>10. ByHint \subseteq Missing \X UntrackedFiles
  BY DEF ByHint
<1>11. ByText(H) \subseteq Missing \X UntrackedFiles /\ \A r \in ByText(H) : tracked[r[1]].text = TextAt(r[2])
  BY DEF ByText
<1>12. Alike(S) \subseteq Missing \X UntrackedFiles /\ \A r \in Alike(S) : tracked[r[1]].text[1] = TextAt(r[2])[1]
  BY DEF Alike
<1> QED BY <1>2, <1>4, <1>5, <1>9, <1>10, <1>11, <1>12

(* The one change a plan makes at a path. *)
ChangeAt(pairs, p) ==
    LET r == CHOOSE q \in pairs : q[2] = p
        g == CHOOSE h \in Records : tracked[h].path = p
    IN  IF RecordAt(p) = {}
        THEN IF \A q \in pairs : q[2] # p THEN Task("created", p, Nowhere, TextAt(p))
             ELSE IF LastKnown(r[1]) # p THEN Task("moved", p, LastKnown(r[1]), TextAt(p))
             ELSE Task("modified", p, Nowhere, TextAt(p))
        ELSE IF p \notin Listed THEN Task("deleted", p, Nowhere, NoText)
        ELSE IF Sending(g) THEN Task("moved", p, tracked[g].origin, TextAt(p))
        ELSE Task("modified", p, Nowhere, TextAt(p))

LEMMA ChangesFacts ==
    ASSUME MovesTyped, OneEach, listing # NoListing, NEW pairs, OneToOne(pairs),
           pairs \subseteq Missing \X UntrackedFiles, NEW j \in Changes(pairs)
    PROVE  /\ j = ChangeAt(pairs, j.at) /\ j.step = "start" /\ j.kind \in Kinds
           /\ j.kind = "created" => RecordAt(j.at) = {} /\ (\A r \in pairs : r[2] # j.at)
                                    /\ j.at \in UntrackedFiles /\ j.text = TextAt(j.at)
           /\ j.kind = "deleted" => RecordAt(j.at) # {}
           /\ j.kind \in {"moved", "modified"} =>
                 j.at \in UntrackedFiles \cup MustRead /\ j.text = TextAt(j.at)
           /\ j.kind = "deleted" => j.text = NoText
           /\ j.at \in Paths /\ j.from \in Paths \cup {Nowhere}
           /\ j.dir = "same" /\ j.name = "same" /\ j.again = FALSE
<1> USE DEF Kinds
<1>1. Listed \subseteq Paths /\ MustRead \subseteq Listed /\ Missing \subseteq Records /\ UntrackedFiles \subseteq Listed
      /\ Records \subseteq Pages /\ \A g \in Missing : tracked[g].path \in Paths \ Listed
  BY ListedFacts DEF Records
<1>2. \A g \in Records : /\ tracked[g].path \in Paths /\ LastKnown(g) \in Paths
                         /\ tracked[g].origin \in Paths \cup {Nowhere}
  BY <1>1, RecordFacts
<1>3. \A g \in Records : /\ RecordAt(tracked[g].path) # {}
                         /\ (CHOOSE h \in Records : tracked[h].path = tracked[g].path) = g
  BY DEF RecordAt, OneEach
<1>4. \A p \in UntrackedFiles : RecordAt(p) = {}
  BY DEF UntrackedFiles
<1>5. \A r \in pairs : (CHOOSE q \in pairs : q[2] = r[2])[1] = r[1]
  BY DEF OneToOne
<1>6. ASSUME NEW p \in UntrackedFiles, \A r \in pairs : r[2] # p, j = Task("created", p, Nowhere, TextAt(p))
      PROVE  /\ j.at = p /\ j.kind = "created" /\ j.text = TextAt(p) /\ j.step = "start" /\ j.from = Nowhere
             /\ j.dir = "same" /\ j.name = "same" /\ j.again = FALSE /\ j = ChangeAt(pairs, p)
  BY <1>4, <1>6 DEF Task, ChangeAt
<1>7. ASSUME NEW g \in Missing, \A r \in pairs : r[1] # g,
             j = Task("deleted", tracked[g].path, Nowhere, NoText)
      PROVE  /\ j.at = tracked[g].path /\ j.kind = "deleted" /\ j.text = NoText /\ j.step = "start"
             /\ j.from = Nowhere /\ j.dir = "same" /\ j.name = "same" /\ j.again = FALSE
             /\ j = ChangeAt(pairs, tracked[g].path)
  BY <1>1, <1>3, <1>7 DEF Task, ChangeAt
<1>8. ASSUME NEW r \in pairs, \/ LastKnown(r[1]) # r[2] /\ j = Task("moved", r[2], LastKnown(r[1]), TextAt(r[2]))
                              \/ LastKnown(r[1]) = r[2] /\ j = Task("modified", r[2], Nowhere, TextAt(r[2]))
      PROVE  /\ j.at = r[2] /\ j.kind \in {"moved", "modified"} /\ j.text = TextAt(r[2]) /\ j.step = "start"
             /\ j.from \in Paths \cup {Nowhere} /\ j.dir = "same" /\ j.name = "same" /\ j.again = FALSE
             /\ j = ChangeAt(pairs, r[2]) /\ r[2] \in UntrackedFiles
  <2>1. r[1] \in Records /\ r[2] \in UntrackedFiles /\ RecordAt(r[2]) = {} /\ LastKnown(r[1]) \in Paths
    BY <1>1, <1>2, <1>4
  <2>2. ~(\A q \in pairs : q[2] # r[2]) /\ (CHOOSE q \in pairs : q[2] = r[2])[1] = r[1]
    BY <1>5
  <2> QED BY <1>8, <2>1, <2>2 DEF Task, ChangeAt
<1>9. ASSUME NEW g \in Records, tracked[g].path \in MustRead,
             \/ (Sending(g) /\ j = Task("moved", tracked[g].path, tracked[g].origin, TextAt(tracked[g].path)))
             \/ (~Sending(g) /\ j = Task("modified", tracked[g].path, Nowhere, TextAt(tracked[g].path)))
      PROVE  /\ j.at = tracked[g].path /\ j.kind \in {"moved", "modified"} /\ j.text = TextAt(j.at)
             /\ j.step = "start" /\ j.from \in Paths \cup {Nowhere} /\ j.dir = "same" /\ j.name = "same"
             /\ j.again = FALSE /\ j = ChangeAt(pairs, j.at)
  <2>1. tracked[g].path \in Listed /\ RecordAt(tracked[g].path) # {}
        /\ (CHOOSE h \in Records : tracked[h].path = tracked[g].path) = g
    BY <1>1, <1>3, <1>9
  <2>2. tracked[g].origin \in Paths \cup {Nowhere}
    BY <1>2
  <2>3. CASE Sending(g)
    <3>1. j = Task("moved", tracked[g].path, tracked[g].origin, TextAt(tracked[g].path))
      BY <1>9, <2>3
    <3>2. /\ j.at = tracked[g].path /\ j.kind = "moved" /\ j.text = TextAt(j.at) /\ j.from = tracked[g].origin
          /\ j.step = "start" /\ j.dir = "same" /\ j.name = "same" /\ j.again = FALSE
      BY <3>1 DEF Task
    <3>3. j = ChangeAt(pairs, tracked[g].path)
      BY <3>1, <2>1, <2>3 DEF ChangeAt
    <3> QED BY <3>2, <3>3, <2>2
  <2>4. CASE ~Sending(g)
    <3>1. j = Task("modified", tracked[g].path, Nowhere, TextAt(tracked[g].path))
      BY <1>9, <2>4
    <3>2. /\ j.at = tracked[g].path /\ j.kind = "modified" /\ j.text = TextAt(j.at) /\ j.from = Nowhere
          /\ j.step = "start" /\ j.dir = "same" /\ j.name = "same" /\ j.again = FALSE
      BY <3>1 DEF Task
    <3>3. j = ChangeAt(pairs, tracked[g].path)
      BY <3>1, <2>1, <2>4 DEF ChangeAt
    <3> QED BY <3>2, <3>3
  <2> QED BY <2>3, <2>4
<1>11. CASE \E p \in UntrackedFiles : (\A r \in pairs : r[2] # p) /\ j = Task("created", p, Nowhere, TextAt(p))
  BY <1>1, <1>4, <1>6, <1>11
<1>12. CASE \E g \in Missing : (\A r \in pairs : r[1] # g)
                               /\ j = Task("deleted", tracked[g].path, Nowhere, NoText)
  BY <1>1, <1>3, <1>7, <1>12
<1>13. CASE \E r \in pairs :
         \/ (LastKnown(r[1]) # r[2] /\ j = Task("moved", r[2], LastKnown(r[1]), TextAt(r[2])))
         \/ (LastKnown(r[1]) = r[2] /\ j = Task("modified", r[2], Nowhere, TextAt(r[2])))
  BY <1>1, <1>8, <1>13
<1>14. CASE \E g \in Records :
         /\ tracked[g].path \in MustRead
         /\ \/ (Sending(g) /\ j = Task("moved", tracked[g].path, tracked[g].origin, TextAt(tracked[g].path)))
            \/ (~Sending(g) /\ j = Task("modified", tracked[g].path, Nowhere, TextAt(tracked[g].path)))
  BY <1>1, <1>2, <1>9, <1>14
<1> QED BY <1>11, <1>12, <1>13, <1>14 DEF Changes
LEMMA DeletedFacts ==
    ASSUME NEW pairs, NEW j \in Changes(pairs), j.kind = "deleted"
    PROVE  \E g \in Missing : j.at = tracked[g].path /\ \A r \in pairs : r[1] # g
<1>1. PICK g \in {h \in Missing : \A r \in pairs : r[1] # h} : j = Task("deleted", tracked[g].path, Nowhere, NoText)
  BY DEF Changes, Task
<1>2. j.at = tracked[g].path
  BY <1>1 DEF Task
<1> QED BY <1>1, <1>2

LEMMA MakePlanKeepsPages == ASSUME PagesInv, MakePlan PROVE PagesInv'
<1>1. /\ listing # NoListing /\ listing' = NoListing
      /\ UNCHANGED <<hinting, where, version, changed, onNotion, misses, hints, tracked, torn,
                     tasks, severed, calm>>
      /\ \/ plan' = plan
         \/ UntrackedFiles \cup MustRead \subseteq Files /\ \E pairs \in Pairings :
              plan' = [hints |-> hints, pairs |-> pairs, changes |-> Changes(pairs)]
  BY DEF MakePlan, world, notion, state
<1>2. MovesTyped /\ OneEach /\ plan = NoPlan /\ tasks = {}
  BY <1>1 DEF PagesInv, InTurn, Planning
<1>3. /\ Records' = Records /\ \A p : RecordAt(p)' = RecordAt(p)
      /\ \A g : LastKnown(g)' = LastKnown(g) /\ PlaceOf(g)' = PlaceOf(g) /\ Told(g)' = Told(g)
      /\ \A j, g : UnderWay(j, g)' = UnderWay(j, g)
  BY <1>1 DEF Records, RecordAt, LastKnown, PlaceOf, Told, UnderWay
<1>4. OneEach' /\ InTurn' /\ CreatesNew' /\ Moving'
  BY <1>1, <1>2, <1>3 DEF PagesInv, OneEach, InTurn, Planning, CreatesNew, Moving
<1>5. ASSUME NEW pairs \in Pairings, plan' = [hints |-> hints, pairs |-> pairs, changes |-> Changes(pairs)],
             UntrackedFiles \cup MustRead \subseteq Files
      PROVE  plan' \in Plans /\ PlanFits'
  <2>1. /\ Listed \subseteq Paths /\ MustRead \subseteq Listed /\ Missing \subseteq Records
        /\ UntrackedFiles \subseteq Listed /\ Records \subseteq Pages
    BY <1>1, <1>2, ListedFacts DEF Records
  <2>2. pairs \subseteq Missing \X UntrackedFiles /\ OneToOne(pairs)
    BY PairingFacts
  <2>3. \A j \in Changes(pairs) :
           /\ j = ChangeAt(pairs, j.at) /\ j.step = "start" /\ j.kind \in Kinds
           /\ j.kind = "created" => RecordAt(j.at) = {} /\ (\A r \in pairs : r[2] # j.at)
           /\ j.kind = "deleted" => RecordAt(j.at) # {}
    BY <1>1, <1>2, <2>2, ChangesFacts
  <2>4. ASSUME NEW j \in Changes(pairs) PROVE j \in Tasks
    <3>1. /\ j.at \in Paths /\ j.from \in Paths \cup {Nowhere} /\ j.kind \in Kinds
          /\ j.dir = "same" /\ j.name = "same" /\ j.again = FALSE /\ j.step = "start"
      BY <1>1, <1>2, <2>2, ChangesFacts
    <3>2. j.text \in Texts \cup {NoText}
      <4>1. CASE j.kind = "deleted"
        BY <1>1, <1>2, <2>2, <4>1, ChangesFacts
      <4>2. CASE j.kind # "deleted"
        <5>1. j.at \in Files /\ j.text = TextAt(j.at)
          BY <1>1, <1>2, <1>5, <2>2, <4>2, ChangesFacts DEF Kinds
        <5> QED BY <1>2, <5>1, FileFacts
      <4> QED BY <4>1, <4>2
    <3>3. \E k, p, f, t : j = Task(k, p, f, t)
      BY DEF Changes
    <3>4. j = [kind |-> j.kind, at |-> j.at, from |-> j.from, text |-> j.text, step |-> j.step,
               dir |-> j.dir, name |-> j.name, again |-> j.again]
      BY <3>3 DEF Task
    <3> QED BY <3>1, <3>2, <3>4 DEF Tasks, Steps
  <2>5. plan' \in Plans
    <3>1. hints \in Hints
      BY <1>2 DEF MovesTyped, MovesTypeOK, Hints
    <3>2. pairs \in SUBSET (Pages \X Paths) /\ Changes(pairs) \in SUBSET Tasks
      BY <2>1, <2>2, <2>4
    <3> QED BY <1>5, <3>1, <3>2 DEF Plans
  <2>6. \A r \in pairs : r[1] \in Records /\ RecordAt(r[2]) = {}
    BY <2>1, <2>2 DEF UntrackedFiles
  <2>7. PlanFits'
    <3>1. plan'.pairs = pairs /\ plan'.changes = Changes(pairs)
      BY <1>5
    <3>2. \A j, k \in Changes(pairs) : j.at = k.at => j = k
      BY <2>3
    <3>3. OneToOne(pairs)' = OneToOne(pairs)
      BY DEF OneToOne
    <3>4. OneToOne(plan'.pairs)
      BY <2>2, <3>1
    <3>5. \A r \in plan'.pairs : r[1] \in Records' /\ RecordAt(r[2])' = {}
      BY <1>3, <2>6, <3>1
    <3>6. \A j, k \in plan'.changes : j.at = k.at => j = k
      BY <3>1, <3>2
    <3>7. \A j \in plan'.changes :
             /\ j.step = "start"
             /\ j.kind = "created" => RecordAt(j.at)' = {} /\ \A r \in plan'.pairs : r[2] # j.at
             /\ j.kind = "deleted" => RecordAt(j.at)' # {}
      BY <1>3, <2>3, <3>1
    <3> QED BY <3>4, <3>5, <3>6, <3>7 DEF PlanFits, OneToOne
  <2> QED BY <2>5, <2>7
<1>6. plan' \in {NoPlan} \cup Plans /\ PlanFits'
  <2>1. CASE plan' = plan
    BY <1>2, <2>1 DEF PlanFits
  <2> QED BY <1>1, <1>5, <2>1
<1>7. MovesTyped'
  <2>1. Texts' = Texts /\ Paths' = Paths /\ Tasks' = Tasks /\ Plans' = Plans
    BY DEF Texts, Paths, Tasks, Plans
  <2> QED BY <1>1, <1>2, <1>6, <2>1 DEF MovesTyped, MovesTypeOK
<1> QED BY <1>4, <1>6, <1>7 DEF PagesInv
(* The adoption gives a paired page its new path and closes an operation that leads nowhere. *)
LEMMA AdoptFacts ==
    ASSUME PagesInv, Adopt
    PROVE  /\ plan \in Plans /\ plan' = NoPlan /\ listing = NoListing /\ listing' = NoListing
           /\ tasks = {} /\ tasks' = plan.changes /\ hints' = Pruned
           /\ UNCHANGED <<hinting, where, version, changed, onNotion, misses, severed, calm>>
           /\ torn \subseteq torn' /\ torn' \subseteq Pages
           /\ \A g \in Pages :
                 /\ \A r \in plan.pairs : r[1] = g =>
                      /\ g \in Records /\ tracked'[g] = Adopted(g, r[2])
                      /\ tracked'[g].path = r[2]
                      /\ g \notin torn' => PlaceOf(g) = LastKnown(g)
                 /\ (\A r \in plan.pairs : r[1] # g) =>
                      \/ tracked'[g] = tracked[g] /\ (g \in Records => tracked[g].origin # tracked[g].path)
                      \/ /\ g \in Records /\ tracked[g].origin = tracked[g].path
                         /\ tracked'[g] = [tracked[g] EXCEPT !.origin = Nowhere]
           /\ Records' = Records
           /\ \A g \in Records : /\ tracked'[g] \in Tracking
                                 /\ tracked'[g].text = tracked[g].text /\ tracked'[g].dir = tracked[g].dir
                                 /\ LastKnown(g)' = LastKnown(g)
                                 /\ tracked'[g].origin \in {Nowhere, LastKnown(g)} \ {tracked'[g].path}
           /\ tracked' \in [Pages -> Tracking \cup {Untracked}]
<1>1. /\ plan # NoPlan /\ plan' = NoPlan /\ tasks' = plan.changes /\ hints' = Pruned
      /\ torn' = torn \cup {g \in {r[1] : r \in plan.pairs} : PlaceOf(g) # LastKnown(g)}
      /\ UNCHANGED <<hinting, where, version, changed, onNotion, misses, listing, severed, calm>>
      /\ tracked' = [g \in Pages |->
          IF \E r \in plan.pairs : r[1] = g
          THEN Adopted(g, (CHOOSE r \in plan.pairs : r[1] = g)[2])
          ELSE IF g \in Records /\ tracked[g].origin = tracked[g].path
               THEN [tracked[g] EXCEPT !.origin = Nowhere] ELSE tracked[g]]
  BY DEF Adopt, world, notion
<1>2. MovesTyped /\ OneEach /\ PlanFits /\ InTurn
  BY DEF PagesInv
<1>3. plan \in Plans /\ listing = NoListing /\ tasks = {}
  BY <1>1, <1>2 DEF MovesTyped, InTurn, Planning
<1>4. plan.pairs \in SUBSET (Pages \X Paths) /\ OneToOne(plan.pairs)
      /\ \A r \in plan.pairs : r[1] \in Records /\ RecordAt(r[2]) = {}
  BY <1>1, <1>2, <1>3 DEF Plans, PlanFits
<1>5. torn \subseteq torn' /\ torn' \subseteq Pages
  BY <1>1, <1>2, <1>4 DEF MovesTyped, MovesTypeOK
<1>6. ASSUME NEW g \in Records, NEW p \in Paths
      PROVE  /\ Adopted(g, p) \in Tracking /\ Adopted(g, p) # Untracked
             /\ Adopted(g, p).path = p /\ Adopted(g, p).text = tracked[g].text
             /\ Adopted(g, p).dir = tracked[g].dir
             /\ Adopted(g, p).origin = IF LastKnown(g) = p THEN Nowhere ELSE LastKnown(g)
  <2>1. g \in Pages
    BY DEF Records
  <2>2. tracked[g] \in Tracking /\ LastKnown(g) \in Paths
    BY <1>2, <2>1, RecordFacts
  <2>3. Adopted(g, p) \in Tracking
    BY <2>2 DEF Adopted, Tracking
  <2>4. Adopted(g, p) # Untracked
    BY <2>3 DEF Tracking, Untracked
  <2> QED BY <2>2, <2>3, <2>4 DEF Adopted, Tracking
<1>7. ASSUME NEW g \in Pages, NEW r \in plan.pairs, r[1] = g
      PROVE  /\ g \in Records /\ r[2] \in Paths /\ tracked'[g] = Adopted(g, r[2])
             /\ g \notin torn' => PlaceOf(g) = LastKnown(g)
  <2>1. (CHOOSE q \in plan.pairs : q[1] = g) = r
    BY <1>4, <1>7 DEF OneToOne
  <2> QED BY <1>1, <1>4, <1>7, <2>1
<1>8. ASSUME NEW g \in Pages, \A r \in plan.pairs : r[1] # g
      PROVE  \/ tracked'[g] = tracked[g] /\ (g \in Records => tracked[g].origin # tracked[g].path)
             \/ /\ g \in Records /\ tracked[g].origin = tracked[g].path
                /\ tracked'[g] = [tracked[g] EXCEPT !.origin = Nowhere]
  BY <1>1, <1>8
<1>9. ASSUME NEW g \in Records
      PROVE  /\ tracked'[g] \in Tracking /\ tracked'[g] # Untracked
             /\ tracked'[g].text = tracked[g].text /\ tracked'[g].dir = tracked[g].dir
             /\ LastKnown(g)' = LastKnown(g)
             /\ tracked'[g].origin \in {Nowhere, LastKnown(g)} \ {tracked'[g].path}
  <2>0. g \in Pages
    BY DEF Records
  <2>1. tracked[g] \in Tracking /\ LastKnown(g) \in Paths /\ tracked[g].path \in Paths
    BY <1>2, <2>0, RecordFacts
  <2>2. CASE \E r \in plan.pairs : r[1] = g
    <3>1. PICK r \in plan.pairs : r[1] = g
      BY <2>2
    <3>2. tracked'[g] = Adopted(g, r[2]) /\ r[2] \in Paths
      BY <1>7, <3>1, <2>0
    <3>3. LastKnown(g)' = IF tracked'[g].origin = Nowhere THEN tracked'[g].path ELSE tracked'[g].origin
      BY DEF LastKnown
    <3> QED BY <1>6, <3>2, <3>3, <2>1, PathFacts
  <2>3. CASE \A r \in plan.pairs : r[1] # g
    <3>1. CASE tracked'[g] = tracked[g] /\ tracked[g].origin # tracked[g].path
      <4>1. LastKnown(g)' = LastKnown(g)
        BY <3>1 DEF LastKnown
      <4>2. tracked'[g] # Untracked
        BY <3>1 DEF Records
      <4> QED BY <3>1, <2>1, <4>1, <4>2, PathFacts DEF LastKnown
    <3>2. CASE tracked[g].origin = tracked[g].path /\ tracked'[g] = [tracked[g] EXCEPT !.origin = Nowhere]
      <4>1. tracked'[g] \in Tracking /\ tracked'[g].origin = Nowhere /\ tracked'[g].path = tracked[g].path
            /\ tracked'[g].text = tracked[g].text /\ tracked'[g].dir = tracked[g].dir
        BY <3>2, <2>1 DEF Tracking
      <4>2. tracked'[g] # Untracked
        BY <4>1 DEF Tracking, Untracked
      <4>3. LastKnown(g)' = LastKnown(g)
        BY <4>1, <3>2 DEF LastKnown
      <4> QED BY <4>1, <4>2, <4>3, <2>1, PathFacts
    <3> QED BY <1>8, <2>0, <2>3, <3>1, <3>2
  <2> QED BY <2>2, <2>3
<1>10. ASSUME NEW g \in Pages, g \notin Records PROVE tracked'[g] = Untracked
  <2>1. \A r \in plan.pairs : r[1] # g
    BY <1>4, <1>10
  <2> QED BY <1>1, <1>10, <2>1 DEF Records
<1>11. Records' = Records
  BY <1>9, <1>10 DEF Records
<1>12. tracked' \in [Pages -> Tracking \cup {Untracked}]
  <2>1. \A g \in Pages : tracked'[g] \in Tracking \cup {Untracked}
    BY <1>9, <1>10
  <2>2. tracked' = [g \in Pages |-> tracked'[g]]
    BY <1>1
  <2> QED BY <2>1, <2>2
<1>13. ASSUME NEW g \in Pages, NEW r \in plan.pairs, r[1] = g
       PROVE  /\ g \in Records /\ tracked'[g] = Adopted(g, r[2])
              /\ tracked'[g].path = r[2]
              /\ g \notin torn' => PlaceOf(g) = LastKnown(g)
  BY <1>6, <1>7, <1>13
<1>14. \A g \in Records : /\ tracked'[g] \in Tracking
                          /\ tracked'[g].text = tracked[g].text /\ tracked'[g].dir = tracked[g].dir
                          /\ LastKnown(g)' = LastKnown(g)
                          /\ tracked'[g].origin \in {Nowhere, LastKnown(g)} \ {tracked'[g].path}
  BY <1>9
<1>15. plan' = NoPlan /\ listing' = NoListing /\ tasks' = plan.changes /\ hints' = Pruned
       /\ UNCHANGED <<hinting, where, version, changed, onNotion, misses, severed, calm>>
  BY <1>1, <1>3
<1> QED BY <1>3, <1>5, <1>8, <1>11, <1>12, <1>13, <1>14, <1>15
LEMMA AdoptKeepsPages == ASSUME PagesInv, Adopt PROVE PagesInv'
<1>1. /\ plan \in Plans /\ plan' = NoPlan /\ listing = NoListing /\ listing' = NoListing
      /\ tasks = {} /\ tasks' = plan.changes /\ hints' = Pruned
      /\ UNCHANGED <<hinting, where, version, changed, onNotion, misses, severed, calm>>
      /\ torn \subseteq torn' /\ torn' \subseteq Pages /\ Records' = Records
      /\ tracked' \in [Pages -> Tracking \cup {Untracked}]
  BY AdoptFacts
<1>2. /\ MovesTyped /\ OneEach /\ plan # NoPlan /\ OneToOne(plan.pairs) /\ Records \subseteq Pages
      /\ \A g \in Records : Told(g)
      /\ \A r \in plan.pairs : r[1] \in Records /\ RecordAt(r[2]) = {}
      /\ \A j, k \in plan.changes : j.at = k.at => j = k
      /\ \A j \in plan.changes : /\ j.step = "start"
                                 /\ j.kind = "created" => /\ RecordAt(j.at) = {}
                                                          /\ \A r \in plan.pairs : r[2] # j.at
  BY DEF Adopt, PagesInv, PlanFits, Moving, Records
<1>3. ASSUME NEW g \in Records
      PROVE  /\ tracked'[g].text = tracked[g].text /\ tracked'[g].dir = tracked[g].dir
             /\ tracked'[g].origin \in {Nowhere, LastKnown(g)} \ {tracked'[g].path}
             /\ LastKnown(g)' = LastKnown(g)
             /\ \/ /\ <<g, tracked'[g].path>> \in plan.pairs
                   /\ g \notin torn' => PlaceOf(g) = LastKnown(g)
                \/ /\ tracked'[g].path = tracked[g].path /\ \A r \in plan.pairs : r[1] # g
                   /\ tracked'[g].origin = Nowhere => tracked[g].origin \in {Nowhere, tracked[g].path}
  <2>1. g \in Pages /\ tracked[g] \in Tracking
    BY <1>2, RecordFacts
  <2>2. CASE \E r \in plan.pairs : r[1] = g
    <3>1. PICK r \in plan.pairs : r[1] = g
      BY <2>2
    <3>2. r = <<g, r[2]>>
      BY <1>1, <3>1 DEF Plans
    <3>3. tracked'[g].path = r[2] /\ (g \notin torn' => PlaceOf(g) = LastKnown(g))
      BY <2>1, <3>1, AdoptFacts
    <3> QED BY AdoptFacts, <3>1, <3>2, <3>3
  <2>3. CASE \A r \in plan.pairs : r[1] # g
    <3>1. \/ tracked'[g] = tracked[g]
          \/ tracked[g].origin = tracked[g].path /\ tracked'[g] = [tracked[g] EXCEPT !.origin = Nowhere]
      BY <2>1, <2>3, AdoptFacts
    <3> QED BY AdoptFacts, <2>1, <2>3, <3>1 DEF Tracking
  <2> QED BY <2>2, <2>3
<1>4. MovesTyped'
  <2>1. Texts' = Texts /\ Paths' = Paths /\ Tasks' = Tasks /\ Plans' = Plans
    BY DEF Texts, Paths, Tasks, Plans
  <2>2. Pruned \in Hints
    BY <1>2 DEF Pruned, Hints, MovesTyped, MovesTypeOK
  <2>3. plan.changes \in SUBSET Tasks
    BY <1>1 DEF Plans
  <2> QED BY <1>1, <1>2, <2>1, <2>2, <2>3 DEF MovesTyped, MovesTypeOK, Hints
<1>5. ASSUME NEW g \in Records, NEW h \in Records, tracked'[g].path = tracked'[h].path PROVE g = h
  <2>1. tracked[g].path = tracked[h].path => g = h
    BY <1>2 DEF OneEach
  <2>2. \A r \in plan.pairs : r[2] # tracked[g].path /\ r[2] # tracked[h].path
    BY <1>2 DEF RecordAt
  <2>3. <<g, tracked'[g].path>> \in plan.pairs \/ tracked'[g].path = tracked[g].path
    BY <1>3
  <2>4. <<h, tracked'[h].path>> \in plan.pairs \/ tracked'[h].path = tracked[h].path
    BY <1>3
  <2>5. CASE <<g, tracked'[g].path>> \in plan.pairs /\ <<h, tracked'[h].path>> \in plan.pairs
    BY <1>2, <1>5, <2>5 DEF OneToOne
  <2> QED BY <1>5, <2>1, <2>2, <2>3, <2>4, <2>5
<1>6. OneEach'
  <2>1. \A m, n \in Notes : where'[m] = where'[n] /\ where'[m] # Nowhere => m = n
    BY <1>1, <1>2 DEF OneEach
  <2>2. \A g \in Pages : onNotion'[g] = Gone <=> tracked'[g] = Untracked
    BY <1>1, <1>2 DEF OneEach, Records
  <2>3. \A g \in Records : onNotion'[g].text = tracked'[g].text
    BY <1>1, <1>2, <1>3 DEF OneEach
  <2> QED BY <1>1, <1>2, <1>5, <2>1, <2>2, <2>3 DEF OneEach
<1>7. InTurn' /\ PlanFits'
  BY <1>1 DEF InTurn, Planning, PlanFits
<1>8. CreatesNew'
  <2>1. ASSUME NEW j \in tasks', j.kind = "created", NEW g \in Records, tracked'[g].path = j.at PROVE FALSE
    <3>1. tracked[g].path # j.at /\ \A r \in plan.pairs : r[2] # j.at
      BY <1>1, <1>2, <2>1 DEF RecordAt
    <3> QED BY <1>3, <2>1, <3>1
  <2> QED BY <1>1, <2>1 DEF CreatesNew, RecordAt
<1>9. ASSUME NEW g \in Records PROVE Told(g)'
  <2>1. /\ tracked'[g].dir = Dir(LastKnown(g)') /\ PlaceOf(g)' = PlaceOf(g) /\ g \in Pages
        /\ LastKnown(g)' = LastKnown(g) /\ onNotion' = onNotion /\ LastKnown(g) \in Paths
        /\ tracked[g].path \in Paths
    <3>1. g \in Pages /\ LastKnown(g) \in Paths /\ tracked[g].path \in Paths
      BY <1>2, RecordFacts
    <3>2. tracked'[g].dir = tracked[g].dir /\ LastKnown(g)' = LastKnown(g)
      BY <1>3
    <3>3. tracked[g].dir = Dir(LastKnown(g))
      BY <1>2 DEF Told
    <3>4. onNotion' = onNotion /\ PlaceOf(g)' = PlaceOf(g)
      BY <1>1 DEF PlaceOf
    <3> QED BY <3>1, <3>2, <3>3, <3>4
  <2>2. ASSUME g \notin torn'
        PROVE  /\ tracked'[g].origin = Nowhere => PlaceOf(g)' = tracked'[g].path
               /\ onNotion'[g].dir \in {Dir(LastKnown(g)'), Dir(tracked'[g].path)}
               /\ onNotion'[g].name \in {Name(LastKnown(g)'), Name(tracked'[g].path)}
    <3>1. CASE PlaceOf(g) = LastKnown(g)
      <4>1. onNotion[g].dir = Dir(LastKnown(g)) /\ onNotion[g].name = Name(LastKnown(g))
        BY <3>1, <2>1, PathFacts DEF PlaceOf, Dir, Name
      <4>2. tracked'[g].origin = Nowhere => LastKnown(g)' = tracked'[g].path
        BY DEF LastKnown
      <4> QED BY <2>1, <3>1, <4>1, <4>2
    <3>2. CASE PlaceOf(g) # LastKnown(g)
      <4>1. /\ tracked'[g].path = tracked[g].path
            /\ tracked'[g].origin = Nowhere => tracked[g].origin \in {Nowhere, tracked[g].path}
        BY <1>3, <2>2, <3>2
      <4>2. /\ tracked[g].origin = Nowhere => PlaceOf(g) = tracked[g].path
            /\ onNotion[g].dir \in {Dir(LastKnown(g)), Dir(tracked[g].path)}
            /\ onNotion[g].name \in {Name(LastKnown(g)), Name(tracked[g].path)}
        BY <1>1, <1>2, <2>2 DEF Told
      <4>3. tracked[g].origin = tracked[g].path => PlaceOf(g) = tracked[g].path
        BY <2>1, <4>2, PathFacts DEF PlaceOf, LastKnown
      <4> QED BY <2>1, <4>1, <4>2, <4>3
    <3> QED BY <3>1, <3>2
  <2> QED BY <2>1, <2>2 DEF Told
<1>10. Moving'
  BY <1>1, <1>2, <1>9 DEF Moving
<1> QED BY <1>4, <1>6, <1>7, <1>8, <1>10 DEF PagesInv
--------------------------------------------------------------------------------
(* The push. *)

(* Task j ends, or goes on as another of its kind. *)
Becomes(j, K) ==
    /\ tasks' = (tasks \ {j}) \cup K /\ K \subseteq Tasks
    /\ \A k \in K : k.at = j.at /\ k.kind = j.kind
    /\ \A k, l \in K : k = l
(* What no step of the push changes. *)
Apart ==
    /\ UNCHANGED <<hinting, where, version, changed, hints, torn, listing, plan, severed>>
    /\ misses' \in 0..MaxMisses /\ calm' \in BOOLEAN
Ongoing(j) == j.kind = "moved" /\ j.step \in {"parent", "title", "store"}

LEMMA TaskFacts ==
    ASSUME PagesInv, NEW j \in tasks
    PROVE  /\ j \in Tasks /\ j.at \in Paths /\ listing = NoListing /\ plan = NoPlan
           /\ \A g \in RecordAt(j.at) : /\ g \in Pages /\ g \in Records /\ tracked[g].path = j.at
                                        /\ tracked[g] \in Tracking /\ onNotion[g] \in NotionPage
                                        /\ onNotion[g].text = tracked[g].text
                                        /\ Told(g) /\ (Ongoing(j) => UnderWay(j, g))
<1>1. MovesTyped /\ OneEach /\ InTurn /\ Moving
  BY DEF PagesInv
<1>2. j \in Tasks /\ j.at \in Paths
  BY <1>1 DEF MovesTyped, Tasks
<1>3. ASSUME NEW g \in RecordAt(j.at)
      PROVE  /\ g \in Pages /\ g \in Records /\ tracked[g].path = j.at
             /\ tracked[g] \in Tracking /\ onNotion[g] \in NotionPage
             /\ onNotion[g].text = tracked[g].text
             /\ Told(g) /\ (Ongoing(j) => UnderWay(j, g))
  <2>1. g \in Pages /\ g \in Records /\ tracked[g].path = j.at
    BY DEF RecordAt, Records
  <2>2. tracked[g] \in Tracking /\ onNotion[g] \in NotionPage /\ onNotion[g].text = tracked[g].text
    BY <1>1, <2>1, RecordFacts DEF OneEach, Records
  <2> QED BY <1>1, <2>1, <2>2 DEF Moving, Ongoing
<1> QED BY <1>1, <1>2, <1>3 DEF InTurn, Planning

LEMMA BecomesFacts ==
    ASSUME PagesInv, NEW j \in tasks, NEW K, Becomes(j, K)
    PROVE  /\ tasks' \in SUBSET Tasks
           /\ \A k, l \in tasks' : k.at = l.at => k = l
           /\ \A k \in tasks' : \/ k \in K /\ k.at = j.at /\ k.kind = j.kind
                                \/ k \in tasks /\ k # j /\ k.at # j.at
<1>1. MovesTyped /\ OneEach
  BY DEF PagesInv
<1> QED BY <1>1 DEF MovesTyped, OneEach, Becomes

(* A step that leaves the pages and their records alone. *)
LEMMA QuietStepKeepsPages ==
    ASSUME PagesInv, NEW j \in tasks, NEW K, Becomes(j, K), Apart, UNCHANGED <<onNotion, tracked>>,
           \A k \in K, g \in RecordAt(j.at) : Ongoing(k) => UnderWay(k, g)
    PROVE  PagesInv'
<1>1. MovesTyped /\ OneEach /\ InTurn /\ CreatesNew /\ Moving
  BY DEF PagesInv
<1>2. /\ tasks' \in SUBSET Tasks /\ listing = NoListing /\ plan = NoPlan
      /\ \A k, l \in tasks' : k.at = l.at => k = l
      /\ \A k \in tasks' : \/ k \in K /\ k.at = j.at /\ k.kind = j.kind
                           \/ k \in tasks /\ k # j /\ k.at # j.at
  BY BecomesFacts, TaskFacts
<1>3. /\ Records' = Records /\ \A p : RecordAt(p)' = RecordAt(p)
      /\ \A g : LastKnown(g)' = LastKnown(g) /\ PlaceOf(g)' = PlaceOf(g) /\ Told(g)' = Told(g)
      /\ \A k, g : UnderWay(k, g)' = UnderWay(k, g)
  BY DEF Apart, Records, RecordAt, LastKnown, PlaceOf, Told, UnderWay
<1>4. MovesTyped'
  <2>1. Texts' = Texts /\ Paths' = Paths /\ Tasks' = Tasks /\ Plans' = Plans
    BY DEF Texts, Paths, Tasks, Plans
  <2> QED BY <1>1, <1>2, <2>1 DEF MovesTyped, MovesTypeOK, Apart
<1>5. OneEach'
  BY <1>1, <1>2, <1>3 DEF OneEach, Apart
<1>6. InTurn' /\ PlanFits'
  BY <1>2 DEF InTurn, Planning, PlanFits, Apart
<1>7. CreatesNew'
  BY <1>1, <1>2, <1>3 DEF CreatesNew
<1>8. Moving'
  BY <1>1, <1>2, <1>3 DEF Moving, Ongoing
<1> QED BY <1>4, <1>5, <1>6, <1>7, <1>8 DEF PagesInv

(* A step that changes the page recorded at j's path, or makes one, or takes it away. *)
LEMMA PageStepKeepsPages ==
    ASSUME PagesInv, NEW j \in tasks, NEW K, Becomes(j, K), Apart, NEW g \in Pages,
           onNotion' \in [Pages -> NotionPage \cup {Gone}],
           tracked' \in [Pages -> Tracking \cup {Untracked}],
           \A h \in Pages \ {g} : onNotion'[h] = onNotion[h] /\ tracked'[h] = tracked[h],
           onNotion'[g] = Gone <=> tracked'[g] = Untracked,
           g \in RecordAt(j.at) \/ RecordAt(j.at) = {},
           tracked'[g] # Untracked => /\ tracked'[g].path = j.at
                                      /\ onNotion'[g].text = tracked'[g].text
                                      /\ Told(g)' /\ \A k \in K : Ongoing(k) => UnderWay(k, g)',
           j.kind = "created" => K = {}
    PROVE  PagesInv'
<1>1. MovesTyped /\ OneEach /\ InTurn /\ CreatesNew /\ Moving
  BY DEF PagesInv
<1>2. /\ tasks' \in SUBSET Tasks /\ listing = NoListing /\ plan = NoPlan
      /\ \A k, l \in tasks' : k.at = l.at => k = l
      /\ \A k \in tasks' : \/ k \in K /\ k.at = j.at /\ k.kind = j.kind
                           \/ k \in tasks /\ k # j /\ k.at # j.at
  BY BecomesFacts, TaskFacts
<1>3. ASSUME NEW h \in Records', h # g
      PROVE  /\ h \in Records /\ tracked'[h] = tracked[h] /\ onNotion'[h] = onNotion[h]
             /\ tracked[h].path # j.at
             /\ Told(h)' = Told(h) /\ \A k : UnderWay(k, h)' = UnderWay(k, h)
  <2>1. h \in Records /\ tracked'[h] = tracked[h] /\ onNotion'[h] = onNotion[h]
    BY <1>3 DEF Records
  <2>2. tracked[h].path # j.at
    BY <1>1, <1>3, <2>1 DEF RecordAt, OneEach
  <2>3. Told(h)' = Told(h)
    BY <2>1 DEF Told, LastKnown, PlaceOf, Apart
  <2>4. \A k : UnderWay(k, h)' = UnderWay(k, h)
    BY <2>1 DEF UnderWay, Apart
  <2> QED BY <2>1, <2>2, <2>3, <2>4
<1>4. MovesTyped'
  <2>1. Texts' = Texts /\ Paths' = Paths /\ Tasks' = Tasks /\ Plans' = Plans
    BY DEF Texts, Paths, Tasks, Plans
  <2> QED BY <1>1, <1>2, <2>1 DEF MovesTyped, MovesTypeOK, Apart
<1>5. OneEach'
  <2>1. \A m, n \in Notes : where'[m] = where'[n] /\ where'[m] # Nowhere => m = n
    BY <1>1 DEF OneEach, Apart
  <2>2. \A h, i \in Records' : tracked'[h].path = tracked'[i].path => h = i
    BY <1>1, <1>3 DEF OneEach, Records
  <2>3. \A h \in Pages : onNotion'[h] = Gone <=> tracked'[h] = Untracked
    BY <1>1 DEF OneEach
  <2>4. \A h \in Records' : onNotion'[h].text = tracked'[h].text
    BY <1>1, <1>3 DEF OneEach, Records
  <2> QED BY <1>2, <2>1, <2>2, <2>3, <2>4 DEF OneEach
<1>6. InTurn' /\ PlanFits'
  BY <1>2 DEF InTurn, Planning, PlanFits, Apart
<1>7. CreatesNew'
  <2>1. ASSUME NEW k \in tasks', k.kind = "created", NEW h \in Records', tracked'[h].path = k.at PROVE FALSE
    <3>1. k \in tasks /\ k.at # j.at
      BY <1>2, <2>1
    <3>2. h # g
      BY <2>1, <3>1 DEF Records
    <3> QED BY <1>1, <1>3, <2>1, <3>1, <3>2 DEF CreatesNew, RecordAt
  <2> QED BY <2>1 DEF CreatesNew, RecordAt
<1>8. Moving'
  <2>1. \A h \in Records' : Told(h)'
    BY <1>1, <1>3 DEF Moving, Records
  <2>2. ASSUME NEW k \in tasks', Ongoing(k), NEW h \in Records', tracked'[h].path = k.at
        PROVE  UnderWay(k, h)'
    <3>1. CASE h = g
      <4>1. k.at = j.at
        BY <2>2, <3>1 DEF Records
      <4> QED BY <1>2, <2>2, <3>1, <4>1 DEF Records
    <3>2. CASE h # g
      <4>1. h \in RecordAt(k.at) /\ k.at # j.at
        BY <1>3, <2>2, <3>2 DEF RecordAt
      <4>2. k \in tasks
        BY <1>2, <4>1
      <4> QED BY <1>1, <1>3, <2>2, <3>2, <4>1, <4>2 DEF Moving, Ongoing
    <3> QED BY <3>1, <3>2
  <2> QED BY <2>1, <2>2 DEF Moving, Ongoing, RecordAt
<1> QED BY <1>4, <1>5, <1>6, <1>7, <1>8 DEF PagesInv
LEMMA TaskEnds == ASSUME NEW j, TaskDone(j) PROVE Becomes(j, {})
BY DEF TaskDone, Becomes

LEMMA TaskGoesOn ==
    ASSUME NEW j, NEW k \in Tasks, OnTo(j, k), k.at = j.at, k.kind = j.kind
    PROVE  Becomes(j, {k})
BY DEF OnTo, Becomes

LEMMA PushIsApart == ASSUME PagesInv, DuringPush PROVE Apart
BY DEF DuringPush, Apart, world, PagesInv, MovesTyped, MovesTypeOK

LEMMA SendFacts ==
    ASSUME PagesInv, NEW j \in tasks, NEW g \in RecordAt(j.at), SendFile(g, j.at)
    PROVE  /\ \A h \in Pages \ {g} : onNotion'[h] = onNotion[h] /\ tracked'[h] = tracked[h]
           /\ onNotion'[g] = [onNotion[g] EXCEPT !.text = TextAt(j.at)]
           /\ tracked'[g] = [tracked[g] EXCEPT !.text = TextAt(j.at)]
           /\ onNotion' \in [Pages -> NotionPage \cup {Gone}]
           /\ tracked' \in [Pages -> Tracking \cup {Untracked}]
           /\ g \in Pages /\ tracked'[g] \in Tracking /\ onNotion'[g] \in NotionPage /\ TextAt(j.at) \in Texts
           /\ tracked'[g] # Untracked /\ onNotion'[g] # Gone
<1>1. MovesTyped /\ OneEach
  BY DEF PagesInv
<1>2. TextAt(j.at) \in Texts
  BY <1>1, FileFacts DEF SendFile
<1>3. g \in Pages /\ tracked[g] \in Tracking /\ onNotion[g] \in NotionPage
  BY TaskFacts
<1>4. /\ tracked \in [Pages -> Tracking \cup {Untracked}]
      /\ onNotion \in [Pages -> NotionPage \cup {Gone}]
  BY <1>1 DEF MovesTyped, MovesTypeOK
<1>5. /\ onNotion' = [onNotion EXCEPT ![g] = [onNotion[g] EXCEPT !.text = TextAt(j.at)]]
      /\ tracked' = [tracked EXCEPT ![g] = [tracked[g] EXCEPT !.text = TextAt(j.at)]]
  BY DEF SendFile
<1>6. /\ [onNotion[g] EXCEPT !.text = TextAt(j.at)] \in NotionPage
      /\ [tracked[g] EXCEPT !.text = TextAt(j.at)] \in Tracking
  BY <1>2, <1>3 DEF NotionPage, Tracking
<1>7. Untracked \notin Tracking /\ Gone \notin NotionPage
  BY DEF Untracked, Tracking, Gone, NotionPage
<1> QED BY <1>2, <1>3, <1>4, <1>5, <1>6, <1>7

LEMMA SendKeepsPages ==
    ASSUME PagesInv, NEW j \in tasks, NEW g \in RecordAt(j.at), SendFile(g, j.at), TaskDone(j), Apart
    PROVE  PagesInv'
<1>1. /\ \A h \in Pages \ {g} : onNotion'[h] = onNotion[h] /\ tracked'[h] = tracked[h]
      /\ onNotion'[g] = [onNotion[g] EXCEPT !.text = TextAt(j.at)]
      /\ tracked'[g] = [tracked[g] EXCEPT !.text = TextAt(j.at)]
      /\ onNotion' \in [Pages -> NotionPage \cup {Gone}]
      /\ tracked' \in [Pages -> Tracking \cup {Untracked}]
      /\ g \in Pages /\ tracked'[g] # Untracked /\ onNotion'[g] # Gone
  BY SendFacts
<1>2. tracked[g].path = j.at /\ Told(g) /\ tracked[g] \in Tracking /\ onNotion[g] \in NotionPage
  BY TaskFacts
<1>3. /\ tracked'[g].path = j.at /\ tracked'[g].origin = tracked[g].origin /\ tracked'[g].dir = tracked[g].dir
      /\ onNotion'[g].dir = onNotion[g].dir /\ onNotion'[g].name = onNotion[g].name
      /\ onNotion'[g].text = tracked'[g].text
  BY <1>1, <1>2 DEF Tracking, NotionPage
<1>4. Told(g)'
  BY <1>2, <1>3 DEF Told, LastKnown, PlaceOf, Apart
<1> QED BY <1>1, <1>3, <1>4, TaskEnds, PageStepKeepsPages

LEMMA CreationFacts ==
    ASSUME PagesInv, NEW j \in tasks, PushCreate(j), RecordAt(j.at) = {}
    PROVE  \E g \in Unused :
             /\ onNotion' = [onNotion EXCEPT ![g] = [text |-> TextAt(j.at),
                                             dir |-> Dir(j.at), name |-> Name(j.at)]]
             /\ tracked' = [tracked EXCEPT ![g] =
                     [path |-> j.at, text |-> TextAt(j.at), dir |-> Dir(j.at), origin |-> Nowhere]]
BY DEF PushCreate

LEMMA PushCreateKeepsPages == ASSUME PagesInv, NEW j \in tasks, PushCreate(j) PROVE PagesInv'
<1>1. /\ j.at \in Files /\ TaskDone(j) /\ Apart /\ j.at \in Paths /\ MovesTyped /\ OneEach
  BY PushIsApart, TaskFacts DEF PushCreate, PagesInv
<1>2. CASE RecordAt(j.at) # {}
  <2>1. PICK g \in RecordAt(j.at) : SendFile(g, j.at)
    BY <1>2 DEF PushCreate
  <2> QED BY <1>1, <2>1, SendKeepsPages
<1>3. CASE RecordAt(j.at) = {}
  <2> DEFINE page == [text |-> TextAt(j.at), dir |-> Dir(j.at), name |-> Name(j.at)]
             record == [path |-> j.at, text |-> TextAt(j.at), dir |-> Dir(j.at), origin |-> Nowhere]
  <2>1. PICK g \in Unused : onNotion' = [onNotion EXCEPT ![g] = page] /\ tracked' = [tracked EXCEPT ![g] = record]
    BY <1>3, CreationFacts
  <2>2. TextAt(j.at) \in Texts /\ Dir(j.at) \in Dirs /\ Name(j.at) \in Names /\ j.at = <<Dir(j.at), Name(j.at)>>
    BY <1>1, FileFacts, PathFacts
  <2>3. page \in NotionPage /\ record \in Tracking /\ page # Gone /\ record # Untracked
    BY <1>1, <2>2 DEF NotionPage, Tracking, Gone, Untracked
  <2>4. /\ tracked \in [Pages -> Tracking \cup {Untracked}] /\ g \in Pages
        /\ onNotion \in [Pages -> NotionPage \cup {Gone}]
    BY <1>1 DEF MovesTyped, MovesTypeOK, Unused
  <2>5. /\ tracked' \in [Pages -> Tracking \cup {Untracked}]
        /\ onNotion' \in [Pages -> NotionPage \cup {Gone}]
        /\ onNotion'[g] = page /\ tracked'[g] = record
        /\ \A h \in Pages \ {g} : onNotion'[h] = onNotion[h] /\ tracked'[h] = tracked[h]
    BY <2>1, <2>3, <2>4
  <2>6. /\ tracked'[g].path = j.at /\ tracked'[g].dir = Dir(j.at) /\ tracked'[g].origin = Nowhere
        /\ onNotion'[g].dir = Dir(j.at) /\ onNotion'[g].name = Name(j.at)
        /\ onNotion'[g].text = tracked'[g].text
    BY <2>5
  <2>7. Told(g)'
    BY <2>2, <2>6 DEF Told, LastKnown, PlaceOf
  <2> QED BY <1>1, <1>3, <2>3, <2>4, <2>5, <2>6, <2>7, TaskEnds, PageStepKeepsPages
<1> QED BY <1>2, <1>3

LEMMA PushDeleteKeepsPages == ASSUME PagesInv, NEW j \in tasks, PushDelete(j) PROVE PagesInv'
<1>1. j.kind = "deleted" /\ TaskDone(j) /\ Apart /\ MovesTyped /\ Becomes(j, {})
  BY PushIsApart, TaskEnds DEF PushDelete, PagesInv, On
<1>2. CASE RecordAt(j.at) = {}
  <2>1. UNCHANGED <<onNotion, tracked>>
    BY <1>2 DEF PushDelete
  <2> QED BY <1>1, <2>1, QuietStepKeepsPages
<1>3. CASE RecordAt(j.at) # {}
  <2>1. PICK g \in RecordAt(j.at) : /\ onNotion' = [onNotion EXCEPT ![g] = Gone]
                                    /\ tracked' = [tracked EXCEPT ![g] = Untracked]
    BY <1>3 DEF PushDelete
  <2>2. /\ tracked \in [Pages -> Tracking \cup {Untracked}] /\ g \in Pages
        /\ onNotion \in [Pages -> NotionPage \cup {Gone}]
    BY <1>1, TaskFacts DEF MovesTyped, MovesTypeOK
  <2>3. /\ onNotion' \in [Pages -> NotionPage \cup {Gone}]
        /\ tracked' \in [Pages -> Tracking \cup {Untracked}]
        /\ onNotion'[g] = Gone /\ tracked'[g] = Untracked
        /\ \A h \in Pages \ {g} : onNotion'[h] = onNotion[h] /\ tracked'[h] = tracked[h]
    BY <2>1, <2>2
  <2> QED BY <1>1, <2>1, <2>2, <2>3, PageStepKeepsPages
<1> QED BY <1>2, <1>3
(* The step a moved note's task goes on with. *)
LEMMA NextStep ==
    ASSUME NEW j \in Tasks, NEW s \in Steps
    PROVE  LET k == [j EXCEPT !.step = s]
           IN  /\ k \in Tasks /\ k.at = j.at /\ k.kind = j.kind /\ k.step = s /\ k.dir = j.dir
               /\ k.name = j.name /\ k.text = j.text
BY DEF Tasks

LEMMA StartMoveKeepsPages == ASSUME PagesInv, NEW j \in tasks, StartMove(j) PROVE PagesInv'
<1>1. j.kind = "moved" /\ j.step = "start" /\ Apart /\ UNCHANGED <<onNotion, tracked>>
  BY PushIsApart DEF StartMove, On
<1>2. /\ j \in Tasks /\ j.at \in Paths /\ Dir(j.at) \in Dirs /\ Name(j.at) \in Names
      /\ "same" \notin Dirs /\ "same" \notin Names
  BY TaskFacts, PathFacts, MovesAssumption
<1>3. PICK g \in RecordAt(j.at) :
        LET from == IF tracked[g].origin = Nowhere THEN j.from ELSE tracked[g].origin
            dir  == IF Dir(j.at) = tracked[g].dir THEN "same" ELSE Dir(j.at)
        IN  OnTo(j, [j EXCEPT !.step = "parent", !.dir = dir, !.name = NewName(g, from, j.at)])
  BY DEF StartMove
<1> DEFINE from == IF tracked[g].origin = Nowhere THEN j.from ELSE tracked[g].origin
           dir  == IF Dir(j.at) = tracked[g].dir THEN "same" ELSE Dir(j.at)
           name == NewName(g, from, j.at)
<1>4. PICK k : k = [j EXCEPT !.step = "parent", !.dir = dir, !.name = name]
  OBVIOUS
<1>5. OnTo(j, k)
  BY <1>3, <1>4
<1>6. dir \in Dirs \cup {"same"} /\ name \in {Name(j.at), "same"}
  BY <1>2 DEF NewName
<1>7. /\ k \in Tasks /\ k.at = j.at /\ k.kind = j.kind /\ k.step = "parent" /\ k.dir = dir /\ k.name = name
  BY <1>2, <1>4, <1>6 DEF Tasks, Steps
<1>8. tracked[g].path = j.at /\ Told(g) /\ g \in Pages
  BY TaskFacts
<1>9. UnderWay(k, g)
  <2>1. k.dir = "same" => tracked[g].dir = Dir(j.at)
    BY <1>2, <1>7
  <2>2. k.dir # "same" => k.dir = Dir(j.at)
    BY <1>7
  <2>3. ASSUME g \notin torn, name = "same" PROVE onNotion[g].name = Name(j.at)
    <3>1. onNotion[g].name # Name(from) \/ Name(j.at) = Name(from)
      BY <1>2, <2>3 DEF NewName
    <3>2. onNotion[g].name \in {Name(LastKnown(g)), Name(j.at)}
      BY <1>8, <2>3 DEF Told
    <3>3. LastKnown(g) = IF tracked[g].origin = Nowhere THEN j.at ELSE from
      BY <1>8 DEF LastKnown
    <3> QED BY <3>1, <3>2, <3>3
  <2> QED BY <1>6, <1>7, <2>1, <2>2, <2>3 DEF UnderWay
<1>10. \A h \in RecordAt(j.at) : h = g
  BY DEF PagesInv, OneEach, RecordAt
<1>11. Becomes(j, {k})
  BY <1>5, <1>7, TaskGoesOn
<1>12. \A l \in {k}, h \in RecordAt(j.at) : Ongoing(l) => UnderWay(l, h)
  BY <1>9, <1>10
<1> QED BY <1>1, <1>11, <1>12, QuietStepKeepsPages

(* Of a step that sets the page's folder or its title. *)
LEMMA PlaceStepKeepsPages ==
    ASSUME PagesInv, NEW j \in tasks, Ongoing(j), NEW s \in {"title", "store"}, Apart,
           OnTo(j, [j EXCEPT !.step = s]), NEW g \in RecordAt(j.at), tracked' = tracked,
           \/ onNotion' = onNotion
           \/ onNotion' = [onNotion EXCEPT ![g].dir = Dir(j.at)]
           \/ onNotion' = [onNotion EXCEPT ![g].name = Name(j.at)],
           g \notin torn => onNotion'[g].dir = Dir(j.at) /\ (s = "store" => onNotion'[g].name = Name(j.at))
    PROVE  PagesInv'
<1>1. /\ j \in Tasks /\ j.at \in Paths /\ Dir(j.at) \in Dirs /\ Name(j.at) \in Names
      /\ j.at = <<Dir(j.at), Name(j.at)>> /\ tracked[g].path = j.at /\ Told(g) /\ UnderWay(j, g)
      /\ g \in Pages /\ g \in Records /\ onNotion[g] \in NotionPage /\ onNotion[g].text = tracked[g].text
  BY TaskFacts, PathFacts
<1>2. PICK k : k = [j EXCEPT !.step = s]
  OBVIOUS
<1>3. /\ k \in Tasks /\ k.at = j.at /\ k.kind = j.kind /\ k.step = s /\ k.dir = j.dir /\ k.name = j.name
  <2>1. s \in Steps
    BY DEF Steps
  <2> QED BY <1>1, <1>2, <2>1, NextStep
<1>4. /\ onNotion \in [Pages -> NotionPage \cup {Gone}] /\ tracked \in [Pages -> Tracking \cup {Untracked}]
  BY DEF PagesInv, MovesTyped, MovesTypeOK
<1>5. PICK page \in NotionPage :
        /\ onNotion' = [onNotion EXCEPT ![g] = page]
        /\ page.text = onNotion[g].text
        /\ page.dir \in {onNotion[g].dir, Dir(j.at)} /\ page.name \in {onNotion[g].name, Name(j.at)}
  <2>1. CASE onNotion' = onNotion
    BY <1>1, <1>4, <2>1
  <2>2. CASE onNotion' = [onNotion EXCEPT ![g].dir = Dir(j.at)]
    <3>1. [onNotion[g] EXCEPT !.dir = Dir(j.at)] \in NotionPage
      BY <1>1 DEF NotionPage
    <3> QED BY <1>1, <2>2, <3>1 DEF NotionPage
  <2>3. CASE onNotion' = [onNotion EXCEPT ![g].name = Name(j.at)]
    <3>1. [onNotion[g] EXCEPT !.name = Name(j.at)] \in NotionPage
      BY <1>1 DEF NotionPage
    <3> QED BY <1>1, <2>3, <3>1 DEF NotionPage
  <2> QED BY <2>1, <2>2, <2>3
<1>6. /\ onNotion' \in [Pages -> NotionPage \cup {Gone}] /\ onNotion'[g] = page /\ page # Gone
      /\ \A h \in Pages \ {g} : onNotion'[h] = onNotion[h]
  <2>1. page # Gone
    BY DEF NotionPage, Gone
  <2> QED BY <1>1, <1>4, <1>5, <2>1
<1>7. tracked'[g] = tracked[g] /\ tracked'[g] # Untracked /\ LastKnown(g)' = LastKnown(g) /\ torn' = torn
  BY <1>1 DEF Records, LastKnown, Apart
<1>8. Told(g)'
  <2>1. tracked'[g].dir = Dir(LastKnown(g)')
    BY <1>1, <1>7 DEF Told
  <2>2. ASSUME g \notin torn
        PROVE  /\ onNotion'[g].dir \in {Dir(LastKnown(g)), Dir(tracked[g].path)}
               /\ onNotion'[g].name \in {Name(LastKnown(g)), Name(tracked[g].path)}
               /\ tracked[g].origin = Nowhere => PlaceOf(g)' = tracked[g].path
    <3>1. /\ onNotion[g].dir \in {Dir(LastKnown(g)), Dir(tracked[g].path)}
          /\ onNotion[g].name \in {Name(LastKnown(g)), Name(tracked[g].path)}
          /\ tracked[g].origin = Nowhere => LastKnown(g) = tracked[g].path
      BY <1>1, <2>2 DEF Told, LastKnown
    <3>2. /\ onNotion'[g].dir \in {Dir(LastKnown(g)), Dir(tracked[g].path)}
          /\ onNotion'[g].name \in {Name(LastKnown(g)), Name(tracked[g].path)}
      BY <1>1, <1>5, <1>6, <3>1
    <3>3. PlaceOf(g)' = <<onNotion'[g].dir, onNotion'[g].name>>
      BY DEF PlaceOf
    <3> QED BY <1>1, <3>1, <3>2, <3>3
  <2> QED BY <1>7, <2>1, <2>2 DEF Told
<1>9. UnderWay(k, g)'
  <2>1. /\ k.dir = "same" => tracked'[g].dir = Dir(k.at)
        /\ k.dir # "same" => k.dir = Dir(k.at)
        /\ k.name # "same" => k.name = Name(k.at)
    BY <1>1, <1>3, <1>7 DEF UnderWay
  <2>2. ASSUME g \notin torn
        PROVE  /\ k.name = "same" \/ k.step = "store" => onNotion'[g].name = Name(k.at)
               /\ k.step \in {"title", "store"} => onNotion'[g].dir = Dir(k.at)
    <3>1. j.name = "same" => onNotion'[g].name = Name(j.at)
      BY <1>1, <1>5, <1>6, <2>2 DEF UnderWay
    <3> QED BY <1>3, <2>2, <3>1
  <2> QED BY <1>7, <2>1, <2>2 DEF UnderWay
<1>10. OnTo(j, k)
  BY <1>2
<1>11. Becomes(j, {k}) /\ j.kind # "created" /\ onNotion'[g].text = tracked'[g].text
  BY <1>1, <1>3, <1>5, <1>6, <1>7, <1>10, TaskGoesOn DEF Ongoing
<1> QED BY <1>1, <1>4, <1>6, <1>7, <1>8, <1>9, <1>11, PageStepKeepsPages

LEMMA MovePageKeepsPages == ASSUME PagesInv, NEW j \in tasks, MovePage(j) PROVE PagesInv'
<1>1. /\ j.kind = "moved" /\ j.step = "parent" /\ Ongoing(j) /\ Apart /\ tracked' = tracked
      /\ OnTo(j, [j EXCEPT !.step = "title"])
  BY PushIsApart DEF MovePage, On, Ongoing
<1>2. PICK g \in RecordAt(j.at) :
        onNotion' = IF j.dir = "same" THEN onNotion ELSE [onNotion EXCEPT ![g].dir = j.dir]
  BY DEF MovePage
<1>3. /\ Told(g) /\ UnderWay(j, g) /\ tracked[g].path = j.at /\ onNotion[g] \in NotionPage /\ g \in Pages
  BY <1>1, TaskFacts
<1>4. onNotion \in [Pages -> NotionPage \cup {Gone}]
  BY DEF PagesInv, MovesTyped, MovesTypeOK
<1>5. g \notin torn => onNotion'[g].dir = Dir(j.at)
  <2>1. CASE j.dir = "same"
    BY <1>2, <1>3, <2>1 DEF Told, UnderWay
  <2>2. CASE j.dir # "same"
    <3>1. onNotion'[g] = [onNotion[g] EXCEPT !.dir = j.dir]
      BY <1>2, <1>3, <1>4, <2>2
    <3> QED BY <1>3, <2>2, <3>1 DEF UnderWay, NotionPage
  <2> QED BY <2>1, <2>2
<1>6. onNotion' = onNotion \/ onNotion' = [onNotion EXCEPT ![g].dir = Dir(j.at)]
  BY <1>2, <1>3 DEF UnderWay
<1> QED BY <1>1, <1>5, <1>6, PlaceStepKeepsPages

LEMMA SetTitleKeepsPages == ASSUME PagesInv, NEW j \in tasks, SetTitle(j) PROVE PagesInv'
<1>1. /\ j.kind = "moved" /\ j.step = "title" /\ Ongoing(j) /\ Apart /\ tracked' = tracked
      /\ OnTo(j, [j EXCEPT !.step = "store"])
  BY PushIsApart DEF SetTitle, On, Ongoing
<1>2. PICK g \in RecordAt(j.at) :
        onNotion' = IF j.name = "same" THEN onNotion ELSE [onNotion EXCEPT ![g].name = j.name]
  BY DEF SetTitle
<1>3. /\ UnderWay(j, g) /\ onNotion[g] \in NotionPage /\ g \in Pages
  BY <1>1, TaskFacts
<1>4. onNotion \in [Pages -> NotionPage \cup {Gone}]
  BY DEF PagesInv, MovesTyped, MovesTypeOK
<1>5. g \notin torn => onNotion'[g].dir = Dir(j.at) /\ onNotion'[g].name = Name(j.at)
  <2>1. CASE j.name = "same"
    BY <1>1, <1>2, <1>3, <2>1 DEF UnderWay
  <2>2. CASE j.name # "same"
    <3>1. onNotion'[g] = [onNotion[g] EXCEPT !.name = j.name]
      BY <1>2, <1>3, <1>4, <2>2
    <3> QED BY <1>1, <1>3, <2>2, <3>1 DEF UnderWay, NotionPage
  <2> QED BY <2>1, <2>2
<1>6. onNotion' = onNotion \/ onNotion' = [onNotion EXCEPT ![g].name = Name(j.at)]
  BY <1>2, <1>3 DEF UnderWay
<1> QED BY <1>1, <1>5, <1>6, PlaceStepKeepsPages
LEMMA StoreFacts ==
    ASSUME PagesInv, NEW j \in tasks, StoreMove(j)
    PROVE  /\ Apart /\ onNotion' = onNotion /\ Ongoing(j) /\ j.step = "store"
           /\ \E g \in RecordAt(j.at), K \in {{}, {[j EXCEPT !.step = "body"]}} :
                /\ Becomes(j, K) /\ (tracked[g].text # j.text => K # {})
                /\ g \in Pages /\ tracked'[g] = [tracked[g] EXCEPT !.origin = Nowhere, !.dir = Dir(j.at)]
                /\ tracked'[g] \in Tracking /\ tracked'[g] # Untracked
                /\ \A h \in Pages \ {g} : tracked'[h] = tracked[h]
                /\ tracked' \in [Pages -> Tracking \cup {Untracked}]
<1>1. /\ j.kind = "moved" /\ j.step = "store" /\ Apart /\ onNotion' = onNotion /\ Ongoing(j)
  BY PushIsApart DEF StoreMove, On, Ongoing
<1>2. PICK g \in RecordAt(j.at) :
        /\ tracked' = [tracked EXCEPT ![g].origin = Nowhere, ![g].dir = StoredParent(g, j)]
        /\ IF tracked[g].text = j.text THEN TaskDone(j) ELSE OnTo(j, [j EXCEPT !.step = "body"])
  BY DEF StoreMove
<1>3. /\ UnderWay(j, g) /\ tracked[g] \in Tracking /\ g \in Pages /\ j \in Tasks /\ j.at \in Paths
  BY <1>1, TaskFacts
<1>4. StoredParent(g, j) = Dir(j.at) /\ Dir(j.at) \in Dirs
  BY <1>3, PathFacts DEF StoredParent, UnderWay
<1>5. tracked \in [Pages -> Tracking \cup {Untracked}]
  BY DEF PagesInv, MovesTyped, MovesTypeOK
<1>6. tracked' = [tracked EXCEPT ![g] = [tracked[g] EXCEPT !.origin = Nowhere, !.dir = Dir(j.at)]]
  BY <1>2, <1>3, <1>4, <1>5
<1>7. [tracked[g] EXCEPT !.origin = Nowhere, !.dir = Dir(j.at)] \in Tracking /\ Untracked \notin Tracking
  BY <1>3, <1>4 DEF Tracking, Untracked
<1>8. \E K \in {{}, {[j EXCEPT !.step = "body"]}} : Becomes(j, K) /\ (tracked[g].text # j.text => K # {})
  <2>1. CASE tracked[g].text = j.text
    BY <1>2, <2>1, TaskEnds
  <2>2. CASE tracked[g].text # j.text
    <3>1. PICK k : k = [j EXCEPT !.step = "body"]
      OBVIOUS
    <3>2. k \in Tasks /\ k.at = j.at /\ k.kind = j.kind
      BY <1>3, <3>1 DEF Tasks, Steps
    <3>3. Becomes(j, {k})
      BY <1>2, <2>2, <3>1, <3>2, TaskGoesOn
    <3> QED BY <3>1, <3>3
  <2> QED BY <2>1, <2>2
<1>9. /\ tracked'[g] = [tracked[g] EXCEPT !.origin = Nowhere, !.dir = Dir(j.at)]
      /\ \A h \in Pages \ {g} : tracked'[h] = tracked[h]
      /\ tracked' \in [Pages -> Tracking \cup {Untracked}]
  BY <1>3, <1>5, <1>6, <1>7
<1> QED BY <1>1, <1>2, <1>3, <1>7, <1>8, <1>9

LEMMA StoreMoveKeepsPages == ASSUME PagesInv, NEW j \in tasks, StoreMove(j) PROVE PagesInv'
<1>1. /\ Apart /\ onNotion' = onNotion /\ Ongoing(j) /\ j.step = "store"
  BY StoreFacts
<1>2. PICK g \in RecordAt(j.at), K \in {{}, {[j EXCEPT !.step = "body"]}} :
        /\ Becomes(j, K)
        /\ g \in Pages /\ tracked'[g] = [tracked[g] EXCEPT !.origin = Nowhere, !.dir = Dir(j.at)]
        /\ tracked'[g] \in Tracking /\ tracked'[g] # Untracked
        /\ \A h \in Pages \ {g} : tracked'[h] = tracked[h]
        /\ tracked' \in [Pages -> Tracking \cup {Untracked}]
  BY StoreFacts
<1>3. /\ UnderWay(j, g) /\ tracked[g] \in Tracking /\ tracked[g].path = j.at /\ j \in Tasks /\ j.at \in Paths
      /\ onNotion[g] \in NotionPage /\ onNotion[g].text = tracked[g].text
  BY <1>1, TaskFacts
<1>4. /\ tracked'[g].path = j.at /\ tracked'[g].origin = Nowhere /\ tracked'[g].dir = Dir(j.at)
      /\ tracked'[g].text = tracked[g].text
  BY <1>2, <1>3 DEF Tracking
<1>5. Told(g)'
  <2>1. LastKnown(g)' = j.at /\ torn' = torn /\ PlaceOf(g)' = <<onNotion[g].dir, onNotion[g].name>>
    BY <1>1, <1>4 DEF LastKnown, Apart, PlaceOf
  <2>2. g \notin torn => onNotion[g].dir = Dir(j.at) /\ onNotion[g].name = Name(j.at)
    BY <1>1, <1>3 DEF UnderWay
  <2>3. j.at = <<Dir(j.at), Name(j.at)>>
    BY <1>3, PathFacts
  <2> QED BY <1>1, <1>4, <2>1, <2>2, <2>3 DEF Told
<1>6. \A k \in K : ~Ongoing(k)
  BY <1>2, <1>3 DEF Ongoing, Tasks
<1>7. onNotion \in [Pages -> NotionPage \cup {Gone}] /\ onNotion[g] # Gone
  BY <1>3 DEF PagesInv, MovesTyped, MovesTypeOK, NotionPage, Gone
<1>8. /\ onNotion' \in [Pages -> NotionPage \cup {Gone}] /\ onNotion'[g] # Gone
      /\ \A h \in Pages \ {g} : onNotion'[h] = onNotion[h] /\ tracked'[h] = tracked[h]
      /\ onNotion'[g].text = tracked'[g].text
  BY <1>1, <1>2, <1>3, <1>4, <1>7
<1>9. j.kind # "created" /\ \A k \in K : Ongoing(k) => UnderWay(k, g)'
  BY <1>1, <1>6 DEF Ongoing
<1> QED BY <1>1, <1>2, <1>4, <1>5, <1>8, <1>9, PageStepKeepsPages

(* A task that failed is tried once more from the beginning. *)
LEMMA FailFacts ==
    ASSUME PagesInv, NEW j \in tasks, FailedOnce(j)
    PROVE  \E K \in {{}, {[j EXCEPT !.step = "start", !.dir = "same", !.name = "same", !.again = TRUE]}} :
             Becomes(j, K) /\ \A k \in K : k.step = "start" /\ ~Ongoing(k)
<1>1. j \in Tasks
  BY TaskFacts
<1>2. CASE j.again
  BY <1>2, TaskEnds DEF FailedOnce
<1>3. CASE ~j.again
  <2>1. PICK k : k = [j EXCEPT !.step = "start", !.dir = "same", !.name = "same", !.again = TRUE]
    OBVIOUS
  <2>2. k \in Tasks /\ k.at = j.at /\ k.kind = j.kind /\ k.step = "start"
    BY <1>1, <2>1 DEF Tasks, Steps
  <2>3. Becomes(j, {k})
    BY <1>3, <2>1, <2>2, TaskGoesOn DEF FailedOnce
  <2>4. ~Ongoing(k)
    BY <2>2 DEF Ongoing
  <2> QED BY <2>1, <2>2, <2>3, <2>4
<1> QED BY <1>2, <1>3

LEMMA FailureKeepsPages ==
    ASSUME PagesInv, NEW j \in tasks, Misses(j) \/ FileIsGone(j) PROVE PagesInv'
<1>1. /\ Apart /\ FailedOnce(j) /\ UNCHANGED <<onNotion, tracked>>
  <2>1. misses \in 0..MaxMisses /\ MaxMisses \in Nat
    BY MovesAssumption DEF PagesInv, MovesTyped, MovesTypeOK
  <2>2. CASE Misses(j)
    <3>1. misses' \in 0..MaxMisses
      BY <2>1, <2>2 DEF Misses
    <3> QED BY <2>2, <3>1 DEF Misses, Apart, world, state
  <2>3. CASE FileIsGone(j)
    <3>1. misses' = misses
      BY <2>3 DEF FileIsGone, notion
    <3> QED BY <2>1, <2>3, <3>1 DEF FileIsGone, Apart, world, state, notion
  <2> QED BY <2>2, <2>3
<1>2. PICK K : Becomes(j, K) /\ \A k \in K : k.step = "start" /\ ~Ongoing(k)
  BY <1>1, FailFacts
<1> QED BY <1>1, <1>2, QuietStepKeepsPages

LEMMA PushDiesKeepsPages == ASSUME PagesInv, PushDies PROVE PagesInv'
<1>1. /\ misses' = misses + 1 /\ misses < MaxMisses
      /\ listing' = NoListing /\ plan' = NoPlan /\ tasks' = {} /\ calm' = FALSE
      /\ UNCHANGED <<hinting, where, version, changed, onNotion, hints, tracked, torn, severed>>
  BY DEF PushDies, world, state
<1>2. MovesTyped /\ OneEach /\ Moving
  BY DEF PagesInv
<1>3. MovesTyped'
  <2>1. misses' \in 0..MaxMisses
    BY <1>1, <1>2, MovesAssumption DEF MovesTyped, MovesTypeOK
  <2>2. Texts' = Texts /\ Paths' = Paths /\ Tasks' = Tasks /\ Plans' = Plans
    BY DEF Texts, Paths, Tasks, Plans
  <2> QED BY <1>1, <1>2, <2>1, <2>2 DEF MovesTyped, MovesTypeOK
<1>4. /\ Records' = Records /\ \A g : LastKnown(g)' = LastKnown(g) /\ PlaceOf(g)' = PlaceOf(g) /\ Told(g)' = Told(g)
  BY <1>1 DEF Records, LastKnown, PlaceOf, Told
<1>5. OneEach' /\ InTurn' /\ PlanFits' /\ CreatesNew' /\ Moving'
  BY <1>1, <1>2, <1>4 DEF OneEach, InTurn, Planning, PlanFits, CreatesNew, Moving
<1> QED BY <1>3, <1>5 DEF PagesInv
--------------------------------------------------------------------------------
LEMMA PagesInit == ASSUME MovesInit PROVE PagesInv
<1>1. /\ hinting \in BOOLEAN /\ where \in [Notes -> Paths \cup {Nowhere}]
      /\ \A m, n \in Notes : m # n /\ where[m] = where[n] => where[m] = Nowhere
      /\ version = [n \in Notes |-> 0] /\ changed = 0 /\ misses = 0
      /\ hints = [p \in Paths |-> Nowhere]
      /\ listing = NoListing /\ plan = NoPlan /\ tasks = {}
      /\ severed = {} /\ torn = {} /\ calm = FALSE
  BY DEF MovesInit
<1> DEFINE Known0(g) == g \in Notes /\ where[g] # Nowhere
<1>2. \A g \in Notes : Known0(g) => /\ where[g] \in Paths /\ Dir(where[g]) \in Dirs /\ Name(where[g]) \in Names
                                    /\ where[g] = <<Dir(where[g]), Name(where[g])>> /\ <<g, 0>> \in Texts
  BY <1>1, PathFacts, MovesAssumption DEF Texts
<1>3. /\ onNotion = [g \in Pages |->
           IF Known0(g)
           THEN [text |-> <<g, 0>>, dir |-> Dir(where[g]), name |-> Name(where[g])]
           ELSE Gone]
      /\ tracked = [g \in Pages |->
           IF Known0(g)
           THEN [path |-> where[g], text |-> <<g, 0>>, dir |-> Dir(where[g]), origin |-> Nowhere]
           ELSE Untracked]
  BY DEF MovesInit
<1>4. ASSUME NEW g \in Pages, Known0(g)
      PROVE  /\ onNotion[g] = [text |-> <<g, 0>>, dir |-> Dir(where[g]), name |-> Name(where[g])]
             /\ tracked[g] = [path |-> where[g], text |-> <<g, 0>>, dir |-> Dir(where[g]), origin |-> Nowhere]
             /\ tracked[g] \in Tracking /\ onNotion[g] \in NotionPage
             /\ tracked[g] # Untracked /\ onNotion[g] # Gone
  <2>1. /\ onNotion[g] = [text |-> <<g, 0>>, dir |-> Dir(where[g]), name |-> Name(where[g])]
        /\ tracked[g] = [path |-> where[g], text |-> <<g, 0>>, dir |-> Dir(where[g]), origin |-> Nowhere]
    BY <1>3, <1>4
  <2>2. tracked[g] \in Tracking /\ onNotion[g] \in NotionPage
    BY <1>2, <1>4, <2>1 DEF Tracking, NotionPage
  <2>3. Untracked \notin Tracking /\ Gone \notin NotionPage
    BY DEF Untracked, Tracking, Gone, NotionPage
  <2> QED BY <2>1, <2>2, <2>3
<1>5. \A g \in Pages : ~Known0(g) => onNotion[g] = Gone /\ tracked[g] = Untracked
  BY <1>3
<1>6. MovesTyped
  <2>1. version \in [Notes -> 0..MaxChanges] /\ \A n \in Notes : version[n] <= changed
    BY <1>1, MovesAssumption
  <2>2. hints \in [Paths -> Paths \cup {Nowhere}]
    BY <1>1
  <2>3. /\ onNotion \in [Pages -> NotionPage \cup {Gone}]
        /\ tracked \in [Pages -> Tracking \cup {Untracked}]
    <3>1. \A g \in Pages : onNotion[g] \in NotionPage \cup {Gone} /\ tracked[g] \in Tracking \cup {Untracked}
      BY <1>4, <1>5
    <3> QED BY <1>3, <3>1
  <2>4. changed \in 0..MaxChanges /\ misses \in 0..MaxMisses
    BY <1>1, MovesAssumption
  <2> QED BY <1>1, <2>1, <2>2, <2>3, <2>4 DEF MovesTyped, MovesTypeOK
<1>7. \A g \in Pages : g \in Records <=> Known0(g)
  BY <1>4, <1>5 DEF Records
<1>11. ASSUME NEW g \in Records
       PROVE  /\ g \in Pages /\ Known0(g) /\ tracked[g].path = where[g] /\ tracked[g].origin = Nowhere
              /\ tracked[g].text = <<g, 0>> /\ tracked[g].dir = Dir(where[g])
              /\ onNotion[g].dir = Dir(where[g]) /\ onNotion[g].name = Name(where[g])
              /\ onNotion[g].text = <<g, 0>>
  <2>1. g \in Pages /\ Known0(g)
    BY <1>7 DEF Records
  <2>2. /\ onNotion[g] = [text |-> <<g, 0>>, dir |-> Dir(where[g]), name |-> Name(where[g])]
        /\ tracked[g] = [path |-> where[g], text |-> <<g, 0>>, dir |-> Dir(where[g]), origin |-> Nowhere]
    BY <1>4, <2>1
  <2> HIDE DEF Known0
  <2> QED BY <2>1, <2>2
<1>8. OneEach
  <2>1. \A g, h \in Records : tracked[g].path = tracked[h].path => g = h
    BY <1>1, <1>11
  <2>2. \A g \in Pages : onNotion[g] = Gone <=> tracked[g] = Untracked
    BY <1>4, <1>5
  <2>3. \A g \in Records : onNotion[g].text = tracked[g].text
    BY <1>11
  <2> QED BY <1>1, <2>1, <2>2, <2>3 DEF OneEach
<1>9. InTurn /\ PlanFits /\ CreatesNew
  BY <1>1 DEF InTurn, Planning, PlanFits, CreatesNew
<1>10. Moving
  <2>1. ASSUME NEW g \in Records PROVE Told(g)
    <3>1. g \in Pages /\ Known0(g)
      BY <1>7 DEF Records
    <3>2. /\ LastKnown(g) = where[g] /\ PlaceOf(g) = <<Dir(where[g]), Name(where[g])>>
          /\ tracked[g].dir = Dir(where[g]) /\ tracked[g].path = where[g]
          /\ onNotion[g].dir = Dir(where[g]) /\ onNotion[g].name = Name(where[g])
      BY <1>11 DEF LastKnown, PlaceOf
    <3> QED BY <1>2, <3>1, <3>2 DEF Told
  <2> QED BY <1>1, <2>1 DEF Moving
<1> QED BY <1>6, <1>8, <1>9, <1>10 DEF PagesInv

LEMMA PagesStep == ASSUME PagesInv, [MovesNext]_movesVars PROVE PagesInv'
<1>1. CASE People
  BY <1>1, PeopleStepsAre, PeopleKeepPages
<1>2. CASE ListFiles
  BY <1>2, ListFilesKeepsPages
<1>3. CASE MakePlan
  BY <1>3, MakePlanKeepsPages
<1>4. CASE Adopt
  BY <1>4, AdoptKeepsPages
<1>5. ASSUME NEW j \in tasks, PushUpdate(j) \/ SendMoved(j) PROVE PagesInv'
  <2>1. PICK g \in RecordAt(j.at) : SendFile(g, j.at)
    BY <1>5 DEF PushUpdate, SendMoved
  <2>2. TaskDone(j) /\ Apart
    BY <1>5, PushIsApart DEF PushUpdate, SendMoved
  <2> QED BY <2>1, <2>2, SendKeepsPages
<1>6. CASE PushStep
  BY <1>5, <1>6, PushCreateKeepsPages, PushDeleteKeepsPages, StartMoveKeepsPages, MovePageKeepsPages,
     SetTitleKeepsPages, StoreMoveKeepsPages, FailureKeepsPages DEF PushStep
<1>7. CASE \E j \in tasks : Misses(j)
  BY <1>7, FailureKeepsPages
<1>8. CASE PushDies
  BY <1>8, PushDiesKeepsPages
<1>9. CASE UNCHANGED movesVars
  <2>1. /\ UNCHANGED <<hinting, where, version, changed, onNotion, misses, hints, tracked, torn, listing,
                       plan, tasks, severed, calm>>
    BY <1>9 DEF movesVars, world, notion, state, work
  <2>2. PeopleStep
    <3>1. Texts' = Texts /\ Paths' = Paths /\ Tasks' = Tasks /\ Plans' = Plans
      BY DEF Texts, Paths, Tasks, Plans
    <3> QED BY <2>1, <3>1 DEF PagesInv, MovesTyped, MovesTypeOK, OneEach, PeopleStep
  <2> QED BY <2>2, PeopleKeepPages
<1> QED BY <1>1, <1>2, <1>3, <1>4, <1>6, <1>7, <1>8, <1>9 DEF MovesNext

(* ChangeDetector, LocalPlanner and PagePusher: what is kept of notes, pages, hints, plans *)
(* and changes to apply has its type.                                                      *)
THEOREM MovesTypes == MovesSpec => []MovesTypeOK
<1>1. MovesSpec => []PagesInv
  BY PagesInit, PagesStep, PTL DEF MovesSpec
<1>2. PagesInv => MovesTypeOK
  BY DEF PagesInv, MovesTyped
<1> QED BY <1>1, <1>2, PTL

(* LocalPlanner's operation and PagePusher's move: a page without an open operation is where *)
(* the state DB has its note, and one with an open operation is still on the way from the    *)
(* place Notion was last told of to the note's, whatever renames, failures and crashes       *)
(* come in between.                                                                          *)
THEOREM PagesAreWhereRecorded == MovesSpec => []PageWhereRecorded
<1>1. MovesSpec => []PagesInv
  BY PagesInit, PagesStep, PTL DEF MovesSpec
<1>2. PagesInv => PageWhereRecorded
  BY DEF PagesInv, Moving, Told, PageWhereRecorded
<1> QED BY <1>1, <1>2, PTL
--------------------------------------------------------------------------------
(* A note that can be followed keeps its page: people's steps. *)

LEMMA FollowInit == ASSUME MovesInit PROVE FollowInv
<1>1. PagesInv
  BY PagesInit
<1>2. /\ hints = [p \in Paths |-> Nowhere] /\ listing = NoListing /\ plan = NoPlan /\ tasks = {}
      /\ where \in [Notes -> Paths \cup {Nowhere}]
      /\ \A m, n \in Notes : m # n /\ where[m] = where[n] => where[m] = Nowhere
  BY DEF MovesInit
<1>3. ASSUME NEW g \in Records
      PROVE  /\ g \in Notes /\ where[g] # Nowhere /\ tracked[g].path = where[g] /\ tracked[g].text[1] = g
             /\ Known(g) = {where[g]}
  <2>1. tracked[g] = IF g \in Notes /\ where[g] # Nowhere
           THEN [path |-> where[g], text |-> <<g, 0>>, dir |-> Dir(where[g]), origin |-> Nowhere]
           ELSE Untracked
    BY DEF MovesInit, Records
  <2>2. g \in Notes /\ where[g] # Nowhere
    BY <2>1 DEF Records
  <2> QED BY <2>1, <2>2 DEF Known
<1>4. \A p \in Paths : hints[p] = Nowhere
  BY <1>2
<1>5. Followed
  <2>1. ASSUME NEW n \in Notes, NEW g \in Pages, HasRecord(g, n) PROVE OwnPage(n, g)
    <3>1. g \in Records /\ g = n /\ where[n] \in Paths /\ tracked[g].path = where[n] /\ Known(g) = {where[n]}
      BY <1>2, <1>3, <2>1 DEF HasRecord
    <3>2. \A h \in Pages : HasRecord(h, n) => h = g
      BY <1>3, <3>1 DEF HasRecord
    <3>3. NotesAt(where[n]) \subseteq {n}
      BY <1>2, <3>1, PathFacts DEF NotesAt
    <3> QED BY <1>4, <3>1, <3>2, <3>3, PathFacts DEF OwnPage, Tied
  <2>2. ASSUME NEW n \in Notes, where[n] # Nowhere PROVE OwnPlace(n) /\ OwnHint(n)
    <3>1. where[n] \in Paths
      BY <1>2, <2>2
    <3>2. ASSUME NEW g \in Records, where[n] \in Known(g) PROVE HasRecord(g, n)
      BY <1>2, <1>3, <2>2, <3>2 DEF HasRecord
    <3> QED BY <1>4, <3>1, <3>2, PathFacts DEF OwnPlace, OwnHint
  <2> QED BY <2>1, <2>2 DEF Followed
<1> QED BY <1>2, <1>4, <1>5 DEF FollowInv, HintsOfNotes, SeenSo, PairedSo, PushedSo, Right

(* What the steps of people leave as it is. *)
LEMMA PeopleUnchanged ==
    ASSUME UNCHANGED <<tracked, listing, plan, tasks>>
    PROVE  /\ Records' = Records /\ Listed' = Listed /\ Adopting' = Adopting /\ Creating' = Creating
           /\ \A g, n : HasRecord(g, n)' = HasRecord(g, n)
           /\ \A g : Known(g)' = Known(g)
BY DEF Records, Listed, Adopting, Creating, HasRecord, Known

LEMMA RenameFacts ==
    ASSUME PagesInv, HintsOfNotes, NEW n \in Notes, NEW to \in Paths, Rename(n, to)
    PROVE  /\ where[n] \in Paths /\ where[n] # to /\ where'[n] = to
           /\ \A m \in Notes \ {n} : where'[m] = where[m] /\ where[m] # where[n] /\ where[m] # to
           /\ \A a : NotesAt(a)' = (NotesAt(a) \ {n}) \cup (IF a = to THEN {n} ELSE {})
           /\ NotesAt(where[n]) = {n} /\ NotesAt(to) = {}
           /\ \A q \in Paths \ {where[n], to} : hints'[q] = hints[q]
           /\ hints'[where[n]] = Nowhere /\ hints'[to] # to
           /\ hints'[to] \in {Nowhere, IF hints[where[n]] = Nowhere THEN where[n] ELSE hints[where[n]]}
           /\ hinting => hints'[to] = LET o == IF hints[where[n]] = Nowhere THEN where[n] ELSE hints[where[n]]
                                      IN  IF o = to THEN Nowhere ELSE o
           /\ ~hinting => \A q \in Paths : hints'[q] = Nowhere
           /\ UNCHANGED <<hinting, version, onNotion, misses, tracked, torn, listing, plan, tasks>>
           /\ severed' = severed \cup SeveredBy(n, where[n], to)
<1>1. /\ where \in [Notes -> Paths \cup {Nowhere}] /\ hints \in [Paths -> Paths \cup {Nowhere}]
      /\ \A m, k \in Notes : where[m] = where[k] /\ where[m] # Nowhere => m = k
  BY DEF PagesInv, MovesTyped, MovesTypeOK, OneEach
<1>2. /\ where[n] # Nowhere /\ NotesAt(to) = {} /\ where' = [where EXCEPT ![n] = to]
      /\ hints' = IF hinting THEN Recorded(where[n], to) ELSE hints
      /\ UNCHANGED <<hinting, version, onNotion, misses, tracked, torn, listing, plan, tasks>>
      /\ severed' = severed \cup SeveredBy(n, where[n], to)
  BY DEF Rename, notion, work
<1>3. where[n] \in Paths /\ where[n] # to /\ where'[n] = to /\ Nowhere \notin Paths
  BY <1>1, <1>2, PathFacts DEF NotesAt
<1>4. \A m \in Notes \ {n} : where'[m] = where[m] /\ where[m] # where[n] /\ where[m] # to
  BY <1>1, <1>2 DEF NotesAt
<1>5. \A a : NotesAt(a)' = (NotesAt(a) \ {n}) \cup (IF a = to THEN {n} ELSE {})
  BY <1>3, <1>4 DEF NotesAt
<1>6. NotesAt(where[n]) = {n}
  BY <1>4 DEF NotesAt
<1>7. hints[to] = Nowhere
  BY <1>2 DEF HintsOfNotes
<1>8. CASE hinting
  <2>1. PICK o \in Paths : o = IF hints[where[n]] = Nowhere THEN where[n] ELSE hints[where[n]]
    BY <1>1, <1>3
  <2>2. hints' = [hints EXCEPT ![where[n]] = Nowhere, ![to] = IF o = to THEN Nowhere ELSE o]
    BY <1>2, <1>7, <1>8, <2>1 DEF Recorded
  <2>3. /\ \A q \in Paths \ {where[n], to} : hints'[q] = hints[q]
        /\ hints'[where[n]] = Nowhere /\ hints'[to] = IF o = to THEN Nowhere ELSE o
    BY <1>1, <1>3, <2>2
  <2> QED BY <1>2, <1>3, <1>4, <1>5, <1>6, <1>8, <2>1, <2>3
<1>9. CASE ~hinting
  <2>1. \A q \in Paths : hints[q] = Nowhere /\ hints'[q] = Nowhere
    BY <1>2, <1>9 DEF HintsOfNotes
  <2> QED BY <1>2, <1>3, <1>4, <1>5, <1>6, <1>9, <2>1
<1> QED BY <1>8, <1>9
(* A note that is renamed and can still be followed. *)
LEMMA RenamedIsFollowed ==
    ASSUME PagesInv, FollowInv, NEW n \in Notes, NEW to \in Paths, Rename(n, to), n \notin severed'
    PROVE  /\ \A g \in Pages : HasRecord(g, n)' => OwnPage(n, g)'
           /\ OwnPlace(n)' /\ OwnHint(n)'
           /\ \A q \in Paths : q # where[n] /\ q # to => hints[q] # to
           /\ to \notin Creating /\ {where[n], to} \cap Adopting = {} /\ listing = NoListing
<1>1. n \notin severed /\ n \notin SeveredBy(n, where[n], to) /\ HintsOfNotes /\ Followed
  BY RenameFacts DEF FollowInv
<1>2. PICK f \in Paths, o \in Paths :
        /\ f = where[n] /\ f # to /\ where'[n] = to /\ o = IF hints[f] = Nowhere THEN f ELSE hints[f]
        /\ \A a : NotesAt(a)' = (NotesAt(a) \ {n}) \cup (IF a = to THEN {n} ELSE {})
        /\ NotesAt(f) = {n} /\ NotesAt(to) = {}
        /\ \A q \in Paths \ {f, to} : hints'[q] = hints[q]
        /\ hints'[f] = Nowhere /\ hints'[to] # to /\ hints'[to] \in {Nowhere, o}
        /\ hinting => hints'[to] = IF o = to THEN Nowhere ELSE o
        /\ ~hinting => \A q \in Paths : hints'[q] = Nowhere
  <2>1. where[n] \in Paths /\ hints \in [Paths -> Paths \cup {Nowhere}]
    BY <1>1, RenameFacts DEF PagesInv, MovesTyped, MovesTypeOK
  <2>2. PICK o \in Paths : o = IF hints[where[n]] = Nowhere THEN where[n] ELSE hints[where[n]]
    BY <2>1
  <2> QED BY <1>1, RenameFacts, <2>1, <2>2
<1>3. /\ UNCHANGED <<hinting, version, tracked, listing, plan, tasks>>
      /\ Records' = Records /\ \A g : HasRecord(g, n)' = HasRecord(g, n)
      /\ \A g : Known(g)' = Known(g)
  BY <1>1, RenameFacts, PeopleUnchanged
<1>4. /\ \A g \in Records : to \in {tracked[g].path, tracked[g].origin} => HasRecord(g, n)
      /\ \A q \in Paths \ {f} : hints[q] # to
      /\ listing = NoListing /\ to \notin Creating /\ {f, to} \cap Adopting = {}
      /\ ~hinting => \A g \in Records : HasRecord(g, n) => tracked[g].text = Text(n)
  BY <1>1, <1>2 DEF SeveredBy
<1>5. OwnPlace(n) /\ OwnHint(n)
  BY <1>1, <1>2, PathFacts DEF Followed
<1>6. Nowhere \notin Paths
  BY PathFacts
<1>7. OwnPlace(n)'
  <2>1. ASSUME NEW q \in Paths PROVE hints'[q] # where'[n]
    BY <1>2, <1>4, <1>6
  <2>2. ASSUME NEW g \in Records', where'[n] \in Known(g)' PROVE HasRecord(g, n)'
    BY <1>2, <1>3, <1>4, <2>2 DEF Known
  <2> QED BY <2>1, <2>2 DEF OwnPlace
<1>8. OwnHint(n)'
  <2>1. ASSUME NEW a, a = hints'[to], a # Nowhere
        PROVE  /\ NotesAt(a)' = {}
               /\ \A q \in Paths : hints'[q] = a => q = to
               /\ \A g \in Records : a \in Known(g) => HasRecord(g, n)
    <3>1. a = o /\ o # to
      BY <1>2, <2>1
    <3>2. NotesAt(o) \subseteq {n}
      BY <1>2, <1>5 DEF OwnHint
    <3>3. ASSUME NEW q \in Paths, q # f, hints[q] = o PROVE FALSE
      BY <1>2, <1>5, <3>3 DEF OwnHint, OwnPlace
    <3>4. \A g \in Records : o \in Known(g) => HasRecord(g, n)
      BY <1>2, <1>5 DEF OwnHint, OwnPlace
    <3>5. NotesAt(o)' = {}
      BY <1>2, <3>1, <3>2
    <3>6. ASSUME NEW q \in Paths, hints'[q] = o PROVE q = to
      <4>1. q # f
        BY <1>2, <1>6, <3>6
      <4> QED BY <1>2, <3>3, <3>6, <4>1
    <3> QED BY <3>1, <3>4, <3>5, <3>6
  <2> QED BY <1>2, <1>3, <2>1 DEF OwnHint
<1>9. ASSUME NEW g \in Pages, HasRecord(g, n) PROVE OwnPage(n, g)'
  <2>1. OwnPage(n, g) /\ g \in Records
    BY <1>1, <1>9 DEF Followed, HasRecord
  <2>2. Tied(n, g)'
    <3>1. CASE hinting
      <4>1. (f = tracked[g].path /\ hints[f] = Nowhere) \/ hints[f] = tracked[g].path
        BY <1>2, <2>1, <3>1 DEF OwnPage, Tied
      <4>2. o = tracked[g].path
        <5>1. tracked[g].path \in Paths
          BY <1>9, RecordFacts DEF PagesInv, HasRecord
        <5> QED BY <1>2, <1>6, <4>1, <5>1
      <4>3. (to = tracked[g].path /\ hints'[to] = Nowhere) \/ hints'[to] = tracked[g].path
        BY <1>2, <3>1, <4>2
      <4> QED BY <1>2, <1>3, <3>1, <4>3 DEF Tied
    <3>2. CASE ~hinting
      <4>1. tracked[g].text = Text(n)
        BY <1>4, <1>9, <2>1, <3>2
      <4> QED BY <1>3, <3>2, <4>1 DEF Tied, Text
    <3> QED BY <3>1, <3>2
  <2>3. \A h \in Pages : HasRecord(h, n)' => h = g
    BY <1>3, <2>1 DEF OwnPage
  <2>4. ASSUME NEW a \in Known(g)' PROVE NotesAt(a)' \subseteq {n} /\ \A q \in Paths : hints'[q] = a => where'[n] = q
    <3>1. a \in Known(g) /\ a # Nowhere
      BY <1>3, <2>4 DEF Known
    <3>2. NotesAt(a) \subseteq {n} /\ \A q \in Paths : hints[q] = a => where[n] = q
      BY <2>1, <3>1 DEF OwnPage
    <3> QED BY <1>2, <3>1, <3>2
  <2> QED BY <1>2, <1>6, <2>2, <2>3, <2>4 DEF OwnPage
<1> QED BY <1>2, <1>3, <1>4, <1>7, <1>8, <1>9

(* Another note, when one is renamed. *)
LEMMA OthersAreFollowed ==
    ASSUME PagesInv, FollowInv, NEW n \in Notes, NEW to \in Paths, Rename(n, to),
           NEW m \in Notes \ severed', m # n
    PROVE  /\ m \notin severed /\ where'[m] = where[m]
           /\ where[m] # Nowhere => hints'[where[m]] = hints[where[m]]
           /\ \A g \in Pages : HasRecord(g, m)' => OwnPage(m, g)'
           /\ where[m] # Nowhere => OwnPlace(m)' /\ OwnHint(m)'
<1>1. m \notin severed /\ m \notin SeveredBy(n, where[n], to) /\ HintsOfNotes /\ Followed
  BY RenameFacts DEF FollowInv
<1>2. PICK f \in Paths, o \in Paths :
        /\ f = where[n] /\ f # to /\ where'[n] = to /\ o = IF hints[f] = Nowhere THEN f ELSE hints[f]
        /\ \A a : NotesAt(a)' = (NotesAt(a) \ {n}) \cup (IF a = to THEN {n} ELSE {})
        /\ NotesAt(f) = {n} /\ NotesAt(to) = {}
        /\ \A q \in Paths \ {f, to} : hints'[q] = hints[q]
        /\ hints'[f] = Nowhere /\ hints'[to] # to /\ hints'[to] \in {Nowhere, o}
  <2>1. where[n] \in Paths /\ hints \in [Paths -> Paths \cup {Nowhere}]
    BY <1>1, RenameFacts DEF PagesInv, MovesTyped, MovesTypeOK
  <2>2. PICK o \in Paths : o = IF hints[where[n]] = Nowhere THEN where[n] ELSE hints[where[n]]
    BY <2>1
  <2> QED BY <1>1, RenameFacts, <2>1, <2>2
<1>3. /\ UNCHANGED <<hinting, version, tracked, listing, plan, tasks>>
      /\ Records' = Records /\ \A g : HasRecord(g, m)' = HasRecord(g, m)
      /\ \A g : Known(g)' = Known(g)
  BY <1>1, RenameFacts, PeopleUnchanged
<1>4. /\ where'[m] = where[m] /\ where[m] # f /\ where[m] # to /\ where[m] \in Paths \cup {Nowhere}
  BY <1>1, <1>2, RenameFacts DEF PagesInv, MovesTyped, MovesTypeOK
<1>5. where[m] # Nowhere => hints'[where[m]] = hints[where[m]]
  BY <1>2, <1>4
<1>6. /\ \A g \in Records : HasRecord(g, m) => to \notin {tracked[g].path, tracked[g].origin}
      /\ \A p \in Paths : hints[p] = to => where[m] # p
  <2>1. ASSUME NEW g \in Records, HasRecord(g, m) PROVE ~HasRecord(g, n)
    BY <2>1 DEF HasRecord
  <2> QED BY <1>1, <1>2, <1>4, <2>1 DEF SeveredBy
<1>7. Nowhere \notin Paths
  BY PathFacts
<1>8. ASSUME where[m] # Nowhere PROVE OwnPlace(m)' /\ OwnHint(m)'
  <2>1. OwnPlace(m) /\ OwnHint(m) /\ where[m] \in Paths
    BY <1>1, <1>4, <1>8 DEF Followed
  <2>2. o # where[m]
    BY <1>2, <1>4, <2>1 DEF OwnPlace
  <2>3. OwnPlace(m)'
    <3>1. \A q \in Paths : hints'[q] # where[m]
      BY <1>2, <1>7, <2>1, <2>2 DEF OwnPlace
    <3> QED BY <1>3, <1>4, <2>1, <3>1 DEF OwnPlace
  <2>4. ASSUME NEW a, a = hints[where[m]], a # Nowhere
        PROVE  /\ NotesAt(a)' = {} /\ \A q \in Paths : hints'[q] = a => q = where[m]
               /\ \A g \in Records : a \in Known(g) => HasRecord(g, m)
    <3>1. /\ NotesAt(a) = {} /\ \A q \in Paths : hints[q] = a => q = where[m]
          /\ \A g \in Records : a \in Known(g) => HasRecord(g, m)
      BY <2>1, <2>4 DEF OwnHint
    <3>2. a # to /\ a # f
      BY <1>2, <1>6, <2>1, <2>4, <3>1
    <3>3. o # a
      BY <1>2, <1>4, <3>1, <3>2
    <3> QED BY <1>2, <2>4, <3>1, <3>2, <3>3
  <2>5. OwnHint(m)'
    BY <1>3, <1>4, <1>5, <1>8, <2>4 DEF OwnHint
  <2> QED BY <2>3, <2>5
<1>9. ASSUME NEW g \in Pages, HasRecord(g, m) PROVE OwnPage(m, g)'
  <2>1. OwnPage(m, g) /\ g \in Records /\ where[m] # Nowhere
    BY <1>1, <1>9 DEF Followed, HasRecord, OwnPage
  <2>2. Tied(m, g)'
    BY <1>3, <1>4, <1>5, <2>1 DEF OwnPage, Tied, Text
  <2>3. ASSUME NEW a \in Known(g) PROVE NotesAt(a)' \subseteq {m} /\ \A q \in Paths : hints'[q] = a => where[m] = q
    <3>1. a # Nowhere /\ NotesAt(a) \subseteq {m} /\ \A q \in Paths : hints[q] = a => where[m] = q
      BY <2>1, <2>3 DEF OwnPage, Known
    <3>2. a # to
      BY <1>6, <1>9, <2>1, <2>3 DEF Known
    <3>3. a # f
      BY <1>2, <3>1
    <3>4. o # a
      BY <1>2, <1>4, <3>1, <3>3
    <3> QED BY <1>2, <3>1, <3>2, <3>3, <3>4
  <2> QED BY <1>3, <1>4, <2>1, <2>2, <2>3 DEF OwnPage
<1> QED BY <1>1, <1>3, <1>4, <1>5, <1>8, <1>9
LEMMA RenameKeepsFollowing ==
    ASSUME PagesInv, FollowInv, NEW n \in Notes, NEW to \in Paths, Rename(n, to)
    PROVE  FollowInv'
<1>1. /\ Followed /\ HintsOfNotes /\ SeenSo /\ PairedSo /\ PushedSo
      /\ where \in [Notes -> Paths \cup {Nowhere}] /\ hints \in [Paths -> Paths \cup {Nowhere}]
  BY DEF FollowInv, PagesInv, MovesTyped, MovesTypeOK
<1>2. /\ where[n] \in Paths /\ where[n] # to /\ where'[n] = to
      /\ \A a : NotesAt(a)' = (NotesAt(a) \ {n}) \cup (IF a = to THEN {n} ELSE {})
      /\ NotesAt(where[n]) = {n}
      /\ \A q \in Paths \ {where[n], to} : hints'[q] = hints[q]
      /\ hints'[where[n]] = Nowhere
      /\ hints'[to] \in {Nowhere, IF hints[where[n]] = Nowhere THEN where[n] ELSE hints[where[n]]}
      /\ ~hinting => \A q \in Paths : hints'[q] = Nowhere
      /\ UNCHANGED <<hinting, version, tracked, listing, plan, tasks>>
  BY <1>1, RenameFacts
<1>3. /\ Records' = Records /\ Listed' = Listed /\ Adopting' = Adopting /\ Creating' = Creating
      /\ \A g, m : HasRecord(g, m)' = HasRecord(g, m)
      /\ \A g : Known(g)' = Known(g)
  BY <1>2, PeopleUnchanged
<1>4. ASSUME NEW m \in Notes \ severed', m # n
      PROVE  /\ m \notin severed /\ where'[m] = where[m]
             /\ where[m] # Nowhere => hints'[where[m]] = hints[where[m]]
             /\ \A g \in Pages : HasRecord(g, m)' => OwnPage(m, g)'
             /\ where[m] # Nowhere => OwnPlace(m)' /\ OwnHint(m)'
  BY <1>4, OthersAreFollowed
<1>5. ASSUME n \notin severed'
      PROVE  /\ \A g \in Pages : HasRecord(g, n)' => OwnPage(n, g)'
             /\ OwnPlace(n)' /\ OwnHint(n)'
             /\ to \notin Creating /\ {where[n], to} \cap Adopting = {} /\ listing = NoListing
             /\ n \notin severed
  BY <1>5, <1>1, RenamedIsFollowed, RenameFacts
<1>6. Followed'
  <2>1. ASSUME NEW m \in Notes \ severed'
        PROVE  /\ \A g \in Pages : HasRecord(g, m)' => OwnPage(m, g)'
               /\ where'[m] # Nowhere => OwnPlace(m)' /\ OwnHint(m)'
    BY <1>4, <1>5
  <2> QED BY <2>1 DEF Followed
<1>7. HintsOfNotes'
  <2>1. ASSUME NEW p \in Paths, hints'[p] # Nowhere PROVE hinting' /\ NotesAt(p)' # {}
    <3>1. hinting'
      BY <1>2, <2>1
    <3>2. CASE p = to
      BY <1>2, <3>1, <3>2
    <3>3. CASE p # to
      <4>1. hints[p] # Nowhere /\ p # where[n]
        BY <1>2, <2>1, <3>3
      <4>2. NotesAt(p) # {} /\ n \notin NotesAt(p)
        BY <1>1, <4>1 DEF HintsOfNotes, NotesAt
      <4> QED BY <1>2, <3>1, <4>2
    <3> QED BY <3>2, <3>3
  <2> QED BY <2>1 DEF HintsOfNotes
<1>8. SeenSo'
  <2>1. ASSUME listing # NoListing, NEW m \in Notes \ severed'
        PROVE  /\ where'[m] # Nowhere => hints'[where'[m]] \notin Listed
               /\ \A g \in Pages : HasRecord(g, m) =>
                    where'[m] \in Listed /\ Known(g) \cap Listed \subseteq {where'[m]}
    <3>1. m # n
      BY <1>5, <2>1
    <3>2. m \notin severed /\ where'[m] = where[m] /\ (where[m] # Nowhere => hints'[where[m]] = hints[where[m]])
      BY <1>4, <3>1
    <3>3. /\ where[m] # Nowhere => hints[where[m]] \notin Listed
          /\ \A g \in Pages : HasRecord(g, m) =>
               where[m] \in Listed /\ Known(g) \cap Listed \subseteq {where[m]}
      BY <1>1, <2>1, <3>2 DEF SeenSo
    <3> QED BY <3>2, <3>3
  <2> QED BY <1>2, <1>3, <2>1 DEF SeenSo
<1>9. PairedSo'
  <2>1. ASSUME plan # NoPlan, NEW m \in Notes \ severed'
        PROVE  /\ \A r \in plan.pairs :
                    /\ where'[m] # Nowhere => hints'[where'[m]] # r[2]
                    /\ where'[m] = r[2] <=> HasRecord(r[1], m)
               /\ \A g \in Pages, q \in Paths :
                    HasRecord(g, m) /\ plan.hints[q] = tracked[g].path => <<g, q>> \in plan.pairs
               /\ where'[m] \in Adopting \cup Creating =>
                    hints'[where'[m]] \in {Nowhere, plan.hints[where'[m]]}
    <3>1. m \notin severed
      BY <1>4, <1>5
    <3>2. /\ \A r \in plan.pairs :
                /\ where[m] # Nowhere => hints[where[m]] # r[2]
                /\ where[m] = r[2] <=> HasRecord(r[1], m)
          /\ \A g \in Pages, q \in Paths :
               HasRecord(g, m) /\ plan.hints[q] = tracked[g].path => <<g, q>> \in plan.pairs
          /\ where[m] \in Adopting \cup Creating => hints[where[m]] \in {Nowhere, plan.hints[where[m]]}
      BY <1>1, <2>1, <3>1 DEF PairedSo
    <3>3. CASE m = n
      <4>1. to \notin Creating /\ to \notin Adopting /\ where[n] \notin Adopting
        BY <1>5, <3>3
      <4>2. \A r \in plan.pairs : r[2] \in Adopting
        BY <2>1 DEF Adopting
      <4>3. plan.pairs \subseteq Pages \X Paths
        BY <2>1 DEF PagesInv, MovesTyped, Plans
      <4>4. ASSUME NEW r \in plan.pairs PROVE hints'[to] # r[2] /\ (to = r[2] <=> HasRecord(r[1], n))
        <5>1. r[2] # to /\ r[2] # where[n] /\ r[2] \in Paths /\ Nowhere \notin Paths
          BY <4>1, <4>2, <4>3, PathFacts
        <5>2. hints[where[n]] # r[2] /\ ~HasRecord(r[1], n)
          BY <1>2, <3>2, <3>3, <5>1
        <5> QED BY <1>2, <5>1, <5>2
      <4> QED BY <1>2, <3>2, <3>3, <4>1, <4>4
    <3>4. CASE m # n
      <4>1. where'[m] = where[m] /\ (where[m] # Nowhere => hints'[where[m]] = hints[where[m]])
        BY <1>4, <3>4
      <4>2. where[m] \in Adopting \cup Creating => where[m] # Nowhere
        <5>1. Adopting \cup Creating \subseteq Paths
          BY DEF Adopting, Creating, PagesInv, MovesTyped, Plans, Tasks
        <5> QED BY <5>1, PathFacts
      <4> QED BY <3>2, <4>1, <4>2
    <3> QED BY <3>3, <3>4
  <2> QED BY <1>2, <1>3, <2>1 DEF PairedSo
<1>10. PushedSo'
  <2>1. ASSUME NEW j \in tasks \cup (IF plan = NoPlan THEN {} ELSE plan.changes), NEW m \in Notes \ severed'
        PROVE  /\ j.kind = "created" /\ where'[m] = j.at => where[m] = j.at /\ m # n
               /\ m \notin severed
    <3>1. j.kind = "created" => j.at \in Creating
      BY <2>1 DEF Creating
    <3> QED BY <1>2, <1>4, <1>5, <2>1, <3>1
  <2>2. Right(tasks)'
    BY <1>1, <1>2, <1>3, <2>1 DEF PushedSo, Right
  <2>3. (plan # NoPlan => Right(plan.changes))'
    BY <1>1, <1>2, <1>3, <2>1 DEF PushedSo, Right
  <2>4. ASSUME NEW j \in tasks, NEW m \in Notes \ severed', j.kind = "created", where'[m] = j.at
        PROVE  hints'[j.at] = Nowhere
    <3>1. where[m] = j.at /\ m # n /\ m \notin severed
      BY <2>1, <2>4
    <3>2. j.at \in Paths
      BY TaskFacts
    <3> QED BY <1>1, <1>4, <2>4, <3>1, <3>2, PathFacts DEF PushedSo
  <2> QED BY <1>2, <2>2, <2>3, <2>4 DEF PushedSo, Right
<1> QED BY <1>6, <1>7, <1>8, <1>9, <1>10 DEF FollowInv
(* A step of people that neither brings a note to a place nor makes a hint. *)
LEMMA FewerKeepFollowing ==
    ASSUME PagesInv, FollowInv, UNCHANGED <<hinting, tracked, listing, plan, tasks>>, severed \subseteq severed',
           \A m \in Notes \ severed' : /\ where'[m] = where[m]
                                       /\ where[m] # Nowhere => hints'[where[m]] = hints[where[m]],
           \A a : a # Nowhere => NotesAt(a)' \subseteq NotesAt(a),
           \A q \in Paths : hints'[q] \in {Nowhere, hints[q]},
           HintsOfNotes',
           \A m \in Notes \ severed', g \in Pages : HasRecord(g, m) /\ ~hinting => Tied(m, g)'
    PROVE  FollowInv'
<1>1. Followed /\ HintsOfNotes /\ SeenSo /\ PairedSo /\ PushedSo
  BY DEF FollowInv
<1>2. /\ Records' = Records /\ Listed' = Listed /\ Adopting' = Adopting /\ Creating' = Creating
      /\ \A g, m : HasRecord(g, m)' = HasRecord(g, m)
      /\ \A g : Known(g)' = Known(g)
  BY PeopleUnchanged
<1>3. ASSUME NEW m \in Notes \ severed'
      PROVE  /\ \A g \in Pages : HasRecord(g, m)' => OwnPage(m, g)'
             /\ where'[m] # Nowhere => OwnPlace(m)' /\ OwnHint(m)'
  <2>1. m \notin severed /\ where'[m] = where[m] /\ (where[m] # Nowhere => hints'[where[m]] = hints[where[m]])
        /\ where[m] \in Paths \cup {Nowhere}
    BY DEF PagesInv, MovesTyped, MovesTypeOK
  <2>2. ASSUME NEW g \in Pages, HasRecord(g, m) PROVE OwnPage(m, g)'
    <3>1. OwnPage(m, g) /\ where[m] # Nowhere
      BY <1>1, <2>1, <2>2 DEF Followed, OwnPage
    <3>2. Tied(m, g)'
      BY <2>1, <2>2, <3>1 DEF OwnPage, Tied
    <3>3. ASSUME NEW a \in Known(g) PROVE NotesAt(a)' \subseteq {m} /\ \A q \in Paths : hints'[q] = a => where[m] = q
      BY <3>1, <3>3 DEF OwnPage, Known
    <3> QED BY <1>2, <2>1, <3>1, <3>2, <3>3 DEF OwnPage
  <2>3. ASSUME where[m] # Nowhere PROVE OwnPlace(m)' /\ OwnHint(m)'
    <3>1. OwnPlace(m) /\ OwnHint(m) /\ where[m] \in Paths
      BY <1>1, <2>1, <2>3 DEF Followed
    <3>2. OwnPlace(m)'
      BY <1>2, <2>1, <2>3, <3>1 DEF OwnPlace
    <3>3. ASSUME NEW a, a = hints[where[m]], a # Nowhere
          PROVE  /\ NotesAt(a)' = {} /\ \A q \in Paths : hints'[q] = a => q = where[m]
                 /\ \A g \in Records : a \in Known(g) => HasRecord(g, m)
      BY <3>1, <3>3 DEF OwnHint
    <3> QED BY <1>2, <2>1, <2>3, <3>2, <3>3 DEF OwnHint
  <2> QED BY <1>2, <2>1, <2>2, <2>3
<1>4. Followed'
  BY <1>3 DEF Followed
<1>5. SeenSo'
  BY <1>1, <1>2 DEF SeenSo
<1>6. PairedSo'
  <2>1. Nowhere \notin Adopting \cup Creating
    <3>1. Adopting \cup Creating \subseteq Paths
      BY DEF Adopting, Creating, PagesInv, MovesTyped, Plans, Tasks
    <3> QED BY <3>1, PathFacts
  <2>2. ASSUME plan # NoPlan, NEW m \in Notes \ severed'
        PROVE  /\ \A r \in plan.pairs :
                    /\ where'[m] # Nowhere => hints'[where'[m]] # r[2]
                    /\ where'[m] = r[2] <=> HasRecord(r[1], m)
               /\ \A g \in Pages, q \in Paths :
                    HasRecord(g, m) /\ plan.hints[q] = tracked[g].path => <<g, q>> \in plan.pairs
               /\ where'[m] \in Adopting \cup Creating =>
                    hints'[where'[m]] \in {Nowhere, plan.hints[where'[m]]}
    <3>1. m \notin severed /\ where'[m] = where[m] /\ (where[m] # Nowhere => hints'[where[m]] = hints[where[m]])
      OBVIOUS
    <3>2. /\ \A r \in plan.pairs :
                /\ where[m] # Nowhere => hints[where[m]] # r[2]
                /\ where[m] = r[2] <=> HasRecord(r[1], m)
          /\ \A g \in Pages, q \in Paths :
               HasRecord(g, m) /\ plan.hints[q] = tracked[g].path => <<g, q>> \in plan.pairs
          /\ where[m] \in Adopting \cup Creating => hints[where[m]] \in {Nowhere, plan.hints[where[m]]}
      BY <1>1, <2>2, <3>1 DEF PairedSo
    <3> QED BY <2>1, <3>1, <3>2
  <2> QED BY <1>2, <2>2 DEF PairedSo
<1>7. PushedSo'
  <2>1. Right(tasks)' /\ (plan # NoPlan => Right(plan.changes))'
    BY <1>1, <1>2 DEF PushedSo, Right
  <2>2. ASSUME NEW j \in tasks, NEW m \in Notes \ severed', j.kind = "created", where'[m] = j.at
        PROVE  hints'[j.at] = Nowhere
    <3>1. where[m] = j.at /\ m \notin severed /\ j.at # Nowhere
      BY <2>2, TaskFacts, PathFacts
    <3> QED BY <1>1, <2>2, <3>1 DEF PushedSo
  <2> QED BY <2>1, <2>2 DEF PushedSo
<1> QED BY <1>4, <1>5, <1>6, <1>7 DEF FollowInv

LEMMA EditNoteKeepsFollowing == ASSUME PagesInv, FollowInv, NEW n \in Notes, EditNote(n) PROVE FollowInv'
<1>1. /\ UNCHANGED <<hinting, where, tracked, hints, listing, plan, tasks>>
      /\ version' = [version EXCEPT ![n] = @ + 1]
      /\ severed' = IF ~hinting /\ \E g \in Records : HasRecord(g, n) /\ tracked[g].path # where[n]
                    THEN severed \cup {n} ELSE severed
      /\ version \in [Notes -> 0..MaxChanges]
  BY DEF EditNote, state, work, PagesInv, MovesTyped, MovesTypeOK
<1>2. \A a : NotesAt(a)' = NotesAt(a)
  BY <1>1 DEF NotesAt
<1>3. HintsOfNotes'
  BY <1>1, <1>2 DEF FollowInv, HintsOfNotes
<1>4. ASSUME NEW m \in Notes \ severed', NEW g \in Pages, HasRecord(g, m), ~hinting PROVE Tied(m, g)'
  <2>1. m \notin severed
    BY <1>1
  <2>2. Tied(m, g) /\ g \in Records
    BY <1>4, <2>1 DEF FollowInv, Followed, OwnPage, HasRecord
  <2>3. CASE m = n
    BY <1>1, <1>4, <2>2, <2>3 DEF Tied
  <2>4. CASE m # n
    BY <1>1, <1>4, <2>2, <2>4 DEF Tied, Text
  <2> QED BY <2>3, <2>4
<1>5. severed \subseteq severed'
  BY <1>1
<1> QED BY <1>1, <1>2, <1>3, <1>4, <1>5, FewerKeepFollowing

LEMMA DeleteNoteKeepsFollowing == ASSUME PagesInv, FollowInv, NEW n \in Notes, DeleteNote(n) PROVE FollowInv'
<1>1. /\ UNCHANGED <<hinting, version, tracked, listing, plan, tasks>>
      /\ where[n] # Nowhere /\ where' = [where EXCEPT ![n] = Nowhere]
      /\ hints' = IF hinting THEN [hints EXCEPT ![where[n]] = Nowhere] ELSE hints
      /\ severed' = severed \cup {n}
      /\ where \in [Notes -> Paths \cup {Nowhere}] /\ hints \in [Paths -> Paths \cup {Nowhere}]
      /\ \A m, k \in Notes : where[m] = where[k] /\ where[m] # Nowhere => m = k
  BY DEF DeleteNote, notion, work, PagesInv, MovesTyped, MovesTypeOK, OneEach
<1>2. \A m \in Notes \ {n} : where'[m] = where[m] /\ where[m] # where[n]
  BY <1>1
<1>3. where'[n] = Nowhere /\ where[n] \in Paths /\ Nowhere \notin Paths
  BY <1>1, PathFacts
<1>4. \A q \in Paths : hints'[q] = IF hinting /\ q = where[n] THEN Nowhere ELSE hints[q]
  BY <1>1
<1>5. HintsOfNotes'
  <2>1. ASSUME NEW p \in Paths, hints'[p] # Nowhere PROVE hinting' /\ NotesAt(p)' # {}
    <3>1. hinting /\ NotesAt(p) # {} /\ p # where[n]
      BY <1>4, <2>1 DEF FollowInv, HintsOfNotes
    <3>2. PICK m \in Notes : where[m] = p
      BY <3>1 DEF NotesAt
    <3>3. m \in Notes \ {n}
      BY <3>1, <3>2
    <3> QED BY <1>1, <1>2, <3>1, <3>2, <3>3 DEF NotesAt
  <2> QED BY <2>1 DEF HintsOfNotes
<1>6. ASSUME NEW m \in Notes \ severed', NEW g \in Pages, HasRecord(g, m), ~hinting PROVE Tied(m, g)'
  <2>1. m \notin severed /\ m # n
    BY <1>1
  <2>2. Tied(m, g)
    BY <1>6, <2>1 DEF FollowInv, Followed, OwnPage
  <2> QED BY <1>1, <1>2, <1>6, <2>1, <2>2 DEF Tied, Text
<1>7. \A m \in Notes \ severed' : /\ where'[m] = where[m]
                                  /\ where[m] # Nowhere => hints'[where[m]] = hints[where[m]]
  BY <1>1, <1>2, <1>4
<1>8. ASSUME NEW a, a # Nowhere PROVE NotesAt(a)' \subseteq NotesAt(a)
  BY <1>2, <1>3, <1>8 DEF NotesAt
<1> QED BY <1>1, <1>4, <1>5, <1>6, <1>7, <1>8, FewerKeepFollowing
LEMMA CreateNoteKeepsFollowing ==
    ASSUME PagesInv, FollowInv, NEW n \in Notes, NEW p \in Paths, CreateNote(n, p) PROVE FollowInv'
<1>1. /\ UNCHANGED <<hinting, version, tracked, hints, listing, plan, tasks>>
      /\ where[n] = Nowhere /\ n \notin severed /\ NotesAt(p) = {} /\ \A g \in Pages : ~HasRecord(g, n)
      /\ where' = [where EXCEPT ![n] = p] /\ severed' = severed \cup SeveredBy(n, p, p)
      /\ where \in [Notes -> Paths \cup {Nowhere}] /\ hints \in [Paths -> Paths \cup {Nowhere}]
      /\ Followed /\ HintsOfNotes /\ SeenSo /\ PairedSo /\ PushedSo
  BY DEF CreateNote, state, work, PagesInv, MovesTyped, MovesTypeOK, FollowInv
<1>2. /\ Records' = Records /\ Listed' = Listed /\ Adopting' = Adopting /\ Creating' = Creating
      /\ \A g, m : HasRecord(g, m)' = HasRecord(g, m)
      /\ \A g : Known(g)' = Known(g)
  BY <1>1, PeopleUnchanged
<1>3. where'[n] = p /\ hints[p] = Nowhere /\ Nowhere \notin Paths /\ n \notin NotesAt(p)
  BY <1>1, PathFacts DEF HintsOfNotes, NotesAt
<1>4. \A m \in Notes \ {n} : where'[m] = where[m] /\ where[m] # p
  BY <1>1 DEF NotesAt
<1>5. \A a : a # Nowhere => NotesAt(a)' = NotesAt(a) \cup (IF a = p THEN {n} ELSE {})
  BY <1>1, <1>3, <1>4 DEF NotesAt
<1>6. ASSUME NEW m \in Notes \ severed'
      PROVE  /\ m \notin severed /\ m \notin SeveredBy(n, p, p)
             /\ \A g \in Records : HasRecord(g, m) => p \notin {tracked[g].path, tracked[g].origin}
             /\ \A q \in Paths : hints[q] = p => where[m] # q
             /\ m = n => /\ \A g \in Records : p \notin {tracked[g].path, tracked[g].origin}
                         /\ \A q \in Paths : hints[q] # p
                         /\ p \notin Adopting
  <2>1. m \notin severed /\ m \notin SeveredBy(n, p, p)
    BY <1>1, <1>6
  <2>2. \A g \in Records : ~HasRecord(g, n)
    BY <1>1 DEF Records
  <2>3. \A q \in Paths : hints[q] = p => q \in Paths \ {p}
    BY <1>3
  <2> QED BY <2>1, <2>2, <2>3 DEF SeveredBy
<1>7. ASSUME NEW m \in Notes \ severed', m # n
      PROVE  /\ \A g \in Pages : HasRecord(g, m)' => OwnPage(m, g)'
             /\ where'[m] # Nowhere => OwnPlace(m)' /\ OwnHint(m)'
  <2>1. m \notin severed /\ where'[m] = where[m]
    BY <1>4, <1>6, <1>7
  <2>2. ASSUME NEW g \in Pages, HasRecord(g, m) PROVE OwnPage(m, g)'
    <3>1. OwnPage(m, g) /\ g \in Records
      BY <1>1, <2>1, <2>2 DEF Followed, HasRecord
    <3>2. Tied(m, g)'
      BY <1>1, <2>1, <3>1 DEF OwnPage, Tied, Text
    <3>3. ASSUME NEW a \in Known(g) PROVE NotesAt(a)' \subseteq {m} /\ \A q \in Paths : hints[q] = a => where[m] = q
      <4>1. a # p /\ a # Nowhere
        BY <1>6, <2>2, <3>1, <3>3 DEF Known
      <4> QED BY <1>5, <3>1, <3>3, <4>1 DEF OwnPage
    <3> QED BY <1>1, <1>2, <2>1, <3>1, <3>2, <3>3 DEF OwnPage
  <2>3. ASSUME where[m] # Nowhere PROVE OwnPlace(m)' /\ OwnHint(m)'
    <3>1. OwnPlace(m) /\ OwnHint(m) /\ where[m] \in Paths
      BY <1>1, <2>1, <2>3 DEF Followed
    <3>2. OwnPlace(m)'
      BY <1>1, <1>2, <2>1, <2>3, <3>1 DEF OwnPlace
    <3>3. hints[where[m]] # p
      BY <1>6, <3>1
    <3> QED BY <1>1, <1>2, <1>5, <2>1, <2>3, <3>1, <3>2, <3>3 DEF OwnHint
  <2> QED BY <1>2, <2>1, <2>2, <2>3
<1>8. ASSUME n \notin severed' PROVE OwnPlace(n)' /\ OwnHint(n)'
  <2>1. \A q \in Paths : hints[q] # p
    BY <1>6, <1>8
  <2>2. \A g \in Records : p \notin Known(g)
    BY <1>6, <1>8 DEF Known
  <2> QED BY <1>1, <1>2, <1>3, <2>1, <2>2 DEF OwnPlace, OwnHint
<1>9. Followed'
  <2>1. ASSUME NEW m \in Notes \ severed'
        PROVE  /\ \A g \in Pages : HasRecord(g, m)' => OwnPage(m, g)'
               /\ where'[m] # Nowhere => OwnPlace(m)' /\ OwnHint(m)'
    BY <1>1, <1>2, <1>7, <1>8
  <2> QED BY <2>1 DEF Followed
<1>10. HintsOfNotes'
  BY <1>1, <1>3, <1>5 DEF HintsOfNotes
<1>11. SeenSo'
  <2>1. ASSUME listing # NoListing, NEW m \in Notes \ severed'
        PROVE  /\ where'[m] # Nowhere => hints[where'[m]] \notin Listed
               /\ \A g \in Pages : HasRecord(g, m) =>
                    where'[m] \in Listed /\ Known(g) \cap Listed \subseteq {where'[m]}
    <3>1. CASE m = n
      <4>1. Listed \subseteq Paths
        BY <2>1, ListedFacts DEF PagesInv
      <4> QED BY <1>1, <1>3, <3>1, <4>1
    <3>2. CASE m # n
      BY <1>1, <1>4, <1>6, <2>1, <3>2 DEF SeenSo
    <3> QED BY <3>1, <3>2
  <2> QED BY <1>1, <1>2, <2>1 DEF SeenSo
<1>12. PairedSo'
  <2>1. ASSUME plan # NoPlan, NEW m \in Notes \ severed'
        PROVE  /\ \A r \in plan.pairs :
                    /\ where'[m] # Nowhere => hints[where'[m]] # r[2]
                    /\ where'[m] = r[2] <=> HasRecord(r[1], m)
               /\ \A g \in Pages, q \in Paths :
                    HasRecord(g, m) /\ plan.hints[q] = tracked[g].path => <<g, q>> \in plan.pairs
               /\ where'[m] \in Adopting \cup Creating =>
                    hints[where'[m]] \in {Nowhere, plan.hints[where'[m]]}
    <3>1. CASE m = n
      <4>1. \A r \in plan.pairs : r[1] \in Pages /\ r[2] \in Paths /\ r[2] \in Adopting
        BY <2>1 DEF Adopting, PagesInv, MovesTyped, Plans
      <4>2. p \notin Adopting
        BY <1>6, <2>1, <3>1
      <4> QED BY <1>1, <1>3, <3>1, <4>1, <4>2
    <3>2. CASE m # n
      BY <1>1, <1>4, <1>6, <2>1, <3>2 DEF PairedSo
    <3> QED BY <3>1, <3>2
  <2> QED BY <1>1, <1>2, <2>1 DEF PairedSo
<1>13. PushedSo'
  <2>1. ASSUME NEW m \in Notes \ severed', NEW g \in Pages, HasRecord(g, m)
        PROVE  m \notin severed /\ where'[m] = where[m]
    BY <1>1, <1>4, <1>6, <2>1
  <2>2. Right(tasks)'
    BY <1>1, <1>2, <2>1 DEF PushedSo, Right
  <2>3. (plan # NoPlan => Right(plan.changes))'
    BY <1>1, <1>2, <2>1 DEF PushedSo, Right
  <2>4. ASSUME NEW j \in tasks, NEW m \in Notes \ severed', j.kind = "created", where'[m] = j.at
        PROVE  hints[j.at] = Nowhere
    <3>1. CASE m = n
      BY <1>3, <2>4, <3>1
    <3>2. CASE m # n
      BY <1>1, <1>4, <1>6, <2>4, <3>2 DEF PushedSo
    <3> QED BY <3>1, <3>2
  <2> QED BY <1>1, <2>2, <2>3, <2>4 DEF PushedSo
<1> QED BY <1>9, <1>10, <1>11, <1>12, <1>13 DEF FollowInv

LEMMA PeopleKeepFollowing == ASSUME PagesInv, FollowInv, People PROVE FollowInv'
BY RenameKeepsFollowing, CreateNoteKeepsFollowing, EditNoteKeepsFollowing, DeleteNoteKeepsFollowing DEF People

LEMMA ListFilesKeepsFollowing == ASSUME PagesInv, FollowInv, ListFiles PROVE FollowInv'
<1>1. /\ listing = NoListing /\ plan = NoPlan /\ tasks = {}
      /\ listing' = {<<p, TextAt(p)>> : p \in Files}
      /\ UNCHANGED <<hinting, where, version, hints, tracked, plan, tasks, severed>>
  BY DEF ListFiles, world, notion, state
<1>2. MovesTyped /\ OneEach /\ Followed /\ HintsOfNotes
  BY DEF PagesInv, FollowInv
<1>3. /\ Records' = Records /\ \A g, n : HasRecord(g, n)' = HasRecord(g, n)
      /\ \A g : Known(g)' = Known(g) /\ \A a : NotesAt(a)' = NotesAt(a)
      /\ \A n, g : OwnPage(n, g)' = OwnPage(n, g) /\ OwnPlace(n)' = OwnPlace(n) /\ OwnHint(n)' = OwnHint(n)
  BY <1>1 DEF Records, HasRecord, Known, NotesAt, OwnPage, Tied, Text, OwnPlace, OwnHint
<1>4. Followed' /\ HintsOfNotes'
  BY <1>1, <1>2, <1>3 DEF Followed, HintsOfNotes
<1>5. Listed' = Files /\ Files \subseteq Paths
  <2>1. Listed' = {f[1] : f \in listing'}
    BY DEF Listed
  <2>2. {f[1] : f \in {<<p, TextAt(p)>> : p \in Files}} = Files
    <3> DEFINE all == {<<p, TextAt(p)>> : p \in Files}
    <3>1. \A p \in Files : <<p, TextAt(p)>> \in all /\ <<p, TextAt(p)>>[1] = p
      OBVIOUS
    <3>2. \A f \in all : f[1] \in Files
      OBVIOUS
    <3> HIDE DEF all
    <3>3. {f[1] : f \in all} = Files
      BY <3>1, <3>2
    <3> QED BY <3>3 DEF all
  <2> QED BY <1>1, <2>1, <2>2 DEF Files
<1>6. SeenSo'
  <2>1. ASSUME NEW n \in Notes \ severed
        PROVE  /\ where[n] # Nowhere => hints[where[n]] \notin Files
               /\ \A g \in Pages : HasRecord(g, n) =>
                    where[n] \in Files /\ Known(g) \cap Files \subseteq {where[n]}
    <3>1. ASSUME where[n] # Nowhere, hints[where[n]] \in Files PROVE FALSE
      <4>1. hints[where[n]] # Nowhere
        BY <1>5, <3>1, PathFacts
      <4>2. NotesAt(hints[where[n]]) = {}
        BY <1>2, <3>1, <4>1 DEF Followed, OwnHint
      <4> QED BY <3>1, <4>2 DEF Files
    <3>2. ASSUME NEW g \in Pages, HasRecord(g, n)
          PROVE  where[n] \in Files /\ Known(g) \cap Files \subseteq {where[n]}
      <4>1. OwnPage(n, g)
        BY <1>2, <3>2 DEF Followed
      <4>2. where[n] \in Files
        BY <1>2, <4>1, FileFacts DEF OwnPage
      <4>3. ASSUME NEW a \in Known(g) \cap Files PROVE a = where[n]
        BY <4>1, <4>3 DEF OwnPage, Files, NotesAt
      <4> QED BY <4>2, <4>3
    <3> QED BY <3>1, <3>2
  <2> QED BY <1>1, <1>3, <1>5, <2>1 DEF SeenSo
<1>7. PairedSo' /\ PushedSo'
  BY <1>1 DEF PairedSo, PushedSo, Right
<1> QED BY <1>4, <1>6, <1>7 DEF FollowInv
--------------------------------------------------------------------------------
(* A note that can be followed keeps its page: the plan. *)

(* A file is paired with a page by a hint or by its text only when it is the page's note. *)
LEMMA PairFollows ==
    ASSUME PagesInv, FollowInv, listing # NoListing, UntrackedFiles \subseteq Files,
           NEW n \in Notes \ severed, NEW r \in Missing \X UntrackedFiles,
           r \in ByHint \/ tracked[r[1]].text[1] = TextAt(r[2])[1]
    PROVE  HasRecord(r[1], n) <=> where[n] = r[2]
<1>1. MovesTyped /\ OneEach /\ Followed /\ Missing \subseteq Records /\ Records \subseteq Pages
  BY ListedFacts DEF PagesInv, FollowInv, Records
<1>2. PICK g \in Missing, p \in UntrackedFiles : r = <<g, p>> /\ g = r[1] /\ p = r[2]
  OBVIOUS
<1>3. g \in Records /\ g \in Pages /\ p \in Files /\ p \in Paths /\ p # Nowhere /\ tracked[g].path # Nowhere
  BY <1>1, <1>2, RecordFacts, FileFacts, PathFacts
<1>4. PICK m \in Notes : where[m] = p /\ TextAt(p) = Text(m) /\ TextAt(p)[1] = m
  BY <1>1, <1>3, FileFacts DEF Text
<1>5. where[n] = p => m = n
  BY <1>1, <1>3, <1>4 DEF OneEach
<1>6. CASE tracked[g].text[1] = TextAt(p)[1]
  BY <1>2, <1>3, <1>4, <1>5, <1>6 DEF HasRecord
<1>7. CASE r \in ByHint
  <2>1. \/ hints[p] # Nowhere /\ (tracked[g].path = hints[p] \/ tracked[g].origin = hints[p])
        \/ tracked[g].origin = p
    BY <1>2, <1>7 DEF ByHint, Claimed
  <2>2. (hints[p] # Nowhere /\ hints[p] \in Known(g)) \/ p \in Known(g)
    BY <1>3, <2>1 DEF Known
  <2>3. ASSUME where[n] = p PROVE HasRecord(g, n)
    <3>1. OwnPlace(n) /\ OwnHint(n)
      BY <1>1, <1>3, <2>3 DEF Followed
    <3> QED BY <1>3, <2>2, <2>3, <3>1 DEF OwnPlace, OwnHint
  <2>4. ASSUME HasRecord(g, n) PROVE where[n] = p
    <3>1. OwnPage(n, g)
      BY <1>1, <1>3, <2>4 DEF Followed
    <3>2. m \in NotesAt(p)
      BY <1>4 DEF NotesAt
    <3> QED BY <1>3, <1>4, <2>2, <3>1, <3>2 DEF OwnPage
  <2> QED BY <1>2, <2>3, <2>4
<1> QED BY <1>2, <1>6, <1>7

(* And it is paired, when its record is not at its path. *)
LEMMA FollowedIsPaired ==
    ASSUME PagesInv, FollowInv, listing # NoListing, UntrackedFiles \subseteq Files,
           NEW pairs \in Pairings, NEW n \in Notes \ severed, NEW g \in Pages, HasRecord(g, n)
    PROVE  /\ tracked[g].path # where[n] => <<g, where[n]>> \in pairs
           /\ \A q \in Paths : hints[q] = tracked[g].path => <<g, q>> \in pairs
<1>1. MovesTyped /\ OneEach /\ Followed /\ SeenSo
  BY DEF PagesInv, FollowInv
<1>2. /\ OwnPage(n, g) /\ OwnPlace(n) /\ g \in Records /\ where[n] # Nowhere
      /\ tracked[g].path \in Paths /\ tracked[g].path # Nowhere /\ tracked[g].path \in Known(g)
  BY <1>1, RecordFacts, PathFacts DEF Followed, OwnPage, HasRecord, Known
<1>3. /\ hints[where[n]] \notin Listed /\ where[n] \in Listed
      /\ tracked[g].path \in Listed => tracked[g].path = where[n]
  BY <1>1, <1>2 DEF SeenSo
<1>4. ASSUME tracked[g].path # where[n] PROVE <<g, where[n]>> \in pairs
  <2>1. g \in Missing
    BY <1>2, <1>3, <1>4 DEF Missing
  <2>2. where[n] \in UntrackedFiles
    <3>1. ASSUME NEW h \in RecordAt(where[n]) PROVE FALSE
      <4>1. h \in Records /\ h \in Pages /\ tracked[h].path = where[n] /\ where[n] \in Known(h)
        BY <1>2 DEF RecordAt, Records, Known
      <4>2. h = g
        BY <1>2, <4>1 DEF OwnPlace, OwnPage
      <4> QED BY <1>4, <4>1, <4>2
    <3> QED BY <1>3, <3>1 DEF UntrackedFiles
  <2>3. PICK H \in Fullest(ByHint) : \E T \in Fullest(ByText(H)) : H \cup T \subseteq pairs
    BY PairingFacts
  <2>4. PICK T \in Fullest(ByText(H)) : H \cup T \subseteq pairs
    BY <2>3
  <2>5. /\ H \subseteq ByHint /\ OneToOne(H) /\ \A r \in ByHint \ H : ~OneToOne(H \cup {r})
        /\ T \subseteq ByText(H) /\ OneToOne(T) /\ \A r \in ByText(H) \ T : ~OneToOne(T \cup {r})
    BY DEF Fullest, Matchings
  <2>6. ASSUME NEW r \in H \cup T PROVE (r[1] = g <=> r[2] = where[n]) /\ r = <<r[1], r[2]>>
    <3>1. r \in Missing \X UntrackedFiles /\ (r \in ByHint \/ tracked[r[1]].text[1] = TextAt(r[2])[1])
      BY <2>5 DEF ByHint, ByText
    <3>2. HasRecord(r[1], n) <=> where[n] = r[2]
      BY <3>1, PairFollows
    <3>3. HasRecord(r[1], n) <=> r[1] = g
      <4>1. r[1] \in Pages
        BY <3>1 DEF Missing, Records
      <4> QED BY <1>2, <4>1 DEF OwnPage
    <3> QED BY <3>1, <3>2, <3>3
  <2> DEFINE pair == <<g, where[n]>>
  <2>7. pair[1] = g /\ pair[2] = where[n] /\ pair \in Missing \X UntrackedFiles
    BY <2>1, <2>2
  <2>8. CASE pair \in ByHint
    <3>1. OneToOne(H \cup {pair})
      BY <2>5, <2>6, <2>7 DEF OneToOne
    <3> QED BY <2>4, <2>5, <2>8, <3>1
  <2>9. CASE pair \notin ByHint
    <3>1. ~hinting
      <4>1. ASSUME hinting PROVE FALSE
        <5>1. hints[where[n]] = tracked[g].path
          BY <1>2, <1>4, <4>1 DEF OwnPage, Tied
        <5>2. g \in Claimed(where[n])
          BY <1>2, <2>1, <5>1 DEF Claimed
        <5> QED BY <2>7, <2>9, <5>2 DEF ByHint
      <4> QED BY <4>1
    <3>2. tracked[g].text = Text(n)
      BY <1>2, <1>4, <3>1 DEF OwnPage, Tied
    <3>3. TextAt(where[n]) = Text(n)
      BY <1>1, <1>2, FileFacts
    <3>4. \A q \in H : q[1] # g /\ q[2] # where[n]
      <4>1. ASSUME NEW q \in H PROVE q[1] # g /\ q[2] # where[n]
        <5>1. q # pair
          BY <2>5, <2>9
        <5> QED BY <2>6, <5>1
      <4> QED BY <4>1
    <3>5. pair \in ByText(H)
      BY <2>7, <3>2, <3>3, <3>4 DEF ByText
    <3>6. OneToOne(T \cup {pair})
      BY <2>5, <2>6, <2>7 DEF OneToOne
    <3> QED BY <2>4, <2>5, <3>5, <3>6
  <2> QED BY <2>8, <2>9
<1>5. ASSUME NEW q \in Paths, hints[q] = tracked[g].path PROVE <<g, q>> \in pairs
  <2>1. where[n] = q
    BY <1>2, <1>5 DEF OwnPage
  <2> QED BY <1>3, <1>4, <1>5, <2>1
<1> QED BY <1>4, <1>5
(* What a note's history depends on stays as it is. *)
LEMMA SameHistory ==
    ASSUME Followed, HintsOfNotes, UNCHANGED <<hinting, where, version, hints, tracked, severed>>
    PROVE  /\ Followed' /\ HintsOfNotes'
           /\ Records' = Records /\ \A p : RecordAt(p)' = RecordAt(p)
           /\ \A g, n : HasRecord(g, n)' = HasRecord(g, n)
           /\ \A g : Known(g)' = Known(g)
<1>1. /\ Records' = Records /\ \A p : RecordAt(p)' = RecordAt(p) /\ \A g, n : HasRecord(g, n)' = HasRecord(g, n)
      /\ \A g : Known(g)' = Known(g) /\ \A a : NotesAt(a)' = NotesAt(a)
      /\ \A n, g : OwnPage(n, g)' = OwnPage(n, g) /\ OwnPlace(n)' = OwnPlace(n) /\ OwnHint(n)' = OwnHint(n)
  BY DEF Records, RecordAt, HasRecord, Known, NotesAt, OwnPage, Tied, Text, OwnPlace, OwnHint
<1> QED BY <1>1 DEF Followed, HintsOfNotes

LEMMA MakePlanKeepsFollowing == ASSUME PagesInv, FollowInv, MakePlan PROVE FollowInv'
<1>1. /\ listing # NoListing /\ listing' = NoListing
      /\ UNCHANGED <<hinting, where, version, hints, tracked, tasks, severed>>
      /\ \/ plan' = plan
         \/ UntrackedFiles \cup MustRead \subseteq Files /\ \E pairs \in Pairings :
              plan' = [hints |-> hints, pairs |-> pairs, changes |-> Changes(pairs)]
  BY DEF MakePlan, world, notion, state
<1>2. MovesTyped /\ OneEach /\ plan = NoPlan /\ tasks = {} /\ Followed /\ HintsOfNotes /\ SeenSo
  BY <1>1 DEF PagesInv, InTurn, Planning, FollowInv
<1>3. /\ Followed' /\ HintsOfNotes'
      /\ \A g, n : HasRecord(g, n)' = HasRecord(g, n)
  BY <1>1, <1>2, SameHistory
<1>4. SeenSo'
  BY <1>1 DEF SeenSo
<1>5. CASE plan' = plan
  BY <1>1, <1>2, <1>3, <1>4, <1>5 DEF FollowInv, PairedSo, PushedSo, Right
<1>6. CASE plan' # plan
  <2>1. PICK pairs \in Pairings : plan' = [hints |-> hints, pairs |-> pairs, changes |-> Changes(pairs)]
    BY <1>1, <1>6
  <2>2. UntrackedFiles \subseteq Files
    BY <1>1, <1>6
  <2>3. pairs \subseteq Missing \X UntrackedFiles /\ OneToOne(pairs)
        /\ \A r \in pairs : r \in ByHint \/ tracked[r[1]].text[1] = TextAt(r[2])[1]
    BY PairingFacts
  <2>4. Missing \subseteq Records /\ Records \subseteq Pages /\ UntrackedFiles \subseteq Listed /\ Listed \subseteq Paths
    BY <1>1, <1>2, ListedFacts DEF Records
  <2>5. plan'.hints = hints /\ plan'.pairs = pairs /\ plan'.changes = Changes(pairs)
    BY <2>1
  <2>6. ASSUME NEW n \in Notes \ severed
        PROVE  /\ \A r \in pairs :
                    /\ where[n] # Nowhere => hints[where[n]] # r[2]
                    /\ where[n] = r[2] <=> HasRecord(r[1], n)
               /\ \A g \in Pages, q \in Paths :
                    HasRecord(g, n) /\ hints[q] = tracked[g].path => <<g, q>> \in pairs
    <3>1. ASSUME NEW r \in pairs
          PROVE  /\ where[n] # Nowhere => hints[where[n]] # r[2]
                 /\ where[n] = r[2] <=> HasRecord(r[1], n)
      <4>1. r \in Missing \X UntrackedFiles /\ r[2] \in Listed
        BY <2>3, <2>4
      <4>2. where[n] = r[2] <=> HasRecord(r[1], n)
        BY <1>1, <2>2, <2>3, <4>1, PairFollows
      <4> QED BY <1>1, <1>2, <4>1, <4>2 DEF SeenSo
    <3> QED BY <1>1, <2>2, <3>1, FollowedIsPaired
  <2>7. PairedSo'
    <3>1. ASSUME NEW n \in Notes \ severed
          PROVE  /\ \A r \in plan'.pairs :
                      /\ where[n] # Nowhere => hints[where[n]] # r[2]
                      /\ where[n] = r[2] <=> HasRecord(r[1], n)
                 /\ \A g \in Pages, q \in Paths :
                      HasRecord(g, n) /\ plan'.hints[q] = tracked[g].path => <<g, q>> \in plan'.pairs
                 /\ hints[where[n]] = plan'.hints[where[n]]
      BY <2>5, <2>6
    <3> QED BY <1>1, <1>3, <3>1 DEF PairedSo
  <2>8. Right(Changes(pairs))
    <3>1. ASSUME NEW j \in Changes(pairs), NEW n \in Notes \ severed, NEW g \in Pages, HasRecord(g, n)
          PROVE  /\ j.kind = "created" => where[n] # j.at
                 /\ j.kind = "deleted" => tracked[g].path # j.at
      <4>1. /\ tracked[g].path # where[n] => <<g, where[n]>> \in pairs
            /\ g \in Records
        BY <1>1, <2>2, <3>1, FollowedIsPaired DEF HasRecord
      <4>2. /\ j.kind = "created" => RecordAt(j.at) = {} /\ (\A r \in pairs : r[2] # j.at)
            /\ j.kind = "deleted" => \E h \in Missing : j.at = tracked[h].path /\ \A r \in pairs : r[1] # h
        <5>1. j.kind = "created" => RecordAt(j.at) = {} /\ (\A r \in pairs : r[2] # j.at)
          BY <1>1, <1>2, <2>3, ChangesFacts
        <5>2. j.kind = "deleted" => \E h \in Missing : j.at = tracked[h].path /\ \A r \in pairs : r[1] # h
          BY <1>1, <1>2, <2>3, DeletedFacts
        <5> QED BY <5>1, <5>2
      <4>3. ASSUME j.kind = "created", where[n] = j.at PROVE FALSE
        <5>1. tracked[g].path # where[n]
          BY <4>1, <4>2, <4>3 DEF RecordAt
        <5> QED BY <4>1, <4>2, <4>3, <5>1
      <4>4. ASSUME j.kind = "deleted", tracked[g].path = j.at PROVE FALSE
        <5>1. g \in Missing /\ \A r \in pairs : r[1] # g
          BY <1>2, <2>4, <4>1, <4>2, <4>4 DEF OneEach
        <5>2. where[n] \in Listed
          BY <1>1, <1>2, <3>1 DEF SeenSo
        <5>3. tracked[g].path # where[n]
          BY <5>1, <5>2 DEF Missing
        <5> QED BY <4>1, <5>1, <5>3
      <4> QED BY <4>3, <4>4
    <3> QED BY <3>1 DEF Right
  <2>9. PushedSo'
    <3>1. Right(plan.changes)'
      BY <1>1, <1>3, <2>5, <2>8 DEF Right
    <3> QED BY <1>1, <1>2, <3>1 DEF PushedSo, Right
  <2> QED BY <1>3, <1>4, <2>7, <2>9 DEF FollowInv
<1> QED BY <1>5, <1>6

LEMMA AdoptKeepsFollowing == ASSUME PagesInv, FollowInv, Adopt PROVE FollowInv'
<1>1. /\ plan \in Plans /\ plan' = NoPlan /\ listing' = NoListing /\ plan # NoPlan
      /\ tasks' = plan.changes /\ hints' = Pruned /\ Records' = Records /\ Records \subseteq Pages
      /\ UNCHANGED <<hinting, where, version, severed>>
  BY AdoptFacts DEF Adopt, Records
<1>2. /\ MovesTyped /\ OneEach /\ Followed /\ HintsOfNotes /\ PairedSo /\ PushedSo
      /\ \A r \in plan.pairs : r[1] \in Records /\ RecordAt(r[2]) = {}
      /\ \A j \in plan.changes : j.kind = "deleted" => RecordAt(j.at) # {}
      /\ where \in [Notes -> Paths \cup {Nowhere}] /\ hints \in [Paths -> Paths \cup {Nowhere}]
      /\ Nowhere \notin Paths
  BY <1>1, PathFacts DEF PagesInv, PlanFits, FollowInv, MovesTyped, MovesTypeOK
<1>3. \A q \in Paths : hints'[q] = IF hints[q] = plan.hints[q] THEN Nowhere ELSE hints[q]
  BY <1>1 DEF Pruned
<1>4. ASSUME NEW g \in Records
      PROVE  /\ \A n : HasRecord(g, n)' <=> HasRecord(g, n)
             /\ tracked'[g].text = tracked[g].text
             /\ \/ <<g, tracked'[g].path>> \in plan.pairs
                \/ tracked'[g].path = tracked[g].path /\ \A r \in plan.pairs : r[1] # g
             /\ \A a \in Known(g)' : a \in Known(g) \/ <<g, a>> \in plan.pairs
  <2>1. g \in Pages /\ tracked[g] \in Tracking
    BY <1>2, RecordFacts DEF Records
  <2>2. /\ tracked'[g].text = tracked[g].text
        /\ tracked'[g].origin \in {Nowhere, LastKnown(g)}
    BY AdoptFacts
  <2>3. \/ <<g, tracked'[g].path>> \in plan.pairs
        \/ tracked'[g].path = tracked[g].path /\ \A r \in plan.pairs : r[1] # g
    <3>1. CASE \E r \in plan.pairs : r[1] = g
      <4>1. PICK r \in plan.pairs : r[1] = g
        BY <3>1
      <4>2. r = <<g, r[2]>>
        BY <1>1, <4>1 DEF Plans
      <4>3. tracked'[g].path = r[2]
        BY <2>1, <4>1, AdoptFacts
      <4> QED BY <4>1, <4>2, <4>3
    <3>2. CASE \A r \in plan.pairs : r[1] # g
      <4>1. \/ tracked'[g] = tracked[g]
            \/ tracked'[g] = [tracked[g] EXCEPT !.origin = Nowhere]
        BY <2>1, <3>2, AdoptFacts
      <4> QED BY <2>1, <3>2, <4>1 DEF Tracking
    <3> QED BY <3>1, <3>2
  <2>4. \A n : HasRecord(g, n)' <=> HasRecord(g, n)
    BY <1>1, <2>2 DEF HasRecord
  <2>5. ASSUME NEW a \in Known(g)' PROVE a \in Known(g) \/ <<g, a>> \in plan.pairs
    <3>1. a # Nowhere /\ a \in {tracked'[g].path, LastKnown(g)}
      BY <2>2, <2>5 DEF Known
    <3>2. LastKnown(g) \in Known(g) \cup {Nowhere}
      BY DEF LastKnown, Known
    <3> QED BY <2>3, <3>1, <3>2 DEF Known
  <2> QED BY <2>2, <2>3, <2>4, <2>5
<1>5. \A a : NotesAt(a)' = NotesAt(a)
  BY <1>1 DEF NotesAt
<1>6. ASSUME NEW n \in Notes \ severed
      PROVE  /\ \A r \in plan.pairs :
                  /\ where[n] # Nowhere => hints[where[n]] # r[2]
                  /\ where[n] = r[2] <=> HasRecord(r[1], n)
             /\ \A g \in Pages, q \in Paths :
                  HasRecord(g, n) /\ plan.hints[q] = tracked[g].path => <<g, q>> \in plan.pairs
             /\ where[n] \in Adopting \cup Creating => hints[where[n]] \in {Nowhere, plan.hints[where[n]]}
  BY <1>1, <1>2, <1>6 DEF PairedSo
<1>7. ASSUME NEW n \in Notes \ severed, NEW g \in Pages, HasRecord(g, n)' PROVE OwnPage(n, g)'
  <2>1. g \in Records /\ HasRecord(g, n)
    BY <1>1, <1>4, <1>7 DEF HasRecord
  <2>2. OwnPage(n, g) /\ where[n] \in Paths /\ where[n] # Nowhere /\ OwnPlace(n)
    BY <1>2, <2>1 DEF Followed, OwnPage
  <2>3. \A h \in Pages : HasRecord(h, n)' => h = g
    <3>1. ASSUME NEW h \in Pages, HasRecord(h, n)' PROVE h = g
      <4>1. h \in Records
        BY <1>1, <3>1 DEF HasRecord
      <4> QED BY <1>4, <2>2, <3>1, <4>1 DEF OwnPage
    <3> QED BY <3>1
  <2>4. ASSUME NEW a \in Known(g)' PROVE NotesAt(a)' \subseteq {n} /\ \A q \in Paths : hints'[q] = a => where'[n] = q
    <3>0. a # Nowhere
      BY <2>4 DEF Known
    <3>1. CASE a \in Known(g)
      <4>1. NotesAt(a) \subseteq {n} /\ \A q \in Paths : hints[q] = a => where[n] = q
        BY <2>2, <3>1 DEF OwnPage
      <4> QED BY <1>1, <1>3, <1>5, <3>0, <4>1
    <3>2. CASE <<g, a>> \in plan.pairs
      <4>1. where[n] = a
        BY <1>6, <2>1, <3>2
      <4>2. NotesAt(a) = {n}
        BY <1>2, <2>2, <4>1, FileFacts
      <4>3. \A q \in Paths : hints'[q] # a
        BY <1>3, <2>2, <3>0, <4>1 DEF OwnPlace
      <4> QED BY <1>5, <4>2, <4>3
    <3> QED BY <1>4, <2>1, <2>4, <3>1, <3>2
  <2>5. Tied(n, g)'
    <3>1. CASE <<g, tracked'[g].path>> \in plan.pairs
      <4>1. tracked'[g].path = where[n]
        BY <1>6, <2>1, <3>1
      <4>2. where[n] \in Adopting
        BY <1>1, <3>1, <4>1 DEF Adopting
      <4>3. hints'[where[n]] = Nowhere
        BY <1>3, <1>6, <2>2, <4>2
      <4> QED BY <1>1, <4>1, <4>3 DEF Tied
    <3>2. CASE tracked'[g].path = tracked[g].path /\ \A r \in plan.pairs : r[1] # g
      <4>1. CASE hinting
        <5>1. (where[n] = tracked[g].path /\ hints[where[n]] = Nowhere) \/ hints[where[n]] = tracked[g].path
          BY <2>2, <4>1 DEF OwnPage, Tied
        <5>2. hints[where[n]] = Nowhere => hints'[where[n]] = Nowhere
          BY <1>3, <2>2
        <5>3. hints[where[n]] = tracked[g].path => hints'[where[n]] = tracked[g].path
          <6>1. plan.hints[where[n]] # tracked[g].path
            BY <1>6, <2>1, <2>2, <3>2
          <6> QED BY <1>3, <2>2, <6>1
        <5> QED BY <1>1, <3>2, <4>1, <5>1, <5>2, <5>3 DEF Tied
      <4>2. CASE ~hinting
        BY <1>1, <1>4, <2>1, <2>2, <3>2, <4>2 DEF OwnPage, Tied, Text
      <4> QED BY <4>1, <4>2
    <3> QED BY <1>4, <2>1, <3>1, <3>2
  <2> QED BY <1>1, <2>2, <2>3, <2>4, <2>5 DEF OwnPage
<1>8. ASSUME NEW n \in Notes \ severed, where[n] # Nowhere PROVE OwnPlace(n)' /\ OwnHint(n)'
  <2>1. OwnPlace(n) /\ OwnHint(n) /\ where[n] \in Paths
    BY <1>2, <1>8 DEF Followed
  <2>2. OwnPlace(n)'
    <3>1. \A q \in Paths : hints'[q] # where[n]
      BY <1>3, <1>8, <2>1 DEF OwnPlace
    <3>2. ASSUME NEW g \in Records, where[n] \in Known(g)' PROVE HasRecord(g, n)'
      BY <1>4, <1>6, <2>1, <3>2 DEF OwnPlace
    <3> QED BY <1>1, <3>1, <3>2 DEF OwnPlace
  <2>3. ASSUME NEW a, a = hints'[where[n]], a # Nowhere
        PROVE  /\ NotesAt(a) = {} /\ \A q \in Paths : hints'[q] = a => q = where[n]
               /\ \A g \in Records : a \in Known(g)' => HasRecord(g, n)'
    <3>1. a = hints[where[n]]
      BY <1>3, <2>1, <2>3
    <3>2. /\ NotesAt(a) = {} /\ \A q \in Paths : hints[q] = a => q = where[n]
          /\ \A g \in Records : a \in Known(g) => HasRecord(g, n)
      BY <2>1, <2>3, <3>1 DEF OwnHint
    <3>3. \A g \in Records : <<g, a>> \notin plan.pairs
      BY <1>6, <1>8, <3>1
    <3> QED BY <1>3, <1>4, <2>3, <3>2, <3>3
  <2> QED BY <1>1, <1>5, <2>2, <2>3 DEF OwnHint
<1>9. Followed' /\ HintsOfNotes'
  <2>1. Followed'
    BY <1>1, <1>7, <1>8 DEF Followed
  <2>2. HintsOfNotes'
    BY <1>1, <1>2, <1>3, <1>5 DEF HintsOfNotes
  <2> QED BY <2>1, <2>2
<1>10. ASSUME NEW j \in plan.changes, NEW n \in Notes \ severed, NEW g \in Pages, HasRecord(g, n)'
       PROVE  /\ j.kind = "created" => where[n] # j.at
              /\ j.kind = "deleted" => tracked'[g].path # j.at
  <2>1. g \in Records /\ HasRecord(g, n)
    BY <1>1, <1>4, <1>10 DEF HasRecord
  <2>2. /\ j.kind = "created" => where[n] # j.at
        /\ j.kind = "deleted" => tracked[g].path # j.at
    BY <1>1, <1>2, <2>1 DEF PushedSo, Right
  <2>3. j.kind = "deleted" => \A r \in plan.pairs : r[2] # j.at
    BY <1>2
  <2> QED BY <1>4, <2>1, <2>2, <2>3
<1>12. PushedSo'
  <2>1. Right(tasks)'
    BY <1>1, <1>10 DEF Right
  <2>2. ASSUME NEW j \in plan.changes, NEW n \in Notes \ severed, j.kind = "created", where[n] = j.at
        PROVE  hints'[j.at] = Nowhere
    <3>1. j.at \in Creating /\ j.at \in Paths
      BY <1>1, <2>2 DEF Creating, Plans, Tasks
    <3> QED BY <1>3, <1>6, <2>2, <3>1
  <2> QED BY <1>1, <2>1, <2>2 DEF PushedSo
<1>13. SeenSo' /\ PairedSo'
  BY <1>1 DEF SeenSo, PairedSo
<1> QED BY <1>9, <1>12, <1>13 DEF FollowInv
--------------------------------------------------------------------------------
(* A note that can be followed keeps its page: the push. *)

(* A step that makes no record, and forgets places of the records it leaves at most. *)
LEMMA StepKeepsFollowing ==
    ASSUME PagesInv, FollowInv, UNCHANGED <<hinting, where, version, hints, severed>>,
           listing' = NoListing, plan' = NoPlan,
           \A k \in tasks' : \E j \in tasks : k.at = j.at /\ k.kind = j.kind,
           \A g \in Records' : g \in Records /\ tracked'[g].path = tracked[g].path /\ Known(g)' \subseteq Known(g),
           \A g \in Records', n \in Notes \ severed :
              /\ HasRecord(g, n)' <=> HasRecord(g, n)
              /\ HasRecord(g, n) /\ where[n] # tracked[g].path => tracked'[g].text = tracked[g].text
    PROVE  FollowInv'
<1>1. Followed /\ HintsOfNotes /\ PushedSo
  BY DEF FollowInv
<1>2. \A a : NotesAt(a)' = NotesAt(a)
  BY DEF NotesAt
<1>3. ASSUME NEW n \in Notes \ severed, NEW g \in Pages, HasRecord(g, n)' PROVE OwnPage(n, g)' /\ HasRecord(g, n)
  <2>1. g \in Records' /\ g \in Records /\ HasRecord(g, n)
    BY <1>3 DEF HasRecord
  <2>2. OwnPage(n, g)
    BY <1>1, <2>1 DEF Followed
  <2>3. \A h \in Pages : HasRecord(h, n)' => h = g
    BY <2>2 DEF OwnPage, HasRecord
  <2>4. Tied(n, g)'
    BY <2>1, <2>2 DEF OwnPage, Tied, Text
  <2> QED BY <1>2, <2>1, <2>2, <2>3, <2>4 DEF OwnPage
<1>4. ASSUME NEW n \in Notes \ severed, where[n] # Nowhere PROVE OwnPlace(n)' /\ OwnHint(n)'
  <2>1. OwnPlace(n) /\ OwnHint(n)
    BY <1>1, <1>4 DEF Followed
  <2>2. OwnPlace(n)'
    BY <2>1 DEF OwnPlace
  <2>3. OwnHint(n)'
    BY <1>2, <2>1 DEF OwnHint
  <2> QED BY <2>2, <2>3
<1>5. Followed' /\ HintsOfNotes'
  <2>1. Followed'
    BY <1>3, <1>4 DEF Followed
  <2> QED BY <1>1, <1>2, <2>1 DEF HintsOfNotes
<1>6. PushedSo'
  <2>1. ASSUME NEW k \in tasks', NEW n \in Notes \ severed, NEW g \in Pages, HasRecord(g, n)'
        PROVE  /\ k.kind = "created" => where[n] # k.at
               /\ k.kind = "deleted" => tracked'[g].path # k.at
    <3>1. PICK j \in tasks : k.at = j.at /\ k.kind = j.kind
      OBVIOUS
    <3>2. HasRecord(g, n) /\ tracked'[g].path = tracked[g].path
      BY <1>3, <2>1 DEF HasRecord
    <3> QED BY <1>1, <3>1, <3>2 DEF PushedSo, Right
  <2>2. ASSUME NEW k \in tasks', NEW n \in Notes \ severed, k.kind = "created", where[n] = k.at
        PROVE  hints[k.at] = Nowhere
    <3>1. PICK j \in tasks : k.at = j.at /\ k.kind = j.kind
      OBVIOUS
    <3> QED BY <1>1, <2>2, <3>1 DEF PushedSo
  <2>3. Right(tasks)'
    BY <2>1 DEF Right
  <2> QED BY <2>2, <2>3 DEF PushedSo
<1> QED BY <1>5, <1>6 DEF FollowInv, SeenSo, PairedSo

LEMMA ApartKeepsTurn ==
    ASSUME PagesInv, NEW j \in tasks, Apart
    PROVE  listing' = NoListing /\ plan' = NoPlan /\ UNCHANGED <<hinting, where, version, hints, severed>>
BY TaskFacts DEF Apart

LEMMA QuietStepKeepsFollowing ==
    ASSUME PagesInv, FollowInv, UNCHANGED <<hinting, where, version, hints, severed, tracked>>,
           listing' = NoListing, plan' = NoPlan,
           \A k \in tasks' : \E j \in tasks : k.at = j.at /\ k.kind = j.kind
    PROVE  FollowInv'
<1>1. /\ Records' = Records
      /\ \A g : Known(g)' = Known(g)
      /\ \A g, n : HasRecord(g, n)' = HasRecord(g, n)
  BY DEF Records, Known, HasRecord
<1> QED BY <1>1, StepKeepsFollowing

LEMMA BecomesAlike ==
    ASSUME PagesInv, NEW j \in tasks, NEW K, Becomes(j, K)
    PROVE  \A k \in tasks' : \E l \in tasks : k.at = l.at /\ k.kind = l.kind
BY BecomesFacts

LEMMA SendKeepsFollowing ==
    ASSUME PagesInv, FollowInv, NEW j \in tasks, NEW g \in RecordAt(j.at), SendFile(g, j.at), TaskDone(j), Apart
    PROVE  FollowInv'
<1>1. /\ \A h \in Pages \ {g} : tracked'[h] = tracked[h]
      /\ tracked'[g] = [tracked[g] EXCEPT !.text = TextAt(j.at)]
      /\ g \in Pages /\ tracked'[g] # Untracked
  BY SendFacts
<1>2. /\ g \in Records /\ tracked[g].path = j.at /\ tracked[g] \in Tracking /\ j.at \in Paths /\ j.at # Nowhere
      /\ j.at \in Files
  BY TaskFacts, PathFacts DEF SendFile
<1>3. /\ tracked'[g].path = j.at /\ tracked'[g].origin = tracked[g].origin /\ tracked'[g].text = TextAt(j.at)
      /\ Records' = Records
  BY <1>1, <1>2 DEF Tracking, Records
<1>4. PICK m \in Notes : where[m] = j.at /\ TextAt(j.at) = Text(m)
  BY <1>2, FileFacts DEF PagesInv
<1>5. ASSUME NEW n \in Notes \ severed PROVE HasRecord(g, n) <=> n = m
  <2>1. ASSUME HasRecord(g, n) PROVE n = m
    <3>1. NotesAt(j.at) \subseteq {n}
      BY <1>1, <1>2, <2>1 DEF FollowInv, Followed, OwnPage, Known
    <3> QED BY <1>4, <3>1 DEF NotesAt
  <2>2. ASSUME n = m PROVE HasRecord(g, n)
    <3>1. OwnPlace(n) /\ where[n] \in Known(g)
      BY <1>2, <1>4, <2>2 DEF FollowInv, Followed, Known
    <3> QED BY <1>2, <3>1 DEF OwnPlace
  <2> QED BY <2>1, <2>2
<1>6. ASSUME NEW n \in Notes \ severed PROVE HasRecord(g, n)' <=> HasRecord(g, n)
  <2>1. HasRecord(g, n)' <=> n = m
    BY <1>2, <1>3, <1>4 DEF HasRecord, Text
  <2> QED BY <1>5, <2>1
<1>7. ASSUME NEW h \in Records, h # g
      PROVE  /\ tracked'[h] = tracked[h] /\ Known(h)' = Known(h) /\ \A n : HasRecord(h, n)' <=> HasRecord(h, n)
  <2>1. tracked'[h] = tracked[h]
    BY <1>1, <1>7 DEF Records
  <2> QED BY <1>3, <2>1 DEF Known, HasRecord
<1>8. Known(g)' = Known(g)
  BY <1>2, <1>3 DEF Known
<1>9. \A n \in Notes \ severed : HasRecord(g, n) => where[n] = tracked[g].path
  BY <1>2, <1>4, <1>5
<1>10. \A k \in tasks' : \E l \in tasks : k.at = l.at /\ k.kind = l.kind
  BY TaskEnds, BecomesAlike
<1> QED BY <1>2, <1>3, <1>6, <1>7, <1>8, <1>9, <1>10, ApartKeepsTurn, StepKeepsFollowing
LEMMA CreationKeepsFollowing ==
    ASSUME PagesInv, FollowInv, NEW j \in tasks, PushCreate(j), RecordAt(j.at) = {}
    PROVE  FollowInv'
<1>1. /\ j.kind = "created" /\ j.at \in Files /\ TaskDone(j) /\ Apart /\ MovesTyped /\ OneEach
      /\ Followed /\ HintsOfNotes /\ PushedSo
  BY PushIsApart DEF PushCreate, On, PagesInv, FollowInv
<1>2. listing' = NoListing /\ plan' = NoPlan /\ UNCHANGED <<hinting, where, version, hints, severed>>
  BY <1>1, ApartKeepsTurn
<1>3. PICK g \in Unused : tracked' = [tracked EXCEPT ![g] =
        [path |-> j.at, text |-> TextAt(j.at), dir |-> Dir(j.at), origin |-> Nowhere]]
  BY CreationFacts
<1>4. g \in Pages /\ tracked[g] = Untracked /\ tracked \in [Pages -> Tracking \cup {Untracked}]
      /\ j.at \in Paths /\ Nowhere \notin Paths
  BY <1>1, TaskFacts, PathFacts DEF Unused, MovesTyped, MovesTypeOK
<1>5. /\ tracked'[g] = [path |-> j.at, text |-> TextAt(j.at), dir |-> Dir(j.at), origin |-> Nowhere]
      /\ \A h \in Pages \ {g} : tracked'[h] = tracked[h]
  BY <1>3, <1>4
<1>6. PICK m \in Notes : where[m] = j.at /\ TextAt(j.at) = Text(m)
  BY <1>1, FileFacts
<1>7. /\ Records' = Records \cup {g} /\ g \notin Records
      /\ tracked'[g].path = j.at /\ tracked'[g].text = Text(m) /\ Known(g)' = {j.at}
  <2>1. /\ tracked'[g].path = j.at /\ tracked'[g].text = Text(m) /\ tracked'[g].origin = Nowhere
        /\ tracked'[g] # Untracked
    BY <1>5, <1>6 DEF Untracked
  <2> QED BY <1>4, <1>5, <2>1 DEF Records, Known
<1>8. ASSUME NEW h \in Records
      PROVE  /\ h # g /\ tracked'[h] = tracked[h] /\ Known(h)' = Known(h) /\ \A n : HasRecord(h, n)' <=> HasRecord(h, n)
             /\ tracked[h].path # j.at
  <2>1. h # g /\ tracked'[h] = tracked[h]
    BY <1>5, <1>7 DEF Records
  <2> QED BY <1>7, <2>1 DEF Known, HasRecord, RecordAt, PushCreate
<1>9. /\ \A n : HasRecord(g, n)' <=> n = m
      /\ \A a : NotesAt(a)' = NotesAt(a)
  BY <1>2, <1>7 DEF HasRecord, Text, NotesAt
<1>10. m \notin severed => (\A h \in Pages : ~HasRecord(h, m)) /\ hints[where[m]] = Nowhere
  BY <1>1, <1>6 DEF PushedSo, Right
<1>11. ASSUME NEW n \in Notes \ severed, NEW h \in Pages, HasRecord(h, n)' PROVE OwnPage(n, h)'
  <2>1. CASE h = g
    <3>1. n = m
      BY <1>9, <1>11, <2>1
    <3>2. \A i \in Pages : HasRecord(i, n)' => i = g
      BY <1>7, <1>8, <1>10, <3>1 DEF HasRecord
    <3>3. OwnPlace(n)
      BY <1>1, <1>4, <1>6, <3>1 DEF Followed
    <3>4. NotesAt(j.at) \subseteq {n} /\ \A q \in Paths : hints[q] # j.at
      BY <1>1, <1>4, <1>6, <3>1, <3>3, FileFacts DEF OwnPlace
    <3>5. Tied(n, g)'
      BY <1>2, <1>6, <1>7, <1>10, <3>1 DEF Tied
    <3> QED BY <1>2, <1>4, <1>6, <1>7, <1>9, <2>1, <3>1, <3>2, <3>4, <3>5 DEF OwnPage
  <2>2. CASE h # g
    <3>1. h \in Records /\ HasRecord(h, n)
      BY <1>7, <1>8, <1>11, <2>2 DEF HasRecord
    <3>2. OwnPage(n, h) /\ n # m
      BY <1>1, <1>10, <3>1 DEF Followed
    <3>3. ASSUME NEW i \in Pages, HasRecord(i, n)' PROVE i = h
      <4>1. i # g
        BY <1>9, <3>2, <3>3
      <4>2. i \in Records
        BY <1>7, <3>3, <4>1 DEF HasRecord
      <4> QED BY <1>8, <3>2, <3>3, <4>2 DEF OwnPage
    <3>4. Tied(n, h)'
      BY <1>2, <1>8, <3>1, <3>2 DEF OwnPage, Tied, Text
    <3> QED BY <1>2, <1>8, <1>9, <3>1, <3>2, <3>3, <3>4 DEF OwnPage
  <2> QED BY <2>1, <2>2
<1>12. ASSUME NEW n \in Notes \ severed, where[n] # Nowhere PROVE OwnPlace(n)' /\ OwnHint(n)'
  <2>1. OwnPlace(n) /\ OwnHint(n)
    BY <1>1, <1>12 DEF Followed
  <2>2. where[n] = j.at => n = m
    BY <1>1, <1>6, <1>12 DEF OneEach
  <2>3. OwnPlace(n)'
    <3>1. ASSUME NEW h \in Records', where[n] \in Known(h)' PROVE HasRecord(h, n)'
      <4>1. CASE h = g
        BY <1>7, <1>9, <2>2, <3>1, <4>1
      <4>2. CASE h # g
        BY <1>7, <1>8, <2>1, <3>1, <4>2 DEF OwnPlace
      <4> QED BY <4>1, <4>2
    <3> QED BY <1>2, <2>1, <3>1 DEF OwnPlace
  <2>4. ASSUME NEW a, a = hints[where[n]], a # Nowhere
        PROVE  /\ NotesAt(a) = {} /\ \A q \in Paths : hints[q] = a => q = where[n]
               /\ \A h \in Records' : a \in Known(h)' => HasRecord(h, n)'
    <3>1. /\ NotesAt(a) = {} /\ \A q \in Paths : hints[q] = a => q = where[n]
          /\ \A h \in Records : a \in Known(h) => HasRecord(h, n)
      BY <2>1, <2>4 DEF OwnHint
    <3>2. a # j.at
      BY <1>6, <3>1 DEF NotesAt
    <3> QED BY <1>7, <1>8, <3>1, <3>2
  <2> QED BY <1>2, <1>9, <2>3, <2>4 DEF OwnHint
<1>13. Followed' /\ HintsOfNotes'
  <2>1. Followed'
    BY <1>2, <1>11, <1>12 DEF Followed
  <2> QED BY <1>1, <1>2, <1>9, <2>1 DEF HintsOfNotes
<1>14. \A k \in tasks' : k \in tasks /\ k.at # j.at
  BY <1>1 DEF TaskDone, OneEach
<1>15. PushedSo'
  <2>1. ASSUME NEW k \in tasks', NEW n \in Notes \ severed, NEW h \in Pages, HasRecord(h, n)'
        PROVE  /\ k.kind = "created" => where[n] # k.at
               /\ k.kind = "deleted" => tracked'[h].path # k.at
    <3>1. CASE h = g
      BY <1>6, <1>7, <1>9, <1>14, <2>1, <3>1
    <3>2. CASE h # g
      <4>1. h \in Records
        BY <1>7, <2>1, <3>2 DEF HasRecord
      <4> QED BY <1>1, <1>8, <1>14, <2>1, <4>1 DEF PushedSo, Right
    <3> QED BY <3>1, <3>2
  <2>2. Right(tasks)'
    BY <1>2, <2>1 DEF Right
  <2>3. \A k \in tasks', n \in Notes \ severed : k.kind = "created" /\ where[n] = k.at => hints[k.at] = Nowhere
    BY <1>1, <1>14 DEF PushedSo
  <2> QED BY <1>2, <2>2, <2>3 DEF PushedSo
<1> QED BY <1>2, <1>13, <1>15 DEF FollowInv, SeenSo, PairedSo

LEMMA PushStepKeepsFollowing ==
    ASSUME PagesInv, FollowInv, NEW j \in tasks,
           \/ PushCreate(j) \/ PushUpdate(j) \/ PushDelete(j)
           \/ StartMove(j) \/ MovePage(j) \/ SetTitle(j) \/ StoreMove(j) \/ SendMoved(j)
           \/ FileIsGone(j) \/ Misses(j)
    PROVE  FollowInv'
<1>1. CASE PushCreate(j)
  <2>1. TaskDone(j) /\ Apart
    BY <1>1, PushIsApart DEF PushCreate
  <2>2. CASE RecordAt(j.at) # {}
    <3>1. PICK g \in RecordAt(j.at) : SendFile(g, j.at)
      BY <1>1, <2>2 DEF PushCreate
    <3> QED BY <2>1, <3>1, SendKeepsFollowing
  <2> QED BY <1>1, <2>2, CreationKeepsFollowing
<1>2. CASE PushUpdate(j) \/ SendMoved(j)
  <2>1. TaskDone(j) /\ Apart
    BY <1>2, PushIsApart DEF PushUpdate, SendMoved
  <2>2. PICK g \in RecordAt(j.at) : SendFile(g, j.at)
    BY <1>2 DEF PushUpdate, SendMoved
  <2> QED BY <2>1, <2>2, SendKeepsFollowing
<1>3. CASE PushDelete(j)
  <2>1. TaskDone(j) /\ Apart
    BY <1>3, PushIsApart DEF PushDelete
  <2>2. /\ listing' = NoListing /\ plan' = NoPlan /\ UNCHANGED <<hinting, where, version, hints, severed>>
        /\ \A k \in tasks' : \E l \in tasks : k.at = l.at /\ k.kind = l.kind
    BY <2>1, ApartKeepsTurn, TaskEnds, BecomesAlike
  <2>3. \A g \in Pages : tracked'[g] = tracked[g] \/ tracked'[g] = Untracked
    <3>1. tracked \in [Pages -> Tracking \cup {Untracked}]
      BY DEF PagesInv, MovesTyped, MovesTypeOK
    <3>2. tracked' = tracked \/ \E g \in Pages : tracked' = [tracked EXCEPT ![g] = Untracked]
      BY <1>3, TaskFacts DEF PushDelete
    <3> QED BY <3>1, <3>2
  <2>4. ASSUME NEW g \in Records'
        PROVE  /\ g \in Records /\ tracked'[g] = tracked[g] /\ Known(g)' = Known(g)
               /\ \A n : HasRecord(g, n)' <=> HasRecord(g, n)
    <3>1. g \in Records /\ tracked'[g] = tracked[g]
      BY <2>3 DEF Records
    <3> QED BY <3>1 DEF Known, HasRecord
  <2> QED BY <2>2, <2>4, StepKeepsFollowing
<1>4. CASE StoreMove(j)
  <2>1. PICK g \in RecordAt(j.at), K \in {{}, {[j EXCEPT !.step = "body"]}} :
          /\ Becomes(j, K) /\ Apart
          /\ g \in Pages /\ tracked'[g] = [tracked[g] EXCEPT !.origin = Nowhere, !.dir = Dir(j.at)]
          /\ tracked'[g] \in Tracking /\ tracked'[g] # Untracked
          /\ \A h \in Pages \ {g} : tracked'[h] = tracked[h]
    BY <1>4, StoreFacts
  <2>2. /\ listing' = NoListing /\ plan' = NoPlan /\ UNCHANGED <<hinting, where, version, hints, severed>>
        /\ \A k \in tasks' : \E l \in tasks : k.at = l.at /\ k.kind = l.kind
    BY <2>1, ApartKeepsTurn, BecomesAlike
  <2>3. /\ tracked'[g].path = tracked[g].path /\ tracked'[g].text = tracked[g].text
        /\ tracked'[g].origin = Nowhere /\ g \in Records
    BY <2>1, TaskFacts DEF Tracking
  <2>4. Records' = Records
    BY <2>1, <2>3 DEF Records
  <2>5. ASSUME NEW h \in Records
        PROVE  /\ tracked'[h].path = tracked[h].path /\ tracked'[h].text = tracked[h].text
               /\ Known(h)' \subseteq Known(h) /\ \A n : HasRecord(h, n)' <=> HasRecord(h, n)
    <3>1. CASE h = g
      BY <2>3, <2>4, <3>1 DEF Known, HasRecord
    <3>2. CASE h # g
      <4>1. tracked'[h] = tracked[h]
        BY <2>1, <3>2 DEF Records
      <4> QED BY <2>4, <4>1 DEF Known, HasRecord
    <3> QED BY <3>1, <3>2
  <2> QED BY <2>2, <2>4, <2>5, StepKeepsFollowing
<1>5. CASE StartMove(j)
  <2>1. Apart /\ tracked' = tracked
    BY <1>5, PushIsApart DEF StartMove
  <2>2. PICK d, s : OnTo(j, [j EXCEPT !.step = "parent", !.dir = d, !.name = s])
    BY <1>5 DEF StartMove
  <2>3. \A k \in tasks' : \E l \in tasks : k.at = l.at /\ k.kind = l.kind
    BY <2>2, TaskFacts DEF OnTo, Tasks
  <2> QED BY <2>1, <2>3, ApartKeepsTurn, QuietStepKeepsFollowing
<1>6. CASE MovePage(j) \/ SetTitle(j)
  <2>1. Apart /\ tracked' = tracked
    BY <1>6, PushIsApart DEF MovePage, SetTitle
  <2>2. PICK s : OnTo(j, [j EXCEPT !.step = s])
    BY <1>6 DEF MovePage, SetTitle
  <2>3. \A k \in tasks' : \E l \in tasks : k.at = l.at /\ k.kind = l.kind
    BY <2>2, TaskFacts DEF OnTo, Tasks
  <2> QED BY <2>1, <2>3, ApartKeepsTurn, QuietStepKeepsFollowing
<1>7. CASE FileIsGone(j) \/ Misses(j)
  <2>1. UNCHANGED <<hinting, where, version, hints, severed, tracked, listing, plan>> /\ FailedOnce(j)
    BY <1>7 DEF FileIsGone, Misses, world, state
  <2>2. listing' = NoListing /\ plan' = NoPlan
    BY <2>1, TaskFacts
  <2>3. \A k \in tasks' : \E l \in tasks : k.at = l.at /\ k.kind = l.kind
    BY <2>1, FailFacts, BecomesAlike
  <2> QED BY <2>1, <2>2, <2>3, QuietStepKeepsFollowing
<1> QED BY <1>1, <1>2, <1>3, <1>4, <1>5, <1>6, <1>7

LEMMA FollowStep == ASSUME PagesInv, FollowInv, [MovesNext]_movesVars PROVE FollowInv'
<1>1. CASE People
  BY <1>1, PeopleKeepFollowing
<1>2. CASE ListFiles \/ MakePlan \/ Adopt
  BY <1>2, ListFilesKeepsFollowing, MakePlanKeepsFollowing, AdoptKeepsFollowing
<1>3. CASE PushStep \/ \E j \in tasks : Misses(j)
  BY <1>3, PushStepKeepsFollowing DEF PushStep
<1>4. CASE PushDies
  BY <1>4, QuietStepKeepsFollowing DEF PushDies, world, state
<1>5. CASE UNCHANGED movesVars
  <2>1. /\ UNCHANGED <<hinting, where, version, changed, hints, tracked, listing, plan, tasks, severed>>
    BY <1>5 DEF movesVars, world, state, work
  <2>2. \A a : NotesAt(a)' = NotesAt(a)
    BY <2>1 DEF NotesAt
  <2>3. HintsOfNotes'
    BY <2>1, <2>2 DEF FollowInv, HintsOfNotes
  <2>4. ASSUME NEW m \in Notes \ severed', NEW g \in Pages, HasRecord(g, m) PROVE Tied(m, g)'
    BY <2>1, <2>4 DEF FollowInv, Followed, OwnPage, Tied, Text
  <2> QED BY <2>1, <2>2, <2>3, <2>4, FewerKeepFollowing
<1> QED BY <1>1, <1>2, <1>3, <1>4, <1>5 DEF MovesNext

(* ChangeDetector, LocalPlanner, PagePusher and the plugin's rename hints: however a note is *)
(* renamed and edited, and whatever fails in between, no second page is made for it and its  *)
(* page is neither trashed nor about to be, unless its history was severed.                  *)
THEOREM NotesKeepTheirPages == MovesSpec => []NoteKeepsItsPage
<1>1. MovesSpec => [](PagesInv /\ FollowInv)
  BY PagesInit, FollowInit, PagesStep, FollowStep, PTL DEF MovesSpec
<1>2. ASSUME PagesInv, FollowInv PROVE NoteKeepsItsPage
  <2>1. ASSUME NEW n \in Notes \ severed
        PROVE  /\ \A g, h \in Pages : HasRecord(g, n) /\ HasRecord(h, n) => g = h
               /\ \A g \in Pages : onNotion[g] # Gone /\ onNotion[g].text[1] = n => HasRecord(g, n)
               /\ \A j \in tasks : j.kind = "deleted" => \A g \in RecordAt(j.at) : ~HasRecord(g, n)
    <3>1. \A g, h \in Pages : HasRecord(g, n) /\ HasRecord(h, n) => g = h
      BY <1>2 DEF FollowInv, Followed, OwnPage
    <3>2. ASSUME NEW g \in Pages, onNotion[g] # Gone, onNotion[g].text[1] = n PROVE HasRecord(g, n)
      BY <1>2, <3>2 DEF PagesInv, OneEach, Records, HasRecord
    <3>3. ASSUME NEW j \in tasks, j.kind = "deleted", NEW g \in RecordAt(j.at) PROVE ~HasRecord(g, n)
      BY <1>2, <3>3 DEF FollowInv, PushedSo, Right, RecordAt, Records
    <3> QED BY <3>1, <3>2, <3>3
  <2> QED BY <2>1 DEF NoteKeepsItsPage
<1> QED BY <1>1, <1>2, PTL
--------------------------------------------------------------------------------
(* A push that nothing disturbs brings every page to its note. *)

LEMMA CalmListed ==
    ASSUME PagesInv, CalmListing, calm, listing # NoListing
    PROVE  /\ Listed = Files /\ UntrackedFiles \cup MustRead \subseteq Files
           /\ listing = {<<p, TextAt(p)>> : p \in Files}
<1> DEFINE all == {<<p, TextAt(p)>> : p \in Files}
<1>1. listing = all
  BY DEF CalmListing
<1>2. \A p \in Files : <<p, TextAt(p)>> \in all /\ <<p, TextAt(p)>>[1] = p
  OBVIOUS
<1>3. \A f \in all : f[1] \in Files
  OBVIOUS
<1> HIDE DEF all
<1>4. {f[1] : f \in all} = Files
  BY <1>2, <1>3
<1>5. Listed = Files
  BY <1>1, <1>4 DEF Listed
<1>6. UntrackedFiles \subseteq Listed /\ MustRead \subseteq Listed
  BY ListedFacts DEF PagesInv
<1> QED BY <1>1, <1>5, <1>6 DEF all

(* The undisturbed plan provides for every note. *)
LEMMA MakePlanProvides ==
    ASSUME PagesInv, FollowInv, CalmInv, MakePlan, calm
    PROVE  plan' # NoPlan /\ \A n \in Notes \ severed : where[n] # Nowhere => Planned(n)'
<1>1. /\ listing # NoListing /\ MovesTyped /\ OneEach /\ Followed
      /\ UNCHANGED <<hinting, where, version, hints, tracked, severed>>
  BY DEF MakePlan, world, notion, state, PagesInv, FollowInv
<1>2. /\ Listed = Files /\ UntrackedFiles \cup MustRead \subseteq Files /\ UntrackedFiles \subseteq Files
      /\ listing = {<<p, TextAt(p)>> : p \in Files}
  BY <1>1, CalmListed DEF CalmInv
<1>3. PICK pairs \in Pairings : plan' = [hints |-> hints, pairs |-> pairs, changes |-> Changes(pairs)]
  BY <1>2 DEF MakePlan
<1>4. plan'.pairs = pairs /\ plan'.changes = Changes(pairs) /\ plan' # NoPlan
  BY <1>3 DEF NoPlan
<1>5. PairedSo'
  BY MakePlanKeepsFollowing DEF FollowInv
<1>6. /\ Records' = Records /\ \A g, n : HasRecord(g, n)' = HasRecord(g, n)
      /\ \A n : Text(n)' = Text(n) /\ \A g : LastKnown(g)' = LastKnown(g)
  BY <1>1 DEF Records, HasRecord, Text, LastKnown
<1>7. pairs \subseteq Missing \X UntrackedFiles /\ \A g \in Missing : g \in Pages /\ tracked[g].path \notin Listed
  BY <1>1, PairingFacts DEF Missing, Records
<1>8. ASSUME NEW n \in Notes \ severed, where[n] # Nowhere PROVE Planned(n)'
  <2>1. TextAt(where[n]) = Text(n) /\ where[n] \in Files /\ OwnPlace(n)
    BY <1>1, <1>8, FileFacts DEF Followed
  <2>2. CASE \A g \in Pages : ~HasRecord(g, n)
    <3>1. RecordAt(where[n]) = {}
      BY <2>1, <2>2, <1>8 DEF OwnPlace, RecordAt, Known, Records
    <3>2. where[n] \in UntrackedFiles
      BY <1>2, <2>1, <3>1 DEF UntrackedFiles
    <3>3. \A r \in pairs : r[2] # where[n]
      <4>1. \A r \in pairs : where[n] = r[2] <=> HasRecord(r[1], n)
        BY <1>1, <1>4, <1>5, <1>6 DEF PairedSo
      <4> QED BY <1>7, <2>2, <4>1
    <3>4. Task("created", where[n], Nowhere, TextAt(where[n])) \in Changes(pairs)
      BY <3>2, <3>3 DEF Changes
    <3>5. \E j \in plan'.changes : j.kind = "created" /\ j.at = where[n]
      BY <1>4, <3>4 DEF Task
    <3> QED BY <1>1, <3>5 DEF Planned
  <2>3. ASSUME NEW g \in Pages, HasRecord(g, n) PROVE Planned(n)'
    <3>1. (tracked[g].path # where[n] => <<g, where[n]>> \in pairs) /\ g \in Records
      BY <1>1, <1>2, <2>3, FollowedIsPaired DEF HasRecord
    <3> DEFINE moved == \E j \in Changes(pairs) : j.kind = "moved" /\ j.at = where[n] /\ j.text = Text(n)
               sent == \E j \in Changes(pairs) : j.kind \in {"moved", "modified"} /\ j.at = where[n] /\ j.text = Text(n)
    <3>2. CASE tracked[g].path # where[n]
      <4>1. PICK r \in pairs : r = <<g, where[n]>> /\ r[1] = g /\ r[2] = where[n]
        BY <3>1, <3>2
      <4>2. ASSUME LastKnown(g) # where[n] PROVE moved
        <5>1. Task("moved", r[2], LastKnown(r[1]), TextAt(r[2])) \in Changes(pairs)
          BY <4>1, <4>2 DEF Changes
        <5> QED BY <2>1, <4>1, <5>1 DEF Task
      <4>3. ASSUME tracked[g].text # Text(n) PROVE sent
        <5>1. CASE LastKnown(g) # where[n]
          BY <4>2, <5>1
        <5>2. CASE LastKnown(g) = where[n]
          <6>1. Task("modified", r[2], Nowhere, TextAt(r[2])) \in Changes(pairs)
            BY <2>1, <4>1, <4>3, <5>2 DEF Changes
          <6> QED BY <2>1, <4>1, <6>1 DEF Task
        <5> QED BY <5>1, <5>2
      <4> QED BY <1>1, <1>4, <1>6, <2>3, <4>1, <4>2, <4>3 DEF Planned
    <3>3. CASE tracked[g].path = where[n]
      <4>1. \A r \in pairs : r[1] # g
        BY <1>2, <1>7, <2>1, <3>3
      <4>2. g \in RecordAt(where[n]) /\ <<where[n], Text(n)>> \in listing
        BY <1>2, <2>1, <3>1, <3>3 DEF RecordAt
      <4>3. Sending(g) \/ tracked[g].text # Text(n) => where[n] \in MustRead
        <5>1. PICK l \in listing : l = <<where[n], Text(n)>> /\ l[1] = where[n] /\ l[2] = Text(n)
          BY <4>2
        <5> QED BY <4>2, <5>1 DEF MustRead
      <4>4. ASSUME Sending(g) PROVE moved
        <5>1. Task("moved", tracked[g].path, tracked[g].origin, TextAt(tracked[g].path)) \in Changes(pairs)
          BY <3>1, <3>3, <4>3, <4>4 DEF Changes
        <5> QED BY <2>1, <3>3, <5>1 DEF Task
      <4>5. LastKnown(g) # where[n] => Sending(g)
        BY <3>3 DEF LastKnown, Sending
      <4>6. ASSUME tracked[g].text # Text(n) PROVE sent
        <5>1. CASE Sending(g)
          BY <4>4, <5>1
        <5>2. CASE ~Sending(g)
          <6>1. Task("modified", tracked[g].path, Nowhere, TextAt(tracked[g].path)) \in Changes(pairs)
            BY <2>1, <3>1, <3>3, <4>3, <4>6, <5>2 DEF Changes
          <6> QED BY <2>1, <3>3, <6>1 DEF Task
        <5> QED BY <5>1, <5>2
      <4> QED BY <1>1, <1>4, <1>6, <2>3, <3>3, <4>1, <4>4, <4>5, <4>6 DEF Planned
    <3> QED BY <3>2, <3>3
  <2> QED BY <2>2, <2>3
<1> QED BY <1>4, <1>8

LEMMA AdoptBrings ==
    ASSUME PagesInv, Adopt, NEW n \in Notes, Planned(n) PROVE Coming(n)'
<1>1. /\ plan # NoPlan /\ plan \in Plans /\ tasks' = plan.changes /\ Records' = Records
      /\ UNCHANGED <<where, version>> /\ \A j \in plan.changes : j.step = "start"
  BY AdoptFacts DEF Adopt, PagesInv, PlanFits
<1>2. CASE \E j \in plan.changes : j.kind = "created" /\ j.at = where[n]
  BY <1>1, <1>2 DEF Coming
<1>3. ASSUME NEW g \in Pages, HasRecord(g, n),
             \/ <<g, where[n]>> \in plan.pairs
             \/ tracked[g].path = where[n] /\ \A r \in plan.pairs : r[1] # g,
             LastKnown(g) # where[n] =>
               \E j \in plan.changes : j.kind = "moved" /\ j.at = where[n] /\ j.text = Text(n),
             tracked[g].text # Text(n) =>
               \E j \in plan.changes : j.kind \in {"moved", "modified"} /\ j.at = where[n] /\ j.text = Text(n)
      PROVE  Coming(n)'
  <2>1. /\ g \in Records /\ tracked[g] \in Tracking
    BY <1>3, RecordFacts DEF PagesInv, HasRecord
  <2>2. /\ tracked'[g].text = tracked[g].text
        /\ tracked'[g].origin \in {Nowhere, LastKnown(g)} \ {tracked'[g].path}
    BY <2>1, AdoptFacts
  <2>3. tracked'[g].path = where[n]
    <3>1. CASE <<g, where[n]>> \in plan.pairs
      <4>1. PICK r \in plan.pairs : r[1] = g /\ r[2] = where[n]
        BY <3>1
      <4> QED BY <4>1, AdoptFacts
    <3>2. CASE tracked[g].path = where[n] /\ \A r \in plan.pairs : r[1] # g
      <4>1. \/ tracked'[g] = tracked[g]
            \/ tracked'[g] = [tracked[g] EXCEPT !.origin = Nowhere]
        BY <3>2, AdoptFacts
      <4> QED BY <2>1, <3>2, <4>1 DEF Tracking
    <3> QED BY <1>3, <3>1, <3>2
  <2>4. HasRecord(g, n)' /\ Text(n)' = Text(n)
    BY <1>1, <1>3, <2>1, <2>2 DEF HasRecord, Text
  <2>5. tracked'[g].origin # Nowhere =>
          \E j \in tasks' : j.kind = "moved" /\ j.at = where[n] /\ j.step # "body" /\ j.text = Text(n)
    BY <1>1, <1>3, <2>2, <2>3
  <2>6. tracked'[g].text # Text(n) =>
          \E j \in tasks' : j.at = where[n] /\ (j.kind = "modified" \/ (j.kind = "moved" /\ j.text = Text(n)))
    BY <1>1, <1>3, <2>2
  <2> QED BY <1>1, <2>3, <2>4, <2>5, <2>6 DEF Coming
<1> QED BY <1>2, <1>3 DEF Planned
(* A note whose page's record and task are not touched is still coming. *)
LEMMA OthersStillCome ==
    ASSUME NEW n \in Notes, Coming(n), UNCHANGED <<where, version>>,
           NEW j \in tasks, \A k \in tasks : k # j => k \in tasks', j.at # where[n],
           \A g \in Records : tracked[g].path = where[n] => tracked'[g] = tracked[g]
    PROVE  Coming(n)'
<1>1. \A k \in tasks : k.at = where[n] => k \in tasks'
  OBVIOUS
<1>2. CASE \E k \in tasks : k.kind = "created" /\ k.at = where[n]
  BY <1>1, <1>2 DEF Coming
<1>3. ASSUME NEW g \in Pages, HasRecord(g, n), tracked[g].path = where[n],
             tracked[g].origin # Nowhere =>
               \E k \in tasks : k.kind = "moved" /\ k.at = where[n] /\ k.step # "body" /\ k.text = Text(n),
             tracked[g].text # Text(n) =>
               \E k \in tasks : k.at = where[n] /\ (k.kind = "modified" \/
                   (k.kind = "moved" /\ (k.step = "body" \/ k.text = Text(n))))
      PROVE  Coming(n)'
  <2>1. tracked'[g] = tracked[g] /\ HasRecord(g, n)' /\ Text(n)' = Text(n)
    BY <1>3 DEF HasRecord, Records, Text
  <2>2. tracked'[g].origin # Nowhere =>
          \E k \in tasks' : k.kind = "moved" /\ k.at = where[n] /\ k.step # "body" /\ k.text = Text(n)
    BY <1>1, <1>3, <2>1
  <2>3. tracked'[g].text # Text(n) =>
          \E k \in tasks' : k.at = where[n] /\ (k.kind = "modified" \/
              (k.kind = "moved" /\ (k.step = "body" \/ k.text = Text(n))))
    BY <1>1, <1>3, <2>1
  <2> QED BY <1>3, <2>1, <2>2, <2>3 DEF Coming
<1> QED BY <1>2, <1>3 DEF Coming

(* What is known of a note that is coming when a task at its place is taken up. *)
LEMMA ComingAt ==
    ASSUME PagesInv, FollowInv, NEW j \in tasks, NEW n \in Notes \ severed, where[n] = j.at, Coming(n),
           j.kind # "created"
    PROVE  /\ j.kind # "deleted"
           /\ \E g \in RecordAt(j.at) :
                /\ HasRecord(g, n)
                /\ tracked[g].origin # Nowhere => j.kind = "moved" /\ j.step # "body" /\ j.text = Text(n)
                /\ tracked[g].text # Text(n) => \/ j.kind = "modified"
                                                \/ j.kind = "moved" /\ (j.step = "body" \/ j.text = Text(n))
<1>1. \A k \in tasks : k.at = where[n] => k = j
  BY DEF PagesInv, OneEach
<1>2. PICK g \in Pages :
        /\ HasRecord(g, n) /\ tracked[g].path = where[n]
        /\ tracked[g].origin # Nowhere =>
             \E k \in tasks : k.kind = "moved" /\ k.at = where[n] /\ k.step # "body" /\ k.text = Text(n)
        /\ tracked[g].text # Text(n) =>
             \E k \in tasks : k.at = where[n] /\ (k.kind = "modified" \/
                 (k.kind = "moved" /\ (k.step = "body" \/ k.text = Text(n))))
  BY <1>1 DEF Coming
<1>3. g \in RecordAt(j.at)
  BY <1>2 DEF RecordAt, HasRecord
<1>4. j.kind # "deleted"
  BY <1>2 DEF FollowInv, PushedSo, Right
<1> QED BY <1>1, <1>2, <1>3, <1>4

(* The record of the note has its place and text once its task is over. *)
LEMMA ComesHome ==
    ASSUME NEW n \in Notes, UNCHANGED <<where, version>>, NEW g \in Pages, HasRecord(g, n)',
           tracked'[g].path = where[n],
           tracked'[g].origin # Nowhere =>
              \E k \in tasks' : k.kind = "moved" /\ k.at = where[n] /\ k.step # "body" /\ k.text = Text(n),
           tracked'[g].text # Text(n) =>
              \E k \in tasks' : k.at = where[n] /\ (k.kind = "modified" \/
                  (k.kind = "moved" /\ (k.step = "body" \/ k.text = Text(n))))
    PROVE  Coming(n)'
<1>1. Text(n)' = Text(n)
  BY DEF Text
<1> QED BY <1>1 DEF Coming

LEMMA CreationBrings ==
    ASSUME PagesInv, FollowInv, NEW j \in tasks, PushCreate(j), NEW n \in Notes \ severed, where[n] # Nowhere, Coming(n)
    PROVE  Coming(n)'
<1>1. /\ RecordAt(j.at) = {} /\ TaskDone(j) /\ UNCHANGED <<where, version>> /\ j.at \in Files
      /\ MovesTyped /\ OneEach
  BY DEF PushCreate, On, PagesInv, CreatesNew, DuringPush, world
<1>2. PICK g \in Unused : tracked' = [tracked EXCEPT ![g] =
        [path |-> j.at, text |-> TextAt(j.at), dir |-> Dir(j.at), origin |-> Nowhere]]
  BY <1>1, CreationFacts
<1>3. /\ g \in Pages /\ tracked[g] = Untracked
      /\ tracked'[g] = [path |-> j.at, text |-> TextAt(j.at), dir |-> Dir(j.at), origin |-> Nowhere]
      /\ \A h \in Pages \ {g} : tracked'[h] = tracked[h]
  BY <1>1, <1>2 DEF Unused, MovesTyped, MovesTypeOK
<1>4. CASE where[n] = j.at
  <2>1. TextAt(j.at) = Text(n)
    BY <1>1, <1>4, FileFacts
  <2>2. /\ tracked'[g].path = where[n] /\ tracked'[g].origin = Nowhere /\ tracked'[g].text = Text(n)
        /\ tracked'[g] # Untracked /\ tracked'[g].text[1] = n
    BY <1>3, <1>4, <2>1 DEF Untracked, Text
  <2>3. HasRecord(g, n)'
    BY <1>3, <2>2 DEF HasRecord, Records
  <2> QED BY <1>1, <1>3, <2>2, <2>3, ComesHome
<1>5. CASE where[n] # j.at
  <2>1. \A k \in tasks : k # j => k \in tasks'
    BY <1>1 DEF TaskDone
  <2>2. \A h \in Records : tracked'[h] = tracked[h]
    BY <1>3 DEF Records
  <2> QED BY <1>1, <1>5, <2>1, <2>2, OthersStillCome
<1> QED BY <1>4, <1>5

LEMMA SendBrings ==
    ASSUME PagesInv, FollowInv, NEW j \in tasks, PushUpdate(j) \/ SendMoved(j),
           NEW n \in Notes \ severed, where[n] # Nowhere, Coming(n)
    PROVE  Coming(n)'
<1>1. /\ TaskDone(j) /\ UNCHANGED <<where, version>> /\ MovesTyped /\ OneEach
      /\ j.kind = "modified" \/ (j.kind = "moved" /\ j.step = "body")
  BY DEF PushUpdate, SendMoved, On, PagesInv, DuringPush, world
<1>2. PICK g \in RecordAt(j.at) : SendFile(g, j.at)
  BY DEF PushUpdate, SendMoved
<1>3. /\ g \in Pages /\ \A h \in Pages \ {g} : tracked'[h] = tracked[h]
      /\ tracked'[g] = [tracked[g] EXCEPT !.text = TextAt(j.at)] /\ tracked'[g] # Untracked
  BY <1>2, SendFacts
<1>4. /\ tracked[g].path = j.at /\ tracked[g] \in Tracking /\ \A h \in RecordAt(j.at) : h = g
  BY <1>1, <1>2, TaskFacts DEF OneEach, RecordAt
<1>5. tracked'[g].path = j.at /\ tracked'[g].origin = tracked[g].origin /\ tracked'[g].text = TextAt(j.at)
  BY <1>3, <1>4 DEF Tracking
<1>6. CASE where[n] = j.at
  <2>1. tracked[g].origin = Nowhere
    BY <1>1, <1>4, <1>6, ComingAt
  <2>2. TextAt(j.at) = Text(n) /\ TextAt(j.at)[1] = n
    BY <1>1, <1>6, FileFacts DEF Text
  <2>3. HasRecord(g, n)'
    BY <1>3, <1>5, <2>2 DEF HasRecord, Records
  <2> QED BY <1>1, <1>3, <1>5, <1>6, <2>1, <2>2, <2>3, ComesHome
<1>7. CASE where[n] # j.at
  <2>1. \A k \in tasks : k # j => k \in tasks'
    BY <1>1 DEF TaskDone
  <2>2. \A h \in Records : tracked[h].path = where[n] => tracked'[h] = tracked[h]
    BY <1>3, <1>4, <1>7 DEF Records
  <2> QED BY <1>1, <1>7, <2>1, <2>2, OthersStillCome
<1> QED BY <1>6, <1>7

LEMMA DeletionBrings ==
    ASSUME PagesInv, FollowInv, NEW j \in tasks, PushDelete(j), NEW n \in Notes \ severed, where[n] # Nowhere, Coming(n)
    PROVE  Coming(n)'
<1>1. /\ TaskDone(j) /\ UNCHANGED <<where, version>> /\ j.kind = "deleted"
  BY DEF PushDelete, On, DuringPush, world
<1>2. where[n] # j.at
  BY <1>1, ComingAt
<1>3. \A k \in tasks : k # j => k \in tasks'
  BY <1>1 DEF TaskDone
<1>4. ASSUME NEW h \in Records, tracked[h].path = where[n] PROVE tracked'[h] = tracked[h]
  <2>1. tracked \in [Pages -> Tracking \cup {Untracked}]
    BY DEF PagesInv, MovesTyped, MovesTypeOK
  <2>2. tracked' = tracked \/ \E g \in RecordAt(j.at) : tracked' = [tracked EXCEPT ![g] = Untracked]
    BY DEF PushDelete
  <2>3. h \notin RecordAt(j.at) /\ h \in Pages
    BY <1>2, <1>4 DEF RecordAt, Records
  <2> QED BY <2>1, <2>2, <2>3
<1> QED BY <1>1, <1>2, <1>3, <1>4, OthersStillCome

LEMMA MoveBrings ==
    ASSUME PagesInv, FollowInv, NEW j \in tasks, StartMove(j) \/ MovePage(j) \/ SetTitle(j),
           NEW n \in Notes \ severed, where[n] # Nowhere, Coming(n)
    PROVE  Coming(n)'
<1>1. /\ UNCHANGED <<where, version, tracked>> /\ j.kind = "moved" /\ j.step \in {"start", "parent", "title"}
      /\ j \in Tasks
  BY TaskFacts DEF StartMove, MovePage, SetTitle, On, DuringPush, world
<1>2. PICK k : /\ OnTo(j, k) /\ k.at = j.at /\ k.kind = "moved" /\ k.step # "body" /\ k.text = j.text
  <2>1. CASE StartMove(j)
    <3>1. PICK d, s : OnTo(j, [j EXCEPT !.step = "parent", !.dir = d, !.name = s])
      BY <2>1 DEF StartMove
    <3>2. PICK k : k = [j EXCEPT !.step = "parent", !.dir = d, !.name = s]
      OBVIOUS
    <3>3. k.at = j.at /\ k.kind = j.kind /\ k.step = "parent" /\ k.text = j.text
      BY <1>1, <3>2 DEF Tasks
    <3> QED BY <1>1, <3>1, <3>2, <3>3
  <2>2. CASE MovePage(j)
    BY <1>1, <2>2 DEF MovePage, Tasks
  <2>3. CASE SetTitle(j)
    BY <1>1, <2>3 DEF SetTitle, Tasks
  <2> QED BY <2>1, <2>2, <2>3
<1>3. k \in tasks' /\ \A l \in tasks : l # j => l \in tasks'
  BY <1>2 DEF OnTo
<1>4. CASE where[n] = j.at
  <2>1. PICK g \in RecordAt(j.at) :
          /\ HasRecord(g, n)
          /\ tracked[g].origin # Nowhere => j.text = Text(n)
          /\ tracked[g].text # Text(n) => j.text = Text(n)
    BY <1>1, <1>4, ComingAt
  <2>2. HasRecord(g, n)' /\ tracked'[g].path = where[n] /\ g \in Pages
    BY <1>1, <1>4, <2>1, TaskFacts DEF HasRecord, Records
  <2> QED BY <1>1, <1>2, <1>3, <1>4, <2>1, <2>2, ComesHome
<1>5. CASE where[n] # j.at
  BY <1>1, <1>3, <1>5, OthersStillCome
<1> QED BY <1>4, <1>5

LEMMA StoreBrings ==
    ASSUME PagesInv, FollowInv, NEW j \in tasks, StoreMove(j), NEW n \in Notes \ severed, where[n] # Nowhere, Coming(n)
    PROVE  Coming(n)'
<1>1. /\ UNCHANGED <<where, version>> /\ j.kind = "moved" /\ j.step = "store" /\ j \in Tasks /\ OneEach
  BY TaskFacts DEF StoreMove, On, DuringPush, world, PagesInv
<1>2. PICK g \in RecordAt(j.at), K \in {{}, {[j EXCEPT !.step = "body"]}} :
        /\ Becomes(j, K) /\ (tracked[g].text # j.text => K # {})
        /\ g \in Pages /\ tracked'[g] = [tracked[g] EXCEPT !.origin = Nowhere, !.dir = Dir(j.at)]
        /\ tracked'[g] # Untracked
        /\ \A h \in Pages \ {g} : tracked'[h] = tracked[h]
  BY StoreFacts
<1>3. /\ tracked[g].path = j.at /\ tracked[g] \in Tracking /\ \A h \in RecordAt(j.at) : h = g
  BY <1>1, TaskFacts DEF OneEach, RecordAt
<1>4. tracked'[g].path = j.at /\ tracked'[g].origin = Nowhere /\ tracked'[g].text = tracked[g].text
  BY <1>2, <1>3 DEF Tracking
<1>5. CASE where[n] = j.at
  <2>1. HasRecord(g, n) /\ (tracked[g].text # Text(n) => j.text = Text(n))
    BY <1>1, <1>3, <1>5, ComingAt
  <2>2. HasRecord(g, n)'
    BY <1>2, <1>4, <2>1 DEF HasRecord, Records
  <2>3. ASSUME tracked[g].text # Text(n) PROVE \E k \in tasks' : k.at = j.at /\ k.kind = "moved" /\ k.step = "body"
    <3>1. K = {[j EXCEPT !.step = "body"]}
      BY <1>2, <2>1, <2>3
    <3>2. PICK k : k = [j EXCEPT !.step = "body"]
      OBVIOUS
    <3>3. k \in tasks' /\ k.at = j.at /\ k.kind = "moved" /\ k.step = "body"
      BY <1>1, <1>2, <3>1, <3>2 DEF Becomes, Tasks
    <3> QED BY <3>3
  <2> QED BY <1>1, <1>2, <1>4, <1>5, <2>2, <2>3, ComesHome
<1>6. CASE where[n] # j.at
  <2>1. \A k \in tasks : k # j => k \in tasks'
    BY <1>2 DEF Becomes
  <2>2. \A h \in Records : tracked[h].path = where[n] => tracked'[h] = tracked[h]
    BY <1>2, <1>3, <1>6 DEF Records
  <2> QED BY <1>1, <1>6, <2>1, <2>2, OthersStillCome
<1> QED BY <1>5, <1>6

LEMMA CalmStep == ASSUME PagesInv, FollowInv, CalmInv, [MovesNext]_movesVars PROVE CalmInv'
<1>1. CASE calm' = FALSE
  BY <1>1 DEF CalmInv, CalmListing
<1>2. CASE ListFiles
  <2>1. /\ listing' = {<<p, TextAt(p)>> : p \in Files} /\ UNCHANGED <<where, version, plan, severed>> /\ plan = NoPlan
    BY <1>2 DEF ListFiles, world
  <2>2. /\ Files' = Files /\ \A p : TextAt(p)' = TextAt(p)
    BY <2>1 DEF Files, NotesAt, TextAt, Text
  <2>3. {<<p, TextAt(p)>> : p \in Files}' = {<<p, TextAt(p)>> : p \in Files}
    BY <2>2
  <2>4. listing' # NoListing
    <3>1. \A p \in Files : p \in Paths /\ TextAt(p) \in Texts
      BY FileFacts DEF PagesInv
    <3>2. listing' \in SUBSET (Paths \X Texts)
      BY <2>1, <3>1
    <3> QED BY <3>2, PathFacts
  <2> QED BY <2>1, <2>3, <2>4 DEF CalmInv, CalmListing, Planning
<1>3. CASE MakePlan
  <2>1. listing' = NoListing /\ UNCHANGED <<where, severed, calm>>
    BY <1>3 DEF MakePlan, world
  <2>2. calm => plan' # NoPlan /\ \A n \in Notes \ severed : where[n] # Nowhere => Planned(n)'
    BY <1>3, MakePlanProvides
  <2> QED BY <2>1, <2>2 DEF CalmInv, CalmListing, Planning
<1>4. CASE Adopt
  <2>1. listing' = NoListing /\ plan' = NoPlan /\ UNCHANGED <<where, severed, calm>> /\ plan # NoPlan
    BY <1>4, AdoptFacts DEF Adopt
  <2>2. \A n \in Notes : Planned(n) => Coming(n)'
    BY <1>4, AdoptBrings
  <2> QED BY <2>1, <2>2 DEF CalmInv, CalmListing
<1>5. ASSUME NEW j \in tasks,
             \/ PushCreate(j) \/ PushUpdate(j) \/ PushDelete(j)
             \/ StartMove(j) \/ MovePage(j) \/ SetTitle(j) \/ StoreMove(j) \/ SendMoved(j)
      PROVE  CalmInv'
  <2>1. UNCHANGED <<where, listing, plan, severed, calm>>
    BY <1>5 DEF PushCreate, PushUpdate, PushDelete, StartMove, MovePage, SetTitle, StoreMove, SendMoved,
       DuringPush, world
  <2>2. listing = NoListing /\ plan = NoPlan
    BY TaskFacts
  <2>3. \A n \in Notes \ severed : where[n] # Nowhere /\ Coming(n) => Coming(n)'
    BY <1>5, CreationBrings, SendBrings, DeletionBrings, MoveBrings, StoreBrings
  <2> QED BY <2>1, <2>2, <2>3 DEF CalmInv, CalmListing, Planning
<1>6. CASE UNCHANGED movesVars
  <2>1. UNCHANGED <<where, version, tracked, listing, plan, tasks, severed, calm>>
    BY <1>6 DEF movesVars, world, state, work
  <2>2. /\ Files' = Files /\ \A p : TextAt(p)' = TextAt(p)
    BY <2>1 DEF Files, NotesAt, TextAt, Text
  <2>3. /\ \A g, n : HasRecord(g, n)' = HasRecord(g, n)
        /\ \A g : LastKnown(g)' = LastKnown(g)
        /\ \A n : Text(n)' = Text(n)
    BY <2>1 DEF HasRecord, Records, LastKnown, Text
  <2>4. \A n : Planned(n)' = Planned(n) /\ Coming(n)' = Coming(n)
    BY <2>1, <2>3 DEF Planned, Coming
  <2>5. {<<p, TextAt(p)>> : p \in Files}' = {<<p, TextAt(p)>> : p \in Files}
    BY <2>2
  <2> QED BY <2>1, <2>4, <2>5 DEF CalmInv, CalmListing, Planning
<1>7. CASE People
  <2>1. calm' = FALSE
    BY <1>7 DEF People, Rename, EditNote, CreateNote, DeleteNote, VaultChange
  <2> QED BY <1>1, <2>1
<1>8. CASE PushDies \/ \E j \in tasks : Misses(j) \/ FileIsGone(j)
  <2>1. calm' = FALSE
    BY <1>8 DEF PushDies, Misses, FileIsGone
  <2> QED BY <1>1, <2>1
<1>9. CASE PushStep
  BY <1>5, <1>8, <1>9 DEF PushStep
<1> QED BY <1>2, <1>3, <1>4, <1>6, <1>7, <1>8, <1>9 DEF MovesNext

(* The whole push: one that nothing disturbs, whatever was left half done before it, brings *)
(* every note's page to the note's place with its text.                                     *)
THEOREM CalmPushesArrive == MovesSpec => []CalmPushArrives
<1>1. MovesInit => CalmInv
  BY DEF MovesInit, CalmInv, CalmListing
<1>2. MovesSpec => [](PagesInv /\ FollowInv /\ CalmInv)
  BY <1>1, PagesInit, FollowInit, PagesStep, FollowStep, CalmStep, PTL DEF MovesSpec
<1>3. ASSUME PagesInv, CalmInv PROVE CalmPushArrives
  <2>1. ASSUME calm, ~Planning, tasks = {}, NEW n \in Notes \ severed, where[n] # Nowhere
        PROVE  \E g \in Records : onNotion[g].text = Text(n) /\ (g \in torn \/ PlaceOf(g) = where[n])
    <3>1. Coming(n)
      BY <1>3, <2>1 DEF CalmInv
    <3>2. PICK g \in Pages : /\ HasRecord(g, n) /\ tracked[g].path = where[n]
                             /\ tracked[g].origin = Nowhere /\ tracked[g].text = Text(n)
      BY <2>1, <3>1 DEF Coming
    <3>3. g \in Records /\ Told(g) /\ onNotion[g].text = tracked[g].text
      BY <1>3, <3>2 DEF PagesInv, Moving, OneEach, HasRecord
    <3> QED BY <3>2, <3>3 DEF Told
  <2> QED BY <2>1 DEF CalmPushArrives
<1> QED BY <1>2, <1>3, PTL
================================================================================
