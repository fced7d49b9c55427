SPECIFICATION EitherSpec
CONSTANTS
  x = x
  y = y
  d1 = d1
  d2 = d2
  m1 = m1
  m2 = m2
  p1 = p1
  p2 = p2
  Notes = {x, y}
  Dirs = {d1, d2}
  Names = {m1, m2}
  Pages = {x, y, p1, p2}
  MaxChanges = 3
  MaxMisses = 1
  Marks = Marks
  Absent = Absent
  NoRecord = NoRecord
  MaxWritten = 3
  MaxTrouble = 1
  r1 = r1
  r2 = r2
  c1 = c1
  c2 = c2
  k1 = k1
  k2 = k2
  spare = spare
  other = other
  Rows = {r1, r2}
  Cols = {c1, c2}
  Keys = {k1, k2, spare, other}
  NoName = NoName
  MaxActs = 2
  MaxFaults = 1
  vault = vault
  folder = folder
  primary = vault
  folders <- Folders
  MaxUser = 2
  MaxNotes = 2
  MaxSetup = 1
  create = create
  patch = patch
  read = read
  Calls = {create, patch, read}
  Once = {create, patch}
  Making = {create}
  Slots = 2
  Interval = 1
  MaxRetries = 1
  Waits = {0, 2}
  Recheck = 1
  MaxTime = 2
  top = top
  sub = sub
  leaf = leaf
  NoteSets <- TwoNoteSets
  MaxMishaps = 3
INVARIANTS
  TypesOK NoteKeepsItsPage PageWhereRecorded CalmPushArrives
  NoEditLost SeenIsReceived
  NoValueLost PullShowsRow
  RunsOnOpenBase AcceptedEditIsComing UnloadClosesAll ClockRuns
  AppliedOnce
  NoPageMadeTwice CalmPushPlaces
PROPERTY KeepsTheSchedule
\* the calls end, and the plugin is unloaded
CHECK_DEADLOCK FALSE
