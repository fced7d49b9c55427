SPECIFICATION EitherSpec
CONSTANTS
  a = a
  b = b
  Paths = {a, b}
  MaxEdits = 3
  ItemFailures = {TRUE}
  obsidian = obsidian
  watch = watch
  push = push
  Plugins = {obsidian}
  Clis = {watch, push}
  MaxRecords = 3
  MaxDeaths = 3
  Crowded = FALSE
INVARIANTS TypeOK NothingStranded
INVARIANTS FileTypeOK OneHolder RecordsKept
PROPERTIES KeepsItsPromise ChangesLand Settles DeadLockGoes
\* the watch ends when the user stops it
CHECK_DEADLOCK FALSE
