\* One edit on each side, nothing fails: the merge that overlaps, and the pull after it.
SPECIFICATION ConflictSpec
CONSTANTS
  Marks = Marks
  Absent = Absent
  NoRecord = NoRecord
  MaxWritten = 2
  MaxTrouble = 0
INVARIANT MarkedNoteWaits
CHECK_DEADLOCK FALSE
