SPECIFICATION Spec
CONSTANTS
  Human = Human
  Bot = Bot
  Unknown = Unknown
  NoPrint = NoPrint
  NoText = NoText
  b1 = b1
  b2 = b2
  t1 = t1
  t2 = t2
  Edits = {b1, b2, t1}
  Body = {b1, b2}
  Strategies = {"merge"}
  Skew = 1
  MaxMinute = 3
  Failures = TRUE
  EditDuringRun = TRUE
  OwnWriteExcused = TRUE
  RereadExcused = TRUE
SYMMETRY BodyEdits
VIEW NotOver
INVARIANTS TypeOK SettledIsExact BodyEditsKept
CHECK_DEADLOCK FALSE
