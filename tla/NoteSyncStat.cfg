SPECIFICATION Spec
CONSTANTS
  Human = Human
  Bot = Bot
  Unknown = Unknown
  NoPrint = NoPrint
  NoText = NoText
  b1 = b1
  b2 = b2
  t1 = t1
  t2 = t2
  Edits = {b1, b2}
  Body = {b1, b2}
  Strategies = {"manual"}
  Skew = 1
  MaxMinute = 3
  Failures = FALSE
  EditDuringRun = TRUE
  OwnWriteExcused = FALSE
  RereadExcused = TRUE
INVARIANT ScanSeesEdits
CHECK_DEADLOCK FALSE
