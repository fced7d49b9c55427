SPECIFICATION FairSpec
CONSTANTS
  Human = Human
  Bot = Bot
  Unknown = Unknown
  NoPrint = NoPrint
  NoText = NoText
  b1 = b1
  b2 = b2
  t1 = t1
  t2 = t2
  Edits = {b1, b2, t1}
  Body = {b1, b2}
  Strategies = {"manual", "local-first", "remote-first", "merge"}
  Skew = 1
  MaxMinute = 3
  Failures = FALSE
  EditDuringRun = FALSE
  OwnWriteExcused = FALSE
  RereadExcused = TRUE
INVARIANT EditsKeptAndSeen
PROPERTIES NoFalseConflict Converges
CHECK_DEADLOCK FALSE
