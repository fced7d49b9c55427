SPECIFICATION FairSpec
CONSTANTS
  n1 = n1
  n2 = n2
  Human = Human
  Notes = {n1, n2}
  Natural = n1
  MaxTrouble = 3
INVARIANTS TypeOK PushMakesNoDuplicates SyncedPageHoldsNote
PROPERTY EveryNoteLands
