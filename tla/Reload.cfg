SPECIFICATION FairSpec
CONSTANTS
  Contents <- AllContents
  Unparsable = unparsable
  Missing = missing
  Reloads = {g1, g2}
  Exclusive = TRUE
  MaxEdits = 3
INVARIANTS TypeOK TestedDefaultsSet Converged
PROPERTIES OnlyValidInstalled Settles
CHECK_DEADLOCK FALSE
