SPECIFICATION Spec
CONSTANTS
  Contents <- AllContents
  Unparsable = unparsable
  Missing = missing
  Reloads = {g1, g2}
  Exclusive = FALSE
  MaxEdits = 2
INVARIANT ComponentsAgree
CHECK_DEADLOCK FALSE
