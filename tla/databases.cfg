SPECIFICATION DatabasesSpec
CONSTANTS
  Users = {u1, u2}
  Nowhere = Nowhere
  MaxFiles = 2
  MaxRows = 2
  MaxEnds = 2
PROPERTY
  GetCreates
