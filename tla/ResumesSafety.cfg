SPECIFICATION Spec
CONSTANTS
  Clients = {c1, c2, c3}
  MaxUploads = 3
  MaxFaults = 1
SYMMETRY Symmetry
INVARIANT AtMostOnePrimary
INVARIANT PrimaryUnlessContended
INVARIANT RowHasFile
INVARIANT DeletesWhatItChecked
INVARIANT FilesAccounted
CHECK_DEADLOCK FALSE
