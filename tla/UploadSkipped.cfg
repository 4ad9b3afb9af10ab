SPECIFICATION Spec
CONSTANTS
  MaxRuns = 1
  Slots = {1, 2}
  MaxErrors = 0
  MaxUploads = 1
PROPERTY UploadStartsRun
CHECK_DEADLOCK FALSE
