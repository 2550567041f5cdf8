SPECIFICATION Spec
CONSTANTS
  Process = {1, 2}
  Val = {1}
  Completion = {"ok", "fail", "info"}
  MaxEntries = 4
  RealTime = TRUE
  InitState <- RegisterInit
  Histories <- RegisterHistories
  Apply <- RegisterApply
  Decode <- RegisterDecode
INVARIANT InfoOpsAreDropped
