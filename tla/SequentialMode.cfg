SPECIFICATION Spec
CONSTANTS
  Process = {1, 2}
  Val = {1}
  Completion = {"ok"}
  MaxEntries = 4
  RealTime = FALSE
  InitState <- RegisterInit
  Histories <- RegisterHistories
  Apply <- RegisterApply
  Decode <- RegisterDecode
INVARIANT AcceptsOnlySequentiallyConsistent
