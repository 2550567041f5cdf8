SPECIFICATION IngestionSpec
CONSTANTS
  Process = {1, 2, 3}
  Val = {1}
  Completion = {"ok", "fail", "info"}
  MaxEntries = 6
  MaxTravel = 4
  Formats = {"edn", "json", "store", "vector", "commented", "plain json", "json lines"}
  Usual = {"edn", "json", "store"}
  RealTime = TRUE
  InitState <- RegisterInit
  Histories <- MCHistories
  RoutesOf <- MCRoutesOf
  Writer <- Written
  Reader <- FromJepsen
  Apply <- RegisterApply
  Decode <- RegisterDecode
INVARIANTS DeadEndsAreDead VerdictIsExact VerdictSurvivesTravel
PROPERTIES EncodingIsExact JsonSettles ShapeSurvivesTravel VerdictComesNearer
