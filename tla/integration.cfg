CONSTANTS
  Docs = {d1, d2}
  OldDoc = old
  MaxFaults = 2
  MaxTries = 2
  Noise <- MCNoise
SPECIFICATION Spec
INVARIANTS TypeOK IInv SeededAsReported LaunchedAsAsked NothingLeft GreenMeansTested RedMeansBroken
PROPERTIES ScriptEnds
CHECK_DEADLOCK FALSE
