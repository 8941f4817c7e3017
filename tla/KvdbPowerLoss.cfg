SPECIFICATION Spec
CONSTANTS
  v1 = v1
  v2 = v2
  Keys = {k1, k2}
  Vals = {v1, v2}
  None = None
  NumSectors = 3
  SectorSize = 4
  HdrSize = 1
  KvLen <- OneSize
  Threshold = 1
  GcThreshold = 1
  MaxCrashes = 1
INVARIANTS TypeOK ReadsAreCurrent OneNodePerKey AllRecovered ReserveKept CommittedIsComplete
PROPERTIES StatusForward Atomic
SYMMETRY Symmetric
