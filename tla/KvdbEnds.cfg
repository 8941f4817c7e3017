SPECIFICATION Spec
CONSTANTS
  v1 = v1
  v2 = v2
  Keys = {k1, k2}
  Vals = {v1}
  None = None
  NumSectors = 3
  SectorSize = 4
  HdrSize = 1
  KvLen <- OneSize
  Threshold = 2
  GcThreshold = 1
  MaxCrashes = 1
PROPERTIES Terminates
