SPECIFICATION FairSpec
CONSTANTS
  t1 = t1
  t2 = t2
  t3 = t3
  a = a
  b = b
  Tasks = {t1, t2, t3}
  Paths = {a, b}
  PathOf <- SharedPaths
  MaxSaves = 2
  NoTask = NoTask
  Torn = Torn
  NoFile = NoFile
INVARIANTS
  IInv
  AckedIsDurable
  FileNeverTorn
PROPERTIES
  FileNeverGoesBack
  ImplementsDurableOffsets
  SaveEnds
