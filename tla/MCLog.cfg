\* Three threads, six records, and restarts on the same file.
CONSTANTS
  Threads = {t1, t2, t3}
  Nobody = Nobody
  MaxRecords = 6
SPECIFICATION LogSpec
SYMMETRY LogSymmetry
INVARIANTS
  LogTypeOK
  SameRecords
  ReturnedAreOnDisk
