SPECIFICATION Spec
CONSTANTS
  Sessions = {s1, s2}
  Requests = {r1, r2}
  Overlapping = {"upload", "paths", "find"}
  TTL = 1
  MaxTime = 3
  MaxDirs = 2
SYMMETRY Threads
CHECK_DEADLOCK FALSE
INVARIANT
  DownloadsStay
  NoDirectoryIsLost
