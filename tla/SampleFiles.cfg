\* Three uploads, one of them of two blocks, to any of four names: of these
\* three match *.exe, and one of the three may be a directory.  Two walks and
\* two launches.  All requests end, so the system may stop.
CONSTANTS
  u1 = u1
  u2 = u2
  u3 = u3
  Nobody = Nobody
  Uploads = {u1, u2, u3}
  Long = {u1}
  MaxNames = 4
  Programs = {1, 2, 3}
  FolderNames = {2}
  MaxWalks = 2
  MaxRuns = 2
SPECIFICATION SamplesSpec
CHECK_DEADLOCK FALSE
INVARIANTS
  FilesInv
  ListComplete
