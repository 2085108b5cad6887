\* Two processes, one file: crashes, failed writes, an older release.
SPECIFICATION Spec
CONSTANTS
  o1 = o1
  o2 = o2
  o3 = o3
  b1 = b1
  b2 = b2
  c1 = c1
  c2 = c2
  Changes = {c1, c2}
  Originals = {o1, o2, o3}
  Bodies = {b1, b2}
  Redact <- RedactTwo
  Legacy <- OneLegacy
  Procs = {p, q}
  NoFile = NoFile
  Absent = Absent
  Missing = Missing
  MaxEdits = 3
  MaxCrashes = 2
  MaxFaults = 1
  MaxReleases = 1
INVARIANTS OpensAsLeft RefusedLeavesNoTrace
PROPERTIES OpensAgain
