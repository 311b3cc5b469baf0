SPECIFICATION SimSubSpec
CONSTANTS
  s1 = s1
  s2 = s2
  v1 = v1
  v2 = v2
  r1 = r1
  c1 = c1
  c2 = c2
  NoPrint = NoPrint
  Submissions = {s1, s2}
  Versions = {v1, v2}
  Manuscript <- MCManuscript
  Contents = {c1, c2}
  Remotes = {r1}
  SiblingLimit = 1
  MaxChanges = 2
SYMMETRY Symmetry
PROPERTIES NoUnseenConflict
CHECK_DEADLOCK FALSE
