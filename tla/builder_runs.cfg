SPECIFICATION Spec
CONSTANTS
  Runs = {r1, r2}
  Needs = {n1, n2}
  Phrasings <- Shown
  Tools = {theirs, other, whole, broken}
  Fits <- Answers
  Generated = {whole, broken}
  Works = {theirs, other, whole}
  Faults = {}
  None = None
  q1 = q1
  q2 = q2
  q3 = q3
  n1 = n1
  n2 = n2
  theirs = theirs
  other = other
  whole = whole
  broken = broken
CHECK_DEADLOCK FALSE
INVARIANT NoDuplicate
