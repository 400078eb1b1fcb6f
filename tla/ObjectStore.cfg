SPECIFICATION Spec
CONSTANTS
  a = a
  b = b
  large = large
  Objects = {a, b, large}
  Size <- MCSize
  MaxBytes = 2
  Callers = {c1, c2}
  MaxFaults = 3
  Partial = partial
  Decayed = decayed
  Nothing = nothing
SYMMETRY CallerSymmetry
INVARIANTS
  GetIsGenuine
  FileIsWhole
  PutIsKept
