SPECIFICATION Spec
CONSTANTS
  Client = {c1, c2}
  object1 = object1
  object1_tmp = object1_tmp
  object1_tmp_tmp = object1_tmp_tmp
  Key = {object1, object1_tmp}
  Name = {object1, object1_tmp, object1_tmp_tmp}
  TmpOf <- Nested
  Val = {v1, v2}
  Gap = Gap
  MaxInode = 3
  None = None
SYMMETRY Symmetry
CONSTRAINT SomeUndisturbed
INVARIANTS TypeOK GetIsWholeUnlessOverlapped CreatedIsKept
