SPECIFICATION Spec
CONSTANTS
  Client = {c1, c2}
  object1 = object1
  object1_tmp = object1_tmp
  object1_tmp_tmp = object1_tmp_tmp
  Key = {object1}
  Name = {object1, object1_tmp}
  TmpOf <- OneObject
  Val = {v1, v2}
  Gap = Gap
  MaxInode = 4
  None = None
SYMMETRY Symmetry
INVARIANTS ReaderNeverSeesHalfWritten
