SPECIFICATION Spec
CONSTANTS
  Slot = {s1, s2}
  CA = {a}
INVARIANT DistrustRefusesNextHandshake
