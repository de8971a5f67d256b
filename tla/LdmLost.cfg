SPECIFICATION Spec
CONSTANTS
  NRegs = 4
  Bases = {3}
  FixedSets = {{}}
  Offsets <- Few
  Adds <- Steps
  Spares = {{}}
  ldm_regs_max = 4
  MaxPending = 3
INVARIANTS Agree
