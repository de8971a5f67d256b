SPECIFICATION Spec
CONSTANTS
  NRegs = 4
  Bases = {3}
  FixedSets = {{}, {3}}
  Offsets <- Few
  Adds <- Steps
  Spares = {{}, {0}}
  ldm_regs_max = 4
  MaxPending = 3
INVARIANTS AgreeOrKnown SpareDead
