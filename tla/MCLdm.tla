------------------------------- MODULE MCLdm -------------------------------
(* Small instances of Ldm for TLC: the runs' offsets and constants.          *)
EXTENDS Ldm

Few   == {-8, 0, 4}
Steps == {-4, 8}
============================================================================
