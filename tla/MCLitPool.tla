----------------------------- MODULE MCLitPool -----------------------------
(* Small instances of LitPool for TLC: the strings and pairs of each run.   *)
EXTENDS LitPool

(* A long string, a long and a short one that it ends with, and one longer  *)
(* than two pools.                                                          *)
Whole == <<3, 4, 5, 6, 7, 8, 1, 2>>
Huge == [i \in 1 .. 2 * PoolMax - 1 |-> 100 + i]
Tails == {Whole, <<8, 1, 2>>, <<1, 2>>, Huge}
TwoStrings == {Whole, <<1, 2>>}

OneDouble == {<<9, 10>>}
============================================================================
