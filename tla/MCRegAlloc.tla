----------------------------- MODULE MCRegAlloc -----------------------------
(* Small functions for RegAlloc.  The real registers are a1, a2, v1 and fp; *)
(* x, y, z and w are virtual.                                              *)
EXTENDS RegAlloc

x == 6  y == 7  z == 8  w == 9

Op(op, r1, r2, r3) == [op |-> op, r1 |-> r1, r2 |-> r2, r3 |-> r3, dead |-> {}]
Enter     == Op("enter", GAP, GAP, GAP)
Mov(d, s) == Op("movr", d, GAP, s)
K(d, m, k) == Op("movk", d, m, k)
Ext(d, s) == Op("ext", d, s, GAP)
Byte(d, k) == Op("ldrsb", d, GAP, k)
StrB(s)   == Op("strb", s, GAP, GAP)
Call      == Op("call", A1, GAP, GAP)
Ldr(d, v) == Op("ldrv", d, GAP, v)
Str(s, v) == Op("strv", s, GAP, v)
Cmp(a, c) == Op("cmp", GAP, a, c)

Block(c, next, next1, nest) == [code |-> c, next |-> next, next1 |-> next1, nest |-> nest]
Function(blocks, n, intregs) ==
  [blocks |-> blocks, nregs |-> n, intregs |-> intregs, binders |-> <<>>, register |-> {}]
Straight(c, n, intregs) == Function(<<Block(c, RetInt, 0, 0)>>, n, intregs)

\* Straight-line code that sets every register, and variable, before it reads it.
Sources(ic) ==
  {IF ic.op \in ReadsR1 THEN ic.r1 ELSE A1, IF ic.op \in ReadsR2 THEN ic.r2 ELSE A1,
   IF ic.op \in ReadsR3 THEN ic.r3 ELSE A1, IF ic.op = "ldrv" THEN 100 + ic.r3 ELSE A1}
Set(c) ==
  Forward(LAMBDA s, ic :
     [set |-> s.set \cup (IF ic.op \in LoadsR1 THEN {ic.r1} ELSE {})
                    \cup (IF ic.op = "strv" THEN {100 + ic.r3} ELSE {}),
      ok  |-> s.ok /\ Sources(ic) \subseteq s.set],
     [set |-> {A1}, ok |-> TRUE], c).ok

\* Copies, extensions and bytes.
First  == {Mov(y, x), Ext(y, x), Byte(y, 1), Op("add", y, x, x)}
Second == {Mov(z, y), Ext(z, y), Op("add", z, x, y), Op("mul", z, x, y), Op("shr", z, y, x),
           Mov(x, y), Byte(x, 2)}
Third  == {Mov(x, z), Ext(x, z), Op("add", x, y, z), Op("mul", y, z, x), StrB(y), StrB(z), Ext(y, x)}
Copying ==
  {Straight(c, 3, {0, 1, 2}) : c \in
    {d \in {<<Enter, Mov(x, A1), a, b, c, StrB(r), Mov(A1, s)>> :
              a \in First, b \in Second, c \in Third, r \in {x, y, z}, s \in {x, y, z}} : Set(d)}}

\* Variables across calls.
Uses(t, v)     == <<Ldr(t, v), StrB(t)>>
Calls(t, v, u) == <<Ldr(A1, v), Call, Mov(t, A1), Str(t, u)>>
Copy(t, v, u)  == <<Ldr(t, v), Str(t, u)>>
Piece(t) == {Uses(t, 1), Uses(t, 3), Calls(t, 1, 3), Calls(t, 2, 1), Calls(t, 3, 2), Copy(t, 1, 2)}
Calling ==
  {[Straight(c, 10, ints) EXCEPT !.binders = <<6, 7, 8>>, !.register = rv] :
     rv \in {{}, {1}, {3}}, ints \in {{0, 2}, {0, 2, 3}},
     c \in {d \in {<<Enter, Mov(9, A1), Str(9, 1), Byte(10, 1), Str(10, 2)>>
                    \o a \o b \o c \o Uses(14, 1) \o Uses(15, 2) \o <<Ldr(A1, 3)>> :
                    a \in Piece(11), b \in Piece(12), c \in Piece(13)} : Set(d)}}

\* Constants held in registers, set on two ways into a block.
Sets1 == {K(w, y, 1), K(w, z, 2), Mov(w, x), K(w, GAP, 3)}
Tail1 == {StrB(w), StrB(y), StrB(z), Op("add", w, w, y), K(w, y, 1)}
Joining ==
  {Function(<<Block(<<Enter, Mov(x, A1), K(y, GAP, 1), K(z, GAP, 2), Cmp(x, y)>>, 2, 3, 0),
              Block(<<a>>, 4, 0, 0), Block(<<b>>, 4, 0, 0),
              Block(<<c, d, Mov(A1, w)>>, RetInt, 0, 0)>>, 4, {0, 1, 2, 3}) :
     a \in Sets1, b \in Sets1, c \in Tail1, d \in Tail1}

\* The same in loops.
Variables == <<Enter, Mov(9, A1), Str(9, 1), Byte(10, 1), Str(10, 2), Byte(11, 2), Str(11, 3)>>
Looping ==
  {[Function(<<Block(Variables, 2, 0, 0),
               Block(a \o b \o Uses(14, 1) \o <<Ldr(15, 2), Cmp(15, 15)>>, 2, 3, 1),
               Block(Uses(16, 2) \o <<Ldr(A1, 3)>>, RetInt, 0, 0)>>, 11, ints)
      EXCEPT !.binders = <<6, 7, 8>>] :
     ints \in {{0, 2}, {0, 1, 2, 3}}, a \in Piece(12), b \in Piece(13)}
JoiningLoop ==
  {Function(<<Block(<<Enter, Mov(x, A1), K(y, GAP, 1), K(z, GAP, 2), a>>, 2, 0, 0),
              Block(<<b, c>>, 3, 0, 1), Block(<<d, Cmp(x, x)>>, 2, 4, 1),
              Block(<<Mov(A1, w)>>, RetInt, 0, 0)>>, 4, {0, 1, 2, 3}) :
     a \in Sets1, b \in Sets1, c \in Tail1, d \in Tail1}

All == Copying \cup Calling \cup Joining \cup Looping \cup JoiningLoop
=============================================================================
