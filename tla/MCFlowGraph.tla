----------------------------- MODULE MCFlowGraph -----------------------------
EXTENDS FlowDump

CONSTANTS Rets, Families

Block(c, f, q, n, n1, t) ==
  [code |-> c, flags |-> f, cond |-> q, next |-> n, next1 |-> n1, table |-> t]
One(c, n)    == Block(c, {}, "AL", n, NULL, <<>>)
If(c, q, n, m) == Block(Append(c, "cmp"), {"2EXIT"}, q, n, m, <<>>)
Two(c, n, m) == If(c, "EQ", n, m)
Case(c, t)   == Block(Append(c, "case"), {"SWITCH"}, "AL", NULL, NULL, t)

Ones(codes, to)  == {One(c, n) : c \in codes, n \in to}
Twos(codes, to)  == {Two(c, n, m) : c \in codes, n \in to, m \in to}
Ifs(codes, conds, to) == {If(c, q, n, m) : c \in codes, q \in conds, n \in to, m \in to}
Cases(codes, to) == {Case(c, <<n, m>>) : c \in codes, n \in to, m \in to}

\* The block of J_ENTER leads to the next one.
Enter == One(<<"enter">>, 2)
To  == 2 .. 4 \cup {Min(Rets)}
Anywhere == 2 .. 4 \cup Rets

Empty == <<>>
A == <<"a">>
Idle == {Empty, A, <<"move">>}

\* Blocks without code, blocks that lose it, and tests.
Chains ==
  {{<<Enter, x, y, z>> : y \in Ones(Idle, To) \cup Twos({Empty}, To),
                         z \in Ones(Idle, Anywhere) \cup Twos({Empty}, 3 .. 4 \cup Rets)} :
     x \in Twos({Empty}, 3 .. 4)}

\* A switch among them.
Switches ==
  {{<<Enter, x, y, z>> : y \in Ones(Idle, To) \cup Twos({Empty}, To),
                         z \in Cases({Empty}, 2 .. 3 \cup Rets)} :
     x \in Twos({Empty}, {3, 4}) \cup Ones({A}, {3})}

\* Blocks that end alike.
Tails ==
  {{<<Enter, Case(Empty, <<3, 4, 5>>), x, y, z>> :
      y \in Ones({<<"a", "a">>, <<"b", "a">>, <<"call">>}, {3, 4, 5, 98}),
      z \in Ones({A, <<"b", "call">>}, {3, 4, 5, 98}) \cup Twos({A}, {3, 5, 98})} :
     x \in Ones({A, <<"b">>, <<"b", "a">>, <<"call">>, <<"a", "call">>}, {3, 4, 98})}

\* Tests and short blocks.
Arms ==
  {{<<Enter, If(Empty, "EQ", 3, 4), x, y, z>> :
      y \in Ones({A, <<"a", "b">>}, {3, 5, 98}) \cup Ifs({Empty}, {"EQ", "HS"}, {5, 98}),
      z \in Ones({A, <<"b", "b", "b">>}, {3, 99}) \cup Ifs({Empty}, {"NE"}, {4, 99})} :
     x \in Ones({A, <<"b", "a">>, <<"call">>}, {4, 5, 99})
           \cup Ifs({Empty, A}, {"EQ", "NE", "LO"}, {4, 5})}

\* A test that cross jumping makes vacuous.
Merged ==
  {{<<Enter, If(Empty, "EQ", n, 5), One(c, m), One(<<"b">>, 5), Two(d, 6, 7),
      One(A, 98), One(A, 99)>> :
      m \in {4, 5, 98}, c \in {<<"b", "b", "b">>, <<"call">>, <<"b">>}, d \in {Empty, <<"b">>}} :
     n \in 3 .. 4}

MCNests == {{}, {3}}

MCPrograms ==
  UNION {CASE f = "chains" -> Chains [] f = "switches" -> Switches [] f = "tails" -> Tails
               [] f = "arms" -> Arms [] f = "merged" -> Merged :
           f \in Families}
=============================================================================
