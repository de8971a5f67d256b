----------------------------- MODULE PP_proofs -----------------------------
(***************************************************************************)
(* Conditionals, for every value of the constants.                         *)
(***************************************************************************)
EXTENDS PP, SequenceTheorems, WellFoundedInduction, TLAPS

----------------------------------------------------------------------------
(* Sequences.                                                              *)

LEMMA FnIsSeq ==
  ASSUME NEW S, NEW n \in Nat, NEW s, s = [i \in 1 .. n |-> s[i]],
         \A i \in 1 .. n : s[i] \in S
  PROVE  s \in Seq(S) /\ Len(s) = n
OBVIOUS

LEMMA AppendIs ==
  ASSUME NEW S, NEW s \in Seq(S), NEW r \in S, NEW t, t = Append(s, r)
  PROVE  /\ t \in Seq(S) /\ Len(t) = Len(s) + 1 /\ Len(s) \in Nat
         /\ \A i \in 1 .. Len(s) : t[i] = s[i]
         /\ t[Len(s) + 1] = r
BY AppendProperties, LenProperties

LEMMA UpdateFacts ==
  ASSUME NEW S, NEW s \in Seq(S), NEW i \in 1 .. Len(s), NEW e \in S,
         NEW t, t = [s EXCEPT ![i] = e]
  PROVE  /\ t \in Seq(S) /\ Len(t) = Len(s)
         /\ \A j \in 1 .. Len(s) : t[j] = IF j = i THEN e ELSE s[j]
BY ExceptSeq

LEMMA SeqIsFn ==
  ASSUME NEW S, NEW s \in Seq(S), NEW t, t = [i \in 1 .. Len(s) |-> t[i]],
         \A i \in 1 .. Len(s) : t[i] = s[i]
  PROVE  t = s
<1>1. Len(s) \in Nat /\ \A i \in 1 .. Len(s) : t[i] \in S
  BY LenProperties, ElementOfSeq
<1>2. t \in Seq(S) /\ Len(t) = Len(s)
  BY <1>1, FnIsSeq
<1> QED BY <1>2, SeqEqual

LEMMA FrontFacts ==
  ASSUME NEW S, NEW s \in Seq(S), s # <<>>
  PROVE  /\ Front(s) \in Seq(S)
         /\ Len(Front(s)) = Len(s) - 1
         /\ \A i \in 1 .. Len(s) - 1 : Front(s)[i] = s[i]
         /\ Last(s) = s[Len(s)] /\ Last(s) \in S /\ Len(s) \in Nat \ {0}
<1>1. Len(s) \in Nat \ {0}
  BY EmptySeq
<1>2. \A i \in 1 .. Len(s) : s[i] \in S
  BY ElementOfSeq
<1> DEFINE n == Len(s) - 1
<1>3. n \in Int /\ n >= 0 /\ \A i \in 1 .. n : s[i] \in S
  BY <1>1, <1>2
<1>4. /\ SubSeq(s, 1, n) \in Seq(S)
      /\ Len(SubSeq(s, 1, n)) = IF 1 <= n THEN n - 1 + 1 ELSE 0
      /\ \A i \in 1 .. n - 1 + 1 : SubSeq(s, 1, n)[i] = s[1 + i - 1]
  BY <1>3, SubSeqProperties
<1>5. Len(s) \in 1 .. Len(s) /\ Last(s) = s[Len(s)]
  BY <1>1 DEF Last
<1> HIDE DEF n
<1>6. \A i \in 1 .. n : SubSeq(s, 1, n)[i] = s[i]
  BY <1>3, <1>4
<1>7. Len(SubSeq(s, 1, n)) = n
  BY <1>3, <1>4
<1> QED BY <1>1, <1>2, <1>4, <1>5, <1>6, <1>7 DEF Front, n

----------------------------------------------------------------------------
(* The flags.  st is ifstack and sk is pp_skipping.                        *)

Cell == [seenelse : BOOLEAN, oldskip : BOOLEAN, skipelse : BOOLEAN]

Skips(st, sk, i) == IF i = Len(st) THEN sk ELSE st[i + 1].oldskip

Part(st, sk, i) ==
  IF st[i].oldskip THEN "off"
  ELSE IF ~Skips(st, sk, i) THEN "taken"
  ELSE IF st[i].skipelse THEN "over"
  ELSE "wanted"

GroupsOf(st, sk) ==
  [i \in 1 .. Len(st) |-> [part |-> Part(st, sk, i), last |-> st[i].seenelse]]

LEMMA GroupsAre == Groups = GroupsOf(ifstack, skipping)
BY DEF Groups, GroupsOf, Part, Skips

\* A group skipped as a whole stays so, with all that is in it; one whose
\* part is taken will skip the part after the #else.
Flags(st, sk) ==
  /\ st \in Seq(Cell) /\ sk \in BOOLEAN
  /\ Len(st) = 0 => ~sk
  /\ Len(st) > 0 => ~st[1].oldskip
  /\ \A i, j \in 1 .. Len(st) : i <= j /\ st[i].oldskip => st[j].oldskip
  /\ \A i \in 1 .. Len(st) : st[i].oldskip => sk /\ st[i].skipelse
  /\ \A i \in 1 .. Len(st) : ~Skips(st, sk, i) /\ ~st[i].seenelse => st[i].skipelse

LEMMA LiveIs ==
  ASSUME NEW st, NEW sk, Flags(st, sk)
  PROVE  sk = ~Live(GroupsOf(st, sk))
<1> DEFINE n == Len(st)
<1>1. st \in Seq(Cell) /\ sk \in BOOLEAN /\ n \in Nat
  BY DEF Flags
<1>2. Live(GroupsOf(st, sk)) <=> \A i \in 1 .. n : Part(st, sk, i) = "taken"
  BY DEF Live, GroupsOf
<1>3. ASSUME ~sk, NEW i \in 1 .. n PROVE Part(st, sk, i) = "taken"
  <2>1. ~st[i].oldskip /\ (i # n => i + 1 \in 1 .. n /\ ~st[i + 1].oldskip)
    BY <1>1, <1>3 DEF Flags
  <2>2. ~Skips(st, sk, i)
    BY <1>3, <2>1 DEF Skips
  <2> QED BY <2>1, <2>2 DEF Part
<1>4. ASSUME sk PROVE n \in 1 .. n /\ Part(st, sk, n) # "taken"
  <2>1. n \in 1 .. n
    BY <1>1, <1>4 DEF Flags
  <2>2. Skips(st, sk, n)
    BY <1>4 DEF Skips
  <2> QED BY <2>1, <2>2 DEF Part
<1> QED BY <1>1, <1>2, <1>3, <1>4

----------------------------------------------------------------------------
(* A conditional that is opened.                                           *)

Opening(st, sk, c, st1, sk1) ==
  /\ st1 = Append(st, [seenelse |-> FALSE, oldskip |-> sk, skipelse |-> sk \/ c])
  /\ sk1 = (sk \/ ~c)

LEMMA OpeningOf ==
  ASSUME NEW st, NEW sk, NEW c \in BOOLEAN, NEW st1, NEW sk1,
         Flags(st, sk), Opening(st, sk, c, st1, sk1)
  PROVE  Flags(st1, sk1) /\ GroupsOf(st1, sk1) = Opened(GroupsOf(st, sk), c)
<1> DEFINE n == Len(st)
           new == [seenelse |-> FALSE, oldskip |-> sk, skipelse |-> sk \/ c]
<1>1. st \in Seq(Cell) /\ sk \in BOOLEAN /\ n \in Nat
  BY DEF Flags
<1>2. new \in Cell
  BY <1>1 DEF Cell
<1>3. /\ st1 \in Seq(Cell) /\ Len(st1) = n + 1 /\ st1[n + 1] = new
      /\ \A i \in 1 .. n : st1[i] = st[i]
  BY <1>1, <1>2, AppendProperties DEF Opening
<1>4. sk1 \in BOOLEAN /\ sk1 = (sk \/ ~c)
  BY <1>1 DEF Opening
<1>9. st1[n + 1].oldskip = sk /\ (st1[n + 1].skipelse <=> (sk \/ c)) /\ st1[n + 1].seenelse = FALSE
  <2>1. new.oldskip = sk /\ new.seenelse = FALSE
    OBVIOUS
  <2>2. PICK d : d = (sk \/ c)
    OBVIOUS
  <2>3. new = [seenelse |-> FALSE, oldskip |-> sk, skipelse |-> d]
    BY <2>2
  <2> HIDE DEF new
  <2>4. new.skipelse = d
    BY <2>3
  <2> QED BY <1>3, <2>1, <2>2, <2>4
<1>5. \A i \in 1 .. n : Skips(st1, sk1, i) = Skips(st, sk, i)
  <2>1. ASSUME NEW i \in 1 .. n PROVE Skips(st1, sk1, i) = Skips(st, sk, i)
    <3>1. CASE i = n
      <4>1. st1[i + 1].oldskip = sk /\ i # n + 1
        BY <1>1, <1>3, <3>1
      <4> QED BY <1>3, <3>1, <4>1 DEF Skips
    <3>2. CASE i # n
      <4>1. i + 1 \in 1 .. n /\ i # n + 1
        BY <1>1, <3>2
      <4> QED BY <1>3, <3>2, <4>1 DEF Skips
    <3> QED BY <3>1, <3>2
  <2> QED BY <2>1
<1>6. Skips(st1, sk1, n + 1) = sk1
  BY <1>3 DEF Skips
<1>7. Flags(st1, sk1)
  <2>1. Len(st1) # 0 /\ ~st1[1].oldskip
    <3>1. CASE n = 0
      <4>1. ~sk /\ st1[1] = new
        BY <1>1, <1>3, <3>1 DEF Flags
      <4> QED BY <1>1, <1>3, <4>1
    <3>2. CASE n # 0
      BY <1>1, <1>3, <3>2 DEF Flags
    <3> QED BY <3>1, <3>2
  <2>2. ASSUME NEW i \in 1 .. n + 1, NEW j \in 1 .. n + 1, i <= j, st1[i].oldskip
        PROVE  st1[j].oldskip
    <3>1. CASE j \in 1 .. n
      <4>1. i \in 1 .. n
        BY <1>1, <2>2, <3>1
      <4> QED BY <1>3, <2>2, <3>1, <4>1 DEF Flags
    <3>2. CASE j = n + 1 /\ i \in 1 .. n
      BY <1>3, <2>2, <3>2 DEF Flags
    <3>3. CASE j = n + 1 /\ i = n + 1
      BY <2>2, <3>3
    <3> QED BY <1>1, <3>1, <3>2, <3>3
  <2>3. ASSUME NEW i \in 1 .. n + 1, st1[i].oldskip
        PROVE  sk1 /\ st1[i].skipelse
    <3>1. CASE i \in 1 .. n
      BY <1>3, <1>4, <2>3, <3>1 DEF Flags
    <3>2. CASE i = n + 1
      <4>1. sk
        BY <1>9, <2>3, <3>2
      <4>2. sk1
        BY <1>4, <4>1
      <4>3. st1[n + 1].skipelse
        BY <1>9, <4>1
      <4> QED BY <3>2, <4>2, <4>3
    <3> QED BY <1>1, <3>1, <3>2
  <2>4. ASSUME NEW i \in 1 .. n + 1, ~Skips(st1, sk1, i), ~st1[i].seenelse
        PROVE  st1[i].skipelse
    <3>1. CASE i \in 1 .. n
      BY <1>3, <1>5, <2>4, <3>1 DEF Flags
    <3>2. CASE i = n + 1
      <4>1. c
        BY <1>4, <1>6, <2>4, <3>2
      <4>2. st1[n + 1].skipelse
        BY <1>9, <4>1
      <4> QED BY <3>2, <4>2
    <3> QED BY <1>1, <3>1, <3>2
  <2> QED BY <1>1, <1>3, <1>4, <2>1, <2>2, <2>3, <2>4 DEF Flags
<1>8. GroupsOf(st1, sk1) = Opened(GroupsOf(st, sk), c)
  <2> DEFINE g == GroupsOf(st, sk)
             r == [part |-> IF ~Live(g) THEN "off" ELSE IF c THEN "taken" ELSE "wanted",
                   last |-> FALSE]
  <2>1. g \in Seq([part : {"off", "taken", "over", "wanted"}, last : BOOLEAN]) /\ Len(g) = n
    <3>1. \A i \in 1 .. n : st[i] \in Cell
      BY <1>1
    <3>2. \A i \in 1 .. n : Part(st, sk, i) \in {"off", "taken", "over", "wanted"}
      BY DEF Part
    <3>3. g \in [1 .. n -> [part : {"off", "taken", "over", "wanted"}, last : BOOLEAN]]
      BY <3>1, <3>2 DEF GroupsOf, Cell
    <3> HIDE DEF g
    <3>4. g = [i \in 1 .. n |-> g[i]] /\ \A i \in 1 .. n : g[i] \in [part : {"off", "taken", "over", "wanted"}, last : BOOLEAN]
      BY <3>3
    <3> QED BY <1>1, <3>4, FnIsSeq
  <2>2. Part(st1, sk1, n + 1) = r.part
    <3>1. sk = ~Live(g)
      BY LiveIs
    <3>2. st1[n + 1].oldskip = sk /\ st1[n + 1].skipelse = (sk \/ c)
      BY <1>3
    <3> HIDE DEF g
    <3> QED BY <1>1, <1>4, <1>6, <3>1, <3>2 DEF Part
  <2>3. \A i \in 1 .. n : Part(st1, sk1, i) = Part(st, sk, i)
    BY <1>3, <1>5 DEF Part
  <2>4. r \in [part : {"off", "taken", "over", "wanted"}, last : BOOLEAN]
    OBVIOUS
  <2>5. \A i \in 1 .. n : g[i] = [part |-> Part(st, sk, i), last |-> st[i].seenelse]
    BY DEF GroupsOf
  <2>6. Opened(g, c) = Append(g, r)
    BY DEF Opened
  <2> DEFINE h == GroupsOf(st1, sk1)
  <2>7. h = [i \in 1 .. n + 1 |-> [part |-> Part(st1, sk1, i), last |-> st1[i].seenelse]]
    BY <1>3 DEF GroupsOf
  <2>8. \A i \in 1 .. n + 1 : h[i] = [part |-> Part(st1, sk1, i), last |-> st1[i].seenelse]
    BY <2>7
  <2>9. h = [i \in 1 .. n + 1 |-> h[i]]
    BY <2>7
  <2>10. h[n + 1] = r
    <3>1. r = [part |-> r.part, last |-> FALSE] /\ n + 1 \in 1 .. n + 1
      BY <1>1
    <3>2. st1[n + 1].seenelse = FALSE
      BY <1>3
    <3> HIDE DEF h, r
    <3> QED BY <2>2, <2>8, <3>1, <3>2
  <2>11. \A i \in 1 .. n : h[i] = g[i]
    <3>1. ASSUME NEW i \in 1 .. n PROVE h[i] = g[i]
      <4>1. i \in 1 .. n + 1
        BY <1>1
      <4>2. h[i] = [part |-> Part(st1, sk1, i), last |-> st1[i].seenelse]
        BY <2>8, <4>1
      <4> HIDE DEF g, h
      <4> QED BY <1>3, <2>3, <2>5, <4>2
    <3> QED BY <3>1
  <2> HIDE DEF g, h, r
  <2>12. PICK t : t = Append(g, r)
    OBVIOUS
  <2>13. t \in Seq([part : {"off", "taken", "over", "wanted"}, last : BOOLEAN]) /\ Len(t) = n + 1
         /\ (\A i \in 1 .. n : t[i] = g[i]) /\ t[n + 1] = r
    BY <2>1, <2>4, <2>12, AppendIs
  <2>14. \A i \in 1 .. n + 1 : h[i] = t[i]
    <3>1. \A i \in 1 .. n + 1 : i \in 1 .. n \/ i = n + 1
      BY <1>1
    <3> QED BY <2>10, <2>11, <2>13, <3>1
  <2>15. h = t
    BY <2>9, <2>13, <2>14, SeqIsFn
  <2> QED BY <2>6, <2>12, <2>15 DEF g, h
<1> QED BY <1>7, <1>8

----------------------------------------------------------------------------
(* A conditional that is closed, and the innermost changed.                *)

Kinds == {"off", "taken", "over", "wanted"}
Group == [part : Kinds, last : BOOLEAN]

LEMMA GroupsType ==
  ASSUME NEW st, NEW sk, st \in Seq(Cell)
  PROVE  /\ GroupsOf(st, sk) \in Seq(Group) /\ Len(GroupsOf(st, sk)) = Len(st)
         /\ GroupsOf(st, sk) = [i \in 1 .. Len(st) |-> GroupsOf(st, sk)[i]]
         /\ \A i \in 1 .. Len(st) :
              GroupsOf(st, sk)[i] = [part |-> Part(st, sk, i), last |-> st[i].seenelse]
<1> DEFINE n == Len(st)
           g == GroupsOf(st, sk)
<1>1. n \in Nat /\ \A i \in 1 .. n : st[i] \in Cell
  BY LenProperties, ElementOfSeq
<1>2. \A i \in 1 .. n : Part(st, sk, i) \in Kinds
  BY DEF Part, Kinds
<1>3. \A i \in 1 .. n : g[i] = [part |-> Part(st, sk, i), last |-> st[i].seenelse]
  BY DEF GroupsOf
<1>4. g = [i \in 1 .. n |-> g[i]]
  BY DEF GroupsOf
<1>5. ASSUME NEW i \in 1 .. n PROVE g[i] \in Group
  <2>1. g[i] = [part |-> Part(st, sk, i), last |-> st[i].seenelse]
    BY <1>3
  <2>2. st[i].seenelse \in BOOLEAN /\ Part(st, sk, i) \in Kinds
    BY <1>1, <1>2 DEF Cell
  <2> HIDE DEF g
  <2> QED BY <2>1, <2>2 DEF Group
<1> HIDE DEF g
<1>6. g \in Seq(Group) /\ Len(g) = n
  BY <1>1, <1>4, <1>5, FnIsSeq
<1> QED BY <1>3, <1>4, <1>6 DEF g

LEMMA ClosingOf ==
  ASSUME NEW st, NEW sk, NEW st1, NEW sk1, Flags(st, sk), st # <<>>,
         st1 = Front(st), sk1 = Last(st).oldskip
  PROVE  Flags(st1, sk1) /\ GroupsOf(st1, sk1) = Front(GroupsOf(st, sk))
<1>1. st \in Seq(Cell) /\ sk \in BOOLEAN
  BY DEF Flags
<1>2. /\ st1 \in Seq(Cell) /\ Len(st1) = Len(st) - 1 /\ Last(st) = st[Len(st)]
      /\ \A i \in 1 .. Len(st) - 1 : st1[i] = st[i]
      /\ Last(st) \in Cell /\ Len(st) \in Nat \ {0}
  BY <1>1, FrontFacts
<1>3. PICK n \in Nat : n = Len(st1)
  BY <1>2
<1>4. Len(st) = n + 1
  BY <1>2, <1>3
<1>5. /\ \A i \in 1 .. n : st1[i] = st[i]
      /\ sk1 = st[n + 1].oldskip /\ sk1 \in BOOLEAN
  BY <1>2, <1>4 DEF Cell
<1>6. \A i \in 1 .. n : i \in 1 .. n + 1 /\ (i + 1 \in 1 .. n \/ i = n) /\ i # n + 1
  OBVIOUS
<1>7. \A i \in 1 .. n : Skips(st1, sk1, i) = Skips(st, sk, i)
  <2>1. ASSUME NEW i \in 1 .. n PROVE Skips(st1, sk1, i) = Skips(st, sk, i)
    <3>1. CASE i = n
      BY <1>3, <1>4, <1>5, <1>6, <3>1 DEF Skips
    <3>2. CASE i # n
      <4>1. i + 1 \in 1 .. n /\ i # n + 1
        BY <1>6, <3>2
      <4> QED BY <1>3, <1>4, <1>5, <3>2, <4>1 DEF Skips
    <3> QED BY <3>1, <3>2
  <2> QED BY <2>1
<1>8. Flags(st1, sk1)
  <2>1. n + 1 \in 1 .. n + 1 /\ 1 \in 1 .. n + 1 /\ \A i \in 1 .. n : i <= n + 1
    OBVIOUS
  <2>2. ~st[1].oldskip /\ \A i, j \in 1 .. n + 1 : i <= j /\ st[i].oldskip => st[j].oldskip
    <3>1. n + 1 > 0
      OBVIOUS
    <3> QED BY <1>4, <3>1 DEF Flags
  <2>3. n = 0 => ~sk1
    <3>1. n = 0 => n + 1 = 1
      OBVIOUS
    <3> QED BY <1>5, <2>2, <3>1
  <2>4. n > 0 => ~st1[1].oldskip
    <3>1. n > 0 => 1 \in 1 .. n
      OBVIOUS
    <3> QED BY <1>5, <2>2, <3>1
  <2>5. \A i, j \in 1 .. n : i <= j /\ st1[i].oldskip => st1[j].oldskip
    BY <1>5, <1>6, <2>2
  <2>6. \A i \in 1 .. n : st1[i].oldskip => sk1 /\ st1[i].skipelse
    <3>1. \A i \in 1 .. n + 1 : st[i].oldskip => st[i].skipelse
      BY <1>4 DEF Flags
    <3> QED BY <1>5, <1>6, <2>1, <2>2, <3>1
  <2>7. \A i \in 1 .. n : ~Skips(st1, sk1, i) /\ ~st1[i].seenelse => st1[i].skipelse
    <3>1. \A i \in 1 .. n + 1 : ~Skips(st, sk, i) /\ ~st[i].seenelse => st[i].skipelse
      BY <1>4 DEF Flags
    <3> QED BY <1>5, <1>6, <1>7, <3>1
  <2> QED BY <1>2, <1>3, <1>5, <2>3, <2>4, <2>5, <2>6, <2>7 DEF Flags
<1>9. GroupsOf(st1, sk1) = Front(GroupsOf(st, sk))
  <2>1. PICK g : g = GroupsOf(st, sk)
    OBVIOUS
  <2>2. PICK h : h = GroupsOf(st1, sk1)
    OBVIOUS
  <2>3. /\ g \in Seq(Group) /\ Len(g) = n + 1
        /\ \A i \in 1 .. n + 1 : g[i] = [part |-> Part(st, sk, i), last |-> st[i].seenelse]
    BY <1>1, <1>4, <2>1, GroupsType
  <2>4. /\ h \in Seq(Group) /\ Len(h) = n
        /\ h = [i \in 1 .. n |-> h[i]]
        /\ \A i \in 1 .. n : h[i] = [part |-> Part(st1, sk1, i), last |-> st1[i].seenelse]
    <3>1. st1 \in Seq(Cell) /\ Len(st1) = n
      BY <1>2, <1>3
    <3> QED BY <2>2, <3>1, GroupsType
  <2>5. PICK f : f = Front(g)
    OBVIOUS
  <2>6. g # <<>>
    BY <2>3
  <2>7. f \in Seq(Group) /\ Len(f) = Len(g) - 1 /\ \A i \in 1 .. Len(g) - 1 : f[i] = g[i]
    BY <2>3, <2>5, <2>6, FrontFacts
  <2>8. Len(f) = n /\ \A i \in 1 .. n : f[i] = g[i]
    BY <2>3, <2>7
  <2>9. \A i \in 1 .. n : Part(st1, sk1, i) = Part(st, sk, i)
    BY <1>5, <1>7 DEF Part
  <2>10. \A i \in 1 .. n : h[i] = f[i]
    BY <1>5, <1>6, <2>3, <2>4, <2>8, <2>9
  <2> QED BY <2>1, <2>2, <2>4, <2>5, <2>7, <2>8, <2>10, SeqIsFn
<1> QED BY <1>8, <1>9

\* Only the innermost conditional is changed, and not how it began.
Changed(st, sk, st1, sk1) ==
  /\ st1 \in Seq(Cell) /\ Len(st1) = Len(st) /\ sk1 \in BOOLEAN /\ Len(st) # 0
  /\ \A i \in 1 .. Len(st) : i # Len(st) => st1[i] = st[i]
  /\ st1[Len(st)].oldskip = st[Len(st)].oldskip
  /\ st[Len(st)].oldskip => sk1 /\ st1[Len(st)].skipelse
  /\ ~sk1 /\ ~st1[Len(st)].seenelse => st1[Len(st)].skipelse

LEMMA ChangedOf ==
  ASSUME NEW st, NEW sk, NEW st1, NEW sk1, Flags(st, sk), Changed(st, sk, st1, sk1),
         NEW n, n = Len(st)
  PROVE  /\ Flags(st1, sk1)
         /\ GroupsOf(st1, sk1) = [GroupsOf(st, sk) EXCEPT ![n] =
              [part |-> Part(st1, sk1, n), last |-> st1[n].seenelse]]
<1>1. n = Len(st)
  OBVIOUS
<1>2. /\ st \in Seq(Cell) /\ n \in Nat \ {0} /\ n \in 1 .. n /\ 1 \in 1 .. n
      /\ \A i \in 1 .. n : i <= n /\ (i # n => i + 1 \in 1 .. n)
  <2>1. st \in Seq(Cell) /\ n \in Nat /\ n # 0
    BY <1>1, LenProperties DEF Flags, Changed
  <2> QED BY <2>1
<1>3. /\ st1 \in Seq(Cell) /\ Len(st1) = n /\ sk1 \in BOOLEAN
      /\ \A i \in 1 .. n : i # n => st1[i] = st[i]
      /\ st1[n].oldskip = st[n].oldskip
      /\ st[n].oldskip => sk1 /\ st1[n].skipelse
      /\ ~sk1 /\ ~st1[n].seenelse => st1[n].skipelse
  BY <1>1 DEF Changed
<1>4. \A i \in 1 .. n : st1[i].oldskip = st[i].oldskip
  BY <1>3
<1>5. \A i \in 1 .. n : i # n => Skips(st1, sk1, i) = Skips(st, sk, i)
  BY <1>1, <1>2, <1>3, <1>4 DEF Skips
<1>6. Flags(st1, sk1)
  <2>1. /\ ~st[1].oldskip
        /\ \A i, j \in 1 .. n : i <= j /\ st[i].oldskip => st[j].oldskip
        /\ \A i \in 1 .. n : st[i].oldskip => st[i].skipelse
        /\ \A i \in 1 .. n : ~Skips(st, sk, i) /\ ~st[i].seenelse => st[i].skipelse
    <3>1. n > 0
      BY <1>2
    <3> QED BY <1>1, <3>1 DEF Flags
  <2>2. ~st1[1].oldskip
    BY <1>2, <1>4, <2>1
  <2>3. \A i, j \in 1 .. n : i <= j /\ st1[i].oldskip => st1[j].oldskip
    BY <1>4, <2>1
  <2>4. \A i \in 1 .. n : st1[i].oldskip => sk1 /\ st1[i].skipelse
    BY <1>2, <1>3, <1>4, <2>1
  <2>5. Skips(st1, sk1, n) = sk1
    BY <1>3 DEF Skips
  <2>6. \A i \in 1 .. n : ~Skips(st1, sk1, i) /\ ~st1[i].seenelse => st1[i].skipelse
    BY <1>3, <1>5, <2>1, <2>5
  <2> QED BY <1>2, <1>3, <2>2, <2>3, <2>4, <2>6 DEF Flags
<1>7. PICK g : g = GroupsOf(st, sk)
  OBVIOUS
<1>8. PICK h : h = GroupsOf(st1, sk1)
  OBVIOUS
<1>9. PICK r : r = [part |-> Part(st1, sk1, n), last |-> st1[n].seenelse]
  OBVIOUS
<1>10. /\ g = [i \in 1 .. n |-> g[i]]
       /\ \A i \in 1 .. n : g[i] = [part |-> Part(st, sk, i), last |-> st[i].seenelse]
  BY <1>1, <1>2, <1>7, GroupsType
<1>11. /\ h = [i \in 1 .. n |-> h[i]]
       /\ \A i \in 1 .. n : h[i] = [part |-> Part(st1, sk1, i), last |-> st1[i].seenelse]
  BY <1>3, <1>8, GroupsType
<1>12. \A i \in 1 .. n : i # n => Part(st1, sk1, i) = Part(st, sk, i)
  BY <1>3, <1>5 DEF Part
<1>13. \A i \in 1 .. n : h[i] = IF i = n THEN r ELSE g[i]
  BY <1>3, <1>9, <1>10, <1>11, <1>12
<1>14. h = [g EXCEPT ![n] = r]
  BY <1>10, <1>11, <1>13
<1> QED BY <1>1, <1>6, <1>7, <1>8, <1>9, <1>14

ElseTaken(g, n) == [g EXCEPT ![n] = [part |-> Further(@.part, TRUE), last |-> TRUE]]
ElifTaken(g, n, cond) == [g EXCEPT ![n].part = Further(@, cond)]

TurnedElse(st, n, st1, sk1) ==
  /\ ~st[n].seenelse
  /\ st1 = [st EXCEPT ![n].seenelse = TRUE] /\ sk1 = st[n].skipelse

LEMMA ElseOf ==
  ASSUME NEW st, NEW sk, NEW st1, NEW sk1, NEW n, Flags(st, sk), n = Len(st), n # 0,
         TurnedElse(st, n, st1, sk1)
  PROVE  /\ Flags(st1, sk1)
         /\ GroupsOf(st1, sk1) = ElseTaken(GroupsOf(st, sk), n)
<1>1. n = Len(st)
  OBVIOUS
<1>2. PICK c : c = st[n]
  OBVIOUS
<1>3. st \in Seq(Cell) /\ n \in 1 .. n /\ c \in Cell /\ n \in Nat
  <2>1. st \in Seq(Cell) /\ n \in Nat /\ n # 0
    BY <1>1, LenProperties DEF Flags
  <2>2. n \in 1 .. n
    BY <2>1
  <2> QED BY <1>1, <1>2, <2>1, <2>2, ElementOfSeq
<1>4. PICK d : d = [c EXCEPT !.seenelse = TRUE]
  OBVIOUS
<1>5. d \in Cell /\ d.seenelse = TRUE /\ d.oldskip = c.oldskip /\ d.skipelse = c.skipelse
  BY <1>3, <1>4 DEF Cell
<1>6. st1 = [st EXCEPT ![n] = d]
  BY <1>2, <1>4 DEF TurnedElse
<1>7. /\ st1 \in Seq(Cell) /\ Len(st1) = n /\ st1[n] = d
      /\ \A i \in 1 .. n : i # n => st1[i] = st[i]
  <2>1. n \in 1 .. Len(st)
    BY <1>1, <1>3
  <2>2. /\ st1 \in Seq(Cell) /\ Len(st1) = Len(st)
        /\ \A j \in 1 .. Len(st) : st1[j] = IF j = n THEN d ELSE st[j]
    BY <1>3, <1>5, <1>6, <2>1, UpdateFacts
  <2> QED BY <1>1, <2>1, <2>2
<1>8. /\ c.oldskip => sk1 /\ c.skipelse
      /\ ~Skips(st, sk, n) => c.skipelse
      /\ sk1 = c.skipelse
  BY <1>1, <1>2, <1>3 DEF Flags, TurnedElse
<1>9. Changed(st, sk, st1, sk1)
  BY <1>1, <1>2, <1>3, <1>5, <1>7, <1>8 DEF Changed, Cell
<1>10. /\ Flags(st1, sk1)
       /\ GroupsOf(st1, sk1) = [GroupsOf(st, sk) EXCEPT ![n] =
            [part |-> Part(st1, sk1, n), last |-> st1[n].seenelse]]
  BY <1>1, <1>9, ChangedOf
<1>11. Skips(st1, sk1, n) = sk1
  BY <1>7 DEF Skips
<1>12. Part(st1, sk1, n) = Further(Part(st, sk, n), TRUE)
  <2>1. CASE c.oldskip
    BY <1>2, <1>5, <1>7, <2>1 DEF Part, Further
  <2>2. CASE ~c.oldskip /\ ~Skips(st, sk, n)
    BY <1>2, <1>5, <1>7, <1>8, <1>11, <2>2 DEF Part, Further
  <2>3. CASE ~c.oldskip /\ Skips(st, sk, n) /\ c.skipelse
    BY <1>2, <1>5, <1>7, <1>8, <1>11, <2>3 DEF Part, Further
  <2>4. CASE ~c.oldskip /\ Skips(st, sk, n) /\ ~c.skipelse
    BY <1>2, <1>5, <1>7, <1>8, <1>11, <2>4 DEF Part, Further
  <2> QED BY <2>1, <2>2, <2>3, <2>4
<1>13. PICK g : g = GroupsOf(st, sk)
  OBVIOUS
<1>14. g[n].part = Part(st, sk, n) /\ n \in DOMAIN g
  <2>1. g[n] = [part |-> Part(st, sk, n), last |-> st[n].seenelse]
    BY <1>1, <1>3, <1>13, GroupsType
  <2>2. g = [i \in 1 .. n |-> g[i]]
    BY <1>1, <1>3, <1>13, GroupsType
  <2> QED BY <1>3, <2>1, <2>2
<1>15. [part |-> Part(st1, sk1, n), last |-> st1[n].seenelse]
         = [part |-> Further(g[n].part, TRUE), last |-> TRUE]
  BY <1>5, <1>7, <1>12, <1>14
<1>16. [g EXCEPT ![n] = [part |-> Part(st1, sk1, n), last |-> st1[n].seenelse]]
         = ElseTaken(g, n)
  BY <1>15 DEF ElseTaken
<1> QED BY <1>1, <1>10, <1>13, <1>16

TurnedElif(st, n, cond, st1, sk1) ==
  /\ ~st[n].seenelse
  /\ st1 = [st EXCEPT ![n].skipelse = @ \/ cond] /\ sk1 = (st[n].skipelse \/ ~cond)

LEMMA ElifOf ==
  ASSUME NEW st, NEW sk, NEW cond \in BOOLEAN, NEW st1, NEW sk1, NEW n,
         Flags(st, sk), n = Len(st), n # 0, TurnedElif(st, n, cond, st1, sk1)
  PROVE  /\ Flags(st1, sk1)
         /\ GroupsOf(st1, sk1) = ElifTaken(GroupsOf(st, sk), n, cond)
<1>1. n = Len(st)
  OBVIOUS
<1>2. PICK c : c = st[n]
  OBVIOUS
<1>3. st \in Seq(Cell) /\ n \in 1 .. n /\ c \in Cell /\ n \in Nat
  <2>1. st \in Seq(Cell) /\ n \in Nat /\ n # 0
    BY <1>1, LenProperties DEF Flags
  <2>2. n \in 1 .. n
    BY <2>1
  <2> QED BY <1>1, <1>2, <2>1, <2>2, ElementOfSeq
<1>4. PICK s \in BOOLEAN : s = (c.skipelse \/ cond)
  OBVIOUS
<1>5. PICK d : d = [c EXCEPT !.skipelse = s]
  OBVIOUS
<1>6. d \in Cell /\ d.seenelse = c.seenelse /\ d.oldskip = c.oldskip /\ d.skipelse = s
  BY <1>3, <1>5 DEF Cell
<1>7. st1 = [st EXCEPT ![n] = d]
  BY <1>2, <1>4, <1>5 DEF TurnedElif
<1>8. /\ st1 \in Seq(Cell) /\ Len(st1) = n /\ st1[n] = d
      /\ \A i \in 1 .. n : i # n => st1[i] = st[i]
  BY <1>1, <1>3, <1>6, <1>7, ExceptSeq
<1>9. /\ c.oldskip => c.skipelse
      /\ ~Skips(st, sk, n) => c.skipelse
      /\ sk1 = (c.skipelse \/ ~cond) /\ sk1 \in BOOLEAN
  BY <1>1, <1>2, <1>3 DEF Flags, TurnedElif
<1>10. Changed(st, sk, st1, sk1)
  <2>1. /\ st1[n].oldskip = c.oldskip
        /\ c.oldskip => sk1 /\ st1[n].skipelse
        /\ ~sk1 => st1[n].skipelse
    BY <1>4, <1>6, <1>8, <1>9
  <2> QED BY <1>1, <1>2, <1>3, <1>8, <1>9, <2>1 DEF Changed
<1>11. /\ Flags(st1, sk1)
       /\ GroupsOf(st1, sk1) = [GroupsOf(st, sk) EXCEPT ![n] =
            [part |-> Part(st1, sk1, n), last |-> st1[n].seenelse]]
  BY <1>1, <1>10, ChangedOf
<1>12. Skips(st1, sk1, n) = sk1
  BY <1>8 DEF Skips
<1>13. Part(st1, sk1, n) = Further(Part(st, sk, n), cond)
  <2>1. CASE c.oldskip
    BY <1>2, <1>6, <1>8, <2>1 DEF Part, Further
  <2>2. CASE ~c.oldskip /\ ~Skips(st, sk, n)
    BY <1>2, <1>4, <1>6, <1>8, <1>9, <1>12, <2>2 DEF Part, Further
  <2>3. CASE ~c.oldskip /\ Skips(st, sk, n) /\ c.skipelse
    BY <1>2, <1>4, <1>6, <1>8, <1>9, <1>12, <2>3 DEF Part, Further
  <2>4. CASE ~c.oldskip /\ Skips(st, sk, n) /\ ~c.skipelse
    BY <1>2, <1>4, <1>6, <1>8, <1>9, <1>12, <2>4 DEF Part, Further
  <2> QED BY <2>1, <2>2, <2>3, <2>4
<1>14. PICK g : g = GroupsOf(st, sk)
  OBVIOUS
<1>15. g[n] = [part |-> Part(st, sk, n), last |-> st[n].seenelse]
  BY <1>1, <1>3, <1>14, GroupsType
<1>16. [part |-> Part(st1, sk1, n), last |-> st1[n].seenelse]
         = [g[n] EXCEPT !.part = Further(@, cond)]
  <2>1. st1[n].seenelse = st[n].seenelse
    BY <1>2, <1>6, <1>8
  <2> QED BY <1>13, <1>15, <2>1
<1>17. [g EXCEPT ![n] = [part |-> Part(st1, sk1, n), last |-> st1[n].seenelse]]
         = ElifTaken(g, n, cond)
  BY <1>16 DEF ElifTaken
<1> QED BY <1>1, <1>11, <1>14, <1>17

----------------------------------------------------------------------------
(* What the directives ask, and what the actions do to the flags.          *)

LEMMA DirectedOpen ==
  ASSUME NEW g, NEW d, NEW S
  PROVE  /\ d.word = "if" => Directed(g, d, S) = Opened(g, d.cond)
         /\ d.word = "ifdef" => Directed(g, d, S) = Opened(g, d.name \in S)
         /\ d.word = "ifndef" => Directed(g, d, S) = Opened(g, d.name \notin S)
BY DEF Directed

LEMMA DirectedTurn ==
  ASSUME NEW g, NEW d, NEW S, NEW n, n = Len(g), n > 0, ~g[n].last
  PROVE  /\ d.word = "elif" =>
              Directed(g, d, S) = ElifTaken(g, n, d.cond)
         /\ d.word = "else" =>
              Directed(g, d, S) = ElseTaken(g, n)
BY DEF Directed, ElifTaken, ElseTaken

LEMMA DirectedClose ==
  ASSUME NEW g, NEW d, NEW S, Len(g) > 0, d.word = "endif"
  PROVE  Directed(g, d, S) = Front(g)
BY DEF Directed

LEMMA DirectedKeeps ==
  ASSUME NEW g, NEW d, NEW S,
         \/ d.word \in {"elif", "else"} /\ ~(Len(g) > 0 /\ ~g[Len(g)].last)
         \/ d.word = "endif" /\ ~(Len(g) > 0)
         \/ d.word \in {"define", "undef", "include"}
  PROVE  Directed(g, d, S) = g
BY DEF Directed

FlagsOK == Flags(ifstack, skipping)

LEMMA GroupsAreNext == Groups' = GroupsOf(ifstack', skipping')
BY DEF Groups, GroupsOf, Part, Skips

LEMMA OpenedBy ==
  ASSUME NEW c \in BOOLEAN, FlagsOK, Opening(ifstack, skipping, c, ifstack', skipping')
  PROVE  Flags(ifstack', skipping') /\ Groups' = Opened(Groups, c)
BY OpeningOf, GroupsAre, GroupsAreNext DEF FlagsOK

LEMMA IfFollows ==
  ASSUME FlagsOK, If, NEW S
  PROVE  Flags(ifstack', skipping') /\ Groups' = Directed(Groups, What, S)
<1>1. PICK c : c = What.cond
  OBVIOUS
<1>2. /\ What.word = "if" /\ Char \in DOMAIN Directives
      /\ AddConditional(skipping \/ c)
  BY <1>1 DEF If, Directive, What
<1>3. c \in BOOLEAN
  BY <1>1, <1>2, DirectivesAssumption DEF What
<1>4. skipping \in BOOLEAN
  BY DEF FlagsOK, Flags
<1>5. (skipping \/ (skipping \/ c)) = (skipping \/ c) /\ (skipping \/ ~(skipping \/ c)) = (skipping \/ ~c)
  BY <1>3, <1>4
<1>6. Opening(ifstack, skipping, c, ifstack', skipping')
  BY <1>2, <1>5 DEF AddConditional, Opening
<1>7. Flags(ifstack', skipping') /\ Groups' = Opened(Groups, c)
  BY <1>3, <1>6, OpenedBy
<1>8. PICK d : d = What
  OBVIOUS
<1>9. PICK g : g = Groups
  OBVIOUS
<1>10. Directed(g, d, S) = Opened(g, c)
  BY <1>1, <1>2, <1>8, DirectedOpen
<1> QED BY <1>7, <1>8, <1>9, <1>10

LEMMA IfdefFollows ==
  ASSUME FlagsOK, Ifdef
  PROVE  Flags(ifstack', skipping') /\ Groups' = Directed(Groups, What, Read.alive)
<1>1. PICK c \in {What.name \in Read.alive} : c \in BOOLEAN
  OBVIOUS
<1>2. What.word = "ifdef" /\ AddConditional(c)
  BY <1>1 DEF Ifdef, Directive, What, IsDefined
<1>3. Opening(ifstack, skipping, c, ifstack', skipping')
  BY <1>2 DEF AddConditional, Opening
<1>4. Flags(ifstack', skipping') /\ Groups' = Opened(Groups, c)
  BY <1>1, <1>3, OpenedBy
<1>5. PICK d : d = What
  OBVIOUS
<1>6. PICK g : g = Groups
  OBVIOUS
<1>7. PICK S : S = Read.alive
  OBVIOUS
<1>8. Directed(g, d, S) = Opened(g, c)
  BY <1>1, <1>2, <1>5, <1>7, DirectedOpen
<1> QED BY <1>4, <1>5, <1>6, <1>7, <1>8

LEMMA IfndefFollows ==
  ASSUME FlagsOK, Ifndef
  PROVE  Flags(ifstack', skipping') /\ Groups' = Directed(Groups, What, Read.alive)
<1>1. PICK c \in {What.name \notin Read.alive} : c \in BOOLEAN
  OBVIOUS
<1>2. What.word = "ifndef" /\ AddConditional(c)
  BY <1>1 DEF Ifndef, Directive, What, IsDefined
<1>3. Opening(ifstack, skipping, c, ifstack', skipping')
  BY <1>2 DEF AddConditional, Opening
<1>4. Flags(ifstack', skipping') /\ Groups' = Opened(Groups, c)
  BY <1>1, <1>3, OpenedBy
<1>5. PICK d : d = What
  OBVIOUS
<1>6. PICK g : g = Groups
  OBVIOUS
<1>7. PICK S : S = Read.alive
  OBVIOUS
<1>8. Directed(g, d, S) = Opened(g, c)
  BY <1>1, <1>2, <1>5, <1>7, DirectedOpen
<1> QED BY <1>4, <1>5, <1>6, <1>7, <1>8

\* What the last of the groups says of the conditional it stands for.
LEMMA LastGroup ==
  ASSUME FlagsOK
  PROVE  /\ Len(Groups) = Len(ifstack) /\ Len(ifstack) \in Nat
         /\ ifstack # <<>> <=> Len(ifstack) > 0
         /\ ifstack # <<>> => /\ Groups[Len(ifstack)].last = ifstack[Len(ifstack)].seenelse
                              /\ Last(ifstack) = ifstack[Len(ifstack)]
<1>1. PICK n : n = Len(ifstack)
  OBVIOUS
<1>2. ifstack \in Seq(Cell) /\ n \in Nat
  BY <1>1, LenProperties DEF FlagsOK, Flags
<1>3. /\ Len(Groups) = n
      /\ \A i \in 1 .. n : Groups[i] =
           [part |-> Part(ifstack, skipping, i), last |-> ifstack[i].seenelse]
  BY <1>1, <1>2, GroupsType, GroupsAre
<1>4. ifstack # <<>> <=> n > 0
  BY <1>1, <1>2, EmptySeq
<1>5. ASSUME ifstack # <<>> PROVE Groups[n].last = ifstack[n].seenelse
  <2>1. n \in 1 .. n
    BY <1>2, <1>4, <1>5
  <2> QED BY <1>3, <2>1
<1>6. Last(ifstack) = ifstack[n]
  BY <1>1 DEF Last
<1> QED BY <1>1, <1>2, <1>3, <1>4, <1>5, <1>6

LEMMA ElseFollows ==
  ASSUME FlagsOK, Else, NEW S
  PROVE  Flags(ifstack', skipping') /\ Groups' = Directed(Groups, What, S)
<1>1. What.word = "else"
  BY DEF Else, Directive, What
<1>2. PICK n : n = Len(ifstack)
  OBVIOUS
<1>6. PICK d : d = What
  OBVIOUS
<1>7. PICK g : g = Groups
  OBVIOUS
<1>3. CASE ElseAllowed
  <2>1. /\ ifstack # <<>> /\ n # 0 /\ n > 0 /\ ~Groups[n].last /\ Len(Groups) = n
        /\ ~ifstack[n].seenelse /\ Last(ifstack) = ifstack[n]
    BY <1>2, <1>3, LastGroup DEF ElseAllowed
  <2>2. TurnedElse(ifstack, n, ifstack', skipping')
    BY <1>2, <1>3, <2>1 DEF Else, TurnedElse
  <2>3. /\ Flags(ifstack', skipping')
        /\ GroupsOf(ifstack', skipping') = ElseTaken(GroupsOf(ifstack, skipping), n)
    BY <1>2, <2>1, <2>2, ElseOf DEF FlagsOK
  <2>4. Directed(Groups, What, S) = ElseTaken(Groups, n)
    BY <1>1, <1>6, <1>7, <2>1, DirectedTurn
  <2> QED BY <2>3, <2>4, GroupsAre, GroupsAreNext
<1>4. CASE ~ElseAllowed
  <2>1. ifstack' = ifstack /\ skipping' = skipping
    BY <1>4 DEF Else, cvars
  <2>2. ~(Len(Groups) > 0 /\ ~Groups[Len(Groups)].last)
    BY <1>4, LastGroup DEF ElseAllowed
  <2>3. Directed(Groups, What, S) = Groups
    BY <1>1, <1>6, <1>7, <2>2, DirectedKeeps
  <2> QED BY <2>1, <2>3, GroupsAre, GroupsAreNext DEF FlagsOK
<1> QED BY <1>3, <1>4

LEMMA ElifFollows ==
  ASSUME FlagsOK, Elif, NEW S
  PROVE  Flags(ifstack', skipping') /\ Groups' = Directed(Groups, What, S)
<1>1. What.word = "elif" /\ Char \in DOMAIN Directives
  BY DEF Elif, Directive, What
<1>2. PICK n : n = Len(ifstack)
  OBVIOUS
<1>6. PICK d : d = What
  OBVIOUS
<1>7. PICK g : g = Groups
  OBVIOUS
<1>5. PICK c \in BOOLEAN : c = What.cond
  BY <1>1, DirectivesAssumption DEF What
<1>3. CASE ElseAllowed
  <2>1. /\ ifstack # <<>> /\ n # 0 /\ n > 0 /\ ~Groups[n].last /\ Len(Groups) = n
        /\ ~ifstack[n].seenelse /\ Last(ifstack) = ifstack[n]
    BY <1>2, <1>3, LastGroup DEF ElseAllowed
  <2>2. TurnedElif(ifstack, n, c, ifstack', skipping')
    BY <1>2, <1>3, <1>5, <2>1 DEF Elif, TurnedElif
  <2>3. /\ Flags(ifstack', skipping')
        /\ GroupsOf(ifstack', skipping') =
             ElifTaken(GroupsOf(ifstack, skipping), n, c)
    BY <1>2, <2>1, <2>2, ElifOf DEF FlagsOK
  <2>4. Directed(Groups, What, S) = ElifTaken(Groups, n, c)
    BY <1>1, <1>5, <1>6, <1>7, <2>1, DirectedTurn
  <2> QED BY <2>3, <2>4, GroupsAre, GroupsAreNext
<1>4. CASE ~ElseAllowed
  <2>1. ifstack' = ifstack /\ skipping' = skipping
    BY <1>4 DEF Elif, cvars
  <2>2. ~(Len(Groups) > 0 /\ ~Groups[Len(Groups)].last)
    BY <1>4, LastGroup DEF ElseAllowed
  <2>3. Directed(Groups, What, S) = Groups
    BY <1>1, <1>6, <1>7, <2>2, DirectedKeeps
  <2> QED BY <2>1, <2>3, GroupsAre, GroupsAreNext DEF FlagsOK
<1> QED BY <1>3, <1>4

LEMMA EndifFollows ==
  ASSUME FlagsOK, Endif, NEW S
  PROVE  Flags(ifstack', skipping') /\ Groups' = Directed(Groups, What, S)
<1>1. What.word = "endif"
  BY DEF Endif, Directive, What
<1>6. PICK d : d = What
  OBVIOUS
<1>7. PICK g : g = Groups
  OBVIOUS
<1>2. CASE ifstack # <<>>
  <2>1. skipping' = Last(ifstack).oldskip /\ ifstack' = Front(ifstack)
    BY <1>2 DEF Endif
  <2>2. /\ Flags(ifstack', skipping')
        /\ GroupsOf(ifstack', skipping') = Front(GroupsOf(ifstack, skipping))
    BY <1>2, <2>1, ClosingOf DEF FlagsOK
  <2>3. Directed(Groups, What, S) = Front(Groups)
    BY <1>1, <1>2, <1>6, <1>7, LastGroup, DirectedClose
  <2> QED BY <2>2, <2>3, GroupsAre, GroupsAreNext
<1>3. CASE ifstack = <<>>
  <2>1. ifstack' = ifstack /\ skipping' = skipping
    BY <1>3 DEF Endif, cvars
  <2>2. ~(Len(Groups) > 0)
    BY <1>3, LastGroup
  <2>3. Directed(Groups, What, S) = Groups
    BY <1>1, <1>6, <1>7, <2>2, DirectedKeeps
  <2> QED BY <2>1, <2>3, GroupsAre, GroupsAreNext DEF FlagsOK
<1> QED BY <1>2, <1>3

LEMMA OthersFollow ==
  ASSUME FlagsOK, Define \/ Undef \/ SkipInclude \/ PushInclude, NEW S
  PROVE  Flags(ifstack', skipping') /\ Groups' = Directed(Groups, What, S)
<1>1. What.word \in {"define", "undef", "include"}
  BY DEF Define, Undef, SkipInclude, PushInclude, Directive, What
<1>2. ifstack' = ifstack /\ skipping' = skipping
  BY DEF Define, Undef, SkipInclude, PushInclude, cvars
<1>3. Directed(Groups, What, S) = Groups
  <2>1. PICK d : d = What
    OBVIOUS
  <2>2. PICK g : g = Groups
    OBVIOUS
  <2> QED BY <1>1, <2>1, <2>2, DirectedKeeps
<1> QED BY <1>2, <1>3, GroupsAre, GroupsAreNext DEF FlagsOK

----------------------------------------------------------------------------
(* All actions.  The names that are defined are those that are awake when  *)
(* the directive has been read.                                            *)

FlagsStep ==
  /\ skipping' = ~Live(Groups')
  /\ Groups' = IF Process /\ Char \in DOMAIN Directives
               THEN Directed(Groups, What, Read.alive) ELSE Groups

LEMMA NoDirective ==
  ASSUME (Expanding /\ UNCHANGED <<cvars, fvars>>) \/ Word \/ Plainly \/ Eof
  PROVE  ~(Process /\ Char \in DOMAIN Directives) /\ UNCHANGED cvars
<1>1. CASE Expanding /\ UNCHANGED <<cvars, fvars>>
  <2>1. calls # <<>>
    BY <1>1 DEF Expanding, CopyString, ReadId, NotAMacro, ObjectLike, FunctionLike, SkipB,
       NotCalled, Called, ArgChar, Comma, BadArgs, Close, Hash, CopyToken, CopyArg,
       ExpandArg, ExpandEnd, ArgPlain, ArgString, ArgName, ArgAgain, ArgExpanded,
       IdRead, More, Scanning, In
  <2> QED BY <1>1, <2>1 DEF Process
<1>2. CASE Word
  <2>1. IdChar(Char) \/ Char \in {NOEXPAND, Quote}
    BY <1>2 DEF Word
  <2>2. Char \notin DOMAIN Directives
    BY <2>1, DirectivesAssumption
  <2> QED BY <1>2, <2>2 DEF Word
<1>3. CASE Plainly
  BY <1>3 DEF Plainly
<1>4. CASE Eof
  <2>1. Char = PP_EOF
    BY <1>4 DEF Eof
  <2>2. Char \notin DOMAIN Directives
    BY <2>1, DirectivesAssumption
  <2> QED BY <1>4, <2>2 DEF Eof
<1> QED BY <1>1, <1>2, <1>3, <1>4

LEMMA FlagsNext ==
  ASSUME FlagsOK, Next
  PROVE  FlagsOK' /\ FlagsStep
<1>1. CASE (Expanding /\ UNCHANGED <<cvars, fvars>>) \/ Word \/ Plainly \/ Eof
  <2>1. ~(Process /\ Char \in DOMAIN Directives) /\ ifstack' = ifstack /\ skipping' = skipping
    BY <1>1, NoDirective DEF cvars
  <2>2. Flags(ifstack', skipping') /\ Groups' = Groups
    BY <2>1, GroupsAre, GroupsAreNext DEF FlagsOK
  <2>3. skipping' = ~Live(Groups')
    BY <2>2, LiveIs, GroupsAreNext
  <2> QED BY <2>1, <2>2, <2>3 DEF FlagsOK, FlagsStep
<1>2. CASE \/ If \/ Ifdef \/ Ifndef \/ Else \/ Elif \/ Endif
           \/ Define \/ Undef \/ SkipInclude \/ PushInclude
  <2>1. Process /\ Char \in DOMAIN Directives
    BY <1>2 DEF If, Ifdef, Ifndef, Else, Elif, Endif, Define, Undef, SkipInclude, PushInclude,
       Directive
  <2>2. Flags(ifstack', skipping') /\ Groups' = Directed(Groups, What, Read.alive)
    BY <1>2, IfFollows, IfdefFollows, IfndefFollows, ElseFollows, ElifFollows, EndifFollows,
       OthersFollow
  <2>3. skipping' = ~Live(Groups')
    BY <2>2, LiveIs, GroupsAreNext
  <2> QED BY <2>1, <2>2, <2>3 DEF FlagsOK, FlagsStep
<1> QED BY <1>1, <1>2 DEF Next

LEMMA FlagsInit == Init => FlagsOK
<1>1. ASSUME Init PROVE FlagsOK
  <2>1. ifstack = <<>> /\ skipping = FALSE
    BY <1>1 DEF Init
  <2>2. ifstack \in Seq(Cell) /\ Len(ifstack) = 0
    BY <2>1
  <2>3. ~(Len(ifstack) > 0) /\ \A i \in 1 .. Len(ifstack) : FALSE
    BY <2>2
  <2>4. skipping \in BOOLEAN /\ ~skipping
    BY <2>1
  <2> QED BY <2>2, <2>3, <2>4 DEF FlagsOK, Flags
<1> QED BY <1>1

LEMMA FlagsStay == FlagsOK /\ UNCHANGED vars => FlagsOK'
BY DEF FlagsOK, vars

\* Three flags for each conditional that is open, and one for all, do what
\* the language asks of #if, #else, #elif and #endif, whatever is nested in
\* what, however they are misplaced, and over the ends of files
\* (pp_addconditional, pp_directive).
THEOREM FlagsDoAsAsked == Spec => [][FlagsStep]_vars
<1>1. FlagsOK /\ [Next]_vars => FlagsOK'
  BY FlagsNext, FlagsStay
<1>2. FlagsOK /\ [Next]_vars => [FlagsStep]_vars
  BY FlagsNext
<1> QED BY FlagsInit, <1>1, <1>2, PTL DEF Spec

----------------------------------------------------------------------------
(* Lists of sleepers.                                                      *)

LEMMA HasLeast ==
  ASSUME NEW S \in SUBSET Nat, S # {}
  PROVE  \E k \in S : \A j \in S : k <= j
<1> DEFINE R == OpToRel(<, Nat)
<1>1. IsWellFoundedOn(R, Nat)
  BY NatLessThanWellFounded
<1>2. \A x, y \in Nat : y < x => <<y, x>> \in R
  BY DEF OpToRel
<1> HIDE DEF R
<1>3. PICK k \in S : \A j \in S : ~(<<j, k>> \in R)
  BY <1>1, WFMin
<1>4. ASSUME NEW j \in S PROVE k <= j
  <2>1. k \in Nat /\ j \in Nat /\ ~(j < k)
    BY <1>2, <1>3
  <2> QED BY <2>1
<1> QED BY <1>4

IsList(s) == \E n \in Nat : s = [i \in 1 .. n |-> s[i]]

LEMMA ListIs ==
  ASSUME NEW s, IsList(s)
  PROVE  /\ Len(s) \in Nat /\ DOMAIN s = 1 .. Len(s)
         /\ s \in Seq({s[i] : i \in DOMAIN s})
<1>1. PICK n \in Nat : s = [i \in 1 .. n |-> s[i]]
  BY DEF IsList
<1>2. DOMAIN s = 1 .. n
  BY <1>1
<1>3. \A i \in 1 .. n : s[i] \in {s[i1] : i1 \in DOMAIN s}
  BY <1>2
<1>4. s \in Seq({s[i] : i \in DOMAIN s}) /\ Len(s) = n
  BY <1>1, <1>3, FnIsSeq
<1> QED BY <1>1, <1>2, <1>4

LEMMA SeqIsList ==
  ASSUME NEW S, NEW s \in Seq(S)
  PROVE  IsList(s)
<1>1. PICK n \in Nat : s \in [1 .. n -> S]
  BY SeqDef
<1>2. s = [i \in 1 .. n |-> s[i]]
  BY <1>1
<1> QED BY <1>2 DEF IsList

LEMMA EmptyIsList == IsList(<<>>)
<1>1. <<>> \in Seq({})
  OBVIOUS
<1> QED BY <1>1, SeqIsList

LEMMA SameDomain ==
  ASSUME NEW s, IsList(s), NEW t, t = [i \in DOMAIN s |-> t[i]]
  PROVE  IsList(t)
<1>1. PICK n \in Nat : s = [i \in 1 .. n |-> s[i]]
  BY DEF IsList
<1>2. DOMAIN s = 1 .. n
  BY <1>1
<1>3. t = [i \in 1 .. n |-> t[i]]
  BY <1>2
<1> QED BY <1>3 DEF IsList

LEMMA ConsList ==
  ASSUME NEW s, IsList(s), NEW e
  PROVE  IsList(<<e>> \o s)
<1> DEFINE S == {s[i] : i \in DOMAIN s} \cup {e}
<1>1. s \in Seq({s[i] : i \in DOMAIN s})
  BY ListIs
<1>2. {s[i] : i \in DOMAIN s} \subseteq S /\ e \in S
  OBVIOUS
<1> HIDE DEF S
<1>3. s \in Seq(S) /\ <<e>> \in Seq(S)
  BY <1>1, <1>2, SeqMonotonic
<1>4. <<e>> \o s \in Seq(S)
  BY <1>3, ConcatProperties
<1> QED BY <1>4, SeqIsList

LEMMA RestIsList ==
  ASSUME NEW s, IsList(s), NEW k \in 0 .. Len(s)
  PROVE  IsList(SubSeq(s, k + 1, Len(s)))
<1>1. PICK S : S = {s[i] : i \in DOMAIN s}
  OBVIOUS
<1>2. s \in Seq(S) /\ Len(s) \in Nat /\ DOMAIN s = 1 .. Len(s)
  BY <1>1, ListIs
<1>3. \A i \in k + 1 .. Len(s) : s[i] \in S
  <2>1. \A i \in k + 1 .. Len(s) : i \in 1 .. Len(s)
    BY <1>2
  <2> QED BY <1>1, <1>2, <2>1
<1>4. k + 1 \in Int /\ Len(s) \in Int
  BY <1>2
<1>5. PICK m \in Int, n \in Int : m = k + 1 /\ n = Len(s)
  BY <1>4
<1>6. \A i \in m .. n : s[i] \in S
  BY <1>3, <1>5
<1>7. SubSeq(s, m, n) \in Seq(S)
  BY <1>2, <1>6, SubSeqProperties
<1> QED BY <1>5, <1>7, SeqIsList

\* How many of the first sleepers are due.
LEMMA DueExists ==
  ASSUME NEW s, IsList(s)
  PROVE  LET due(k) == \A i \in 1 .. k : s[i].left <= 0
         IN  \E k \in 0 .. Len(s) : due(k) /\ (k = Len(s) \/ ~due(k + 1))
<1> DEFINE due(k) == \A i \in 1 .. k : s[i].left <= 0
<1>1. PICK n \in Nat : n = Len(s)
  BY ListIs
<1> DEFINE Q == {k \in 0 .. n : k = n \/ ~due(k + 1)}
<1>2. Q \in SUBSET Nat /\ n \in Q
  OBVIOUS
<1> HIDE DEF Q
<1>3. PICK k \in Q : \A j \in Q : k <= j
  BY <1>2, HasLeast
<1>4. k \in 0 .. n /\ (k = n \/ ~due(k + 1))
  BY <1>3 DEF Q
<1>5. due(k)
  <2>1. CASE k = 0
    BY <2>1
  <2>2. CASE k # 0
    <3>1. k - 1 \in 0 .. n /\ k - 1 # n /\ (k - 1) + 1 = k /\ ~(k <= k - 1)
      BY <1>4, <2>2
    <3>2. k - 1 \notin Q
      BY <1>3, <3>1
    <3>3. due((k - 1) + 1)
      BY <3>1, <3>2 DEF Q
    <3> QED BY <3>1, <3>3
  <2> QED BY <2>1, <2>2
<1> QED BY <1>1, <1>4, <1>5

----------------------------------------------------------------------------
(* Reading and putting back keep the list of sleepers a list, and begin no *)
(* scan of abuf.                                                           *)

BufOK(c) ==
  {"alive", "noexpand", "scanidx", "e"} \subseteq DOMAIN c /\ IsList(c.noexpand)

Kept(c, t) == BufOK(t) /\ (c.scanidx = 0 => t.scanidx = 0)

LEMMA KeptTwice ==
  ASSUME NEW c, NEW t, NEW u, Kept(c, t), Kept(t, u)
  PROVE  Kept(c, u)
BY DEF Kept

LEMMA KeptSame ==
  ASSUME NEW c, BufOK(c)
  PROVE  Kept(c, c)
BY DEF Kept

LEMMA PutKept ==
  ASSUME NEW c, BufOK(c), NEW f, f \notin {"noexpand", "scanidx"}, NEW v, NEW t,
         t = [c EXCEPT ![f] = v]
  PROVE  Kept(c, t)
<1>1. DOMAIN t = DOMAIN c /\ \A g \in DOMAIN c : g # f => t[g] = c[g]
  OBVIOUS
<1>2. {"alive", "noexpand", "scanidx", "e"} \subseteq DOMAIN c
  BY DEF BufOK
<1>3. t.noexpand = c.noexpand /\ t.scanidx = c.scanidx
  BY <1>1, <1>2
<1> QED BY <1>1, <1>2, <1>3 DEF Kept, BufOK

LEMMA PutListKept ==
  ASSUME NEW c, BufOK(c), NEW v, IsList(v), NEW t, t = [c EXCEPT !.noexpand = v]
  PROVE  Kept(c, t) /\ t.noexpand = v /\ t.alive = c.alive
<1>1. {"alive", "noexpand", "scanidx", "e"} \subseteq DOMAIN c
  BY DEF BufOK
<1>2. DOMAIN t = DOMAIN c /\ t.noexpand = v /\ t.scanidx = c.scanidx /\ t.alive = c.alive
  BY <1>1
<1> QED BY <1>1, <1>2 DEF Kept, BufOK

LEMMA AddSleepKept ==
  ASSUME NEW c, BufOK(c), NEW n
  PROVE  Kept(c, AddSleep(c, n)) /\ AddSleep(c, n).alive = c.alive
<1>1. PICK v : v = [i \in DOMAIN c.noexpand |-> [c.noexpand[i] EXCEPT !.left = @ + n]]
  OBVIOUS
<1>2. v = [i \in DOMAIN c.noexpand |-> v[i]]
  BY <1>1
<1>3. IsList(v)
  BY <1>2, SameDomain DEF BufOK
<1>4. AddSleep(c, n) = [c EXCEPT !.noexpand = v]
  BY <1>1 DEF AddSleep
<1> QED BY <1>3, <1>4, PutListKept

LEMMA AwakenKept ==
  ASSUME NEW c, BufOK(c), NEW k \in 0 .. Len(c.noexpand)
  PROVE  /\ Kept(c, Awaken(c, k))
         /\ Awaken(c, k).alive = c.alive \cup Names(SubSeq(c.noexpand, 1, k))
<1>1. PICK v : v = SubSeq(c.noexpand, k + 1, Len(c.noexpand))
  OBVIOUS
<1>2. IsList(v)
  BY <1>1, RestIsList DEF BufOK
<1>3. PICK a : a = c.alive \cup Names(SubSeq(c.noexpand, 1, k))
  OBVIOUS
<1>4. PICK t : t = [c EXCEPT !.noexpand = v]
  OBVIOUS
<1>5. Kept(c, t) /\ BufOK(t)
  BY <1>2, <1>4, PutListKept DEF Kept
<1>6. PICK u : u = [t EXCEPT !.alive = a]
  OBVIOUS
<1>7. Kept(t, u) /\ u.alive = a
  <2>1. "alive" \in DOMAIN t
    BY <1>5 DEF BufOK
  <2>2. Kept(t, u)
    BY <1>5, <1>6, PutKept
  <2> QED BY <1>6, <2>1, <2>2
<1>8. Awaken(c, k) = u
  BY <1>1, <1>3, <1>4, <1>6 DEF Awaken
<1>9. Kept(c, u)
  BY <1>5, <1>7, KeptTwice
<1> QED BY <1>3, <1>7, <1>8, <1>9

LEMMA AwakenAllKept ==
  ASSUME NEW c, BufOK(c)
  PROVE  /\ Kept(c, AwakenAll(c))
         /\ AwakenAll(c).alive = c.alive \cup Names(c.noexpand)
<1>1. PICK n \in Nat : n = Len(c.noexpand)
  BY ListIs DEF BufOK
<1>2. n \in 0 .. Len(c.noexpand)
  BY <1>1
<1>3. SubSeq(c.noexpand, 1, n) = c.noexpand
  <2>1. PICK S : c.noexpand \in Seq(S)
    BY ListIs DEF BufOK
  <2> QED BY <1>1, <2>1, SubSeqFull
<1>4. AwakenAll(c) = Awaken(c, n)
  BY <1>1 DEF AwakenAll
<1> QED BY <1>2, <1>3, <1>4, AwakenKept

LEMMA AwakenDueKept ==
  ASSUME NEW c, BufOK(c)
  PROVE  /\ Kept(c, AwakenDue(c))
         /\ (\A i \in DOMAIN c.noexpand : c.noexpand[i].left <= 0) =>
              AwakenDue(c).alive = c.alive \cup Names(c.noexpand)
<1> DEFINE due(k) == \A i \in 1 .. k : c.noexpand[i].left <= 0
<1>1. PICK n \in Nat : n = Len(c.noexpand) /\ DOMAIN c.noexpand = 1 .. n
  BY ListIs DEF BufOK
<1>2. \E k \in 0 .. n : due(k) /\ (k = n \/ ~due(k + 1))
  BY <1>1, DueExists DEF BufOK
<1>3. PICK k : k = CHOOSE j \in 0 .. n : due(j) /\ (j = n \/ ~due(j + 1))
  OBVIOUS
<1>4. k \in 0 .. n /\ (k = n \/ ~due(k + 1))
  BY <1>2, <1>3
<1>5. AwakenDue(c) = Awaken(c, k)
  BY <1>1, <1>3 DEF AwakenDue
<1>6. Kept(c, AwakenDue(c))
  BY <1>1, <1>4, <1>5, AwakenKept
<1>7. ASSUME \A i \in DOMAIN c.noexpand : c.noexpand[i].left <= 0
      PROVE  AwakenDue(c).alive = c.alive \cup Names(c.noexpand)
  <2>1. k = n
    <3>1. CASE k # n
      <4>1. \A i \in 1 .. k + 1 : i \in 1 .. n
        BY <1>4, <3>1
      <4>2. due(k + 1)
        BY <1>1, <1>7, <4>1
      <4> QED BY <1>4, <3>1, <4>2
    <3> QED BY <3>1
  <2>2. AwakenDue(c) = AwakenAll(c)
    BY <1>1, <1>5, <2>1 DEF AwakenAll
  <2> QED BY <2>2, AwakenAllKept
<1> QED BY <1>6, <1>7

LEMMA SleepNameKept ==
  ASSUME NEW c, BufOK(c), NEW name, NEW n
  PROVE  Kept(c, SleepName(c, name, n))
<1>1. PICK v : v = <<[name |-> name, left |-> 0]>> \o c.noexpand
  OBVIOUS
<1>2. IsList(v)
  BY <1>1, ConsList DEF BufOK
<1>3. PICK t : t = [c EXCEPT !.noexpand = v]
  OBVIOUS
<1>4. Kept(c, t) /\ BufOK(t) /\ t.alive = c.alive
  BY <1>2, <1>3, PutListKept DEF Kept
<1>5. PICK u : u = [t EXCEPT !.alive = c.alive \ {name}]
  OBVIOUS
<1>6. Kept(t, u) /\ BufOK(u)
  BY <1>4, <1>5, PutKept DEF Kept
<1>7. SleepName(c, name, n) = AddSleep(u, n)
  BY <1>1, <1>3, <1>5 DEF SleepName
<1>8. Kept(c, u)
  BY <1>4, <1>6, KeptTwice
<1>9. Kept(u, AddSleep(u, n))
  BY <1>6, AddSleepKept
<1> QED BY <1>7, <1>8, <1>9, KeptTwice

LEMMA WriteKept ==
  ASSUME NEW c, BufOK(c), NEW s
  PROVE  /\ Kept(c, WrBuf(c, s)) /\ Kept(c, SavBuf(c, s)) /\ Kept(c, Leave(c, s))
         /\ WrBuf(c, s).noexpand = c.noexpand /\ SavBuf(c, s).noexpand = c.noexpand
<1>1. PICK t : t = [c EXCEPT !.a = c.a \o s]
  OBVIOUS
<1>2. PICK u : u = [c EXCEPT !.e = c.e \o s]
  OBVIOUS
<1>3. Kept(c, t) /\ Kept(c, u)
  BY <1>1, <1>2, PutKept
<1>4. t = WrBuf(c, s) /\ u = SavBuf(c, s)
  BY <1>1, <1>2 DEF WrBuf, SavBuf
<1>5. "noexpand" \in DOMAIN c
  BY DEF BufOK
<1>6. t.noexpand = c.noexpand /\ u.noexpand = c.noexpand
  BY <1>1, <1>2, <1>5
<1> QED BY <1>3, <1>4, <1>6 DEF Leave

LEMMA RdchKept ==
  ASSUME NEW c, BufOK(c)
  PROVE  /\ Kept(c, Rdch(c))
         /\ AllRead(c) => Rdch(c).alive = c.alive \cup Names(c.noexpand)
<1>1. CASE c.scanidx # 0
  <2>1. PICK w : w = AddSleep(AwakenDue(c), -1)
    OBVIOUS
  <2>2. PICK d : d = AwakenDue(c)
    OBVIOUS
  <2>3. Kept(c, d) /\ BufOK(d)
    BY <2>2, AwakenDueKept DEF Kept
  <2>4. Kept(d, w) /\ w.alive = d.alive
    BY <2>1, <2>2, <2>3, AddSleepKept
  <2>5. BufOK(w)
    BY <2>4 DEF Kept
  <2>6. PICK t : t = [w EXCEPT !.ch = w.a[w.scanidx]]
    OBVIOUS
  <2>7. Kept(w, t) /\ BufOK(t) /\ t.alive = w.alive
    <3>1. Kept(w, t)
      BY <2>5, <2>6, PutKept
    <3>2. "alive" \in DOMAIN w
      BY <2>5 DEF BufOK
    <3> QED BY <2>6, <3>1, <3>2 DEF Kept
  <2>8. PICK u : u = [t EXCEPT !.scanidx = @ + 1]
    OBVIOUS
  <2>9. /\ DOMAIN u = DOMAIN t /\ u.noexpand = t.noexpand /\ u.alive = t.alive
    <3>1. "alive" \in DOMAIN t /\ "noexpand" \in DOMAIN t
      BY <2>7 DEF BufOK
    <3> QED BY <2>8, <3>1
  <2>10. Kept(c, u)
    BY <1>1, <2>7, <2>9 DEF Kept, BufOK
  <2>11. Rdch(c) = u
    BY <1>1, <2>1, <2>6, <2>8 DEF Rdch
  <2>12. (\A i \in DOMAIN c.noexpand : c.noexpand[i].left <= 0) =>
           u.alive = c.alive \cup Names(c.noexpand)
    BY <2>2, <2>4, <2>7, <2>9, AwakenDueKept
  <2> QED BY <1>1, <2>10, <2>11, <2>12 DEF AllRead
<1>2. CASE c.scanidx = 0 /\ c.e # <<>>
  <2>1. PICK w : w = AddSleep(AwakenDue(c), -1)
    OBVIOUS
  <2>2. PICK d : d = AwakenDue(c)
    OBVIOUS
  <2>3. Kept(c, d) /\ BufOK(d)
    BY <2>2, AwakenDueKept DEF Kept
  <2>4. Kept(d, w) /\ w.alive = d.alive
    BY <2>1, <2>2, <2>3, AddSleepKept
  <2>5. BufOK(w) /\ Kept(c, w)
    BY <2>3, <2>4, KeptTwice DEF Kept
  <2>6. PICK t : t = [w EXCEPT !.ch = Head(w.e)]
    OBVIOUS
  <2>7. Kept(w, t) /\ BufOK(t) /\ t.alive = w.alive
    <3>1. Kept(w, t)
      BY <2>5, <2>6, PutKept
    <3>2. "alive" \in DOMAIN w
      BY <2>5 DEF BufOK
    <3> QED BY <2>6, <3>1, <3>2 DEF Kept
  <2>8. PICK u : u = [t EXCEPT !.e = Tail(t.e)]
    OBVIOUS
  <2>9. Kept(t, u) /\ u.alive = t.alive
    <3>1. Kept(t, u)
      BY <2>7, <2>8, PutKept
    <3>2. "alive" \in DOMAIN t
      BY <2>7 DEF BufOK
    <3> QED BY <2>8, <3>1, <3>2
  <2>10. Kept(c, u)
    <3>1. Kept(c, t)
      BY <2>5, <2>7, KeptTwice
    <3> QED BY <2>9, <3>1, KeptTwice
  <2>11. Rdch(c) = u
    <3>1. t.e = w.e
      <4>1. "e" \in DOMAIN w
        BY <2>5 DEF BufOK
      <4> QED BY <2>6, <4>1
    <3> QED BY <1>2, <2>1, <2>6, <2>8, <3>1 DEF Rdch
  <2>12. (\A i \in DOMAIN c.noexpand : c.noexpand[i].left <= 0) =>
           u.alive = c.alive \cup Names(c.noexpand)
    BY <2>2, <2>4, <2>7, <2>9, AwakenDueKept
  <2> QED BY <1>2, <2>10, <2>11, <2>12 DEF AllRead
<1>3. CASE c.scanidx = 0 /\ c.e = <<>>
  <2>1. PICK w : w = AwakenAll(c)
    OBVIOUS
  <2>2. Kept(c, w) /\ BufOK(w) /\ w.alive = c.alive \cup Names(c.noexpand)
    BY <2>1, AwakenAllKept DEF Kept
  <2>3. CASE w.in = <<>>
    <3>1. PICK t : t = [w EXCEPT !.ch = PP_EOF]
      OBVIOUS
    <3>2. Kept(w, t) /\ t.alive = w.alive
      <4>1. "alive" \in DOMAIN w
        BY <2>2 DEF BufOK
      <4> QED BY <2>2, <3>1, <4>1, PutKept
    <3>3. Rdch(c) = t
      BY <1>3, <2>1, <2>3, <3>1 DEF Rdch
    <3> QED BY <2>2, <3>2, <3>3, KeptTwice
  <2>4. CASE w.in # <<>>
    <3>1. PICK t : t = [w EXCEPT !.ch = Head(w.in)]
      OBVIOUS
    <3>2. Kept(w, t) /\ t.alive = w.alive /\ BufOK(t)
      <4>1. "alive" \in DOMAIN w
        BY <2>2 DEF BufOK
      <4> QED BY <2>2, <3>1, <4>1, PutKept DEF Kept
    <3>3. PICK u : u = [t EXCEPT !.in = Tail(w.in)]
      OBVIOUS
    <3>4. Kept(t, u) /\ u.alive = t.alive
      <4>1. "alive" \in DOMAIN t
        BY <3>2 DEF BufOK
      <4> QED BY <3>2, <3>3, <4>1, PutKept
    <3>5. Rdch(c) = u
      BY <1>3, <2>1, <2>4, <3>1, <3>3 DEF Rdch
    <3>6. Kept(c, t)
      BY <2>2, <3>2, KeptTwice
    <3> QED BY <2>2, <3>2, <3>4, <3>5, <3>6, KeptTwice
  <2> QED BY <2>3, <2>4
<1> QED BY <1>1, <1>2, <1>3

LEMMA UnrdchKept ==
  ASSUME NEW c, BufOK(c), NEW ch
  PROVE  Kept(c, Unrdch(c, ch))
<1>1. CASE ch = PP_EOF
  BY <1>1, KeptSame DEF Unrdch
<1>2. CASE ch # PP_EOF
  <2>1. PICK w : w = AddSleep(c, 1)
    OBVIOUS
  <2>2. Kept(c, w) /\ BufOK(w)
    BY <2>1, AddSleepKept DEF Kept
  <2>3. CASE c.scanidx # 0
    <3>1. PICK v : v = [w.a EXCEPT ![c.scanidx - 1] = ch]
      OBVIOUS
    <3>2. PICK t : t = [w EXCEPT !.a = v]
      OBVIOUS
    <3>3. Kept(w, t) /\ BufOK(t)
      BY <2>2, <3>2, PutKept DEF Kept
    <3>4. PICK u : u = [t EXCEPT !.scanidx = @ - 1]
      OBVIOUS
    <3>5. DOMAIN u = DOMAIN t /\ u.noexpand = t.noexpand
      <4>1. "noexpand" \in DOMAIN t
        BY <3>3 DEF BufOK
      <4> QED BY <3>4, <4>1
    <3>6. Kept(c, u)
      BY <2>3, <3>3, <3>5 DEF Kept, BufOK
    <3>7. Unrdch(c, ch) = u
      BY <1>2, <2>1, <2>3, <3>1, <3>2, <3>4 DEF Unrdch
    <3> QED BY <3>6, <3>7
  <2>4. CASE c.scanidx = 0
    <3>1. PICK v : v = <<ch>> \o w.e
      OBVIOUS
    <3>2. PICK t : t = [w EXCEPT !.e = v]
      OBVIOUS
    <3>3. Kept(w, t)
      BY <2>2, <3>2, PutKept
    <3>4. Unrdch(c, ch) = t
      BY <1>2, <2>1, <2>4, <3>1, <3>2 DEF Unrdch
    <3> QED BY <2>2, <3>3, <3>4, KeptTwice
  <2> QED BY <2>3, <2>4
<1> QED BY <1>1, <1>2

----------------------------------------------------------------------------
(* The functions under way.  cs is calls and sc is b.scanidx: abuf is read *)
(* from only within pp_argexpand, and the first of those under way began   *)
(* when it was not.                                                        *)

Frame(f) ==
  /\ "fn" \in DOMAIN f
  /\ f.fn = "argexpand" =>
       {"scanidx", "oldsleepers"} \subseteq DOMAIN f /\ IsList(f.oldsleepers)

\* The i-th of cs is the first pp_argexpand that was called.
FirstArg(cs, i) ==
  /\ cs[i].fn = "argexpand"
  /\ \A j \in 1 .. Len(cs) : i < j => cs[j].fn # "argexpand"

NoArg(cs) == \A i \in 1 .. Len(cs) : cs[i].fn # "argexpand"

StackOK(cs) ==
  /\ IsList(cs) /\ \A i \in 1 .. Len(cs) : Frame(cs[i])
  /\ \A i \in 1 .. Len(cs) : FirstArg(cs, i) => cs[i].scanidx = 0

CallsOK(cs, sc) == StackOK(cs) /\ (NoArg(cs) => sc = 0)

\* The call on top is as before, but for what is not asked of it here.
SameFrame(f, g) ==
  /\ Frame(g) /\ (g.fn = "argexpand" <=> f.fn = "argexpand")
  /\ f.fn = "argexpand" => g.scanidx = f.scanidx

LEMMA TopIs ==
  ASSUME NEW cs, IsList(cs), cs # <<>>
  PROVE  /\ Len(cs) \in Nat \ {0} /\ 1 \in 1 .. Len(cs)
         /\ IsList(Tail(cs)) /\ Len(Tail(cs)) = Len(cs) - 1
         /\ \A i \in 1 .. Len(cs) - 1 : Tail(cs)[i] = cs[i + 1]
<1>1. PICK S : cs \in Seq(S)
  BY ListIs
<1>2. Len(cs) \in Nat \ {0}
  BY <1>1, EmptySeq
<1>3. PICK t : t = Tail(cs)
  OBVIOUS
<1>4. t \in Seq(S) /\ Len(t) = Len(cs) - 1 /\ \A i \in 1 .. Len(t) : t[i] = cs[i + 1]
  BY <1>1, <1>3, HeadTailProperties
<1>5. PICK n \in Nat : n = Len(cs) /\ n # 0
  BY <1>2
<1>6. Len(t) = n - 1 /\ n \in Nat \ {0} /\ 1 \in 1 .. n
  BY <1>4, <1>5
<1>7. IsList(t) /\ \A i \in 1 .. n - 1 : t[i] = cs[i + 1]
  BY <1>4, <1>6, SeqIsList
<1> QED BY <1>3, <1>5, <1>6, <1>7

Pushed(f, cs) == <<f>> \o cs

LEMMA ConsIs ==
  ASSUME NEW cs, IsList(cs), NEW f, NEW t, t = Pushed(f, cs)
  PROVE  /\ IsList(t) /\ Len(t) = Len(cs) + 1 /\ Len(cs) \in Nat /\ t[1] = f
         /\ \A i \in 1 .. Len(cs) : t[i + 1] = cs[i]
<1>1. PICK S : S = {cs[i] : i \in DOMAIN cs} \cup {f}
  OBVIOUS
<1>2. cs \in Seq({cs[i] : i \in DOMAIN cs}) /\ Len(cs) \in Nat
  BY ListIs
<1>3. {cs[i] : i \in DOMAIN cs} \subseteq S /\ f \in S
  BY <1>1
<1>4. cs \in Seq(S) /\ <<f>> \in Seq(S) /\ Len(<<f>>) = 1 /\ <<f>>[1] = f
  BY <1>2, <1>3, SeqMonotonic
<1>5. /\ t \in Seq(S) /\ Len(t) = 1 + Len(cs)
      /\ \A i \in 1 .. 1 + Len(cs) : t[i] = IF i <= 1 THEN <<f>>[i] ELSE cs[i - 1]
  BY <1>4, ConcatProperties DEF Pushed
<1>6. PICK n \in Nat : n = Len(cs)
  BY <1>2
<1>7. \A i \in 1 .. n : i + 1 \in 1 .. 1 + n /\ ~(i + 1 <= 1) /\ (i + 1) - 1 = i
  OBVIOUS
<1>8. \A i \in 1 .. n : t[i + 1] = cs[i]
  BY <1>5, <1>6, <1>7
<1>9. t[1] = f
  <2>1. 1 \in 1 .. 1 + n /\ 1 <= 1
    OBVIOUS
  <2> QED BY <1>4, <1>5, <1>6, <2>1
<1>10. Len(t) = n + 1
  BY <1>5, <1>6
<1>11. IsList(t)
  BY <1>5, SeqIsList
<1> QED BY <1>6, <1>8, <1>9, <1>10, <1>11

LEMMA TailStack ==
  ASSUME NEW cs, StackOK(cs), cs # <<>>, NEW u, u = Tail(cs)
  PROVE  /\ StackOK(u) /\ Frame(cs[1])
         /\ NoArg(cs) <=> (cs[1].fn # "argexpand" /\ NoArg(u))
         /\ cs[1].fn = "argexpand" /\ NoArg(u) => cs[1].scanidx = 0
<1>1. PICK n \in Nat : n = Len(cs)
  BY ListIs DEF StackOK
<1>2. /\ n # 0 /\ 1 \in 1 .. n /\ IsList(u) /\ Len(u) = n - 1 /\ n - 1 \in Nat
      /\ \A i \in 1 .. n - 1 : u[i] = cs[i + 1]
  BY <1>1, TopIs DEF StackOK
<1>3. /\ \A i \in 1 .. n - 1 : i + 1 \in 1 .. n
      /\ \A j \in 1 .. n : j = 1 \/ (j - 1 \in 1 .. n - 1 /\ (j - 1) + 1 = j)
  BY <1>2
<1>4. /\ \A i \in 1 .. n : Frame(cs[i])
      /\ \A i \in 1 .. n : FirstArg(cs, i) => cs[i].scanidx = 0
  BY <1>1 DEF StackOK
<1>5. NoArg(cs) <=> (cs[1].fn # "argexpand" /\ NoArg(u))
  BY <1>1, <1>2, <1>3 DEF NoArg
<1>6. ASSUME cs[1].fn = "argexpand", NoArg(u) PROVE cs[1].scanidx = 0
  <2>1. \A j \in 1 .. n : 1 < j => cs[j].fn # "argexpand"
    <3>1. \A j \in 1 .. n : 1 < j => j # 1
      OBVIOUS
    <3> QED BY <1>2, <1>3, <1>6, <3>1 DEF NoArg
  <2> QED BY <1>1, <1>2, <1>4, <1>6, <2>1 DEF FirstArg
<1>7. ASSUME NEW i \in 1 .. n - 1, FirstArg(u, i) PROVE u[i].scanidx = 0
  <2>1. ASSUME NEW j \in 1 .. n, i + 1 < j PROVE cs[j].fn # "argexpand"
    <3>1. j - 1 \in 1 .. n - 1 /\ (j - 1) + 1 = j /\ i < j - 1
      BY <1>1, <2>1
    <3>2. u[j - 1].fn # "argexpand" /\ u[j - 1] = cs[(j - 1) + 1]
      BY <1>2, <1>7, <3>1 DEF FirstArg
    <3> QED BY <3>1, <3>2
  <2>2. FirstArg(cs, i + 1)
    BY <1>1, <1>2, <1>7, <2>1 DEF FirstArg
  <2> QED BY <1>2, <1>3, <1>4, <2>2
<1>8. \A i \in 1 .. n - 1 : Frame(u[i])
  BY <1>2, <1>3, <1>4
<1>9. StackOK(u)
  BY <1>2, <1>7, <1>8 DEF StackOK
<1> QED BY <1>2, <1>4, <1>5, <1>6, <1>9

LEMMA ConsStack ==
  ASSUME NEW u, StackOK(u), NEW f, Frame(f), NEW t, t = Pushed(f, u),
         f.fn = "argexpand" /\ NoArg(u) => f.scanidx = 0
  PROVE  StackOK(t) /\ (NoArg(t) <=> (f.fn # "argexpand" /\ NoArg(u)))
<1>1. PICK n \in Nat : n = Len(u)
  BY ListIs DEF StackOK
<1>2. /\ IsList(t) /\ Len(t) = n + 1 /\ t[1] = f
      /\ \A i \in 1 .. n : t[i + 1] = u[i]
  <2>1. IsList(u)
    BY DEF StackOK
  <2>2. /\ IsList(t) /\ Len(t) = Len(u) + 1 /\ t[1] = f
        /\ \A i \in 1 .. Len(u) : t[i + 1] = u[i]
    BY <2>1, ConsIs
  <2> QED BY <1>1, <2>2
<1>3. /\ \A i \in 1 .. n : i + 1 \in 1 .. n + 1 /\ 1 < i + 1 /\ 1 # i + 1
      /\ \A j \in 1 .. n + 1 : j = 1 \/ (j - 1 \in 1 .. n /\ (j - 1) + 1 = j)
      /\ 1 \in 1 .. n + 1
  OBVIOUS
<1>4. /\ \A i \in 1 .. n : Frame(u[i])
      /\ \A i \in 1 .. n : FirstArg(u, i) => u[i].scanidx = 0
  BY <1>1 DEF StackOK
<1>5. ASSUME NEW j \in 1 .. n + 1
      PROVE  (j = 1 /\ t[j] = f) \/ (j - 1 \in 1 .. n /\ t[j] = u[j - 1] /\ j # 1)
  <2>1. CASE j = 1
    BY <1>2, <2>1
  <2>2. CASE j # 1
    <3>1. j - 1 \in 1 .. n /\ (j - 1) + 1 = j
      BY <1>3, <2>2
    <3>2. t[(j - 1) + 1] = u[j - 1]
      BY <1>2, <3>1
    <3> QED BY <2>2, <3>1, <3>2
  <2> QED BY <2>1, <2>2
<1>6. NoArg(t) <=> (f.fn # "argexpand" /\ NoArg(u))
  <2>1. ASSUME NoArg(t) PROVE f.fn # "argexpand" /\ NoArg(u)
    BY <1>1, <1>2, <1>3, <2>1 DEF NoArg
  <2>2. ASSUME f.fn # "argexpand", NoArg(u) PROVE NoArg(t)
    BY <1>1, <1>2, <1>5, <2>2 DEF NoArg
  <2> QED BY <2>1, <2>2
<1>7. \A i \in 1 .. n + 1 : Frame(t[i])
  BY <1>4, <1>5
<1>8. ASSUME NEW j \in 1 .. n + 1, FirstArg(t, j) PROVE t[j].scanidx = 0
  <2>1. CASE j = 1
    <3>1. ASSUME NEW i \in 1 .. n PROVE u[i].fn # "argexpand"
      <4>1. t[i + 1].fn # "argexpand"
        BY <1>2, <1>3, <1>8, <2>1 DEF FirstArg
      <4> QED BY <1>2, <4>1
    <3>2. NoArg(u)
      BY <1>1, <3>1 DEF NoArg
    <3>3. f.fn = "argexpand"
      BY <1>2, <1>8, <2>1 DEF FirstArg
    <3> QED BY <1>2, <2>1, <3>2, <3>3
  <2>2. CASE j # 1
    <3>1. j - 1 \in 1 .. n /\ t[j] = u[j - 1]
      BY <1>5, <2>2
    <3>2. ASSUME NEW i \in 1 .. n, j - 1 < i PROVE u[i].fn # "argexpand"
      <4>1. j < i + 1
        BY <3>2
      <4>2. t[i + 1].fn # "argexpand"
        BY <1>2, <1>3, <1>8, <4>1 DEF FirstArg
      <4> QED BY <1>2, <4>2
    <3>3. FirstArg(u, j - 1)
      BY <1>1, <1>8, <3>1, <3>2 DEF FirstArg
    <3> QED BY <1>4, <3>1, <3>3
  <2> QED BY <2>1, <2>2
<1>9. StackOK(t)
  BY <1>2, <1>7, <1>8 DEF StackOK
<1> QED BY <1>6, <1>9

LEMMA TopChangedStack ==
  ASSUME NEW u, StackOK(u), u # <<>>, NEW g, SameFrame(u[1], g), NEW t,
         t = [u EXCEPT ![1] = g]
  PROVE  StackOK(t) /\ (NoArg(t) <=> NoArg(u))
<1>1. PICK n \in Nat : n = Len(u) /\ DOMAIN u = 1 .. n
  BY ListIs DEF StackOK
<1>2. 1 \in 1 .. n
  BY <1>1, TopIs DEF StackOK
<1>3. t = [i \in DOMAIN u |-> t[i]]
  OBVIOUS
<1>4. IsList(t)
  BY <1>3, SameDomain DEF StackOK
<1>5. DOMAIN t = 1 .. n /\ t[1] = g /\ \A i \in 1 .. n : i # 1 => t[i] = u[i]
  BY <1>1, <1>2
<1>6. Len(t) = n
  <2>1. PICK m \in Nat : m = Len(t) /\ DOMAIN t = 1 .. m
    BY <1>4, ListIs
  <2> QED BY <1>1, <1>5, <2>1
<1>7. \A i \in 1 .. n : t[i].fn = "argexpand" <=> u[i].fn = "argexpand"
  BY <1>5 DEF SameFrame
<1>8. NoArg(t) <=> NoArg(u)
  BY <1>1, <1>6, <1>7 DEF NoArg
<1>9. \A i \in 1 .. n : Frame(t[i])
  BY <1>1, <1>5 DEF SameFrame, StackOK
<1>10. \A i \in 1 .. n : FirstArg(t, i) => FirstArg(u, i)
  BY <1>1, <1>6, <1>7 DEF FirstArg
<1>11. \A i \in 1 .. n : u[i].fn = "argexpand" => t[i].scanidx = u[i].scanidx
  BY <1>5 DEF SameFrame
<1>12. \A i \in 1 .. n : FirstArg(t, i) => t[i].scanidx = 0
  BY <1>1, <1>10, <1>11 DEF StackOK, FirstArg
<1> QED BY <1>4, <1>6, <1>8, <1>9, <1>12 DEF StackOK

LEMMA PutFrame ==
  ASSUME NEW f, Frame(f), NEW x, x \notin {"fn", "scanidx", "oldsleepers"}, NEW v, NEW g,
         g = [f EXCEPT ![x] = v]
  PROVE  SameFrame(f, g)
<1>1. DOMAIN g = DOMAIN f /\ \A y \in DOMAIN f : y # x => g[y] = f[y]
  OBVIOUS
<1>2. "fn" \in DOMAIN f /\ g.fn = f.fn
  BY <1>1 DEF Frame
<1>3. ASSUME f.fn = "argexpand"
      PROVE  /\ {"scanidx", "oldsleepers"} \subseteq DOMAIN g
             /\ g.scanidx = f.scanidx /\ g.oldsleepers = f.oldsleepers /\ IsList(g.oldsleepers)
  <2>1. "scanidx" \in DOMAIN f /\ "oldsleepers" \in DOMAIN f /\ IsList(f.oldsleepers)
    BY <1>3 DEF Frame
  <2> QED BY <1>1, <2>1
<1>4. Frame(g)
  BY <1>1, <1>2, <1>3 DEF Frame
<1> QED BY <1>2, <1>3, <1>4 DEF SameFrame

LEMMA SameFrameTwice ==
  ASSUME NEW f, NEW g, NEW h, SameFrame(f, g), SameFrame(g, h)
  PROVE  SameFrame(f, h)
BY DEF SameFrame

LEMMA FrameItself ==
  ASSUME NEW f, Frame(f)
  PROVE  SameFrame(f, f)
BY DEF SameFrame

\* Any function but pp_argexpand.
LEMMA OtherFrame ==
  ASSUME NEW f, Frame(f), f.fn # "argexpand", NEW g, "fn" \in DOMAIN g, g.fn # "argexpand"
  PROVE  SameFrame(f, g)
BY DEF SameFrame, Frame

ReadOK == BufOK(b) /\ CallsOK(calls, b.scanidx)

LEMMA TopFrame ==
  ASSUME ReadOK, calls # <<>>
  PROVE  /\ StackOK(Under) /\ Frame(Top) /\ BufOK(b)
         /\ NoArg(calls) <=> (Top.fn # "argexpand" /\ NoArg(Under))
         /\ Top.fn = "argexpand" /\ NoArg(Under) => Top.scanidx = 0
         /\ Top.fn # "argexpand" /\ NoArg(Under) => b.scanidx = 0
<1>1. PICK u : u = Tail(calls)
  OBVIOUS
<1>2. StackOK(calls) /\ (NoArg(calls) => b.scanidx = 0) /\ BufOK(b)
  BY DEF ReadOK, CallsOK
<1>3. /\ StackOK(u) /\ Frame(calls[1])
      /\ NoArg(calls) <=> (calls[1].fn # "argexpand" /\ NoArg(u))
      /\ calls[1].fn = "argexpand" /\ NoArg(u) => calls[1].scanidx = 0
  BY <1>1, <1>2, TailStack
<1> QED BY <1>1, <1>2, <1>3 DEF Under, Top

LEMMA GoOK ==
  ASSUME ReadOK, calls # <<>>, NEW f, SameFrame(Top, f), Go(f), Kept(b, b')
  PROVE  ReadOK'
<1>1. PICK u : u = Under
  OBVIOUS
<1>2. PICK t : t = Pushed(f, u)
  OBVIOUS
<1>3. /\ StackOK(u)
      /\ f.fn # "argexpand" /\ NoArg(u) => b.scanidx = 0
      /\ f.fn = "argexpand" /\ NoArg(u) => f.scanidx = 0
      /\ Frame(f)
  BY <1>1, TopFrame DEF SameFrame
<1>4. StackOK(t) /\ (NoArg(t) <=> (f.fn # "argexpand" /\ NoArg(u)))
  BY <1>2, <1>3, ConsStack
<1>5. calls' = t
  BY <1>1, <1>2 DEF Go, Pushed
<1>6. NoArg(t) => b'.scanidx = 0
  BY <1>3, <1>4 DEF Kept
<1>7. CallsOK(t, b'.scanidx)
  BY <1>4, <1>6 DEF CallsOK
<1>8. BufOK(b')
  BY DEF Kept
<1> QED BY <1>5, <1>7, <1>8 DEF ReadOK

LEMMA ReturnedOK ==
  ASSUME ReadOK, calls # <<>>, Top.fn # "argexpand", NEW c, Kept(b, c), NEW changes,
         Returned(c, changes)
  PROVE  ReadOK'
<1>1. /\ StackOK(Under)
      /\ NoArg(Under) => b.scanidx = 0
  BY TopFrame
<1>2. BufOK(c) /\ (b.scanidx = 0 => c.scanidx = 0)
  BY DEF Kept
<1>3. CASE Under = <<>>
  <2>1. b' = [c EXCEPT !.a = <<>>] /\ calls' = <<>>
    BY <1>3 DEF Returned
  <2>2. PICK t : t = [c EXCEPT !.a = <<>>]
    OBVIOUS
  <2>3. Kept(c, t)
    BY <1>2, <2>2, PutKept
  <2>4. StackOK(<<>>) /\ NoArg(Under)
    <3>1. Len(<<>>) = 0 /\ \A i \in 1 .. Len(<<>>) : FALSE
      OBVIOUS
    <3> QED BY <1>3, <3>1, EmptyIsList DEF StackOK, NoArg
  <2>5. CallsOK(<<>>, t.scanidx) /\ BufOK(t)
    BY <1>1, <1>2, <2>3, <2>4 DEF CallsOK, Kept
  <2> QED BY <2>1, <2>2, <2>5 DEF ReadOK
<1>4. CASE Under # <<>>
  <2>1. PICK u : u = Under
    OBVIOUS
  <2>2. PICK f : f = u[1]
    OBVIOUS
  <2>3. PICK g1 : g1 = [f EXCEPT !.ap = c.scanidx]
    OBVIOUS
  <2>4. PICK g2 : g2 = [g1 EXCEPT !.sleepbase = c.scanidx]
    OBVIOUS
  <2>5. PICK g3 : g3 = [g2 EXCEPT !.changes = changes]
    OBVIOUS
  <2>6. u # <<>> /\ StackOK(u) /\ Frame(f)
    BY <1>1, <1>4, <2>1, <2>2, TailStack
  <2>7. SameFrame(f, g1)
    BY <2>3, <2>6, PutFrame
  <2>8. SameFrame(g1, g2)
    <3>1. Frame(g1)
      BY <2>7 DEF SameFrame
    <3> QED BY <2>4, <3>1, PutFrame
  <2>9. SameFrame(g2, g3)
    <3>1. Frame(g2)
      BY <2>8 DEF SameFrame
    <3> QED BY <2>5, <3>1, PutFrame
  <2>10. SameFrame(f, g3)
    BY <2>7, <2>8, <2>9, SameFrameTwice
  <2>11. PICK t : t = [u EXCEPT ![1] = g3]
    OBVIOUS
  <2>12. StackOK(t) /\ (NoArg(t) <=> NoArg(u))
    BY <2>2, <2>6, <2>10, <2>11, TopChangedStack
  <2>13. calls' = t
    <3>1. calls' = [u EXCEPT ![1].ap = c.scanidx, ![1].sleepbase = c.scanidx, ![1].changes = changes]
      BY <1>4, <2>1 DEF Returned
    <3> QED BY <2>2, <2>3, <2>4, <2>5, <2>11, <3>1
  <2>14. b' = c
    BY <1>4 DEF Returned
  <2>15. CallsOK(t, c.scanidx)
    BY <1>1, <1>2, <2>1, <2>12 DEF CallsOK
  <2> QED BY <1>2, <2>13, <2>14, <2>15 DEF ReadOK
<1> QED BY <1>3, <1>4

LEMMA CallExpandOK ==
  ASSUME ReadOK, calls # <<>>, Top.fn # "argexpand", NEW c, Kept(b, c), NEW name,
         CallExpand(c, name)
  PROVE  ReadOK'
<1>1. PICK f : f = [fn |-> "expand", name |-> name, dp |-> 1, hash |-> {},
                    abufptr |-> Len(c.a), after |-> Len(c.e)]
  OBVIOUS
<1>2. SameFrame(Top, f)
  <2>1. "fn" \in DOMAIN f /\ f.fn # "argexpand"
    BY <1>1
  <2> QED BY <2>1, TopFrame, OtherFrame
<1>3. Go(f)
  BY <1>1 DEF CallExpand
<1>4. Kept(c, b')
  <2>1. BufOK(c)
    BY DEF Kept
  <2>2. CASE c.scanidx = 0
    <3>1. PICK t : t = [c EXCEPT !.a = c.a \o c.e]
      OBVIOUS
    <3>2. PICK u : u = [t EXCEPT !.e = <<TOKSEP>>]
      OBVIOUS
    <3>3. Kept(c, t) /\ BufOK(t)
      BY <2>1, <3>1, PutKept DEF Kept
    <3>4. Kept(t, u)
      BY <3>2, <3>3, PutKept
    <3>5. b' = u
      BY <2>2, <3>1, <3>2 DEF CallExpand
    <3> QED BY <3>3, <3>4, <3>5, KeptTwice
  <2>3. CASE c.scanidx # 0
    <3>1. b' = SavBuf(c, <<TOKSEP>>)
      BY <2>3 DEF CallExpand
    <3> QED BY <2>1, <3>1, WriteKept
  <2> QED BY <2>2, <2>3
<1>5. Kept(b, b')
  BY <1>4, KeptTwice
<1> QED BY <1>2, <1>3, <1>5, GoOK

----------------------------------------------------------------------------
(* The actions of MacroExpand.                                             *)

LEMMA StayOK ==
  ASSUME ReadOK, calls' = calls, Kept(b, b')
  PROVE  ReadOK'
BY DEF ReadOK, CallsOK, Kept

LEMMA InIs ==
  ASSUME NEW fn, In(fn)
  PROVE  calls # <<>> /\ Top.fn = fn
BY DEF In

LEMMA CopyStringOK == ReadOK /\ CopyString => ReadOK'
<1> SUFFICES ASSUME ReadOK, CopyString PROVE ReadOK'
  OBVIOUS
<1>1. calls # <<>> /\ Top.fn = "copystring" /\ BufOK(b)
  BY InIs DEF CopyString, ReadOK
<1>2. PICK c : c = Rdch(b)
  OBVIOUS
<1>3. PICK w : w = WrBuf(c, <<c.ch>>)
  OBVIOUS
<1>4. Kept(b, c) /\ BufOK(c)
  BY <1>1, <1>2, RdchKept DEF Kept
<1>5. Kept(c, w)
  BY <1>3, <1>4, WriteKept
<1>6. Kept(b, w)
  BY <1>4, <1>5, KeptTwice
<1>7. IF c.ch = Quote THEN Returned(w, FALSE) ELSE b' = w /\ calls' = calls
  BY <1>2, <1>3 DEF CopyString
<1> QED BY <1>1, <1>6, <1>7, ReturnedOK, StayOK

LEMMA ReadIdOK == ReadOK /\ ReadId => ReadOK'
<1> SUFFICES ASSUME ReadOK, ReadId PROVE ReadOK'
  OBVIOUS
<1>1. calls # <<>> /\ Top.fn = "checkid" /\ BufOK(b) /\ Frame(Top)
  BY InIs, TopFrame DEF ReadId
<1>2. PICK v : v = IF IdChar(b.ch) THEN Append(Top.id, b.ch) ELSE Top.id
  OBVIOUS
<1>3. PICK f : f = [Top EXCEPT !.id = v]
  OBVIOUS
<1>4. SameFrame(Top, f)
  BY <1>1, <1>3, PutFrame
<1>5. Go(f)
  BY <1>2, <1>3 DEF ReadId
<1>6. Kept(b, b')
  BY <1>1, RdchKept DEF ReadId
<1> QED BY <1>1, <1>4, <1>5, <1>6, GoOK

LEMMA NotAMacroOK == ReadOK /\ NotAMacro => ReadOK'
<1> SUFFICES ASSUME ReadOK, NotAMacro PROVE ReadOK'
  OBVIOUS
<1>1. calls # <<>> /\ Top.fn = "checkid" /\ BufOK(b)
  BY InIs, TopFrame DEF NotAMacro, IdRead
<1>2. PICK s : s = (IF b.scanidx = 0 THEN <<>> ELSE <<NOEXPAND>>) \o Top.id
  OBVIOUS
<1>3. PICK c : c = Leave(b, s)
  OBVIOUS
<1>4. Kept(b, c) /\ BufOK(c)
  BY <1>1, <1>3, WriteKept DEF Kept
<1>5. PICK d : d = Unrdch(c, b.ch)
  OBVIOUS
<1>6. Kept(c, d)
  BY <1>4, <1>5, UnrdchKept
<1>7. Kept(b, d)
  BY <1>4, <1>6, KeptTwice
<1>8. Returned(d, FALSE)
  BY <1>2, <1>3, <1>5 DEF NotAMacro
<1> QED BY <1>1, <1>7, <1>8, ReturnedOK

LEMMA ObjectLikeOK == ReadOK /\ ObjectLike => ReadOK'
<1> SUFFICES ASSUME ReadOK, ObjectLike PROVE ReadOK'
  OBVIOUS
<1>1. calls # <<>> /\ Top.fn = "checkid" /\ BufOK(b)
  BY InIs, TopFrame DEF ObjectLike, IdRead
<1>2. PICK c : c = Unrdch(b, b.ch)
  OBVIOUS
<1>3. Kept(b, c)
  BY <1>1, <1>2, UnrdchKept
<1>4. CallExpand(c, Top.id)
  BY <1>2 DEF ObjectLike
<1> QED BY <1>1, <1>3, <1>4, CallExpandOK

LEMMA FunctionLikeOK == ReadOK /\ FunctionLike => ReadOK'
<1> SUFFICES ASSUME ReadOK, FunctionLike PROVE ReadOK'
  OBVIOUS
<1>1. calls # <<>> /\ Top.fn = "checkid" /\ BufOK(b) /\ Frame(Top)
  BY InIs, TopFrame DEF FunctionLike, IdRead
<1>2. PICK f : f = [fn |-> "skipb", id |-> Top.id, white |-> EOM, asleep |-> Names(b.noexpand)]
  OBVIOUS
<1>3. "fn" \in DOMAIN f /\ f.fn # "argexpand"
  BY <1>2
<1>4. SameFrame(Top, f)
  BY <1>1, <1>3, OtherFrame
<1>5. Go(f)
  BY <1>2 DEF FunctionLike
<1>6. Kept(b, b')
  BY <1>1, KeptSame DEF FunctionLike
<1> QED BY <1>1, <1>4, <1>5, <1>6, GoOK

LEMMA SkipBOK == ReadOK /\ SkipB => ReadOK'
<1> SUFFICES ASSUME ReadOK, SkipB PROVE ReadOK'
  OBVIOUS
<1>1. calls # <<>> /\ Top.fn = "skipb" /\ BufOK(b) /\ Frame(Top)
  BY InIs, TopFrame DEF SkipB
<1>2. PICK v : v = IF b.ch = NL \/ Top.white = EOM THEN b.ch ELSE Top.white
  OBVIOUS
<1>3. PICK f : f = [Top EXCEPT !.white = v]
  OBVIOUS
<1>4. SameFrame(Top, f)
  BY <1>1, <1>3, PutFrame
<1>5. Go(f)
  BY <1>2, <1>3 DEF SkipB
<1>6. Kept(b, b')
  BY <1>1, RdchKept DEF SkipB
<1> QED BY <1>1, <1>4, <1>5, <1>6, GoOK

LEMMA NotCalledOK == ReadOK /\ NotCalled => ReadOK'
<1> SUFFICES ASSUME ReadOK, NotCalled PROVE ReadOK'
  OBVIOUS
<1>1. calls # <<>> /\ Top.fn = "skipb" /\ BufOK(b)
  BY InIs, TopFrame DEF NotCalled
<1>2. PICK l : l = Leave(b, Top.id)
  OBVIOUS
<1>3. Kept(b, l) /\ BufOK(l)
  BY <1>1, <1>2, WriteKept DEF Kept
<1>4. PICK c : c = Unrdch(l, b.ch)
  OBVIOUS
<1>5. Kept(l, c) /\ BufOK(c)
  BY <1>3, <1>4, UnrdchKept DEF Kept
<1>6. PICK d : d = Unrdch(c, Top.white)
  OBVIOUS
<1>7. Kept(c, d)
  BY <1>5, <1>6, UnrdchKept
<1>8. Kept(b, c) /\ Kept(b, d)
  BY <1>3, <1>5, <1>7, KeptTwice
<1>9. PICK e : e = IF Top.white = EOM THEN c ELSE d
  OBVIOUS
<1>10. Returned(e, FALSE)
  BY <1>2, <1>4, <1>6, <1>9 DEF NotCalled
<1>11. Kept(b, e)
  BY <1>8, <1>9
<1> QED BY <1>1, <1>10, <1>11, ReturnedOK

LEMMA ArgAlignKept ==
  ASSUME NEW c, BufOK(c)
  PROVE  Kept(c, ArgAlign(c))
<1>1. PICK v : v = Append(c.a, "link")
  OBVIOUS
<1>2. PICK t : t = [c EXCEPT !.a = v]
  OBVIOUS
<1> QED BY <1>1, <1>2, PutKept DEF ArgAlign

LEMMA TrimArgKept ==
  ASSUME NEW c, BufOK(c), NEW arg
  PROVE  Kept(c, TrimArg(c, arg))
<1>1. PICK v : v = Front(c.a)
  OBVIOUS
<1>2. PICK t : t = [c EXCEPT !.a = v]
  OBVIOUS
<1>3. Kept(c, t) /\ Kept(c, c)
  BY <1>2, PutKept, KeptSame
<1>4. TrimArg(c, arg) \in {c, t}
  BY <1>1, <1>2 DEF TrimArg
<1> QED BY <1>3, <1>4

LEMMA SpaceArgKept ==
  ASSUME NEW c, BufOK(c), NEW ch
  PROVE  Kept(c, SpaceArg(c, ch))
<1>1. PICK v : SpaceArg(c, ch) = [c EXCEPT !.a = v]
  BY DEF SpaceArg
<1>2. PICK t : t = [c EXCEPT !.a = v]
  OBVIOUS
<1> QED BY <1>1, <1>2, PutKept

LEMMA CalledOK == ReadOK /\ Called => ReadOK'
<1> SUFFICES ASSUME ReadOK, Called PROVE ReadOK'
  OBVIOUS
<1>1. calls # <<>> /\ Top.fn = "skipb" /\ BufOK(b) /\ Frame(Top)
  BY InIs, TopFrame DEF Called
<1>2. PICK f : f = [fn |-> "rd_args", name |-> Top.id, k |-> 1, arg |-> Len(b.a) + 1,
                    parcnt |-> 0, instring |-> FALSE, asleep |-> Top.asleep]
  OBVIOUS
<1>3. "fn" \in DOMAIN f /\ f.fn # "argexpand"
  BY <1>2
<1>4. SameFrame(Top, f)
  BY <1>1, <1>3, OtherFrame
<1>5. Go(f)
  BY <1>2 DEF Called
<1>6. PICK c : c = ArgAlign(b)
  OBVIOUS
<1>7. Kept(b, c) /\ BufOK(c)
  BY <1>1, <1>6, ArgAlignKept DEF Kept
<1>8. Kept(c, Rdch(c)) /\ b' = Rdch(c)
  BY <1>6, <1>7, RdchKept DEF Called
<1>9. Kept(b, b')
  BY <1>7, <1>8, KeptTwice
<1> QED BY <1>1, <1>4, <1>5, <1>9, GoOK

LEMMA ArgCharOK == ReadOK /\ ArgChar => ReadOK'
<1> SUFFICES ASSUME ReadOK, ArgChar PROVE ReadOK'
  OBVIOUS
<1>1. calls # <<>> /\ Top.fn = "rd_args" /\ BufOK(b) /\ Frame(Top)
  BY InIs, TopFrame DEF ArgChar
<1>2. PICK c : /\ \/ c = WrBuf(b, <<b.ch>>) \/ c = b
                  \/ c = SpaceArg(b, " ") \/ c = SpaceArg(b, b.ch)
               /\ b' = Rdch(c)
  BY DEF ArgChar
<1>3. Kept(b, c) /\ BufOK(c)
  <2>1. Kept(b, WrBuf(b, <<b.ch>>)) /\ Kept(b, b)
    BY <1>1, WriteKept, KeptSame
  <2>2. Kept(b, SpaceArg(b, " ")) /\ Kept(b, SpaceArg(b, b.ch))
    BY <1>1, SpaceArgKept
  <2>3. Kept(b, c)
    BY <1>2, <2>1, <2>2
  <2> QED BY <2>3 DEF Kept
<1>4. Kept(c, Rdch(c))
  BY <1>3, RdchKept
<1>5. Kept(b, b')
  BY <1>2, <1>3, <1>4, KeptTwice
<1>6. PICK v, w : Go([Top EXCEPT !.instring = v, !.parcnt = w])
  BY DEF ArgChar
<1>7. PICK f : f = [Top EXCEPT !.instring = v]
  OBVIOUS
<1>8. PICK g : g = [f EXCEPT !.parcnt = w]
  OBVIOUS
<1>9. SameFrame(Top, f)
  BY <1>1, <1>7, PutFrame
<1>13. Frame(f)
  BY <1>9 DEF SameFrame
<1>10. SameFrame(f, g)
  BY <1>8, <1>13, PutFrame
<1>11. Go(g)
  BY <1>6, <1>7, <1>8
<1>12. SameFrame(Top, g)
  BY <1>9, <1>10, SameFrameTwice
<1> QED BY <1>1, <1>5, <1>11, <1>12, GoOK

LEMMA CommaOK == ReadOK /\ Comma => ReadOK'
<1> SUFFICES ASSUME ReadOK, Comma PROVE ReadOK'
  OBVIOUS
<1>1. calls # <<>> /\ Top.fn = "rd_args" /\ BufOK(b) /\ Frame(Top)
  BY InIs, TopFrame DEF Comma
<1>2. PICK t : t = TrimArg(b, Top.arg)
  OBVIOUS
<1>3. Kept(b, t) /\ BufOK(t)
  BY <1>1, <1>2, TrimArgKept DEF Kept
<1>4. PICK w : w = WrBuf(t, <<EOM>>)
  OBVIOUS
<1>5. Kept(t, w) /\ BufOK(w)
  BY <1>3, <1>4, WriteKept DEF Kept
<1>6. PICK c : c = ArgAlign(w)
  OBVIOUS
<1>7. Kept(w, c) /\ BufOK(c)
  BY <1>5, <1>6, ArgAlignKept DEF Kept
<1>8. b' = Rdch(c) /\ Kept(c, Rdch(c))
  BY <1>2, <1>4, <1>6, <1>7, RdchKept DEF Comma
<1>9. Kept(b, b')
  BY <1>3, <1>5, <1>7, <1>8, KeptTwice
<1>10. PICK v, x : Go([Top EXCEPT !.k = v, !.arg = x])
  BY DEF Comma
<1>11. PICK f : f = [Top EXCEPT !.k = v]
  OBVIOUS
<1>12. PICK g : g = [f EXCEPT !.arg = x]
  OBVIOUS
<1>13. SameFrame(Top, f)
  BY <1>1, <1>11, PutFrame
<1>14. Frame(f)
  BY <1>13 DEF SameFrame
<1>15. SameFrame(f, g)
  BY <1>12, <1>14, PutFrame
<1>16. Go(g)
  BY <1>10, <1>11, <1>12
<1>17. SameFrame(Top, g)
  BY <1>13, <1>15, SameFrameTwice
<1> QED BY <1>1, <1>9, <1>16, <1>17, GoOK

LEMMA BadArgsOK == ReadOK /\ BadArgs => ReadOK'
<1> SUFFICES ASSUME ReadOK, BadArgs PROVE ReadOK'
  OBVIOUS
<1>1. calls' = calls /\ b' = b
  BY DEF BadArgs
<1>2. Kept(b, b')
  BY <1>1, KeptSame DEF ReadOK
<1> QED BY <1>1, <1>2, StayOK

LEMMA CloseOK == ReadOK /\ Close => ReadOK'
<1> SUFFICES ASSUME ReadOK, Close PROVE ReadOK'
  OBVIOUS
<1>1. calls # <<>> /\ Top.fn = "rd_args" /\ BufOK(b)
  BY InIs, TopFrame DEF Close
<1>2. PICK t : t = TrimArg(b, Top.arg)
  OBVIOUS
<1>3. Kept(b, t) /\ BufOK(t)
  BY <1>1, <1>2, TrimArgKept DEF Kept
<1>4. PICK w : w = WrBuf(t, <<EOM>>)
  OBVIOUS
<1>5. Kept(t, w)
  BY <1>3, <1>4, WriteKept
<1>6. Kept(b, w)
  BY <1>3, <1>5, KeptTwice
<1>7. CallExpand(w, Top.name)
  BY <1>2, <1>4 DEF Close
<1> QED BY <1>1, <1>6, <1>7, CallExpandOK

LEMMA HashOK == ReadOK /\ Hash => ReadOK'
<1> SUFFICES ASSUME ReadOK, Hash PROVE ReadOK'
  OBVIOUS
<1>1. calls # <<>> /\ Top.fn = "expand" /\ BufOK(b) /\ Frame(Top)
  BY InIs, TopFrame DEF Hash, More
<1>2. PICK v, x : Go([Top EXCEPT !.dp = v, !.hash = x])
  BY DEF Hash
<1>3. PICK f : f = [Top EXCEPT !.dp = v]
  OBVIOUS
<1>4. PICK g : g = [f EXCEPT !.hash = x]
  OBVIOUS
<1>5. SameFrame(Top, f)
  BY <1>1, <1>3, PutFrame
<1>6. Frame(f)
  BY <1>5 DEF SameFrame
<1>7. SameFrame(f, g)
  BY <1>4, <1>6, PutFrame
<1>8. SameFrame(Top, g)
  BY <1>5, <1>7, SameFrameTwice
<1>9. Go(g)
  BY <1>2, <1>3, <1>4
<1>10. Kept(b, b')
  BY <1>1, KeptSame DEF Hash
<1> QED BY <1>1, <1>8, <1>9, <1>10, GoOK

\* A token is copied to ebuf, or an argument.
LEMMA CopyOK ==
  ASSUME ReadOK, In("expand"), NEW s, b' = SavBuf(b, s),
         NEW v, NEW x, Go([Top EXCEPT !.dp = v, !.hash = x])
  PROVE  ReadOK'
<1>1. calls # <<>> /\ Top.fn = "expand" /\ BufOK(b) /\ Frame(Top)
  BY InIs, TopFrame
<1>3. PICK f : f = [Top EXCEPT !.dp = v]
  OBVIOUS
<1>4. PICK g : g = [f EXCEPT !.hash = x]
  OBVIOUS
<1>5. SameFrame(Top, f)
  BY <1>1, <1>3, PutFrame
<1>6. Frame(f)
  BY <1>5 DEF SameFrame
<1>7. SameFrame(f, g)
  BY <1>4, <1>6, PutFrame
<1>8. SameFrame(Top, g)
  BY <1>5, <1>7, SameFrameTwice
<1>9. Go(g)
  BY <1>3, <1>4
<1>10. Kept(b, b')
  BY <1>1, WriteKept
<1> QED BY <1>1, <1>8, <1>9, <1>10, GoOK

LEMMA CopyTokenOK == ReadOK /\ CopyToken => ReadOK'
<1> SUFFICES ASSUME ReadOK, CopyToken PROVE ReadOK'
  OBVIOUS
<1>1. PICK s : b' = SavBuf(b, s)
  BY DEF CopyToken
<1>2. In("expand") /\ Go([Top EXCEPT !.dp = Top.dp + 1, !.hash = {}])
  BY DEF CopyToken, More
<1> QED BY <1>1, <1>2, CopyOK

LEMMA CopyArgOK == ReadOK /\ CopyArg => ReadOK'
<1> SUFFICES ASSUME ReadOK, CopyArg PROVE ReadOK'
  OBVIOUS
<1>1. PICK s : b' = SavBuf(b, s)
  BY DEF CopyArg
<1>2. In("expand") /\ Go([Top EXCEPT !.dp = Top.dp + 1, !.hash = {}])
  BY DEF CopyArg, More
<1> QED BY <1>1, <1>2, CopyOK

\* A function is called, and the one that calls it goes on from g.
LEMMA CallOK ==
  ASSUME ReadOK, calls # <<>>, NEW g, SameFrame(Top, g), NEW f, Frame(f),
         calls' = <<f, g>> \o Under, BufOK(b'),
         f.fn = "argexpand" <=> Top.fn # "argexpand",
         f.fn = "argexpand" => f.scanidx = b.scanidx
  PROVE  ReadOK'
<1>1. PICK u : u = Under
  OBVIOUS
<1>2. /\ StackOK(u) /\ Frame(g)
      /\ g.fn = "argexpand" <=> Top.fn = "argexpand"
      /\ g.fn # "argexpand" /\ NoArg(u) => b.scanidx = 0
      /\ g.fn = "argexpand" /\ NoArg(u) => g.scanidx = 0
  BY <1>1, TopFrame DEF SameFrame
<1>3. PICK t : t = Pushed(g, u)
  OBVIOUS
<1>4. StackOK(t) /\ (NoArg(t) <=> (g.fn # "argexpand" /\ NoArg(u)))
  BY <1>2, <1>3, ConsStack
<1>5. PICK w : w = Pushed(f, t)
  OBVIOUS
<1>6. f.fn = "argexpand" /\ NoArg(t) => f.scanidx = 0
  BY <1>2, <1>4
<1>7. StackOK(w) /\ (NoArg(w) <=> (f.fn # "argexpand" /\ NoArg(t)))
  BY <1>4, <1>5, <1>6, ConsStack
<1>8. ~NoArg(w)
  BY <1>2, <1>4, <1>7
<1>9. calls' = w
  <2>1. PICK S : u \in Seq(S)
    BY <1>2, ListIs DEF StackOK
  <2>2. u \in Seq(S \cup {f, g}) /\ <<f>> \in Seq(S \cup {f, g}) /\ <<g>> \in Seq(S \cup {f, g})
    BY <2>1, SeqMonotonic
  <2>3. (<<f>> \o <<g>>) \o u = <<f>> \o (<<g>> \o u)
    BY <2>2, ConcatAssociative
  <2>4. <<f>> \o <<g>> = <<f, g>>
    <3>1. PICK p : p = <<f>> \o <<g>>
      OBVIOUS
    <3>2. PICK q : q = <<f, g>>
      OBVIOUS
    <3>3. <<f>> \in Seq({f, g}) /\ <<g>> \in Seq({f, g}) /\ Len(<<f>>) = 1 /\ Len(<<g>>) = 1
          /\ <<f>>[1] = f /\ <<g>>[1] = g
      OBVIOUS
    <3>4. /\ p \in Seq({f, g}) /\ Len(p) = 2
          /\ \A i \in 1 .. 2 : p[i] = IF i <= 1 THEN <<f>>[i] ELSE <<g>>[i - 1]
      BY <3>1, <3>3, ConcatProperties
    <3>5. p[1] = f /\ p[2] = g
      BY <3>3, <3>4
    <3>6. q \in Seq({f, g}) /\ Len(q) = 2 /\ q[1] = f /\ q[2] = g
      BY <3>2
    <3>7. \A i \in 1 .. 2 : i = 1 \/ i = 2
      OBVIOUS
    <3>8. \A i \in 1 .. Len(p) : p[i] = q[i]
      BY <3>4, <3>5, <3>6, <3>7
    <3> QED BY <3>1, <3>2, <3>4, <3>6, <3>8, SeqEqual
  <2> QED BY <1>1, <1>3, <1>5, <2>3, <2>4 DEF Pushed
<1>10. CallsOK(w, b'.scanidx)
  BY <1>7, <1>8 DEF CallsOK
<1> QED BY <1>9, <1>10 DEF ReadOK

LEMMA ExpandArgOK == ReadOK /\ ExpandArg => ReadOK'
<1> SUFFICES ASSUME ReadOK, ExpandArg PROVE ReadOK'
  OBVIOUS
<1>1. calls # <<>> /\ Top.fn = "expand" /\ BufOK(b) /\ Frame(Top)
  BY InIs, TopFrame DEF ExpandArg, More
<1>2. PICK h : h = [Top EXCEPT !.dp = @ + 1]
  OBVIOUS
<1>3. PICK g : g = [h EXCEPT !.hash = {}]
  OBVIOUS
<1>4. SameFrame(Top, h)
  BY <1>1, <1>2, PutFrame
<1>5. Frame(h)
  BY <1>4 DEF SameFrame
<1>6. SameFrame(h, g)
  BY <1>3, <1>5, PutFrame
<1>7. SameFrame(Top, g)
  BY <1>4, <1>6, SameFrameTwice
<1>8. PICK f : f = [fn |-> "argexpand", ap |-> Actual(Tok) + 1, sleepbase |-> Actual(Tok) + 1,
                    ebuftop |-> Len(b.e) + 1, abufptr |-> Len(b.a), doneseg |-> 0,
                    scanidx |-> b.scanidx, changes |-> FALSE, oldsleepers |-> b.noexpand]
  OBVIOUS
<1>9. f.fn = "argexpand" /\ f.scanidx = b.scanidx /\ Frame(f)
  <2>1. /\ "fn" \in DOMAIN f /\ {"scanidx", "oldsleepers"} \subseteq DOMAIN f
        /\ f.fn = "argexpand" /\ f.scanidx = b.scanidx /\ f.oldsleepers = b.noexpand
    BY <1>8
  <2>2. IsList(b.noexpand)
    BY <1>1 DEF BufOK
  <2> QED BY <2>1, <2>2 DEF Frame
<1>10. calls' = <<f, g>> \o Under
  BY <1>2, <1>3, <1>8 DEF ExpandArg
<1>11. BufOK(b')
  <2>1. PICK w : w = SavBuf(b, <<TOKSEP>>)
    OBVIOUS
  <2>2. BufOK(w)
    BY <1>1, <2>1, WriteKept DEF Kept
  <2>3. PICK t : t = [w EXCEPT !.noexpand = <<>>]
    OBVIOUS
  <2>4. Kept(w, t)
    BY <2>2, <2>3, EmptyIsList, PutListKept
  <2>5. b' = t
    BY <2>1, <2>3 DEF ExpandArg
  <2> QED BY <2>4, <2>5 DEF Kept
<1> QED BY <1>1, <1>7, <1>9, <1>10, <1>11, CallOK

LEMMA ArgNameOK == ReadOK /\ ArgName => ReadOK'
<1> SUFFICES ASSUME ReadOK, ArgName PROVE ReadOK'
  OBVIOUS
<1>1. calls # <<>> /\ Top.fn = "argexpand" /\ BufOK(b) /\ Frame(Top)
  BY InIs, TopFrame DEF ArgName, Scanning
<1>2. PICK g : g = [Top EXCEPT !.doneseg = Len(b.e) - Top.ebuftop]
  OBVIOUS
<1>3. SameFrame(Top, g)
  BY <1>1, <1>2, PutFrame
<1>4. PICK f : f = Checkid(Scan)
  OBVIOUS
<1>5. Frame(f) /\ f.fn # "argexpand"
  BY <1>4 DEF Checkid, Frame
<1>6. calls' = <<f, g>> \o Under
  BY <1>2, <1>4 DEF ArgName
<1>7. BufOK(b')
  <2>1. PICK n : n = Top.sleepbase - (Top.ap + 1)
    OBVIOUS
  <2>2. PICK c : c = AddSleep(b, n)
    OBVIOUS
  <2>3. BufOK(c)
    BY <1>1, <2>2, AddSleepKept DEF Kept
  <2>4. PICK t : t = [c EXCEPT !.ch = Scan]
    OBVIOUS
  <2>5. BufOK(t)
    <3>1. Kept(c, t)
      BY <2>3, <2>4, PutKept
    <3> QED BY <3>1 DEF Kept
  <2>6. PICK x : x = Top.ap + 1
    OBVIOUS
  <2>7. PICK u : u = [t EXCEPT !.scanidx = x]
    OBVIOUS
  <2>8. DOMAIN u = DOMAIN t /\ u.noexpand = t.noexpand
    <3>1. "noexpand" \in DOMAIN t
      BY <2>5 DEF BufOK
    <3> QED BY <2>7, <3>1
  <2>9. BufOK(u)
    BY <2>5, <2>8 DEF BufOK
  <2>10. b' = u
    BY <2>1, <2>2, <2>4, <2>6, <2>7 DEF ArgName
  <2> QED BY <2>9, <2>10
<1> QED BY <1>1, <1>3, <1>5, <1>6, <1>7, CallOK

LEMMA ExpandEndOK == ReadOK /\ ExpandEnd => ReadOK'
<1> SUFFICES ASSUME ReadOK, ExpandEnd PROVE ReadOK'
  OBVIOUS
<1>1. calls # <<>> /\ Top.fn = "expand" /\ BufOK(b)
  BY InIs, TopFrame DEF ExpandEnd
<1>2. PICK c : c = SavBuf(b, <<TOKSEP>>)
  OBVIOUS
<1>3. Kept(b, c) /\ BufOK(c)
  BY <1>1, <1>2, WriteKept DEF Kept
<1>4. PICK n : n = Len(c.e) - IF b.scanidx = 0 THEN 0 ELSE Top.after
  OBVIOUS
<1>5. PICK s : s = SleepName(c, Top.name, n)
  OBVIOUS
<1>6. Kept(c, s) /\ BufOK(s)
  BY <1>3, <1>5, SleepNameKept DEF Kept
<1>7. PICK rest : rest = SubSeq(b.a, Top.abufptr + 1, Top.abufptr + Top.after)
  OBVIOUS
<1>8. PICK w : w = SavBuf(s, rest)
  OBVIOUS
<1>9. Kept(s, w) /\ BufOK(w)
  BY <1>6, <1>8, WriteKept DEF Kept
<1>10. PICK t : t = [w EXCEPT !.a = <<>>]
  OBVIOUS
<1>11. Kept(w, t)
  BY <1>9, <1>10, PutKept
<1>12. Kept(b, s) /\ Kept(b, t)
  BY <1>3, <1>6, <1>9, <1>11, KeptTwice
<1>13. PICK r : r = IF b.scanidx = 0 THEN t ELSE s
  OBVIOUS
<1>14. Returned(r, TRUE)
  BY <1>2, <1>4, <1>5, <1>7, <1>8, <1>10, <1>13 DEF ExpandEnd
<1>15. Kept(b, r)
  BY <1>12, <1>13
<1> QED BY <1>1, <1>14, <1>15, ReturnedOK

LEMMA ArgPlainOK == ReadOK /\ ArgPlain => ReadOK'
<1> SUFFICES ASSUME ReadOK, ArgPlain PROVE ReadOK'
  OBVIOUS
<1>1. calls # <<>> /\ BufOK(b) /\ Frame(Top)
  BY InIs, TopFrame DEF ArgPlain, Scanning
<1>2. PICK f : f = [Top EXCEPT !.ap = @ + 1]
  OBVIOUS
<1>3. SameFrame(Top, f)
  BY <1>1, <1>2, PutFrame
<1>4. Go(f) /\ b' = SavBuf(b, <<Scan>>)
  BY <1>2 DEF ArgPlain
<1>5. Kept(b, b')
  BY <1>1, <1>4, WriteKept
<1> QED BY <1>1, <1>3, <1>4, <1>5, GoOK

LEMMA ArgStringOK == ReadOK /\ ArgString => ReadOK'
<1> SUFFICES ASSUME ReadOK, ArgString PROVE ReadOK'
  OBVIOUS
<1>1. calls # <<>> /\ BufOK(b) /\ Frame(Top)
  BY InIs, TopFrame DEF ArgString, Scanning
<1>2. PICK s, v : b' = SavBuf(b, s) /\ Go([Top EXCEPT !.ap = v])
  BY DEF ArgString
<1>3. PICK f : f = [Top EXCEPT !.ap = v]
  OBVIOUS
<1>4. SameFrame(Top, f)
  BY <1>1, <1>3, PutFrame
<1>5. Go(f)
  BY <1>2, <1>3
<1>6. Kept(b, b')
  BY <1>1, <1>2, WriteKept
<1> QED BY <1>1, <1>4, <1>5, <1>6, GoOK

LEMMA ArgAgainOK == ReadOK /\ ArgAgain => ReadOK'
<1> SUFFICES ASSUME ReadOK, ArgAgain PROVE ReadOK'
  OBVIOUS
<1>1. calls # <<>> /\ BufOK(b) /\ Frame(Top)
  BY InIs, TopFrame DEF ArgAgain
<1>2. PICK v, w, x, y :
        /\ b' = [b EXCEPT !.a = v, !.e = w]
        /\ Go([Top EXCEPT !.ap = x, !.sleepbase = x, !.abufptr = y, !.changes = FALSE])
  BY DEF ArgAgain
<1>3. PICK g1 : g1 = [Top EXCEPT !.ap = x]
  OBVIOUS
<1>4. PICK g2 : g2 = [g1 EXCEPT !.sleepbase = x]
  OBVIOUS
<1>5. PICK g3 : g3 = [g2 EXCEPT !.abufptr = y]
  OBVIOUS
<1>6. PICK g4 : g4 = [g3 EXCEPT !.changes = FALSE]
  OBVIOUS
<1>7. SameFrame(Top, g1)
  BY <1>1, <1>3, PutFrame
<1>8. Frame(g1)
  BY <1>7 DEF SameFrame
<1>9. SameFrame(g1, g2)
  BY <1>4, <1>8, PutFrame
<1>10. Frame(g2)
  BY <1>9 DEF SameFrame
<1>11. SameFrame(g2, g3)
  BY <1>5, <1>10, PutFrame
<1>12. Frame(g3)
  BY <1>11 DEF SameFrame
<1>13. SameFrame(g3, g4)
  BY <1>6, <1>12, PutFrame
<1>14. SameFrame(Top, g4)
  BY <1>7, <1>9, <1>11, <1>13, SameFrameTwice
<1>15. Go(g4)
  BY <1>2, <1>3, <1>4, <1>5, <1>6
<1>16. PICK t : t = [b EXCEPT !.a = v]
  OBVIOUS
<1>17. Kept(b, t) /\ BufOK(t)
  <2>1. Kept(b, t)
    BY <1>1, <1>16, PutKept
  <2> QED BY <2>1 DEF Kept
<1>18. PICK u : u = [t EXCEPT !.e = w]
  OBVIOUS
<1>19. Kept(t, u)
  BY <1>17, <1>18, PutKept
<1>20. b' = u
  BY <1>2, <1>16, <1>18
<1>21. Kept(b, b')
  BY <1>17, <1>19, <1>20, KeptTwice
<1> QED BY <1>1, <1>14, <1>15, <1>21, GoOK

LEMMA ArgExpandedOK == ReadOK /\ ArgExpanded => ReadOK'
<1> SUFFICES ASSUME ReadOK, ArgExpanded PROVE ReadOK'
  OBVIOUS
<1>1. /\ calls # <<>> /\ Top.fn = "argexpand" /\ BufOK(b) /\ Frame(Top)
      /\ StackOK(Under) /\ (NoArg(Under) => Top.scanidx = 0)
  BY InIs, TopFrame DEF ArgExpanded, Scanning
<1>2. PICK v : v = SubSeq(b.a, 1, Top.abufptr)
  OBVIOUS
<1>3. PICK t : t = [b EXCEPT !.a = v]
  OBVIOUS
<1>4. BufOK(t)
  <2>1. Kept(b, t)
    BY <1>1, <1>3, PutKept
  <2> QED BY <2>1 DEF Kept
<1>5. PICK u : u = [t EXCEPT !.scanidx = Top.scanidx]
  OBVIOUS
<1>6. BufOK(u) /\ u.scanidx = Top.scanidx
  <2>1. "noexpand" \in DOMAIN t /\ "scanidx" \in DOMAIN t
    BY <1>4 DEF BufOK
  <2>2. DOMAIN u = DOMAIN t /\ u.noexpand = t.noexpand /\ u.scanidx = Top.scanidx
    BY <1>5, <2>1
  <2> QED BY <1>4, <2>2 DEF BufOK
<1>7. PICK c : c = AwakenAll(u)
  OBVIOUS
<1>8. Kept(u, c) /\ BufOK(c)
  <2>1. Kept(u, c)
    BY <1>6, <1>7, AwakenAllKept
  <2> QED BY <2>1 DEF Kept
<1>9. PICK w : w = SavBuf(c, <<TOKSEP>>)
  OBVIOUS
<1>10. Kept(c, w) /\ BufOK(w)
  <2>1. Kept(c, w)
    BY <1>8, <1>9, WriteKept
  <2> QED BY <2>1 DEF Kept
<1>11. PICK x : x = [w EXCEPT !.noexpand = Top.oldsleepers]
  OBVIOUS
<1>12. Kept(w, x)
  <2>1. IsList(Top.oldsleepers)
    BY <1>1 DEF Frame
  <2> QED BY <1>10, <1>11, <2>1, PutListKept
<1>13. Kept(u, x)
  BY <1>8, <1>10, <1>12, KeptTwice
<1>14. b' = x
  BY <1>2, <1>3, <1>5, <1>7, <1>9, <1>11 DEF ArgExpanded
<1>15. calls' = Under
  BY DEF ArgExpanded
<1>16. NoArg(Under) => x.scanidx = 0
  BY <1>1, <1>6, <1>13 DEF Kept
<1>17. CallsOK(Under, x.scanidx) /\ BufOK(x)
  BY <1>1, <1>13, <1>16 DEF CallsOK, Kept
<1> QED BY <1>14, <1>15, <1>17 DEF ReadOK

LEMMA ExpandingOK == ReadOK /\ Expanding => ReadOK'
BY CopyStringOK, ReadIdOK, NotAMacroOK, ObjectLikeOK, FunctionLikeOK, SkipBOK, NotCalledOK,
   CalledOK, ArgCharOK, CommaOK, BadArgsOK, CloseOK, HashOK, CopyTokenOK, CopyArgOK,
   ExpandArgOK, ExpandEndOK, ArgPlainOK, ArgStringOK, ArgNameOK, ArgAgainOK, ArgExpandedOK
   DEF Expanding

----------------------------------------------------------------------------
(* The actions of PP: at top level, where nothing is read from abuf.       *)

LEMMA NothingCalled == StackOK(<<>>) /\ NoArg(<<>>)
<1>1. Len(<<>>) = 0 /\ \A i \in 1 .. 0 : FALSE
  BY EmptySeq
<1> QED BY <1>1, EmptyIsList DEF StackOK, NoArg

LEMMA AtTop ==
  ASSUME ReadOK, Process
  PROVE  calls = <<>> /\ BufOK(b) /\ b.scanidx = 0 /\ Kept(b, Read) /\ BufOK(Read)
<1>1. calls = <<>>
  BY DEF Process
<1>2. BufOK(b) /\ b.scanidx = 0
  BY <1>1, NothingCalled DEF ReadOK, CallsOK
<1>3. PICK c : c = Read
  OBVIOUS
<1>4. Kept(b, c)
  BY <1>2, <1>3, RdchKept DEF Read
<1>5. BufOK(c)
  BY <1>4 DEF Kept
<1> QED BY <1>1, <1>2, <1>3, <1>4, <1>5

LEMMA WordOK == ReadOK /\ Word => ReadOK'
<1> SUFFICES ASSUME ReadOK, Word PROVE ReadOK'
  OBVIOUS
<1>1. PICK c : c = Read
  OBVIOUS
<1>2. calls = <<>> /\ BufOK(b) /\ b.scanidx = 0 /\ Kept(b, c) /\ BufOK(c)
  BY <1>1, AtTop DEF Word
<1>3. Kept(b, b')
  <2>1. CASE Char = Quote
    <3>1. PICK w : w = WrBuf(c, <<Quote>>)
      OBVIOUS
    <3>2. Kept(c, w)
      BY <1>2, <3>1, WriteKept
    <3>3. Kept(b, w)
      BY <1>2, <3>2, KeptTwice
    <3>4. b' = w
      BY <1>1, <2>1, <3>1 DEF Word
    <3> QED BY <3>3, <3>4
  <2>2. CASE Char # Quote
    BY <1>1, <1>2, <2>2 DEF Word
  <2> QED BY <2>1, <2>2
<1>4. PICK f : calls' = <<f>> /\ Frame(f) /\ f.fn # "argexpand"
  <2>1. CASE Char = Quote
    <3>1. PICK f : f = [fn |-> "copystring"]
      OBVIOUS
    <3>2. "fn" \in DOMAIN f /\ f.fn = "copystring"
      BY <3>1
    <3>3. calls' = <<f>>
      BY <2>1, <3>1 DEF Word
    <3>4. Frame(f)
      BY <3>2 DEF Frame
    <3> QED BY <3>2, <3>3, <3>4
  <2>2. CASE Char # Quote
    <3>1. PICK f : f = Checkid(Char)
      OBVIOUS
    <3>2. "fn" \in DOMAIN f /\ f.fn = "checkid"
      BY <3>1 DEF Checkid
    <3>3. calls' = <<f>>
      BY <2>2, <3>1 DEF Word
    <3>4. Frame(f)
      BY <3>2 DEF Frame
    <3> QED BY <3>2, <3>3, <3>4
  <2> QED BY <2>1, <2>2
<1>5. PICK t : t = Pushed(f, <<>>)
  OBVIOUS
<1>6. StackOK(t) /\ (NoArg(t) => TRUE)
  BY <1>4, <1>5, NothingCalled, ConsStack
<1>7. t = <<f>>
  BY <1>5 DEF Pushed
<1>8. b'.scanidx = 0 /\ BufOK(b')
  BY <1>2, <1>3 DEF Kept
<1>9. calls' = t
  BY <1>4, <1>7
<1> QED BY <1>6, <1>8, <1>9 DEF ReadOK, CallsOK

\* What is read, and perhaps another file, or other names that are defined.
LEMMA TopStays ==
  ASSUME ReadOK, Process, calls' = calls,
         \/ b' = Read
         \/ \E v : b' = [Read EXCEPT !.in = v]
         \/ \E v : b' = [Read EXCEPT !.alive = v]
  PROVE  ReadOK'
<1>1. PICK c : c = Read
  OBVIOUS
<1>2. Kept(b, c) /\ BufOK(c)
  BY <1>1, AtTop
<1>3. CASE b' = c
  BY <1>2, <1>3, StayOK
<1>4. ASSUME NEW v, NEW f \in {"in", "alive"}, b' = [c EXCEPT ![f] = v] PROVE ReadOK'
  <2>1. PICK t : t = [c EXCEPT ![f] = v]
    OBVIOUS
  <2>2. Kept(c, t)
    BY <1>2, <2>1, PutKept
  <2>3. Kept(b, t)
    BY <1>2, <2>2, KeptTwice
  <2>4. b' = t
    BY <1>4, <2>1
  <2> QED BY <2>3, <2>4, StayOK
<1>5. ASSUME NEW v, b' = [c EXCEPT !.in = v] PROVE ReadOK'
  BY <1>4, <1>5
<1>6. ASSUME NEW v, b' = [c EXCEPT !.alive = v] PROVE ReadOK'
  BY <1>4, <1>6
<1> QED BY <1>1, <1>3, <1>5, <1>6

LEMMA ReadNext == ReadOK /\ Next => ReadOK'
<1> SUFFICES ASSUME ReadOK, Next PROVE ReadOK'
  OBVIOUS
<1>1. CASE Expanding
  BY <1>1, ExpandingOK
<1>2. CASE Word
  BY <1>2, WordOK
<1>3. CASE Plainly
  <2>1. Process /\ calls' = calls /\ b' = Read
    BY <1>3 DEF Plainly
  <2> QED BY <2>1, TopStays
<1>4. CASE Eof
  <2>1. Process /\ calls' = calls /\ b' = [Read EXCEPT !.in = Last(filestack).in]
    BY <1>4 DEF Eof
  <2> QED BY <2>1, TopStays
<1>5. CASE If \/ Ifdef \/ Ifndef \/ Else \/ Elif \/ Endif \/ SkipInclude
  <2>1. Process /\ calls' = calls /\ b' = Read
    BY <1>5 DEF If, Ifdef, Ifndef, Else, Elif, Endif, SkipInclude, Directive, Conditional, LineDone
  <2> QED BY <2>1, TopStays
<1>6. CASE Define
  <2>1. /\ Process /\ calls' = calls
        /\ b' = Read \/ b' = [Read EXCEPT !.alive = @ \cup {What.name}]
    BY <1>6 DEF Define, Directive, LineDone
  <2> QED BY <2>1, TopStays
<1>7. CASE Undef
  <2>1. /\ Process /\ calls' = calls
        /\ b' = [Read EXCEPT !.alive = IF skipping THEN @ ELSE @ \ {What.name}]
    BY <1>7 DEF Undef, Directive, LineDone
  <2> QED BY <2>1, TopStays
<1>8. CASE PushInclude
  <2>1. Process /\ calls' = calls /\ b' = [Read EXCEPT !.in = prog.files[What.file]]
    BY <1>8 DEF PushInclude, Directive
  <2> QED BY <2>1, TopStays
<1> QED BY <1>1, <1>2, <1>3, <1>4, <1>5, <1>6, <1>7, <1>8 DEF Next

LEMMA ReadInit == Init => ReadOK
<1> SUFFICES ASSUME Init PROVE ReadOK
  OBVIOUS
<1>1. PICK c : c = Fresh(prog.files["main"], DOMAIN macros)
  OBVIOUS
<1>2. b = c /\ calls = <<>>
  BY <1>1 DEF Init
<1>3. {"alive", "noexpand", "scanidx", "e"} \subseteq DOMAIN c /\ c.noexpand = <<>> /\ c.scanidx = 0
  BY <1>1 DEF Fresh
<1>4. BufOK(c)
  BY <1>3, EmptyIsList DEF BufOK
<1>5. CallsOK(<<>>, 0)
  BY NothingCalled DEF CallsOK
<1> QED BY <1>2, <1>3, <1>4, <1>5 DEF ReadOK

LEMMA ReadStays == ReadOK /\ UNCHANGED vars => ReadOK'
BY DEF ReadOK, vars, pvars

\* abuf is read from only while a macro's arguments are being expanded: the
\* first pp_argexpand under way began when nothing was read from it, and
\* at top level nothing is (pp_argexpand, pp_rdch).
TopReadsFile == NoArg(calls) => b.scanidx = 0

THEOREM ScanEnds == Spec => []TopReadsFile
<1>1. ReadOK /\ [Next]_vars => ReadOK'
  BY ReadNext, ReadStays
<1>2. ReadOK => TopReadsFile
  BY DEF ReadOK, CallsOK, TopReadsFile
<1> QED BY ReadInit, <1>1, <1>2, PTL DEF Spec

----------------------------------------------------------------------------
(* A directive is met when the text of each macro that sleeps has been     *)
(* read: to read it awakens them, and all names that are defined are awake.*)

LEMMA DefinedIsRead ==
  ASSUME ReadOK, Process, AllRead(b)
  PROVE  Defined = Read.alive
<1>1. calls = <<>> /\ BufOK(b)
  BY AtTop
<1>2. {calls[i].oldsleepers : i \in {j \in DOMAIN calls : calls[j].fn = "argexpand"}} = {}
  <2>1. DOMAIN calls = {}
    BY <1>1
  <2> QED BY <2>1
<1>3. Sleepers = {b.noexpand}
  BY <1>2 DEF Sleepers
<1>4. Defined = b.alive \cup Names(b.noexpand)
  BY <1>3 DEF Defined
<1>5. Rdch(b).alive = b.alive \cup Names(b.noexpand)
  BY <1>1, RdchKept
<1> QED BY <1>4, <1>5 DEF Read

ConditionalsStep ==
  /\ skipping' = ~Live(Groups')
  /\ Groups' = IF Process /\ Char \in DOMAIN Directives
               THEN Directed(Groups, Directives[Char], Defined)
               ELSE Groups

LEMMA StepFollows ==
  ASSUME ReadOK, DirectivesInFiles, FlagsStep
  PROVE  ConditionalsStep
<1>1. CASE Process /\ Char \in DOMAIN Directives
  <2>1. Defined = Read.alive
    BY <1>1, DefinedIsRead DEF DirectivesInFiles
  <2>2. Groups' = Directed(Groups, Directives[Char], Defined) /\ skipping' = ~Live(Groups')
    BY <1>1, <2>1 DEF FlagsStep, What
  <2> QED BY <1>1, <2>2 DEF ConditionalsStep
<1>2. CASE ~(Process /\ Char \in DOMAIN Directives)
  BY <1>2 DEF FlagsStep, ConditionalsStep
<1> QED BY <1>1, <1>2

\* Names that are asleep are defined: a directive is answered as the
\* language asks, whatever macros have been read before it, where no
\* directive is met in text that a macro was replaced by.
THEOREM ConditionalsAsked == Spec /\ []DirectivesInFiles => ConditionalsHold
<1>1. ReadOK /\ [Next]_vars => ReadOK'
  BY ReadNext, ReadStays
<1>2. Spec => []ReadOK
  BY ReadInit, <1>1, PTL DEF Spec
<1>3. ReadOK /\ DirectivesInFiles /\ [FlagsStep]_vars => [ConditionalsStep]_vars
  BY StepFollows
<1>4. Spec /\ []DirectivesInFiles => [][ConditionalsStep]_vars
  BY <1>2, <1>3, FlagsDoAsAsked, PTL
<1>5. [][ConditionalsStep]_vars => ConditionalsHold
  BY DEF ConditionalsStep, ConditionalsHold
<1> QED BY <1>4, <1>5

============================================================================
