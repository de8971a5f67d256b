------------------------ MODULE GeneratedFns_proofs ------------------------
(***************************************************************************)
(* The marks of the functions in waiting, for every value of the           *)
(* constants.                                                              *)
(***************************************************************************)
EXTENDS GeneratedFns, SequenceTheorems, WellFoundedInduction, TLAPS

----------------------------------------------------------------------------
(* Numbers and sequences.                                                  *)

LEMMA HasGreatest ==
  ASSUME NEW n \in Nat, NEW S, S \subseteq 0 .. n, S # {}
  PROVE  \E k \in S : \A j \in S : j <= k
<1> DEFINE R == OpToRel(<, Nat)
           T == {n - k : k \in S}
<1>1. \A k \in S : k \in Nat /\ n - k \in Nat /\ n - k \in T
  OBVIOUS
<1>2. IsWellFoundedOn(R, Nat)
  BY NatLessThanWellFounded
<1>3. T \subseteq Nat /\ T # {}
  BY <1>1
<1>4. \A x, y \in Nat : y < x => <<y, x>> \in R
  BY DEF OpToRel
<1> HIDE DEF R
<1>5. PICK x \in T : \A y \in T : ~(<<y, x>> \in R)
  BY <1>2, <1>3, WFMin
<1>6. PICK k \in S : x = n - k
  OBVIOUS
<1>7. ASSUME NEW j \in S PROVE j <= k
  <2>1. ~(n - j < n - k)
    BY <1>1, <1>4, <1>5, <1>6
  <2> QED BY <1>1, <2>1
<1> QED BY <1>7

\* All but the last element of a sequence.
LEMMA FrontFacts ==
  ASSUME NEW S, NEW s \in Seq(S), s # <<>>
  PROVE  /\ Front(s) \in Seq(S)
         /\ Len(Front(s)) = Len(s) - 1
         /\ \A i \in 1 .. Len(s) - 1 : Front(s)[i] = s[i]
         /\ Last(s) = s[Len(s)] /\ Last(s) \in S /\ Len(s) \in Nat \ {0}
<1>1. Len(s) \in Nat \ {0}
  BY EmptySeq
<1>2. \A i \in 1 .. Len(s) : s[i] \in S
  BY ElementOfSeq
<1> DEFINE n == Len(s) - 1
<1>3. n \in Int /\ n >= 0 /\ \A i \in 1 .. n : s[i] \in S
  BY <1>1, <1>2
<1>4. /\ SubSeq(s, 1, n) \in Seq(S)
      /\ Len(SubSeq(s, 1, n)) = IF 1 <= n THEN n - 1 + 1 ELSE 0
      /\ \A i \in 1 .. n - 1 + 1 : SubSeq(s, 1, n)[i] = s[1 + i - 1]
  BY <1>3, SubSeqProperties
<1>5. Len(s) \in 1 .. Len(s) /\ Last(s) = s[Len(s)]
  BY <1>1 DEF Last
<1> HIDE DEF n
<1>6. \A i \in 1 .. n : SubSeq(s, 1, n)[i] = s[i]
  BY <1>3, <1>4
<1>7. Len(SubSeq(s, 1, n)) = n
  BY <1>3, <1>4
<1> QED BY <1>1, <1>2, <1>4, <1>5, <1>6, <1>7 DEF Front, n

LEMMA SubSeqFacts ==
  ASSUME NEW S, NEW s \in Seq(S), NEW k \in 0 .. Len(s)
  PROVE  /\ SubSeq(s, 1, k) \in Seq(S) /\ Len(SubSeq(s, 1, k)) = k
         /\ \A i \in 1 .. k : SubSeq(s, 1, k)[i] = s[i]
         /\ SubSeq(s, k + 1, Len(s)) \in Seq(S) /\ Len(SubSeq(s, k + 1, Len(s))) = Len(s) - k
         /\ \A i \in 1 .. Len(s) - k : SubSeq(s, k + 1, Len(s))[i] = s[k + i]
<1>1. Len(s) \in Nat /\ k \in Nat /\ k <= Len(s)
  BY LenProperties
<1>2. \A i \in 1 .. Len(s) : s[i] \in S
  BY ElementOfSeq
<1>3. /\ SubSeq(s, 1, k) \in Seq(S)
      /\ Len(SubSeq(s, 1, k)) = IF 1 <= k THEN k - 1 + 1 ELSE 0
      /\ \A i \in 1 .. k - 1 + 1 : SubSeq(s, 1, k)[i] = s[1 + i - 1]
  <2>1. \A i \in 1 .. k : s[i] \in S
    BY <1>1, <1>2
  <2> QED BY <1>1, <2>1, SubSeqProperties
<1>4. /\ SubSeq(s, k + 1, Len(s)) \in Seq(S)
      /\ Len(SubSeq(s, k + 1, Len(s))) = IF k + 1 <= Len(s) THEN Len(s) - (k + 1) + 1 ELSE 0
      /\ \A i \in 1 .. Len(s) - (k + 1) + 1 : SubSeq(s, k + 1, Len(s))[i] = s[k + 1 + i - 1]
  <2>1. \A i \in k + 1 .. Len(s) : s[i] \in S
    BY <1>1, <1>2
  <2>2. k + 1 \in Int /\ Len(s) \in Int
    BY <1>1
  <2> QED BY <2>1, <2>2, SubSeqProperties
<1>5. /\ Len(SubSeq(s, 1, k)) = k /\ \A i \in 1 .. k : SubSeq(s, 1, k)[i] = s[i]
  BY <1>1, <1>3
<1>6. /\ Len(SubSeq(s, k + 1, Len(s))) = Len(s) - k
      /\ \A i \in 1 .. Len(s) - k : SubSeq(s, k + 1, Len(s))[i] = s[k + i]
  BY <1>1, <1>4
<1> QED BY <1>3, <1>4, <1>5, <1>6

LEMMA FnIsSeq ==
  ASSUME NEW S, NEW n \in Nat, NEW s, s = [i \in 1 .. n |-> s[i]],
         \A i \in 1 .. n : s[i] \in S
  PROVE  s \in Seq(S) /\ Len(s) = n
OBVIOUS

\* One element in front.
LEMMA ConsFacts ==
  ASSUME NEW S, NEW e \in S, NEW s \in Seq(S)
  PROVE  /\ <<e>> \o s \in Seq(S) /\ Len(<<e>> \o s) = Len(s) + 1
         /\ (<<e>> \o s)[1] = e
         /\ \A i \in 2 .. Len(s) + 1 : (<<e>> \o s)[i] = s[i - 1]
         /\ Tail(<<e>> \o s) = s
OBVIOUS

----------------------------------------------------------------------------
(* Types.                                                                  *)

MarkType  == [blk : Blk, seg : 0 .. MaxHunks, unmarked : BOOLEAN]
NoteType  == [fn : Fn, mark : Blk]
FnType    == [store : SUBSET Nat, whole : BOOLEAN, made : Nat, only : BOOLEAN]
FrameType == [k : FrameK, fn : Nat, mark : Nat, saved : Seq(Fn),
              how : {"top", "members", "body", "local", "nested", "instance"},
              late : BOOLEAN]
StType    == [marks : Seq(MarkType), free : Seq(Blk), blks : Nat, seg : 0 .. MaxHunks,
              gen : Seq(NoteType), pend : Seq(Fn), fns : Seq(FnType),
              out : {"ok", "done", "unmark", "unmark1", "marklist"}]

\* There is a base mark, and marks that are on the list or free are distinct.
Apart(M, free, n) ==
  /\ M # <<>>
  /\ \A i, j \in 1 .. Len(M) : M[i].blk = M[j].blk => i = j
  /\ \A i, j \in 1 .. Len(free) : free[i] = free[j] => i = j
  /\ \A i \in 1 .. Len(M), j \in 1 .. Len(free) : M[i].blk # free[j]
  /\ \A i \in 1 .. Len(M) : M[i].blk <= n
  /\ \A i \in 1 .. Len(free) : free[i] <= n
  /\ \A b \in 1 .. n : \/ \E i \in 1 .. Len(M) : M[i].blk = b
                       \/ \E i \in 1 .. Len(free) : free[i] = b

BlocksApart(s) == Apart(s.marks, s.free, s.blks)

\* The base mark and the top one are not pending.
TopLive(M) == M # <<>> /\ M[1].blk = 1 /\ ~M[1].unmarked /\ ~M[Len(M)].unmarked

StOK(s) == s \in StType /\ Len(s.fns) <= MaxFns /\ BlocksApart(s) /\ TopLive(s.marks)

LEMMA StFields ==
  ASSUME NEW s \in StType
  PROVE  /\ s.marks \in Seq(MarkType) /\ s.free \in Seq(Blk) /\ s.blks \in Nat
         /\ s.seg \in 0 .. MaxHunks /\ s.gen \in Seq(NoteType) /\ s.pend \in Seq(Fn)
         /\ s.fns \in Seq(FnType) /\ s.out \in {"ok", "done", "unmark", "unmark1", "marklist"}
         /\ Len(s.marks) \in Nat /\ Len(s.free) \in Nat /\ Len(s.gen) \in Nat
         /\ Len(s.pend) \in Nat /\ Len(s.fns) \in Nat
BY LenProperties DEF StType

LEMMA MarkFields ==
  ASSUME NEW M \in Seq(MarkType), NEW i \in 1 .. Len(M)
  PROVE  M[i] \in MarkType /\ M[i].blk \in Blk /\ M[i].seg \in 0 .. MaxHunks /\ M[i].unmarked \in BOOLEAN
<1>1. M[i] \in MarkType
  BY ElementOfSeq
<1>2. M[i].blk \in Blk /\ M[i].seg \in 0 .. MaxHunks
  BY <1>1 DEF MarkType
<1>3. M[i].unmarked \in BOOLEAN
  BY <1>1 DEF MarkType
<1> QED BY <1>1, <1>2, <1>3

LEMMA FnFields ==
  ASSUME NEW G \in Seq(FnType), NEW f \in 1 .. Len(G)
  PROVE  /\ G[f] \in FnType /\ G[f].store \subseteq Nat /\ G[f].whole \in BOOLEAN
         /\ G[f].made \in Nat /\ G[f].only \in BOOLEAN
<1>1. G[f] \in FnType
  BY ElementOfSeq
<1>2. G[f].store \subseteq Nat /\ G[f].made \in Nat
  BY <1>1 DEF FnType
<1>3. G[f].whole \in BOOLEAN /\ G[f].only \in BOOLEAN
  BY <1>1 DEF FnType
<1> QED BY <1>1, <1>2, <1>3

\* What a step of the store leaves of the lists.
Lists(s, t) == t.gen = s.gen /\ t.pend = s.pend

\* Levels above n are given back.
Given(G, H, n) ==
  /\ Len(H) = Len(G)
  /\ \A f \in 1 .. Len(G) :
       /\ H[f].whole <=> G[f].whole /\ \A l \in G[f].store : l <= n
       /\ H[f].store = {l \in G[f].store : l <= n}
       /\ H[f].made = G[f].made /\ H[f].only = G[f].only

\* How a list of marks grows, is cut, and has one of its marks noted as pending.
Appended(M, N) ==
  /\ Len(N) = Len(M) + 1 /\ \A i \in 1 .. Len(M) : N[i] = M[i] /\ N[i].blk # N[Len(N)].blk
  /\ ~N[Len(N)].unmarked

Cut(M, N) ==
  /\ Len(N) \in 1 .. Len(M) - 1 /\ \A i \in 1 .. Len(N) : N[i] = M[i]
  /\ ~N[Len(N)].unmarked
  /\ \A i \in Len(N) + 1 .. Len(M) - 1 : M[i].unmarked

Flagged(M, N, b) ==
  /\ Len(N) = Len(M)
  /\ \A i \in 1 .. Len(M) :
       /\ N[i].blk = M[i].blk /\ N[i].seg = M[i].seg
       /\ N[i].unmarked <=> M[i].unmarked \/ (i # 1 /\ M[i].blk = b)

LEMMA LoseFacts ==
  ASSUME NEW x \in FnType, NEW n, NEW y,
         y = [x EXCEPT !.whole = x.whole /\ \A l \in x.store : l <= n,
                       !.store = {l \in x.store : l <= n}]
  PROVE  /\ y \in FnType
         /\ y.whole <=> (x.whole /\ \A l \in x.store : l <= n)
         /\ y.store = {l \in x.store : l <= n}
         /\ y.made = x.made /\ y.only = x.only
<1>1. {l \in x.store : l <= n} \in SUBSET Nat /\ x.whole \in BOOLEAN
  BY DEF FnType
<1>2. CASE \A l \in x.store : l <= n
  <2>1. (x.whole /\ \A l \in x.store : l <= n) = x.whole
    BY <1>1, <1>2
  <2>2. y = [x EXCEPT !.whole = x.whole, !.store = {l \in x.store : l <= n}]
    BY <2>1
  <2>3. PICK S \in SUBSET Nat : S = {l \in x.store : l <= n}
    BY <1>1
  <2>4. y = [x EXCEPT !.whole = x.whole, !.store = S]
    BY <2>2, <2>3
  <2>5. /\ y \in FnType /\ y.whole = x.whole /\ y.store = S
        /\ y.made = x.made /\ y.only = x.only
    BY <1>1, <2>4 DEF FnType
  <2> QED BY <1>2, <2>3, <2>5
<1>3. CASE ~\A l \in x.store : l <= n
  <2>1. (x.whole /\ \A l \in x.store : l <= n) = FALSE
    BY <1>3
  <2>2. y = [x EXCEPT !.whole = FALSE, !.store = {l \in x.store : l <= n}]
    BY <2>1
  <2>3. PICK S \in SUBSET Nat : S = {l \in x.store : l <= n}
    BY <1>1
  <2>4. y = [x EXCEPT !.whole = FALSE, !.store = S]
    BY <2>2, <2>3
  <2>5. /\ y \in FnType /\ y.whole = FALSE /\ y.store = S
        /\ y.made = x.made /\ y.only = x.only
    BY <1>1, <2>4 DEF FnType
  <2> QED BY <1>3, <2>3, <2>5
<1> QED BY <1>2, <1>3

LEMMA GiveBackFacts ==
  ASSUME NEW s \in StType, NEW n \in Nat
  PROVE  LET t == GiveBack(s, n)
         IN  t \in StType /\ t = [s EXCEPT !.fns = t.fns] /\ Given(s.fns, t.fns, n)
<1> DEFINE G == [f \in DOMAIN s.fns |->
                   [s.fns[f] EXCEPT !.whole = @ /\ \A l \in s.fns[f].store : l <= n,
                                    !.store = {l \in @ : l <= n}]]
<1>1. GiveBack(s, n) = [s EXCEPT !.fns = G]
  BY DEF GiveBack
<1>2. DOMAIN s.fns = 1 .. Len(s.fns) /\ Len(s.fns) \in Nat
  BY StFields, LenProperties
<1>3. ASSUME NEW f \in 1 .. Len(s.fns)
      PROVE  /\ G[f] \in FnType
             /\ G[f].whole <=> (s.fns[f].whole /\ \A l \in s.fns[f].store : l <= n)
             /\ G[f].store = {l \in s.fns[f].store : l <= n}
             /\ G[f].made = s.fns[f].made /\ G[f].only = s.fns[f].only
  <2>1. G[f] = [s.fns[f] EXCEPT !.whole = s.fns[f].whole /\ \A l \in s.fns[f].store : l <= n,
                                !.store = {l \in s.fns[f].store : l <= n}]
    BY <1>2
  <2>2. s.fns[f] \in FnType
    BY StFields, FnFields
  <2> HIDE DEF G
  <2> QED BY <2>1, <2>2, LoseFacts
<1>4. DOMAIN G = 1 .. Len(s.fns) /\ G = [f \in 1 .. Len(s.fns) |-> G[f]]
  BY <1>2
<1> HIDE DEF G
<1>7. G \in Seq(FnType) /\ Len(G) = Len(s.fns)
  BY <1>2, <1>3, <1>4, FnIsSeq
<1>5. [s EXCEPT !.fns = G] \in StType /\ [s EXCEPT !.fns = G].fns = G
  BY <1>7 DEF StType
<1>6. Given(s.fns, G, n)
  BY <1>3, <1>7 DEF Given
<1> QED BY <1>1, <1>5, <1>6

----------------------------------------------------------------------------
(* What the operations of the store do.                                    *)

LEMMA GivenLen ==
  ASSUME NEW s, NEW t, NEW n, Given(s.fns, t.fns, n)
  PROVE  Len(t.fns) = Len(s.fns)
BY DEF Given

LEMMA TopFacts ==
  ASSUME NEW s, StOK(s)
  PROVE  /\ s \in StType /\ Len(s.marks) \in Nat /\ Len(s.marks) >= 1 /\ Place(s) = Len(s.marks)
         /\ Top(s) = s.marks[Len(s.marks)] /\ Top(s).blk \in Blk /\ Top(s).seg \in 0 .. MaxHunks
         /\ Blk = Nat \ {0}
<1>1. s \in StType /\ s.marks # <<>> /\ s.marks \in Seq(MarkType)
  BY StFields DEF StOK, TopLive
<1>2. Len(s.marks) \in Nat \ {0}
  BY <1>1, EmptySeq
<1>3. Len(s.marks) \in 1 .. Len(s.marks)
  BY <1>2
<1> QED BY <1>1, <1>2, <1>3, MarkFields DEF Place, Top, Last, Blk

DropOf(s, t) ==
  /\ t.marks = s.marks /\ t.seg = Top(s).seg /\ Given(s.fns, t.fns, Len(s.marks) - 1)
  /\ Lists(s, t) /\ t.out = s.out

MarkOf(s, t) ==
  /\ Appended(s.marks, t.marks)
  /\ t.marks[Len(t.marks)].blk = Block(s) /\ t.marks[Len(t.marks)].seg = s.seg
  /\ t.seg = s.seg /\ t.fns = s.fns /\ Lists(s, t) /\ t.out = s.out

LEMMA DropDoes ==
  ASSUME NEW s, StOK(s) PROVE StOK(Drop(s)) /\ DropOf(s, Drop(s))
<1> DEFINE r == [s EXCEPT !.seg = Top(s).seg]
           n == Len(s.marks) - 1
<1>1. r \in StType /\ r.fns = s.fns /\ n \in Nat /\ Place(s) - 1 = n
  <2>1. s \in StType /\ Top(s).seg \in 0 .. MaxHunks /\ n \in Nat /\ Place(s) - 1 = n
    BY TopFacts
  <2>2. r \in StType /\ r.fns = s.fns
    BY <2>1 DEF StType
  <2> QED BY <2>1, <2>2
<1>2. PICK t : t = GiveBack(r, n)
  OBVIOUS
<1>3. t \in StType /\ t = [r EXCEPT !.fns = t.fns] /\ Given(r.fns, t.fns, n)
  BY <1>1, <1>2, GiveBackFacts
<1>4. Drop(s) = t
  BY <1>1, <1>2 DEF Drop
<1>5. s \in StType
  BY TopFacts
<1>6. t = [s EXCEPT !.seg = Top(s).seg, !.fns = t.fns]
  BY <1>3, <1>5 DEF StType
<1>7. t.marks = s.marks /\ t.free = s.free /\ t.blks = s.blks /\ Len(t.fns) = Len(s.fns)
  BY <1>1, <1>3, <1>5, <1>6, GivenLen DEF StType
<1>8. BlocksApart(t) /\ TopLive(t.marks)
  BY <1>7 DEF StOK, BlocksApart, Apart
<1>9. t.seg = Top(s).seg /\ t.gen = s.gen /\ t.pend = s.pend /\ t.out = s.out
  BY <1>5, <1>6 DEF StType
<1>10. StOK(t)
  BY <1>3, <1>7, <1>8 DEF StOK
<1>11. DropOf(s, t)
  BY <1>1, <1>3, <1>7, <1>9 DEF DropOf, Lists
<1> QED BY <1>4, <1>10, <1>11

LEMMA MarkDoes ==
  ASSUME NEW s, StOK(s) PROVE StOK(Mark(s)) /\ MarkOf(s, Mark(s)) /\ Block(s) \in Blk
<1> DEFINE b == Block(s)
           m == [blk |-> b, seg |-> s.seg, unmarked |-> FALSE]
           M == Append(s.marks, m)
           n == Len(s.marks)
<1>1. /\ s \in StType /\ s.marks \in Seq(MarkType) /\ s.free \in Seq(Blk) /\ s.blks \in Nat
      /\ s.seg \in 0 .. MaxHunks /\ n \in Nat /\ n >= 1 /\ BlocksApart(s) /\ TopLive(s.marks)
  BY StFields, TopFacts DEF StOK
<1>2. /\ b \in Blk /\ \A i \in 1 .. n : s.marks[i].blk \in Nat /\ s.marks[i].blk # b
  <2>1. CASE s.free = <<>>
    <3>1. b = s.blks + 1
      BY <2>1 DEF Block
    <3> QED BY <1>1, <3>1, MarkFields DEF BlocksApart, Apart, Blk
  <2>2. CASE s.free # <<>>
    <3>1. b = s.free[1] /\ 1 \in 1 .. Len(s.free) /\ b \in Blk
      BY <1>1, <2>2, EmptySeq, ElementOfSeq DEF Block
    <3> QED BY <1>1, <3>1, MarkFields DEF BlocksApart, Apart, Blk
  <2> QED BY <2>1, <2>2
<1>3. m \in MarkType
  BY <1>1, <1>2 DEF MarkType
<1> HIDE DEF m
<1>4. /\ M \in Seq(MarkType) /\ Len(M) = n + 1 /\ M # <<>>
      /\ \A i \in 1 .. n : M[i] = s.marks[i]
      /\ M[n + 1] = m
  BY <1>1, <1>3, AppendProperties
<1>5. PICK t : t = Mark(s)
  OBVIOUS
<1>6. /\ t.marks = M /\ t = [s EXCEPT !.marks = t.marks, !.free = t.free, !.blks = t.blks]
      /\ IF s.free = <<>> THEN t.blks = s.blks + 1 /\ t.free = <<>>
         ELSE t.blks = s.blks /\ t.free = Tail(s.free)
  BY <1>1, <1>5 DEF Mark, StType, m
<1> HIDE DEF M, b
<1>7. m.blk = b /\ m.unmarked = FALSE /\ m.seg = s.seg
  BY DEF m, b
<1>8. /\ t.free \in Seq(Blk) /\ t.blks \in Nat
      /\ \A i \in 1 .. Len(t.free) : t.free[i] # b /\ t.free[i] <= t.blks
      /\ \A i, j \in 1 .. Len(t.free) : t.free[i] = t.free[j] => i = j
      /\ \A i \in 1 .. n, j \in 1 .. Len(t.free) : s.marks[i].blk # t.free[j]
      /\ b <= t.blks /\ s.blks <= t.blks
      /\ \A c \in 1 .. t.blks : \/ c = b \/ \E i \in 1 .. n : s.marks[i].blk = c
                                \/ \E i \in 1 .. Len(t.free) : t.free[i] = c
  <2>1. CASE s.free = <<>>
    <3>1. b = s.blks + 1 /\ t.blks = s.blks + 1 /\ t.free = <<>> /\ Len(t.free) = 0
      BY <1>6, <2>1, EmptySeq DEF Block, b
    <3>2. \A c \in 1 .. t.blks : c = b \/ \E i \in 1 .. n : s.marks[i].blk = c
      <4>1. Len(s.free) = 0
        BY <2>1
      <4> QED BY <1>1, <3>1, <4>1 DEF BlocksApart, Apart
    <3> QED BY <1>1, <2>1, <3>1, <3>2
  <2>2. CASE s.free # <<>>
    <3>1. b = s.free[1] /\ 1 \in 1 .. Len(s.free) /\ Len(s.free) \in Nat
      BY <1>1, <2>2, EmptySeq, ElementOfSeq DEF Block, b
    <3>2. /\ t.free \in Seq(Blk) /\ Len(t.free) = Len(s.free) - 1 /\ t.blks = s.blks
          /\ \A i \in 1 .. Len(t.free) : t.free[i] = s.free[i + 1]
      <4>1. t.free = Tail(s.free) /\ t.blks = s.blks
        BY <1>6, <2>2
      <4> QED BY <1>1, <2>2, <4>1, HeadTailProperties
    <3>3. \A i \in 1 .. Len(t.free) : i + 1 \in 1 .. Len(s.free) /\ i + 1 # 1
      BY <3>1, <3>2
    <3>4. /\ \A i \in 1 .. Len(t.free) : t.free[i] # b /\ t.free[i] <= t.blks
          /\ \A i, j \in 1 .. Len(t.free) : t.free[i] = t.free[j] => i = j
          /\ \A i \in 1 .. n, j \in 1 .. Len(t.free) : s.marks[i].blk # t.free[j]
          /\ b <= t.blks /\ s.blks <= t.blks
      BY <1>1, <3>1, <3>2, <3>3 DEF BlocksApart, Apart
    <3>5. ASSUME NEW c \in 1 .. t.blks, c # b, ~\E i \in 1 .. n : s.marks[i].blk = c
          PROVE  \E i \in 1 .. Len(t.free) : t.free[i] = c
      <4>1. PICK i \in 1 .. Len(s.free) : s.free[i] = c
        BY <1>1, <3>2, <3>5 DEF BlocksApart, Apart
      <4>2. i # 1 /\ i - 1 \in 1 .. Len(t.free)
        BY <3>1, <3>2, <3>5, <4>1
      <4>3. t.free[i - 1] = s.free[i]
        BY <3>2, <4>2
      <4> QED BY <4>1, <4>2, <4>3
    <3> QED BY <1>1, <3>2, <3>4, <3>5
  <2> QED BY <2>1, <2>2
<1>9. t \in StType
  <2>1. t.marks \in Seq(MarkType) /\ t.free \in Seq(Blk) /\ t.blks \in Nat
    BY <1>4, <1>6, <1>8
  <2>2. t = [s EXCEPT !.marks = t.marks, !.free = t.free, !.blks = t.blks]
    BY <1>6
  <2> QED BY <1>1, <2>1, <2>2 DEF StType
<1>10. BlocksApart(t)
  <2>1. /\ \A i, j \in 1 .. n + 1 : M[i].blk = M[j].blk => i = j
        /\ \A i \in 1 .. n + 1 : M[i].blk <= t.blks
        /\ \A i \in 1 .. n + 1, j \in 1 .. Len(t.free) : M[i].blk # t.free[j]
    <3>1. \A i \in 1 .. n + 1 : i = n + 1 \/ i \in 1 .. n
      BY <1>1
    <3>2. \A i \in 1 .. n : s.marks[i].blk <= t.blks
      <4>1. \A i \in 1 .. n : s.marks[i].blk <= s.blks
        BY <1>1 DEF BlocksApart, Apart
      <4> QED BY <1>1, <1>2, <1>8, <4>1
    <3>3. /\ \A i \in 1 .. n : M[i].blk = s.marks[i].blk /\ M[i].blk # b
          /\ M[n + 1].blk = b
      BY <1>2, <1>4, <1>7
    <3>4. \A i, j \in 1 .. n : s.marks[i].blk = s.marks[j].blk => i = j
      BY <1>1 DEF BlocksApart, Apart
    <3>5. \A i, j \in 1 .. n + 1 : M[i].blk = M[j].blk => i = j
      BY <3>1, <3>3, <3>4
    <3>6. \A i \in 1 .. n + 1 : M[i].blk <= t.blks
      BY <1>8, <3>1, <3>2, <3>3
    <3>7. \A i \in 1 .. n + 1, j \in 1 .. Len(t.free) : M[i].blk # t.free[j]
      BY <1>8, <3>1, <3>3
    <3> QED BY <3>5, <3>6, <3>7
  <2>2. \A c \in 1 .. t.blks : \/ \E i \in 1 .. n + 1 : M[i].blk = c
                               \/ \E i \in 1 .. Len(t.free) : t.free[i] = c
    <3>1. n + 1 \in 1 .. n + 1 /\ \A i \in 1 .. n : i \in 1 .. n + 1
      BY <1>1
    <3>2. M[n + 1].blk = b /\ \A i \in 1 .. n : M[i].blk = s.marks[i].blk
      BY <1>4, <1>7
    <3> QED BY <1>8, <3>1, <3>2
  <2>3. t.marks = M /\ Len(t.marks) = n + 1 /\ t.marks # <<>>
    BY <1>4, <1>6
  <2>4. /\ \A i \in 1 .. Len(t.free) : t.free[i] <= t.blks
        /\ \A i, j \in 1 .. Len(t.free) : t.free[i] = t.free[j] => i = j
    BY <1>8
  <2> QED BY <2>1, <2>2, <2>3, <2>4 DEF BlocksApart, Apart
<1>11. TopLive(t.marks)
  <2>1. M[1] = s.marks[1] /\ ~M[Len(M)].unmarked
    BY <1>1, <1>4, <1>7
  <2> QED BY <1>1, <1>4, <1>6, <2>1 DEF TopLive
<1>12. Appended(s.marks, t.marks)
  BY <1>1, <1>2, <1>4, <1>6, <1>7 DEF Appended
<1>13. t.marks[Len(t.marks)].blk = b /\ t.marks[Len(t.marks)].seg = s.seg
  BY <1>1, <1>4, <1>6, <1>7
<1>14. t.fns = s.fns /\ t.seg = s.seg /\ t.gen = s.gen /\ t.pend = s.pend /\ t.out = s.out
  BY <1>1, <1>6 DEF StType
<1>15. StOK(t)
  BY <1>9, <1>10, <1>11, <1>14 DEF StOK
<1>16. MarkOf(s, t)
  BY <1>12, <1>13, <1>14 DEF MarkOf, Lists, b
<1> QED BY <1>2, <1>5, <1>15, <1>16 DEF b

LEMMA LeftFacts ==
  ASSUME NEW M, Len(M) \in Nat, Len(M) >= 2, ~M[1].unmarked
  PROVE  LET k == Left(M)
         IN  /\ k \in 1 .. Len(M) - 1 /\ ~M[k].unmarked
             /\ \A j \in k + 1 .. Len(M) - 1 : M[j].unmarked
<1> DEFINE S == {k \in 1 .. Len(M) - 1 : ~M[k].unmarked}
<1>1. S \subseteq 0 .. Len(M) /\ 1 \in S
  OBVIOUS
<1>2. PICK k \in S : \A j \in S : j <= k
  <2>1. S # {}
    BY <1>1
  <2> HIDE DEF S
  <2> QED BY <1>1, <2>1, HasGreatest
<1>3. k \in 1 .. Len(M) - 1 /\ ~M[k].unmarked
  OBVIOUS
<1>4. ASSUME NEW j \in k + 1 .. Len(M) - 1 PROVE M[j].unmarked
  <2>1. j \in 1 .. Len(M) - 1 /\ ~(j <= k)
    BY <1>3
  <2> QED BY <1>2, <2>1
<1> HIDE DEF S
<1>5. \E i \in 1 .. Len(M) - 1 :
        ~M[i].unmarked /\ \A j \in i + 1 .. Len(M) - 1 : M[j].unmarked
  BY <1>3, <1>4
<1> QED BY <1>5 DEF Left

LEMMA FreedFacts ==
  ASSUME NEW M \in Seq(MarkType), NEW k \in 1 .. Len(M)
  PROVE  /\ Freed(M, k) \in Seq(Blk) /\ Len(Freed(M, k)) = Len(M) - k
         /\ \A i \in 1 .. Len(M) - k : Freed(M, k)[i] = M[k + i].blk
<1>1. Len(M) \in Nat
  BY LenProperties
<1>2. PICK B : B = Blocks(M)
  OBVIOUS
<1>3. B = [i \in 1 .. Len(M) |-> B[i]] /\ \A i \in 1 .. Len(M) : B[i] = M[i].blk /\ B[i] \in Blk
  BY <1>2, MarkFields DEF Blocks
<1>4. B \in Seq(Blk) /\ Len(B) = Len(M)
  BY <1>1, <1>3, FnIsSeq
<1>5. /\ SubSeq(B, k + 1, Len(B)) \in Seq(Blk) /\ Len(SubSeq(B, k + 1, Len(B))) = Len(B) - k
      /\ \A i \in 1 .. Len(B) - k : SubSeq(B, k + 1, Len(B))[i] = B[k + i]
  <2>1. k \in 0 .. Len(B)
    BY <1>1, <1>4
  <2> QED BY <1>4, <2>1, SubSeqFacts
<1>6. Freed(M, k) = SubSeq(B, k + 1, Len(B))
  BY <1>2, <1>4 DEF Freed
<1>7. \A i \in 1 .. Len(M) - k : k + i \in 1 .. Len(M)
  BY <1>1
<1> QED BY <1>3, <1>4, <1>5, <1>6, <1>7

\* Two lists one after the other.
Joined(A, B, C) ==
  /\ Len(C) = Len(A) + Len(B)
  /\ \A j \in 1 .. Len(A) : C[j] = A[j]
  /\ \A j \in 1 .. Len(B) : C[Len(A) + j] = B[j]

LEMMA ConcatParts ==
  ASSUME NEW S, NEW A \in Seq(S), NEW B \in Seq(S)
  PROVE  A \o B \in Seq(S) /\ Joined(A, B, A \o B)
<1>1. PICK C : C = A \o B
  OBVIOUS
<1>2. Len(A) \in Nat /\ Len(B) \in Nat
  BY LenProperties
<1>3. /\ C \in Seq(S) /\ Len(C) = Len(A) + Len(B)
      /\ \A i \in 1 .. Len(A) + Len(B) : C[i] = IF i <= Len(A) THEN A[i] ELSE B[i - Len(A)]
  BY <1>1, ConcatProperties
<1>4. ASSUME NEW j \in 1 .. Len(A) PROVE C[j] = A[j]
  BY <1>2, <1>3
<1>5. ASSUME NEW j \in 1 .. Len(B) PROVE C[Len(A) + j] = B[j]
  <2>1. /\ Len(A) + j \in 1 .. Len(A) + Len(B) /\ ~(Len(A) + j <= Len(A))
        /\ (Len(A) + j) - Len(A) = j
    BY <1>2
  <2> QED BY <1>3, <2>1
<1> QED BY <1>1, <1>3, <1>4, <1>5 DEF Joined

\* The marks above the k-th are undone, and their blocks are free.
LEMMA CutApart ==
  ASSUME NEW M, NEW N, NEW A, NEW B, NEW G, NEW k, NEW n,
         Len(M) \in Nat, Len(A) \in Nat, k \in 1 .. Len(M), Apart(M, A, n),
         Len(N) = k, \A i \in 1 .. k : N[i] = M[i], N # <<>>,
         Len(G) = Len(M) - k, \A i \in 1 .. Len(M) - k : G[i] = M[k + i].blk,
         Joined(G, A, B)
  PROVE  Apart(N, B, n)
<1>1. /\ \A i, j \in 1 .. Len(M) : M[i].blk = M[j].blk => i = j
      /\ \A i, j \in 1 .. Len(A) : A[i] = A[j] => i = j
      /\ \A i \in 1 .. Len(M), j \in 1 .. Len(A) : M[i].blk # A[j]
      /\ \A i \in 1 .. Len(M) : M[i].blk <= n
      /\ \A i \in 1 .. Len(A) : A[i] <= n
      /\ \A b \in 1 .. n : \/ \E i \in 1 .. Len(M) : M[i].blk = b
                           \/ \E i \in 1 .. Len(A) : A[i] = b
  BY DEF Apart
<1>2. ASSUME NEW i \in 1 .. Len(B)
      PROVE  \/ i <= Len(M) - k /\ k + i \in 1 .. Len(M) /\ B[i] = M[k + i].blk
             \/ i > Len(M) - k /\ i - Len(G) \in 1 .. Len(A) /\ B[i] = A[i - Len(G)]
  <2>1. CASE i <= Len(M) - k
    <3>1. i \in 1 .. Len(G) /\ k + i \in 1 .. Len(M)
      BY <2>1
    <3>2. B[i] = G[i]
      BY <3>1 DEF Joined
    <3> QED BY <2>1, <3>1, <3>2
  <2>2. CASE ~(i <= Len(M) - k)
    <3>1. i \in 1 .. Len(G) + Len(A)
      BY DEF Joined
    <3>2. i - Len(G) \in 1 .. Len(A) /\ Len(G) + (i - Len(G)) = i /\ i > Len(M) - k
      BY <2>2, <3>1
    <3>3. B[Len(G) + (i - Len(G))] = A[i - Len(G)]
      BY <3>2 DEF Joined
    <3> QED BY <3>2, <3>3
  <2> QED BY <2>1, <2>2
<1>3. /\ \A i \in 1 .. Len(A) : Len(G) + i \in 1 .. Len(B) /\ B[Len(G) + i] = A[i]
      /\ \A i \in k + 1 .. Len(M) : i - k \in 1 .. Len(B) /\ B[i - k] = M[i].blk
  <2>1. Len(B) = Len(G) + Len(A)
    BY DEF Joined
  <2>2. ASSUME NEW i \in k + 1 .. Len(M)
        PROVE  i - k \in 1 .. Len(B) /\ B[i - k] = M[i].blk
    <3>1. i - k \in 1 .. Len(G) /\ i - k \in 1 .. Len(B) /\ k + (i - k) = i
      BY <2>1
    <3>2. B[i - k] = G[i - k]
      BY <3>1 DEF Joined
    <3> QED BY <3>1, <3>2
  <2>3. ASSUME NEW i \in 1 .. Len(A)
        PROVE  Len(G) + i \in 1 .. Len(B) /\ B[Len(G) + i] = A[i]
    <3>1. Len(G) + i \in 1 .. Len(B)
      BY <2>1
    <3> QED BY <3>1 DEF Joined
  <2> QED BY <2>2, <2>3
<1>4. \A i \in 1 .. k : i \in 1 .. Len(M) /\ N[i].blk = M[i].blk
  OBVIOUS
<1>5. \A i, j \in 1 .. k : N[i].blk = N[j].blk => i = j
  BY <1>1, <1>4
<1>6. ASSUME NEW i \in 1 .. Len(B), NEW j \in 1 .. Len(B), B[i] = B[j] PROVE i = j
  <2>1. ASSUME NEW a \in 1 .. Len(M), NEW c \in 1 .. Len(A) PROVE M[a].blk # A[c]
    BY <1>1
  <2>2. ASSUME NEW a \in 1 .. Len(M), NEW c \in 1 .. Len(M), M[a].blk = M[c].blk PROVE a = c
    BY <1>1, <2>2
  <2>3. ASSUME NEW a \in 1 .. Len(A), NEW c \in 1 .. Len(A), A[a] = A[c] PROVE a = c
    BY <1>1, <2>3
  <2>4. CASE k + i \in 1 .. Len(M) /\ B[i] = M[k + i].blk /\ k + j \in 1 .. Len(M) /\ B[j] = M[k + j].blk
    <3>1. M[k + i].blk = M[k + j].blk
      BY <1>6, <2>4
    <3>2. k + i = k + j
      BY <2>2, <2>4, <3>1
    <3> QED BY <3>2
  <2>5. CASE k + i \in 1 .. Len(M) /\ B[i] = M[k + i].blk /\ j - Len(G) \in 1 .. Len(A) /\ B[j] = A[j - Len(G)]
    <3>1. M[k + i].blk # A[j - Len(G)]
      BY <2>1, <2>5
    <3> QED BY <1>6, <2>5, <3>1
  <2>6. CASE k + j \in 1 .. Len(M) /\ B[j] = M[k + j].blk /\ i - Len(G) \in 1 .. Len(A) /\ B[i] = A[i - Len(G)]
    <3>1. M[k + j].blk # A[i - Len(G)]
      BY <2>1, <2>6
    <3> QED BY <1>6, <2>6, <3>1
  <2>7. CASE i - Len(G) \in 1 .. Len(A) /\ B[i] = A[i - Len(G)] /\ j - Len(G) \in 1 .. Len(A) /\ B[j] = A[j - Len(G)]
    <3>1. A[i - Len(G)] = A[j - Len(G)]
      BY <1>6, <2>7
    <3>2. i - Len(G) = j - Len(G)
      BY <2>3, <2>7, <3>1
    <3> QED BY <3>2
  <2>8. /\ (k + i \in 1 .. Len(M) /\ B[i] = M[k + i].blk) \/ (i - Len(G) \in 1 .. Len(A) /\ B[i] = A[i - Len(G)])
        /\ (k + j \in 1 .. Len(M) /\ B[j] = M[k + j].blk) \/ (j - Len(G) \in 1 .. Len(A) /\ B[j] = A[j - Len(G)])
    BY <1>2
  <2> QED BY <2>4, <2>5, <2>6, <2>7, <2>8
<1>7. ASSUME NEW i \in 1 .. k, NEW j \in 1 .. Len(B) PROVE N[i].blk # B[j]
  <2>1. CASE k + j \in 1 .. Len(M) /\ B[j] = M[k + j].blk
    <3>1. k + j # i
      OBVIOUS
    <3> QED BY <1>1, <1>4, <2>1, <3>1
  <2>2. CASE j - Len(G) \in 1 .. Len(A) /\ B[j] = A[j - Len(G)]
    BY <1>1, <1>4, <2>2
  <2> QED BY <1>2, <2>1, <2>2
<1>8. \A j \in 1 .. Len(B) : B[j] <= n
  BY <1>1, <1>2
<1>9. \A i \in 1 .. k : N[i].blk <= n
  BY <1>1, <1>4
<1>10. ASSUME NEW b \in 1 .. n
       PROVE  \/ \E i \in 1 .. k : N[i].blk = b
              \/ \E i \in 1 .. Len(B) : B[i] = b
  <2>1. CASE \E i \in 1 .. Len(M) : M[i].blk = b
    <3>1. PICK i \in 1 .. Len(M) : M[i].blk = b
      BY <2>1
    <3>2. i \in 1 .. k \/ i \in k + 1 .. Len(M)
      OBVIOUS
    <3> QED BY <1>3, <1>4, <3>1, <3>2
  <2>2. CASE \E i \in 1 .. Len(A) : A[i] = b
    <3>1. PICK i \in 1 .. Len(A) : A[i] = b
      BY <2>2
    <3>2. Len(G) + i \in 1 .. Len(B) /\ B[Len(G) + i] = b
      BY <1>3, <3>1
    <3> QED BY <3>2
  <2> QED BY <1>1, <2>1, <2>2
<1> QED BY <1>5, <1>6, <1>7, <1>8, <1>9, <1>10 DEF Apart

\* What alloc_unmark(b) may come to.
NoSuchMark(s, t, b) ==
  /\ \A i \in 2 .. Len(s.marks) : s.marks[i].blk # b
  /\ t.marks = s.marks /\ t.seg = s.seg /\ t.fns = s.fns /\ t.out = "unmark"

NotDropped(s, t) ==
  /\ s.seg > Top(s).seg
  /\ t.marks = s.marks /\ t.seg = s.seg /\ t.fns = s.fns /\ t.out = "unmark1"

CutBack(s, t) ==
  /\ s.seg <= Top(s).seg
  /\ Cut(s.marks, t.marks) /\ t.seg = s.marks[Len(t.marks) + 1].seg
  /\ Given(s.fns, t.fns, Len(t.marks)) /\ t.out = s.out

JustNoted(s, t, b) ==
  /\ Top(s).blk # b /\ \E i \in 2 .. Len(s.marks) : s.marks[i].blk = b
  /\ Flagged(s.marks, t.marks, b) /\ t.seg = s.seg /\ t.fns = s.fns /\ t.out = s.out

UnmarkOf(s, t, b) ==
  /\ Lists(s, t)
  /\ \/ NoSuchMark(s, t, b)
     \/ Top(s).blk = b /\ Len(s.marks) >= 2 /\ (NotDropped(s, t) \/ CutBack(s, t))
     \/ JustNoted(s, t, b)

LEMMA UnmarkTopFacts ==
  ASSUME NEW s, StOK(s), Len(s.marks) >= 2
  PROVE  /\ StOK(UnmarkTop(s)) /\ Lists(s, UnmarkTop(s))
         /\ NotDropped(s, UnmarkTop(s)) \/ CutBack(s, UnmarkTop(s))
<1>1. /\ s \in StType /\ s.marks \in Seq(MarkType) /\ Len(s.marks) \in Nat /\ s.free \in Seq(Blk)
      /\ s.seg \in 0 .. MaxHunks /\ Top(s).seg \in 0 .. MaxHunks /\ ~s.marks[1].unmarked
      /\ Len(s.free) \in Nat /\ Top(s) = s.marks[Len(s.marks)] /\ s.blks \in Nat
      /\ Len(s.fns) <= MaxFns /\ BlocksApart(s) /\ TopLive(s.marks)
  BY StFields, TopFacts DEF StOK, TopLive
<1>2. PICK k : k = Left(s.marks)
  OBVIOUS
<1>3. /\ k \in 1 .. Len(s.marks) - 1 /\ ~s.marks[k].unmarked
      /\ \A j \in k + 1 .. Len(s.marks) - 1 : s.marks[j].unmarked
  <2>1. Len(s.marks) \in Nat /\ Len(s.marks) >= 2 /\ ~s.marks[1].unmarked
    BY <1>1
  <2> QED BY <1>2, <2>1, LeftFacts
<1>4. CASE s.seg > Top(s).seg
  <2>1. PICK t : t = UnmarkTop(s)
    OBVIOUS
  <2>2. t = [s EXCEPT !.out = "unmark1"]
    BY <1>4, <2>1 DEF UnmarkTop
  <2>3. StOK(t)
    BY <1>1, <2>2 DEF StOK, StType, BlocksApart
  <2>4. Lists(s, t) /\ NotDropped(s, t)
    BY <1>1, <1>4, <2>2 DEF Lists, NotDropped, StType
  <2> QED BY <2>1, <2>3, <2>4
<1>5. CASE ~(s.seg > Top(s).seg)
  <2>1. PICK N : N = SubSeq(s.marks, 1, k)
    OBVIOUS
  <2>2. PICK G : G = Freed(s.marks, k)
    OBVIOUS
  <2>3. PICK B : B = G \o s.free
    OBVIOUS
  <2>4. PICK h : h = s.marks[k + 1].seg
    OBVIOUS
  <2>5. N \in Seq(MarkType) /\ Len(N) = k /\ \A i \in 1 .. k : N[i] = s.marks[i]
    <3>1. k \in 0 .. Len(s.marks) /\ s.marks \in Seq(MarkType)
      BY <1>1, <1>3
    <3> QED BY <2>1, <3>1, SubSeqFacts
  <2>6. /\ G \in Seq(Blk) /\ Len(G) = Len(s.marks) - k
        /\ \A i \in 1 .. Len(s.marks) - k : G[i] = s.marks[k + i].blk
    <3>1. k \in 1 .. Len(s.marks) /\ s.marks \in Seq(MarkType)
      BY <1>1, <1>3
    <3> QED BY <2>2, <3>1, FreedFacts
  <2>7. B \in Seq(Blk) /\ Joined(G, s.free, B)
    <3>1. G \in Seq(Blk) /\ s.free \in Seq(Blk)
      BY <1>1, <2>6
    <3> QED BY <2>3, <3>1, ConcatParts
  <2>8. h \in 0 .. MaxHunks
    <3>1. k + 1 \in 1 .. Len(s.marks)
      BY <1>1, <1>3
    <3> QED BY <1>1, <2>4, <3>1, MarkFields
  <2>9. PICK r : r = [s EXCEPT !.marks = N, !.free = B, !.seg = h]
    OBVIOUS
  <2>10. /\ r \in StType /\ r.marks = N /\ r.free = B /\ r.seg = h /\ r.fns = s.fns /\ r.blks = s.blks
         /\ r.gen = s.gen /\ r.pend = s.pend /\ r.out = s.out
    BY <1>1, <2>5, <2>7, <2>8, <2>9 DEF StType
  <2>11. PICK t : t = GiveBack(r, k)
    OBVIOUS
  <2>12. t \in StType /\ t = [r EXCEPT !.fns = t.fns] /\ Given(s.fns, t.fns, k)
    <3>1. k \in Nat
      BY <1>1, <1>3
    <3>2. t \in StType /\ t = [r EXCEPT !.fns = t.fns] /\ Given(r.fns, t.fns, k)
      BY <2>10, <2>11, <3>1, GiveBackFacts
    <3> QED BY <2>10, <3>2
  <2>13. UnmarkTop(s) = t
    <3>1. UnmarkTop(s) = GiveBack([s EXCEPT !.marks = SubSeq(@, 1, k), !.free = Freed(s.marks, k) \o @,
                                            !.seg = s.marks[k + 1].seg], k)
      BY <1>2, <1>5 DEF UnmarkTop
    <3>2. [s EXCEPT !.marks = SubSeq(@, 1, k), !.free = Freed(s.marks, k) \o @,
                    !.seg = s.marks[k + 1].seg] = r
      BY <2>1, <2>2, <2>3, <2>4, <2>9
    <3> QED BY <2>11, <3>1, <3>2
  <2>14. /\ t.marks = N /\ t.free = B /\ t.seg = h /\ t.blks = s.blks
         /\ t.gen = s.gen /\ t.pend = s.pend /\ t.out = s.out
    BY <1>1, <2>9, <2>10, <2>12 DEF StType
  <2>15. Cut(s.marks, N) /\ N # <<>> /\ N[1] = s.marks[1]
    <3>1. \A i \in 1 .. Len(N) : N[i] = s.marks[i]
      BY <2>5
    <3>2. Len(N) \in 1 .. Len(s.marks) - 1 /\ ~N[Len(N)].unmarked
      BY <1>3, <2>5
    <3>3. N # <<>> /\ 1 \in 1 .. Len(N)
      BY <2>5, <3>2, EmptySeq
    <3> QED BY <1>3, <2>5, <3>1, <3>2, <3>3 DEF Cut
  <2>16. TopLive(N)
    BY <1>1, <2>15 DEF TopLive, Cut
  <2>17. Apart(N, B, s.blks)
    <3>1. Apart(s.marks, s.free, s.blks)
      BY <1>1 DEF BlocksApart
    <3>2. k \in 1 .. Len(s.marks)
      BY <1>1, <1>3
    <3>3. /\ Len(N) = k /\ N # <<>> /\ Len(G) = Len(s.marks) - k
      BY <2>5, <2>6, <2>15
    <3> QED BY <1>1, <2>5, <2>6, <2>7, <3>1, <3>2, <3>3, CutApart
  <2>18. Len(t.fns) <= MaxFns
    BY <1>1, <2>12, GivenLen
  <2>19. StOK(t)
    BY <2>12, <2>14, <2>16, <2>17, <2>18 DEF StOK, BlocksApart
  <2>20. t.seg = s.marks[Len(t.marks) + 1].seg /\ Given(s.fns, t.fns, Len(t.marks))
    BY <2>4, <2>5, <2>12, <2>14
  <2>21. s.seg <= Top(s).seg
    BY <1>1, <1>5
  <2>22. Lists(s, t) /\ CutBack(s, t)
    BY <2>14, <2>15, <2>20, <2>21 DEF Lists, CutBack
  <2> QED BY <2>13, <2>19, <2>22
<1> QED BY <1>4, <1>5

MarkedBy(s, b) == {j \in 2 .. Len(s.marks) : s.marks[j].blk = b}

FlagAll(s, At) ==
  [s EXCEPT !.marks = [i \in DOMAIN s.marks |->
     [s.marks[i] EXCEPT !.unmarked = @ \/ i \in At]]]

LEMMA FlagRecord ==
  ASSUME NEW x \in MarkType, NEW y
  PROVE  /\ y = [x EXCEPT !.unmarked = TRUE] => y \in MarkType /\ y.blk = x.blk /\ y.seg = x.seg /\ y.unmarked
         /\ y = [x EXCEPT !.unmarked = x.unmarked] => y = x
BY DEF MarkType

LEMMA ApartSame ==
  ASSUME NEW M, NEW N, NEW A, NEW n, Apart(M, A, n), N # <<>>, Len(N) = Len(M),
         \A i \in 1 .. Len(M) : N[i].blk = M[i].blk
  PROVE  Apart(N, A, n)
<1>1. \A i, j \in 1 .. Len(N) : N[i].blk = N[j].blk => i = j
  BY DEF Apart
<1>2. \A i \in 1 .. Len(N), j \in 1 .. Len(A) : N[i].blk # A[j]
  BY DEF Apart
<1>3. \A i \in 1 .. Len(N) : N[i].blk <= n
  BY DEF Apart
<1>4. \A i, j \in 1 .. Len(A) : A[i] = A[j] => i = j
  BY DEF Apart
<1>5. \A b \in 1 .. n : \/ \E i \in 1 .. Len(N) : N[i].blk = b
                        \/ \E i \in 1 .. Len(A) : A[i] = b
  BY DEF Apart
<1>6. \A i \in 1 .. Len(A) : A[i] <= n
  BY DEF Apart
<1> QED BY <1>1, <1>2, <1>3, <1>4, <1>5, <1>6 DEF Apart

LEMMA FlagFacts ==
  ASSUME NEW s, StOK(s), NEW b, Top(s).blk # b, MarkedBy(s, b) # {}
  PROVE  LET t == FlagAll(s, MarkedBy(s, b))
         IN  StOK(t) /\ Lists(s, t) /\ JustNoted(s, t, b)
<1>0. PICK At : At = MarkedBy(s, b)
  OBVIOUS
<1>1. /\ s \in StType /\ s.marks \in Seq(MarkType) /\ Len(s.marks) \in Nat /\ Len(s.marks) >= 1
      /\ Top(s) = s.marks[Len(s.marks)] /\ BlocksApart(s) /\ TopLive(s.marks) /\ Len(s.fns) <= MaxFns
      /\ DOMAIN s.marks = 1 .. Len(s.marks)
  BY StFields, TopFacts, LenProperties DEF StOK
<1>2. PICK N : N = [i \in DOMAIN s.marks |-> [s.marks[i] EXCEPT !.unmarked = s.marks[i].unmarked \/ i \in At]]
  OBVIOUS
<1>3. ASSUME NEW i \in 1 .. Len(s.marks)
      PROVE  /\ N[i] \in MarkType /\ N[i].blk = s.marks[i].blk /\ N[i].seg = s.marks[i].seg
             /\ N[i].unmarked <=> s.marks[i].unmarked \/ (i # 1 /\ s.marks[i].blk = b)
  <2>1. PICK x : x = s.marks[i]
    OBVIOUS
  <2>2. x \in MarkType
    BY <1>1, <2>1, MarkFields
  <2>3. CASE i # 1 /\ x.blk = b
    <3>1. i \in At
      BY <1>0, <1>1, <2>1, <2>3 DEF MarkedBy
    <3>2. N[i] = [x EXCEPT !.unmarked = TRUE]
      BY <1>1, <1>2, <2>1, <3>1
    <3> QED BY <2>1, <2>2, <2>3, <3>2, FlagRecord
  <2>4. CASE ~(i # 1 /\ x.blk = b)
    <3>1. i \notin At
      BY <1>0, <1>1, <2>1, <2>4 DEF MarkedBy
    <3>2. (x.unmarked \/ i \in At) = x.unmarked
      BY <2>2, <3>1 DEF MarkType
    <3>3. N[i] = [x EXCEPT !.unmarked = x.unmarked]
      BY <1>1, <1>2, <2>1, <3>2
    <3>4. N[i] = x
      BY <2>2, <3>3, FlagRecord
    <3> QED BY <2>1, <2>2, <2>4, <3>4
  <2> QED BY <2>3, <2>4
<1>4. N = [i \in 1 .. Len(s.marks) |-> N[i]]
  BY <1>1, <1>2
<1>5. PICK t : t = FlagAll(s, At)
  OBVIOUS
<1>6. t = [s EXCEPT !.marks = N]
  BY <1>2, <1>5 DEF FlagAll
<1>7. N \in Seq(MarkType) /\ Len(N) = Len(s.marks)
  <2>1. \A i \in 1 .. Len(s.marks) : N[i] \in MarkType
    BY <1>3
  <2> QED BY <1>1, <1>4, <2>1, FnIsSeq
<1>8. /\ t \in StType /\ t.marks = N /\ t.free = s.free /\ t.blks = s.blks /\ t.fns = s.fns
      /\ t.seg = s.seg /\ t.out = s.out /\ t.gen = s.gen /\ t.pend = s.pend
  BY <1>1, <1>6, <1>7 DEF StType
<1>9. Flagged(s.marks, N, b)
  BY <1>3, <1>7 DEF Flagged
<1>10. N # <<>>
  BY <1>1, <1>7, EmptySeq
<1>11. Apart(N, s.free, s.blks)
  <2>1. Apart(s.marks, s.free, s.blks)
    BY <1>1 DEF BlocksApart
  <2>2. Len(N) = Len(s.marks) /\ \A i \in 1 .. Len(s.marks) : N[i].blk = s.marks[i].blk
    BY <1>3, <1>7
  <2> QED BY <1>10, <2>1, <2>2, ApartSame
<1>12. TopLive(N)
  <2>2. 1 \in 1 .. Len(s.marks) /\ Len(s.marks) \in 1 .. Len(s.marks)
    BY <1>1
  <2>3. N[1].blk = 1 /\ ~N[1].unmarked
    BY <1>1, <1>3, <2>2 DEF TopLive
  <2>4. ~N[Len(N)].unmarked
    BY <1>1, <1>3, <1>7, <2>2 DEF TopLive
  <2> QED BY <1>10, <2>3, <2>4 DEF TopLive
<1>13. \E i \in 2 .. Len(s.marks) : s.marks[i].blk = b
  BY DEF MarkedBy
<1>14. StOK(t)
  BY <1>1, <1>8, <1>11, <1>12 DEF StOK, BlocksApart
<1>15. Lists(s, t) /\ JustNoted(s, t, b)
  BY <1>8, <1>9, <1>13 DEF Lists, JustNoted
<1> QED BY <1>0, <1>5, <1>14, <1>15

LEMMA UnmarkFacts ==
  ASSUME NEW s, StOK(s), NEW b
  PROVE  StOK(Unmark(s, b)) /\ UnmarkOf(s, Unmark(s, b), b)
<1>1. /\ Len(s.marks) \in Nat /\ Len(s.marks) >= 1 /\ Place(s) = Len(s.marks) /\ s \in StType
      /\ Top(s) = s.marks[Len(s.marks)]
  BY TopFacts
<1>2. {i \in 2 .. Place(s) : s.marks[i].blk = b} = MarkedBy(s, b)
  BY <1>1 DEF MarkedBy
<1>3. CASE MarkedBy(s, b) = {}
  <2>1. PICK t : t = [s EXCEPT !.out = "unmark"]
    OBVIOUS
  <2>2. Unmark(s, b) = t
    BY <1>2, <1>3, <2>1 DEF Unmark
  <2>3. StOK(t)
    BY <1>1, <2>1 DEF StOK, StType, BlocksApart
  <2>4. \A i \in 2 .. Len(s.marks) : s.marks[i].blk # b
    BY <1>3 DEF MarkedBy
  <2>5. Lists(s, t) /\ NoSuchMark(s, t, b)
    BY <1>1, <2>1, <2>4 DEF Lists, NoSuchMark, StType
  <2> QED BY <2>2, <2>3, <2>5 DEF UnmarkOf
<1>4. CASE MarkedBy(s, b) # {} /\ Top(s).blk = b
  <2>1. PICK t : t = UnmarkTop(s)
    OBVIOUS
  <2>2. Unmark(s, b) = t
    BY <1>2, <1>4, <2>1 DEF Unmark
  <2>3. Len(s.marks) >= 2
    BY <1>1, <1>4 DEF MarkedBy
  <2>4. StOK(t) /\ Lists(s, t) /\ (NotDropped(s, t) \/ CutBack(s, t))
    BY <2>1, <2>3, UnmarkTopFacts
  <2> QED BY <1>4, <2>2, <2>3, <2>4 DEF UnmarkOf
<1>5. CASE MarkedBy(s, b) # {} /\ Top(s).blk # b
  <2>1. PICK t : t = Unmark(s, b)
    OBVIOUS
  <2>2. t = FlagAll(s, MarkedBy(s, b))
    BY <1>2, <1>5, <2>1 DEF Unmark, FlagAll
  <2>3. StOK(t) /\ Lists(s, t) /\ JustNoted(s, t, b)
    BY <1>5, <2>2, FlagFacts
  <2> QED BY <2>1, <2>3 DEF UnmarkOf
<1> QED BY <1>3, <1>4, <1>5

----------------------------------------------------------------------------
(* What is done to the functions.                                          *)

\* A piece at level n; one function more; one made.
Pieced(G, H, f, n) ==
  /\ Len(H) = Len(G)
  /\ \A g \in 1 .. Len(G) :
       /\ H[g].whole = G[g].whole /\ H[g].made = G[g].made /\ H[g].only = G[g].only
       /\ g # f => H[g].store = G[g].store
       /\ g = f => H[g].store = G[g].store \cup {n}

Grown(G, H, only) ==
  /\ Len(H) = Len(G) + 1 /\ \A g \in 1 .. Len(G) : H[g] = G[g]
  /\ H[Len(H)] = [store |-> {}, whole |-> TRUE, made |-> 0, only |-> only]

OneMade(G, H, f) ==
  /\ Len(H) = Len(G)
  /\ \A g \in 1 .. Len(G) :
       /\ H[g].whole = G[g].whole /\ H[g].only = G[g].only
       /\ g # f => H[g] = G[g]
       /\ g = f => H[g].store = {} /\ H[g].made = G[g].made + 1

\* The store is as it was, but for its functions.
Still(s, t) ==
  t.marks = s.marks /\ t.seg = s.seg /\ Lists(s, t) /\ t.out = s.out

LEMMA NewFunctions ==
  ASSUME NEW s, StOK(s), NEW G \in Seq(FnType), Len(G) <= MaxFns, NEW t, t = [s EXCEPT !.fns = G]
  PROVE  StOK(t) /\ Still(s, t) /\ t.fns = G
<1>1. s \in StType
  BY TopFacts
<1>2. /\ t \in StType /\ t.marks = s.marks /\ t.free = s.free /\ t.blks = s.blks /\ t.seg = s.seg
      /\ t.gen = s.gen /\ t.pend = s.pend /\ t.out = s.out /\ t.fns = G
  BY <1>1 DEF StType
<1>3. StOK(t)
  BY <1>2 DEF StOK, BlocksApart
<1> QED BY <1>2, <1>3 DEF Still, Lists

LEMMA PieceDoes ==
  ASSUME NEW s, StOK(s), NEW f
  PROVE  /\ StOK(Piece(s, f)) /\ Still(s, Piece(s, f))
         /\ Pieced(s.fns, Piece(s, f).fns, f, Len(s.marks))
<1>1. /\ s \in StType /\ Len(s.marks) \in Nat /\ Place(s) = Len(s.marks)
      /\ s.fns \in Seq(FnType) /\ Len(s.fns) \in Nat /\ DOMAIN s.fns = 1 .. Len(s.fns) /\ Len(s.fns) <= MaxFns
  BY TopFacts, StFields, LenProperties DEF StOK
<1>2. PICK n : n = Len(s.marks)
  OBVIOUS
<1>3. PICK H : H = [s.fns EXCEPT ![f] = [s.fns[f] EXCEPT !.store = s.fns[f].store \cup {n}]]
  OBVIOUS
<1>4. PICK t : t = Piece(s, f)
  OBVIOUS
<1>5. t = [s EXCEPT !.fns = H]
  BY <1>1, <1>2, <1>3, <1>4 DEF Piece, StType
<1>6. ASSUME NEW g \in 1 .. Len(s.fns)
      PROVE  /\ H[g] \in FnType
             /\ H[g].whole = s.fns[g].whole /\ H[g].made = s.fns[g].made /\ H[g].only = s.fns[g].only
             /\ g # f => H[g].store = s.fns[g].store
             /\ g = f => H[g].store = s.fns[g].store \cup {n}
  <2>1. s.fns[g] \in FnType /\ n \in Nat
    BY <1>1, <1>2, FnFields
  <2>2. CASE g # f
    BY <1>1, <1>3, <2>1, <2>2
  <2>3. CASE g = f
    <3>1. H[g] = [s.fns[g] EXCEPT !.store = s.fns[g].store \cup {n}]
      BY <1>1, <1>3, <2>3
    <3> QED BY <2>1, <2>3, <3>1 DEF FnType
  <2> QED BY <2>2, <2>3
<1>7. H = [g \in 1 .. Len(s.fns) |-> H[g]]
  BY <1>1, <1>3
<1>8. H \in Seq(FnType) /\ Len(H) = Len(s.fns)
  <2>1. \A g \in 1 .. Len(s.fns) : H[g] \in FnType
    BY <1>6
  <2> QED BY <1>1, <1>7, <2>1, FnIsSeq
<1>9. StOK(t) /\ Still(s, t) /\ t.fns = H
  BY <1>1, <1>5, <1>8, NewFunctions
<1>10. Pieced(s.fns, H, f, n)
  BY <1>6, <1>8 DEF Pieced
<1> QED BY <1>2, <1>4, <1>9, <1>10

LEMMA MadeDoes ==
  ASSUME NEW s, StOK(s), NEW f
  PROVE  StOK(Made(s, f)) /\ Still(s, Made(s, f)) /\ OneMade(s.fns, Made(s, f).fns, f)
<1>1. /\ s \in StType /\ s.fns \in Seq(FnType) /\ Len(s.fns) \in Nat
      /\ DOMAIN s.fns = 1 .. Len(s.fns) /\ Len(s.fns) <= MaxFns
  BY TopFacts, StFields, LenProperties DEF StOK
<1>2. PICK H : H = [s.fns EXCEPT ![f] = [s.fns[f] EXCEPT !.made = s.fns[f].made + 1, !.store = {}]]
  OBVIOUS
<1>3. PICK t : t = Made(s, f)
  OBVIOUS
<1>4. t = [s EXCEPT !.fns = H]
  <2>1. t = [[s EXCEPT !.fns[f].made = s.fns[f].made + 1] EXCEPT !.fns[f].store = {}]
    BY <1>3 DEF Made
  <2> QED BY <1>1, <1>2, <2>1 DEF StType
<1>5. ASSUME NEW g \in 1 .. Len(s.fns)
      PROVE  /\ H[g] \in FnType
             /\ H[g].whole = s.fns[g].whole /\ H[g].only = s.fns[g].only
             /\ g # f => H[g] = s.fns[g]
             /\ g = f => H[g].store = {} /\ H[g].made = s.fns[g].made + 1
  <2>1. s.fns[g] \in FnType
    BY <1>1, FnFields
  <2>2. CASE g # f
    BY <1>1, <1>2, <2>1, <2>2
  <2>3. CASE g = f
    <3>1. H[g] = [s.fns[g] EXCEPT !.made = s.fns[g].made + 1, !.store = {}]
      BY <1>1, <1>2, <2>3
    <3>2. PICK x \in FnType : x = s.fns[g]
      BY <2>1
    <3>3. PICK m \in Nat : m = x.made + 1
      BY DEF FnType
    <3>4. PICK y : y = [x EXCEPT !.made = m, !.store = {}]
      OBVIOUS
    <3>5. y \in FnType /\ y.whole = x.whole /\ y.only = x.only /\ y.store = {} /\ y.made = m
      BY <3>4 DEF FnType
    <3>6. H[g] = y
      BY <3>1, <3>2, <3>3, <3>4
    <3> QED BY <2>3, <3>2, <3>3, <3>5, <3>6
  <2> QED BY <2>2, <2>3
<1>6. H = [g \in 1 .. Len(s.fns) |-> H[g]]
  BY <1>1, <1>2
<1>7. H \in Seq(FnType) /\ Len(H) = Len(s.fns)
  <2>1. \A g \in 1 .. Len(s.fns) : H[g] \in FnType
    BY <1>5
  <2> QED BY <1>1, <1>6, <2>1, FnIsSeq
<1>8. StOK(t) /\ Still(s, t) /\ t.fns = H
  BY <1>1, <1>4, <1>7, NewFunctions
<1>9. OneMade(s.fns, H, f)
  BY <1>5, <1>7 DEF OneMade
<1> QED BY <1>3, <1>8, <1>9

LEMMA NewFnDoes ==
  ASSUME NEW s, StOK(s), NEW only \in BOOLEAN, Len(s.fns) < MaxFns
  PROVE  StOK(NewFn(s, only)) /\ Still(s, NewFn(s, only)) /\ Grown(s.fns, NewFn(s, only).fns, only)
<1>1. s \in StType /\ s.fns \in Seq(FnType) /\ Len(s.fns) \in Nat
  BY TopFacts, StFields
<1>2. PICK e : e = [store |-> {}, whole |-> TRUE, made |-> 0, only |-> only]
  OBVIOUS
<1>3. e \in FnType
  BY <1>2 DEF FnType
<1>4. PICK H : H = Append(s.fns, e)
  OBVIOUS
<1>5. /\ H \in Seq(FnType) /\ Len(H) = Len(s.fns) + 1
      /\ \A g \in 1 .. Len(s.fns) : H[g] = s.fns[g]
      /\ H[Len(s.fns) + 1] = e
  BY <1>1, <1>3, <1>4, AppendProperties
<1>6. PICK t : t = NewFn(s, only)
  OBVIOUS
<1>7. t = [s EXCEPT !.fns = H]
  BY <1>1, <1>2, <1>4, <1>6 DEF NewFn
<1>8. Len(H) <= MaxFns
  BY <1>1, <1>5, GeneratedAssumption
<1>9. StOK(t) /\ Still(s, t) /\ t.fns = H
  BY <1>5, <1>7, <1>8, NewFunctions
<1>10. Grown(s.fns, H, only)
  BY <1>2, <1>5 DEF Grown
<1> QED BY <1>6, <1>9, <1>10

\* One function more, with pieces at the levels S.
Alike(x, y) ==
  y.store = x.store /\ y.whole = x.whole /\ y.made = x.made /\ y.only = x.only

GrownBy(G, H, S, only) ==
  /\ Len(H) = Len(G) + 1 /\ \A g \in 1 .. Len(G) : Alike(G[g], H[g])
  /\ H[Len(H)].store = S /\ H[Len(H)].whole /\ H[Len(H)].made = 0 /\ H[Len(H)].only = only

\* A list with one element in front.
Consed(g, h, e) ==
  Len(h) = Len(g) + 1 /\ h[1] = e /\ \A i \in 1 .. Len(g) : h[i + 1] = g[i]

NoteOf(s, t, f) ==
  /\ Appended(s.marks, t.marks) /\ t.marks[Len(t.marks)].seg = s.seg
  /\ Consed(s.gen, t.gen, [fn |-> f, mark |-> t.marks[Len(t.marks)].blk]) /\ Tail(t.gen) = s.gen
  /\ Pieced(s.fns, t.fns, f, Len(s.marks))
  /\ t.seg = s.seg /\ t.pend = s.pend /\ t.out = s.out

\* A function that the debugger's tables make, and generated at once.
Extra(s, t) ==
  /\ "debug" \in features
  /\ Appended(s.marks, t.marks) /\ t.marks[Len(t.marks)].seg = s.seg
  /\ Consed(s.gen, t.gen, [fn |-> Len(s.fns) + 1, mark |-> t.marks[Len(t.marks)].blk])
  /\ Tail(t.gen) = s.gen
  /\ GrownBy(s.fns, t.fns, {Len(s.marks)}, FALSE)
  /\ t.seg = s.seg /\ t.pend = s.pend /\ t.out = s.out

LEMMA GrownIsBy ==
  ASSUME NEW G, NEW H, NEW only, Grown(G, H, only)
  PROVE  GrownBy(G, H, {}, only)
BY DEF Grown, GrownBy, Alike

LEMMA GrownPieced ==
  ASSUME NEW G, NEW H, NEW I, NEW only, NEW n, Len(G) \in Nat,
         GrownBy(G, H, {}, only), Pieced(H, I, Len(H), n)
  PROVE  GrownBy(G, I, {n}, only)
<1>1. Len(H) = Len(G) + 1 /\ Len(I) = Len(H) /\ Len(H) \in 1 .. Len(H)
  BY DEF GrownBy, Pieced
<1>2. ASSUME NEW g \in 1 .. Len(G) PROVE Alike(G[g], I[g])
  <2>1. g \in 1 .. Len(H) /\ g # Len(H)
    BY <1>1
  <2>2. Alike(G[g], H[g])
    BY DEF GrownBy
  <2> QED BY <2>1, <2>2 DEF Alike, Pieced
<1>3. I[Len(H)].store = {} \cup {n} /\ I[Len(H)].made = 0 /\ I[Len(H)].only = only
  BY <1>1 DEF GrownBy, Pieced
<1>4. I[Len(H)].whole = H[Len(H)].whole
  BY <1>1 DEF Pieced
<1>5. I[Len(H)].whole
  BY <1>4 DEF GrownBy
<1> QED BY <1>1, <1>2, <1>3, <1>5 DEF GrownBy

LEMMA NewPieceDoes ==
  ASSUME NEW s, StOK(s), NEW only \in BOOLEAN, Len(s.fns) < MaxFns, NEW n, n = NewFn(s, only)
  PROVE  LET t == Piece(n, Newest(n))
         IN  /\ StOK(t) /\ Still(s, t) /\ GrownBy(s.fns, t.fns, {Len(s.marks)}, only)
             /\ Newest(n) = Len(s.fns) + 1
<1>1. StOK(n) /\ Still(s, n) /\ Grown(s.fns, n.fns, only)
  BY NewFnDoes
<1>2. Newest(n) = Len(n.fns) /\ Len(n.fns) = Len(s.fns) + 1 /\ n.marks = s.marks
  BY <1>1 DEF Newest, Grown, Still
<1>3. PICK t : t = Piece(n, Newest(n))
  OBVIOUS
<1>4. StOK(t) /\ Still(n, t) /\ Pieced(n.fns, t.fns, Len(n.fns), Len(s.marks))
  BY <1>1, <1>2, <1>3, PieceDoes
<1>5. Len(s.fns) \in Nat
  BY StFields DEF StOK
<1>6. GrownBy(s.fns, n.fns, {}, only)
  BY <1>1, GrownIsBy
<1>7. GrownBy(s.fns, t.fns, {Len(s.marks)}, only)
  BY <1>4, <1>5, <1>6, GrownPieced
<1>8. Still(s, t)
  BY <1>1, <1>4 DEF Still, Lists
<1> QED BY <1>2, <1>3, <1>4, <1>7, <1>8

LEMMA NoteDoes ==
  ASSUME NEW s, StOK(s), NEW f \in Fn
  PROVE  StOK(Note(s, f)) /\ NoteOf(s, Note(s, f), f)
<1>1. PICK p : p = Piece(s, f)
  OBVIOUS
<1>2. StOK(p) /\ Still(s, p) /\ Pieced(s.fns, p.fns, f, Len(s.marks))
  BY <1>1, PieceDoes
<1>3. PICK m : m = Mark(p)
  OBVIOUS
<1>4. StOK(m) /\ MarkOf(p, m)
  BY <1>2, <1>3, MarkDoes
<1>5. PICK b : b = Top(m).blk
  OBVIOUS
<1>6. b = m.marks[Len(m.marks)].blk /\ b \in Blk /\ m \in StType
  BY <1>4, <1>5, TopFacts
<1>7. PICK e : e = [fn |-> f, mark |-> b]
  OBVIOUS
<1>8. e \in NoteType
  BY <1>6, <1>7 DEF NoteType
<1>9. PICK h : h = <<e>> \o m.gen
  OBVIOUS
<1>10. h \in Seq(NoteType) /\ Consed(m.gen, h, e) /\ Tail(h) = m.gen
  <2>1. m.gen \in Seq(NoteType) /\ Len(m.gen) \in Nat
    BY <1>6, StFields
  <2>2. /\ h \in Seq(NoteType) /\ Len(h) = Len(m.gen) + 1 /\ h[1] = e /\ Tail(h) = m.gen
        /\ \A i \in 2 .. Len(m.gen) + 1 : h[i] = m.gen[i - 1]
    BY <1>8, <1>9, <2>1, ConsFacts
  <2>3. ASSUME NEW i \in 1 .. Len(m.gen) PROVE h[i + 1] = m.gen[i]
    <3>1. i + 1 \in 2 .. Len(m.gen) + 1 /\ (i + 1) - 1 = i
      BY <2>1
    <3> QED BY <2>2, <3>1
  <2> QED BY <2>2, <2>3 DEF Consed
<1>11. PICK t : t = Note(s, f)
  OBVIOUS
<1>12. t = [m EXCEPT !.gen = h]
  BY <1>1, <1>3, <1>5, <1>7, <1>9, <1>11 DEF Note
<1>13. /\ t \in StType /\ t.gen = h /\ t.marks = m.marks /\ t.free = m.free /\ t.blks = m.blks
       /\ t.seg = m.seg /\ t.pend = m.pend /\ t.fns = m.fns /\ t.out = m.out
  BY <1>6, <1>10, <1>12 DEF StType
<1>14. StOK(t)
  BY <1>4, <1>13 DEF StOK, BlocksApart
<1>15. /\ m.gen = s.gen /\ m.pend = s.pend /\ m.seg = s.seg /\ m.out = s.out /\ m.fns = p.fns
       /\ Appended(s.marks, m.marks) /\ m.marks[Len(m.marks)].seg = s.seg
  BY <1>2, <1>4 DEF Still, MarkOf, Lists
<1>16. NoteOf(s, t, f)
  BY <1>2, <1>6, <1>7, <1>10, <1>13, <1>15 DEF NoteOf
<1> QED BY <1>11, <1>14, <1>16

LEMMA DescribedDoes ==
  ASSUME NEW s, StOK(s), NEW t \in Described(s)
  PROVE  StOK(t) /\ (t = s \/ Extra(s, t))
<1>1. CASE t = s
  BY <1>1
<1>2. CASE t # s
  <2>1. PICK n : n = NewFn(s, FALSE)
    OBVIOUS
  <2>2. "debug" \in features /\ Newest(s) < MaxFns /\ t = Note(n, Newest(n))
    BY <1>2, <2>1 DEF Described
  <2>3. Len(s.fns) < MaxFns /\ Len(s.fns) \in Nat
    BY <2>2, StFields DEF Newest, StOK
  <2>4. StOK(n) /\ Still(s, n) /\ Grown(s.fns, n.fns, FALSE)
    BY <2>1, <2>3, NewFnDoes
  <2>5. Newest(n) = Len(n.fns) /\ Len(n.fns) = Len(s.fns) + 1
    BY <2>4 DEF Newest, Grown
  <2>6. Len(n.fns) \in Fn
    BY <2>3, <2>5, GeneratedAssumption DEF Fn
  <2>7. StOK(t) /\ NoteOf(n, t, Len(n.fns))
    BY <2>2, <2>4, <2>5, <2>6, NoteDoes
  <2>8. GrownBy(s.fns, n.fns, {}, FALSE)
    BY <2>4, GrownIsBy
  <2>9. n.marks = s.marks /\ n.gen = s.gen /\ n.pend = s.pend /\ n.seg = s.seg /\ n.out = s.out
    BY <2>4 DEF Still, Lists
  <2>10. GrownBy(s.fns, t.fns, {Len(s.marks)}, FALSE)
    <3>1. Pieced(n.fns, t.fns, Len(n.fns), Len(s.marks))
      BY <2>7, <2>9 DEF NoteOf
    <3> QED BY <2>3, <2>8, <3>1, GrownPieced
  <2>11. Extra(s, t)
    BY <2>2, <2>5, <2>7, <2>9, <2>10 DEF Extra, NoteOf
  <2> QED BY <2>7, <2>11
<1> QED BY <1>1, <1>2

----------------------------------------------------------------------------
(* The parser's stack.                                                     *)

On(c) == c[Len(c)]

Pushed(c, d)   == Len(d) = Len(c) + 1 /\ \A i \in 1 .. Len(c) : d[i] = c[i]
Popped(c, d)   == c # <<>> /\ Len(d) = Len(c) - 1 /\ \A i \in 1 .. Len(d) : d[i] = c[i]
Retopped(c, d) == c # <<>> /\ Len(d) = Len(c) /\ \A i \in 1 .. Len(c) - 1 : d[i] = c[i]

FrameIs(r, k, f, m, saved, how) ==
  r \in FrameType /\ r.k = k /\ r.fn = f /\ r.mark = m /\ r.saved = saved /\ r.how = how

LEMMA PushFacts ==
  ASSUME NEW c \in Seq(FrameType), NEW r \in FrameType
  PROVE  /\ Append(c, r) \in Seq(FrameType) /\ Pushed(c, Append(c, r)) /\ On(Append(c, r)) = r
         /\ Append(c, r) # <<>>
<1>1. Len(c) \in Nat
  BY LenProperties
<1>2. PICK d : d = Append(c, r)
  OBVIOUS
<1>3. /\ d \in Seq(FrameType) /\ Len(d) = Len(c) + 1 /\ d[Len(c) + 1] = r /\ d # <<>>
      /\ \A i \in 1 .. Len(c) : d[i] = c[i]
  BY <1>2, AppendProperties
<1> QED BY <1>1, <1>2, <1>3 DEF Pushed, On

LEMMA PopFacts ==
  ASSUME NEW c \in Seq(FrameType), c # <<>>
  PROVE  /\ Front(c) \in Seq(FrameType) /\ Popped(c, Front(c)) /\ Last(c) = On(c) /\ On(c) \in FrameType
         /\ Len(c) \in Nat \ {0}
<1>1. PICK d : d = Front(c)
  OBVIOUS
<1>2. /\ d \in Seq(FrameType) /\ Len(d) = Len(c) - 1
      /\ \A i \in 1 .. Len(c) - 1 : d[i] = c[i]
      /\ Last(c) = c[Len(c)] /\ Last(c) \in FrameType /\ Len(c) \in Nat \ {0}
  BY <1>1, FrontFacts
<1> QED BY <1>1, <1>2 DEF Popped, On

LEMMA RetopFacts ==
  ASSUME NEW c \in Seq(FrameType), c # <<>>, NEW r \in FrameType
  PROVE  /\ Append(Front(c), r) \in Seq(FrameType) /\ Retopped(c, Append(Front(c), r))
         /\ On(Append(Front(c), r)) = r /\ Append(Front(c), r) # <<>>
<1>1. PICK e : e = Front(c)
  OBVIOUS
<1>2. e \in Seq(FrameType) /\ Popped(c, e) /\ Len(c) \in Nat \ {0}
  BY <1>1, PopFacts
<1>3. PICK d : d = Append(e, r)
  OBVIOUS
<1>4. d \in Seq(FrameType) /\ Pushed(e, d) /\ On(d) = r /\ d # <<>>
  BY <1>2, <1>3, PushFacts
<1>5. Retopped(c, d)
  BY <1>2, <1>4 DEF Pushed, Popped, Retopped
<1> QED BY <1>1, <1>3, <1>4, <1>5

LEMMA FramePlain ==
  ASSUME NEW k \in FrameK, NEW f \in Nat
  PROVE  FrameIs(Frame(k, f), k, f, 0, <<>>, "top")
<1>1. PICK r : r = Frame(k, f)
  OBVIOUS
<1>2. r = [k |-> k, fn |-> f, mark |-> 0, saved |-> <<>>, how |-> "top", late |-> FALSE]
  BY <1>1 DEF Frame
<1>3. PICK q : q = r
  OBVIOUS
<1>4. <<>> \in Seq(Fn)
  OBVIOUS
<1>5. FrameIs(q, k, f, 0, <<>>, "top")
  BY <1>2, <1>3, <1>4 DEF FrameIs, FrameType
<1> QED BY <1>1, <1>3, <1>5

LEMMA FrameMarked ==
  ASSUME NEW k \in FrameK, NEW f \in Nat, NEW m \in Nat
  PROVE  FrameIs([Frame(k, f) EXCEPT !.mark = m], k, f, m, <<>>, "top")
<1>1. PICK r : r = Frame(k, f)
  OBVIOUS
<1>2. r = [k |-> k, fn |-> f, mark |-> 0, saved |-> <<>>, how |-> "top", late |-> FALSE]
  BY <1>1 DEF Frame
<1>3. PICK q : q = [r EXCEPT !.mark = m]
  OBVIOUS
<1>4. <<>> \in Seq(Fn)
  OBVIOUS
<1>5. FrameIs(q, k, f, m, <<>>, "top")
  BY <1>2, <1>3, <1>4 DEF FrameIs, FrameType
<1> QED BY <1>1, <1>3, <1>5

LEMMA FrameLoop ==
  ASSUME NEW k \in FrameK, NEW f \in Nat, NEW m \in Nat, NEW p \in Seq(Fn),
         NEW r, r = Frame(k, f), NEW q, q = [r EXCEPT !.mark = m, !.saved = p]
  PROVE  FrameIs(q, k, f, m, p, "top")
<1>1. PICK x : x = [r EXCEPT !.mark = m]
  OBVIOUS
<1>2. FrameIs(x, k, f, m, <<>>, "top")
  BY <1>1, FrameMarked
<1>3. q = [x EXCEPT !.saved = p]
  BY <1>1
<1> QED BY <1>2, <1>3 DEF FrameIs, FrameType

LEMMA FrameHow ==
  ASSUME NEW k \in FrameK, NEW f \in Nat, NEW h \in {"local", "nested", "instance"}
  PROVE  FrameIs([Frame(k, f) EXCEPT !.how = h], k, f, 0, <<>>, h)
<1>1. PICK r : r = Frame(k, f)
  OBVIOUS
<1>2. r = [k |-> k, fn |-> f, mark |-> 0, saved |-> <<>>, how |-> "top", late |-> FALSE]
  BY <1>1 DEF Frame
<1>3. PICK q : q = [r EXCEPT !.how = h]
  OBVIOUS
<1>4. <<>> \in Seq(Fn)
  OBVIOUS
<1>5. FrameIs(q, k, f, 0, <<>>, h)
  BY <1>2, <1>3, <1>4 DEF FrameIs, FrameType
<1> QED BY <1>1, <1>3, <1>5

LEMMA FrameLocal ==
  ASSUME NEW k \in FrameK, NEW f \in Nat, NEW p \in Seq(Fn),
         NEW r, r = Frame(k, f), NEW q, q = [r EXCEPT !.how = "local", !.saved = p]
  PROVE  FrameIs(q, k, f, 0, p, "local")
<1>1. PICK x : x = [r EXCEPT !.how = "local"]
  OBVIOUS
<1>2. FrameIs(x, k, f, 0, <<>>, "local")
  BY <1>1, FrameHow
<1>3. q = [x EXCEPT !.saved = p]
  BY <1>1
<1> QED BY <1>2, <1>3 DEF FrameIs, FrameType

LEMMA FrameNextHow ==
  ASSUME NEW r \in FrameType, NEW h \in {"members", "body"}
  PROVE  FrameIs([r EXCEPT !.how = h], r.k, r.fn, r.mark, r.saved, h)
BY DEF FrameIs, FrameType

LEMMA FrameLate ==
  ASSUME NEW r \in FrameType
  PROVE  FrameIs([r EXCEPT !.late = TRUE], r.k, r.fn, r.mark, r.saved, r.how)
BY DEF FrameIs, FrameType

LEMMA FrameFields ==
  ASSUME NEW c \in Seq(FrameType), NEW i \in 1 .. Len(c)
  PROVE  /\ c[i] \in FrameType /\ c[i].k \in FrameK /\ c[i].fn \in Nat /\ c[i].mark \in Nat
         /\ c[i].saved \in Seq(Fn) /\ Len(c[i].saved) \in Nat
         /\ c[i].how \in {"top", "members", "body", "local", "nested", "instance"}
<1>1. c[i] \in FrameType
  BY ElementOfSeq
<1>2. c[i].saved \in Seq(Fn)
  BY <1>1 DEF FrameType
<1>3. Len(c[i].saved) \in Nat
  BY <1>2, LenProperties
<1>4. /\ c[i].k \in FrameK /\ c[i].fn \in Nat /\ c[i].mark \in Nat
      /\ c[i].how \in {"top", "members", "body", "local", "nested", "instance"}
  BY <1>1 DEF FrameType
<1> QED BY <1>1, <1>2, <1>3, <1>4

\* Types; what is being built is a function.
TypeInv(s, c) ==
  /\ StOK(s) /\ c \in Seq(FrameType)
  /\ \A i \in 1 .. Len(c) : c[i].k = "build" => c[i].fn \in Fn

----------------------------------------------------------------------------
(* What each action does, in these terms.                                  *)

\* compile_statements drops local store; the loops do not.
EntryOf(s, c, e) == StOK(e) /\ IF c = <<>> THEN DropOf(s, e) ELSE e = s

DescribedOf(s, t) == StOK(t) /\ (t = s \/ Extra(s, t))

CallingOf(s, c) == c = <<>> \/ (c # <<>> /\ On(c).k = "loop")

GenTaken(x, y) ==
  /\ y.marks = x.marks /\ y.seg = x.seg /\ y.fns = x.fns /\ y.pend = x.pend /\ y.out = x.out
  /\ Consed(y.gen, x.gen, x.gen[1]) /\ x.gen # <<>>

PendIs(x, y, p) ==
  /\ y.marks = x.marks /\ y.seg = x.seg /\ y.fns = x.fns /\ y.gen = x.gen /\ y.out = x.out
  /\ y.pend = p

GeneratedOf(s, c, t, d) ==
  /\ CallingOf(s, c) /\ s.gen # <<>>
  /\ \E e, x, y : /\ EntryOf(s, c, e) /\ DescribedOf(e, x) /\ StOK(y) /\ GenTaken(x, y)
                  /\ UnmarkOf(y, t, s.gen[1].mark)
  /\ Pushed(c, d) /\ FrameIs(On(d), "cg", s.gen[1].fn, 0, <<>>, "top")

PendingOf(s, c, t, d) ==
  /\ CallingOf(s, c) /\ s.gen = <<>> /\ s.pend # <<>>
  /\ \E e, x : /\ EntryOf(s, c, e) /\ PendIs(e, x, Tail(s.pend)) /\ StOK(x)
               /\ Consed(x.pend, s.pend, s.pend[1])
               /\ Still(x, t) /\ Pieced(x.fns, t.fns, s.pend[1], Len(x.marks))
  /\ Pushed(c, d) /\ FrameIs(On(d), "fn", s.pend[1], 0, <<>>, "top")

SourceOf(s, c, t, d) ==
  /\ c = <<>> /\ ~Waiting(s)
  /\ \E e : /\ StOK(e) /\ DropOf(s, e)
            /\ \/ \E only \in BOOLEAN :
                    /\ Still(e, t) /\ GrownBy(e.fns, t.fns, {Len(e.marks)}, only)
                    /\ FrameIs(On(d), "fn", Len(e.fns) + 1, 0, <<>>, "top")
               \/ t = e /\ FrameIs(On(d), "decl", 0, 0, <<>>, "top")
  /\ Pushed(c, d)

EndOfFileOf(s, c, t, d) ==
  /\ c = <<>> /\ ~Waiting(s)
  /\ \E e : /\ StOK(e) /\ DropOf(s, e)
            /\ t.marks = e.marks /\ t.seg = e.seg /\ t.fns = e.fns /\ Lists(e, t)
            /\ t.out = IF Len(s.marks) = 1 THEN "done" ELSE "marklist"
  /\ d = c

ReadOf(s, c, t, d) ==
  /\ c # <<>> /\ On(c).k \in {"fn", "build"}
  /\ t.marks = s.marks /\ Lists(s, t) /\ t.out = s.out /\ t.seg \in {s.seg, s.seg + 1}
  /\ Pieced(s.fns, t.fns, On(c).fn, Len(s.marks))
  /\ d = c

DescribeOf(s, c, t, d) ==
  /\ c # <<>> /\ On(c).k \in {"fn", "decl"}
  /\ Extra(s, t) /\ d = c

HeadOf(s, c, t, d) ==
  /\ c # <<>> /\ On(c).k = "fn"
  /\ DescribedOf(s, t)
  /\ Retopped(c, d) /\ FrameIs(On(d), "fn", On(c).fn, On(c).mark, On(c).saved, "members")

MembersOf(s, c, t, d) ==
  /\ c # <<>> /\ On(c).k = "fn"
  /\ \E b : /\ Retopped(c, b) /\ FrameIs(On(b), "fn", On(c).fn, On(c).mark, On(c).saved, "body")
            /\ b \in Seq(FrameType) /\ b # <<>>
            /\ \/ t = s /\ d = b
               \/ /\ "core" \in features
                  /\ Still(s, t) /\ GrownBy(s.fns, t.fns, {}, FALSE)
                  /\ Pushed(b, d) /\ FrameIs(On(d), "build", Len(s.fns) + 1, 0, <<>>, "top")

NotedOf(s, c, t, d) ==
  /\ c # <<>> /\ On(c).k = "build"
  /\ NoteOf(s, t, On(c).fn) /\ Popped(c, d)

EndFnOf(s, c, t, d) ==
  /\ c # <<>> /\ On(c).k = "fn"
  /\ \/ /\ s.fns[On(c).fn].only
        /\ Still(s, t) /\ OneMade(s.fns, t.fns, On(c).fn) /\ Popped(c, d)
     \/ /\ ~s.fns[On(c).fn].only
        /\ t = s /\ Retopped(c, d) /\ FrameIs(On(d), "cg", On(c).fn, On(c).mark, <<>>, "top")

CompiledOf(s, c, t, d) ==
  /\ c # <<>> /\ On(c).k = "cg"
  /\ \E x, y, z :
       /\ DescribedOf(s, x) /\ StOK(y) /\ Still(x, y) /\ OneMade(x.fns, y.fns, On(c).fn)
       /\ StOK(z) /\ DropOf(y, z)
       /\ \/ On(c).mark = 0 /\ t = z
          \/ On(c).mark # 0 /\ \E w : StOK(w) /\ DropOf(z, w) /\ UnmarkOf(w, t, On(c).mark)
  /\ Popped(c, d)

UsingOf(c) ==
  /\ c # <<>> /\ On(c).k \in {"fn", "decl", "build"}
  /\ On(c).k = "build" => "build" \in features

InstanceFnOf(s, c, t, d) ==
  /\ UsingOf(c)
  /\ \E m : /\ StOK(m) /\ MarkOf(s, m)
            /\ Still(m, t) /\ GrownBy(m.fns, t.fns, {Len(m.marks)}, FALSE)
            /\ FrameIs(On(d), "fn", Len(s.fns) + 1, m.marks[Len(m.marks)].blk, <<>>, "top")
  /\ Pushed(c, d)

InstanceClassOf(s, c, t, d) ==
  /\ UsingOf(c) \/ (c # <<>> /\ On(c).k = "class")
  /\ t = s /\ Pushed(c, d) /\ FrameIs(On(d), "class", 0, 0, <<>>, "instance")

LocalClassOf(s, c, t, d) ==
  /\ c # <<>> /\ On(c).k = "fn"
  /\ PendIs(s, t, <<>>) /\ Pushed(c, d) /\ FrameIs(On(d), "class", 0, 0, s.pend, "local")

TopClassOf(s, c, t, d) ==
  /\ c # <<>> /\ On(c).k = "decl"
  /\ t = s /\ Pushed(c, d) /\ FrameIs(On(d), "class", 0, 0, <<>>, "top")

NestedClassOf(s, c, t, d) ==
  /\ c # <<>> /\ On(c).k = "class"
  /\ t = s /\ Pushed(c, d) /\ FrameIs(On(d), "class", 0, 0, <<>>, "nested")

\* A list with one element more at the end.
Queued(p, q, e) ==
  Len(q) = Len(p) + 1 /\ q[Len(q)] = e /\ \A i \in 1 .. Len(p) : q[i] = p[i]

MemberFnOf(s, c, t, d) ==
  /\ c # <<>> /\ On(c).k = "class" /\ On(c).how # "instance"
  /\ \E only \in BOOLEAN :
       /\ "template" \notin features /\ (\E i \in 1 .. Len(c) : c[i].k \in {"fn", "build"}) => ~only
       /\ GrownBy(s.fns, t.fns, {}, only)
  /\ Queued(s.pend, t.pend, Len(s.fns) + 1)
  /\ t.marks = s.marks /\ t.seg = s.seg /\ t.gen = s.gen /\ t.out = s.out /\ d = c

GenerateFnOf(s, c, t, d) ==
  /\ c # <<>> /\ On(c).k = "class"
  /\ Still(s, t) /\ GrownBy(s.fns, t.fns, {}, FALSE)
  /\ \E b : /\ Retopped(c, b) /\ FrameIs(On(b), "class", On(c).fn, On(c).mark, On(c).saved, On(c).how)
            /\ b \in Seq(FrameType) /\ b # <<>>
            /\ Pushed(b, d) /\ FrameIs(On(d), "build", Len(s.fns) + 1, 0, <<>>, "top")

EndClassOf(s, c, t, d) ==
  /\ c # <<>> /\ On(c).k = "class"
  /\ \/ /\ On(c).how = "local" /\ Waiting(s) /\ MarkOf(s, t)
        /\ Retopped(c, d)
        /\ FrameIs(On(d), "loop", 0, t.marks[Len(t.marks)].blk, On(c).saved, "top")
     \/ /\ On(c).how = "local" /\ ~Waiting(s)
        /\ PendIs(s, t, On(c).saved) /\ Popped(c, d)
     \/ /\ On(c).how = "instance" /\ Waiting(s)
        /\ \E m : StOK(m) /\ MarkOf(s, m) /\ PendIs(m, t, <<>>)
        /\ Retopped(c, d)
        /\ FrameIs(On(d), "loop", 0, t.marks[Len(t.marks)].blk, s.pend, "top")
     \/ /\ On(c).how # "local" /\ (On(c).how = "instance" => ~Waiting(s))
        /\ t = s /\ Popped(c, d)

EndLoopOf(s, c, t, d) ==
  /\ c # <<>> /\ On(c).k = "loop" /\ ~Waiting(s)
  /\ \E u : StOK(u) /\ UnmarkOf(s, u, On(c).mark) /\ PendIs(u, t, On(c).saved)
  /\ Popped(c, d)

EndDeclOf(s, c, t, d) ==
  /\ c # <<>> /\ On(c).k = "decl"
  /\ t = s /\ Popped(c, d)

----------------------------------------------------------------------------
(* The actions do that, and keep the types.                                *)

LEMMA Growth ==
  ASSUME NEW s, NEW t, StOK(s), StOK(t)
  PROVE  /\ DropOf(s, t) => Len(t.fns) = Len(s.fns)
         /\ MarkOf(s, t) => Len(t.fns) = Len(s.fns)
         /\ Extra(s, t) => Len(t.fns) = Len(s.fns) + 1
         /\ \A b : UnmarkOf(s, t, b) => Len(t.fns) = Len(s.fns)
         /\ \A f, n : Pieced(s.fns, t.fns, f, n) => Len(t.fns) = Len(s.fns)
         /\ \A f : OneMade(s.fns, t.fns, f) => Len(t.fns) = Len(s.fns)
         /\ \A S, o : GrownBy(s.fns, t.fns, S, o) => Len(t.fns) = Len(s.fns) + 1
         /\ \A f : NoteOf(s, t, f) => Len(t.fns) = Len(s.fns)
         /\ \A p : PendIs(s, t, p) => Len(t.fns) = Len(s.fns)
         /\ GenTaken(s, t) => Len(t.fns) = Len(s.fns)
         /\ Len(s.fns) \in Nat /\ Len(t.fns) \in Nat
<1>1. Len(s.fns) \in Nat /\ Len(t.fns) \in Nat
  BY StFields DEF StOK
<1>2. \A n : Given(s.fns, t.fns, n) => Len(t.fns) = Len(s.fns)
  BY DEF Given
<1>3. DropOf(s, t) => Len(t.fns) = Len(s.fns)
  BY <1>2 DEF DropOf
<1>4. MarkOf(s, t) => Len(t.fns) = Len(s.fns)
  BY DEF MarkOf
<1>5. Extra(s, t) => Len(t.fns) = Len(s.fns) + 1
  BY DEF Extra, GrownBy
<1>6. ASSUME NEW b, UnmarkOf(s, t, b) PROVE Len(t.fns) = Len(s.fns)
  BY <1>2, <1>6 DEF UnmarkOf, NoSuchMark, NotDropped, CutBack, JustNoted
<1>7. \A f, n : Pieced(s.fns, t.fns, f, n) => Len(t.fns) = Len(s.fns)
  BY DEF Pieced
<1>8. \A f : OneMade(s.fns, t.fns, f) => Len(t.fns) = Len(s.fns)
  BY DEF OneMade
<1>9. \A S, o : GrownBy(s.fns, t.fns, S, o) => Len(t.fns) = Len(s.fns) + 1
  BY DEF GrownBy
<1>10. \A f : NoteOf(s, t, f) => Len(t.fns) = Len(s.fns)
  BY DEF NoteOf, Pieced
<1>11. \A p : PendIs(s, t, p) => Len(t.fns) = Len(s.fns)
  BY DEF PendIs
<1>12. GenTaken(s, t) => Len(t.fns) = Len(s.fns)
  BY DEF GenTaken
<1> QED BY <1>1, <1>3, <1>4, <1>5, <1>6, <1>7, <1>8, <1>9, <1>10, <1>11, <1>12

LEMMA TypePush ==
  ASSUME NEW s, NEW c, TypeInv(s, c), NEW t, StOK(t), NEW d \in Seq(FrameType), Pushed(c, d),
         On(d).k = "build" => On(d).fn \in Fn
  PROVE  TypeInv(t, d)
<1>1. Len(c) \in Nat /\ Len(d) = Len(c) + 1 /\ c \in Seq(FrameType)
  BY LenProperties DEF TypeInv, Pushed
<1>2. ASSUME NEW i \in 1 .. Len(d), d[i].k = "build"
      PROVE  d[i].fn \in Fn
  <2>1. CASE i = Len(d)
    BY <1>2, <2>1 DEF On
  <2>2. CASE i # Len(d)
    <3>1. i \in 1 .. Len(c)
      BY <1>1, <2>2
    <3> QED BY <1>2, <3>1 DEF TypeInv, Pushed
  <2> QED BY <2>1, <2>2
<1> QED BY <1>2 DEF TypeInv

LEMMA TypePop ==
  ASSUME NEW s, NEW c, TypeInv(s, c), NEW t, StOK(t), NEW d \in Seq(FrameType), Popped(c, d)
  PROVE  TypeInv(t, d)
<1>1. Len(c) \in Nat /\ Len(d) = Len(c) - 1
  BY LenProperties DEF TypeInv, Popped
<1>2. ASSUME NEW i \in 1 .. Len(d), d[i].k = "build"
      PROVE  d[i].fn \in Fn
  <2>1. i \in 1 .. Len(c) /\ d[i] = c[i]
    BY <1>1 DEF Popped
  <2> QED BY <1>2, <2>1 DEF TypeInv
<1> QED BY <1>2 DEF TypeInv

LEMMA TypeRetop ==
  ASSUME NEW s, NEW c, TypeInv(s, c), NEW t, StOK(t), NEW d \in Seq(FrameType), Retopped(c, d),
         On(d).k = "build" => On(d).fn \in Fn
  PROVE  TypeInv(t, d)
<1>1. Len(c) \in Nat /\ Len(d) = Len(c)
  BY LenProperties DEF TypeInv, Retopped
<1>2. ASSUME NEW i \in 1 .. Len(d), d[i].k = "build"
      PROVE  d[i].fn \in Fn
  <2>1. CASE i = Len(d)
    BY <1>2, <2>1 DEF On
  <2>2. CASE i # Len(d)
    <3>1. i \in 1 .. Len(c) - 1 /\ i \in 1 .. Len(c)
      BY <1>1, <2>2
    <3> QED BY <1>2, <3>1 DEF TypeInv, Retopped
  <2> QED BY <2>1, <2>2
<1> QED BY <1>2 DEF TypeInv

LEMMA NowFacts ==
  ASSUME TypeInv(st, ctl), ctl # <<>>
  PROVE  /\ Now = On(ctl) /\ On(ctl) \in FrameType /\ On(ctl).fn \in Nat /\ On(ctl).mark \in Nat
         /\ On(ctl).saved \in Seq(Fn) /\ On(ctl).k \in FrameK
         /\ On(ctl).k = "build" => On(ctl).fn \in Fn
         /\ Pop \in Seq(FrameType) /\ Popped(ctl, Pop) /\ Len(ctl) \in 1 .. Len(ctl)
<1>1. ctl \in Seq(FrameType)
  BY DEF TypeInv
<1>2. /\ Front(ctl) \in Seq(FrameType) /\ Popped(ctl, Front(ctl)) /\ Last(ctl) = On(ctl)
      /\ On(ctl) \in FrameType /\ Len(ctl) \in Nat \ {0}
  BY <1>1, PopFacts
<1>3. Len(ctl) \in 1 .. Len(ctl) /\ On(ctl) = ctl[Len(ctl)]
  BY <1>2 DEF On
<1>4. On(ctl).k = "build" => On(ctl).fn \in Fn
  BY <1>3 DEF TypeInv
<1>5. /\ On(ctl).fn \in Nat /\ On(ctl).mark \in Nat /\ On(ctl).saved \in Seq(Fn) /\ On(ctl).k \in FrameK
  BY <1>1, <1>3, FrameFields
<1> QED BY <1>2, <1>3, <1>4, <1>5 DEF Now, Pop

\* A frame is pushed; the top one is replaced.
LEMMA CtlPushed ==
  ASSUME TypeInv(st, ctl), NEW r \in FrameType
  PROVE  Push(r) \in Seq(FrameType) /\ Pushed(ctl, Push(r)) /\ On(Push(r)) = r
BY PushFacts DEF TypeInv, Push

LEMMA CtlRetopped ==
  ASSUME TypeInv(st, ctl), ctl # <<>>, NEW r \in FrameType
  PROVE  /\ Append(Pop, r) \in Seq(FrameType) /\ Retopped(ctl, Append(Pop, r)) /\ On(Append(Pop, r)) = r
         /\ Append(Pop, r) # <<>>
BY RetopFacts DEF TypeInv, Pop

LEMMA EntryDoes ==
  ASSUME TypeInv(st, ctl)
  PROVE  EntryOf(st, ctl, Entry) /\ Len(Entry.fns) = Len(st.fns)
         /\ Entry.gen = st.gen /\ Entry.pend = st.pend
<1>1. StOK(st)
  BY DEF TypeInv
<1>2. PICK e : e = Entry
  OBVIOUS
<1>3. CASE ctl = <<>>
  <2>1. StOK(e) /\ DropOf(st, e)
    BY <1>1, <1>2, <1>3, DropDoes DEF Entry
  <2>2. Len(e.fns) = Len(st.fns)
    BY <1>1, <2>1, Growth
  <2> QED BY <1>2, <1>3, <2>1, <2>2 DEF EntryOf, DropOf, Lists
<1>4. CASE ctl # <<>>
  BY <1>1, <1>2, <1>4 DEF Entry, EntryOf
<1> QED BY <1>3, <1>4

LEMMA TailFacts ==
  ASSUME NEW S, NEW g \in Seq(S), g # <<>>
  PROVE  /\ Tail(g) \in Seq(S) /\ Consed(Tail(g), g, g[1]) /\ g[1] \in S /\ Head(g) = g[1]
         /\ Len(g) \in Nat \ {0}
<1>1. Len(g) \in Nat \ {0}
  BY EmptySeq
<1>2. PICK h : h = Tail(g)
  OBVIOUS
<1>3. h \in Seq(S) /\ Len(h) = Len(g) - 1 /\ \A i \in 1 .. Len(h) : h[i] = g[i + 1]
  BY <1>2, HeadTailProperties
<1>4. g[1] \in S
  BY <1>1, ElementOfSeq
<1> QED BY <1>1, <1>2, <1>3, <1>4 DEF Consed

LEMMA RdGeneratedDoes ==
  ASSUME TypeInv(st, ctl), RdGenerated
  PROVE  GeneratedOf(st, ctl, st', ctl') /\ TypeInv(st', ctl')
<1>1. StOK(st) /\ ctl \in Seq(FrameType)
  BY DEF TypeInv
<1>2. CallingOf(st, ctl) /\ st.gen # <<>>
  BY NowFacts DEF RdGenerated, Calling, Inside, CallingOf
<1>3. PICK e : e = Entry
  OBVIOUS
<1>4. EntryOf(st, ctl, e) /\ Len(e.fns) = Len(st.fns) /\ e.gen = st.gen /\ StOK(e)
  BY <1>3, EntryDoes DEF EntryOf
<1>5. PICK x \in Described(e) :
        st' = Unmark([x EXCEPT !.gen = Tail(x.gen)], Head(st.gen).mark)
  BY <1>3 DEF RdGenerated
<1>6. StOK(x) /\ (x = e \/ Extra(e, x))
  BY <1>4, DescribedDoes
<1>7. PICK y : y = [x EXCEPT !.gen = Tail(x.gen)]
  OBVIOUS
<1>8. x.gen # <<>> /\ x.gen \in Seq(NoteType) /\ x \in StType
  <2>1. x.gen \in Seq(NoteType) /\ x \in StType /\ e.gen \in Seq(NoteType)
    BY <1>4, <1>6, StFields DEF StOK
  <2>2. CASE x = e
    BY <1>2, <1>4, <2>1, <2>2
  <2>3. CASE Extra(e, x)
    <3>1. Len(x.gen) = Len(e.gen) + 1 /\ Len(e.gen) \in Nat
      BY <2>1, <2>3, LenProperties DEF Extra, Consed
    <3> QED BY <2>1, <3>1, EmptySeq
  <2> QED BY <1>6, <2>1, <2>2, <2>3
<1>9. Tail(x.gen) \in Seq(NoteType) /\ Consed(Tail(x.gen), x.gen, x.gen[1])
  BY <1>8, TailFacts
<1>10. StOK(y) /\ GenTaken(x, y)
  <2>1. PICK h : h = Tail(x.gen)
    OBVIOUS
  <2>2. y = [x EXCEPT !.gen = h] /\ h \in Seq(NoteType) /\ Consed(h, x.gen, x.gen[1])
    BY <1>7, <1>9, <2>1
  <2>3. /\ y \in StType /\ y.marks = x.marks /\ y.free = x.free /\ y.blks = x.blks /\ y.seg = x.seg
        /\ y.gen = h /\ y.pend = x.pend /\ y.fns = x.fns /\ y.out = x.out
    BY <1>8, <2>2 DEF StType
  <2>4. StOK(y)
    BY <1>6, <2>3 DEF StOK, BlocksApart
  <2> QED BY <1>8, <2>2, <2>3, <2>4 DEF GenTaken
<1>11. Head(st.gen) = st.gen[1] /\ st.gen[1].fn \in Nat
  <2>1. st.gen \in Seq(NoteType)
    BY <1>1, StFields DEF StOK
  <2>2. st.gen[1] \in NoteType /\ Head(st.gen) = st.gen[1]
    BY <1>2, <2>1, TailFacts
  <2> QED BY <2>2 DEF NoteType, Fn
<1>12. StOK(st') /\ UnmarkOf(y, st', st.gen[1].mark)
  BY <1>5, <1>7, <1>10, <1>11, UnmarkFacts
<1>13. DescribedOf(e, x)
  BY <1>6 DEF DescribedOf
<1>14. PICK r : r = Frame("cg", st.gen[1].fn)
  OBVIOUS
<1>15. FrameIs(r, "cg", st.gen[1].fn, 0, <<>>, "top") /\ r \in FrameType
  <2>1. FrameIs(r, "cg", st.gen[1].fn, 0, <<>>, "top")
    BY <1>11, <1>14, FramePlain DEF FrameK
  <2> QED BY <2>1 DEF FrameIs
<1>16. ctl' \in Seq(FrameType) /\ Pushed(ctl, ctl') /\ On(ctl') = r
  BY <1>11, <1>14, <1>15, CtlPushed DEF RdGenerated
<1>17. GeneratedOf(st, ctl, st', ctl')
  BY <1>2, <1>4, <1>10, <1>12, <1>13, <1>15, <1>16 DEF GeneratedOf
<1>18. On(ctl').k # "build"
  BY <1>15, <1>16 DEF FrameIs
<1> QED BY <1>12, <1>16, <1>17, <1>18, TypePush

LEMMA PushDoes ==
  ASSUME TypeInv(st, ctl), NEW r, NEW k, NEW f, NEW m, NEW p, NEW h, FrameIs(r, k, f, m, p, h),
         NEW t, StOK(t), k = "build" => f \in Fn
  PROVE  /\ Pushed(ctl, Push(r)) /\ FrameIs(On(Push(r)), k, f, m, p, h) /\ TypeInv(t, Push(r))
         /\ ctl \in Seq(FrameType)
<1>1. r \in FrameType /\ r.k = k /\ r.fn = f /\ ctl \in Seq(FrameType)
  BY DEF FrameIs, TypeInv
<1>2. Push(r) \in Seq(FrameType) /\ Pushed(ctl, Push(r)) /\ On(Push(r)) = r
  BY <1>1, CtlPushed
<1> QED BY <1>1, <1>2, TypePush

LEMMA RetopTypes ==
  ASSUME TypeInv(st, ctl), ctl # <<>>, NEW r \in FrameType, r.k # "build", NEW t, StOK(t),
         NEW d, d = Append(Pop, r)
  PROVE  Retopped(ctl, d) /\ On(d) = r /\ TypeInv(t, d) /\ d \in Seq(FrameType) /\ d # <<>>
<1>1. d \in Seq(FrameType) /\ Retopped(ctl, d) /\ On(d) = r /\ d # <<>>
  BY CtlRetopped
<1>2. TypeInv(t, d)
  BY <1>1, TypeRetop
<1> QED BY <1>1, <1>2

LEMMA RetopDoes ==
  ASSUME TypeInv(st, ctl), ctl # <<>>, NEW r, NEW k, NEW f, NEW m, NEW p, NEW h,
         FrameIs(r, k, f, m, p, h), NEW t, StOK(t), k # "build", NEW d, d = Append(Pop, r)
  PROVE  /\ Retopped(ctl, d) /\ FrameIs(On(d), k, f, m, p, h) /\ TypeInv(t, d)
         /\ d \in Seq(FrameType) /\ d # <<>>
<1>1. r \in FrameType /\ r.k = k
  BY DEF FrameIs
<1>2. Retopped(ctl, d) /\ On(d) = r /\ TypeInv(t, d) /\ d \in Seq(FrameType) /\ d # <<>>
  BY <1>1, RetopTypes
<1> QED BY <1>2

LEMMA PopDoes ==
  ASSUME TypeInv(st, ctl), ctl # <<>>, NEW t, StOK(t)
  PROVE  Popped(ctl, Pop) /\ TypeInv(t, Pop)
BY NowFacts, TypePop

LEMMA PendDoes ==
  ASSUME NEW s, StOK(s), NEW p \in Seq(Fn), NEW t, t = [s EXCEPT !.pend = p]
  PROVE  StOK(t) /\ PendIs(s, t, p)
<1>1. s \in StType
  BY DEF StOK
<1>2. /\ t \in StType /\ t.marks = s.marks /\ t.free = s.free /\ t.blks = s.blks /\ t.seg = s.seg
      /\ t.gen = s.gen /\ t.pend = p /\ t.fns = s.fns /\ t.out = s.out
  BY <1>1 DEF StType
<1> QED BY <1>2 DEF StOK, BlocksApart, PendIs

LEMMA RdPendingDoes ==
  ASSUME TypeInv(st, ctl), RdPending
  PROVE  PendingOf(st, ctl, st', ctl') /\ TypeInv(st', ctl')
<1>1. StOK(st) /\ st.pend \in Seq(Fn)
  BY StFields DEF TypeInv, StOK
<1>2. CallingOf(st, ctl) /\ st.gen = <<>> /\ st.pend # <<>>
  BY NowFacts DEF RdPending, Calling, Inside, CallingOf
<1>3. PICK e : e = Entry
  OBVIOUS
<1>4. EntryOf(st, ctl, e) /\ e.pend = st.pend /\ StOK(e)
  BY <1>3, EntryDoes DEF EntryOf
<1>5. /\ Tail(st.pend) \in Seq(Fn) /\ Consed(Tail(st.pend), st.pend, st.pend[1]) /\ st.pend[1] \in Fn
      /\ Head(st.pend) = st.pend[1]
  BY <1>1, <1>2, TailFacts
<1>6. PICK x : x = [e EXCEPT !.pend = Tail(st.pend)]
  OBVIOUS
<1>7. StOK(x) /\ PendIs(e, x, Tail(st.pend))
  BY <1>4, <1>5, <1>6, PendDoes
<1>8. PICK f : f = st.pend[1]
  OBVIOUS
<1>9. st' = Piece(x, f)
  BY <1>3, <1>4, <1>5, <1>6, <1>8 DEF RdPending
<1>10. StOK(st') /\ Still(x, st') /\ Pieced(x.fns, st'.fns, f, Len(x.marks))
  BY <1>7, <1>9, PieceDoes
<1>11. f \in Nat
  BY <1>5, <1>8 DEF Fn
<1>12. PICK r : r = Frame("fn", f)
  OBVIOUS
<1>13. FrameIs(r, "fn", f, 0, <<>>, "top")
  BY <1>11, <1>12, FramePlain DEF FrameK
<1>14. ctl' = Push(r)
  BY <1>5, <1>8, <1>12 DEF RdPending
<1>15. Pushed(ctl, ctl') /\ FrameIs(On(ctl'), "fn", f, 0, <<>>, "top") /\ TypeInv(st', ctl')
  BY <1>10, <1>13, <1>14, PushDoes
<1>16. Consed(x.pend, st.pend, f)
  BY <1>5, <1>7, <1>8 DEF PendIs
<1> QED BY <1>2, <1>4, <1>7, <1>8, <1>10, <1>15, <1>16 DEF PendingOf

LEMMA RdSourceDoes ==
  ASSUME TypeInv(st, ctl), RdSource
  PROVE  SourceOf(st, ctl, st', ctl') /\ TypeInv(st', ctl')
<1>1. StOK(st) /\ ctl = <<>> /\ ~Waiting(st)
  BY DEF RdSource, TypeInv
<1>2. PICK e : e = Drop(st)
  OBVIOUS
<1>3. StOK(e) /\ DropOf(st, e)
  BY <1>1, <1>2, DropDoes
<1>4. Len(e.fns) = Len(st.fns) /\ Len(st.fns) \in Nat
  BY <1>1, <1>3, Growth
<1>5. CASE /\ Room
           /\ \E only \in BOOLEAN :
                LET s == NewFn(Drop(st), only) IN
                /\ st' = Piece(s, Newest(s))
                /\ ctl' = Push(Frame("fn", Newest(s)))
  <2>1. Len(e.fns) < MaxFns
    BY <1>4, <1>5 DEF Room, Newest
  <2>2. PICK only \in BOOLEAN : LET s == NewFn(e, only) IN
                                /\ st' = Piece(s, Newest(s))
                                /\ ctl' = Push(Frame("fn", Newest(s)))
    BY <1>2, <1>5
  <2>3. PICK n : n = NewFn(e, only)
    OBVIOUS
  <2>4. st' = Piece(n, Newest(n)) /\ ctl' = Push(Frame("fn", Newest(n)))
    BY <2>2, <2>3
  <2>5. /\ StOK(st') /\ Still(e, st') /\ GrownBy(e.fns, st'.fns, {Len(e.marks)}, only)
        /\ Newest(n) = Len(e.fns) + 1
    BY <1>3, <2>1, <2>3, <2>4, NewPieceDoes
  <2>6. PICK f \in Nat : f = Len(e.fns) + 1
    BY <1>4
  <2>7. PICK r : r = Frame("fn", f)
    OBVIOUS
  <2>8. FrameIs(r, "fn", f, 0, <<>>, "top")
    BY <2>7, FramePlain DEF FrameK
  <2>9. ctl' = Push(r)
    BY <2>4, <2>5, <2>6, <2>7
  <2>10. Pushed(ctl, ctl') /\ FrameIs(On(ctl'), "fn", f, 0, <<>>, "top") /\ TypeInv(st', ctl')
    BY <2>5, <2>8, <2>9, PushDoes
  <2> QED BY <1>1, <1>3, <2>5, <2>6, <2>10 DEF SourceOf
<1>6. CASE st' = Drop(st) /\ ctl' = Push(Frame("decl", 0))
  <2>1. PICK r : r = Frame("decl", 0)
    OBVIOUS
  <2>2. FrameIs(r, "decl", 0, 0, <<>>, "top")
    BY <2>1, FramePlain DEF FrameK
  <2>3. ctl' = Push(r) /\ st' = e
    BY <1>2, <1>6, <2>1
  <2>4. Pushed(ctl, ctl') /\ FrameIs(On(ctl'), "decl", 0, 0, <<>>, "top") /\ TypeInv(st', ctl')
    BY <1>3, <2>2, <2>3, PushDoes
  <2> QED BY <1>1, <1>3, <2>3, <2>4 DEF SourceOf
<1> QED BY <1>5, <1>6 DEF RdSource

LEMMA EndOfFileDoes ==
  ASSUME TypeInv(st, ctl), EndOfFile
  PROVE  EndOfFileOf(st, ctl, st', ctl') /\ TypeInv(st', ctl')
<1>1. StOK(st) /\ ctl = <<>> /\ ~Waiting(st) /\ ctl' = ctl
  BY DEF EndOfFile, TypeInv
<1>2. PICK e : e = Drop(st)
  OBVIOUS
<1>3. StOK(e) /\ DropOf(st, e)
  BY <1>1, <1>2, DropDoes
<1>4. PICK o : o = IF Len(st.marks) = 1 THEN "done" ELSE "marklist"
  OBVIOUS
<1>5. st' = [e EXCEPT !.out = o]
  BY <1>2, <1>4 DEF EndOfFile, Place
<1>6. e \in StType /\ o \in {"done", "marklist"}
  BY <1>3, <1>4 DEF StOK
<1>7. /\ st' \in StType /\ st'.marks = e.marks /\ st'.free = e.free /\ st'.blks = e.blks
      /\ st'.seg = e.seg /\ st'.gen = e.gen /\ st'.pend = e.pend /\ st'.fns = e.fns /\ st'.out = o
  BY <1>5, <1>6 DEF StType
<1>8. StOK(st')
  BY <1>3, <1>7 DEF StOK, BlocksApart
<1>9. TypeInv(st', ctl')
  BY <1>1, <1>8 DEF TypeInv
<1> QED BY <1>1, <1>3, <1>4, <1>7, <1>9 DEF EndOfFileOf, Lists

LEMMA ReadDoes ==
  ASSUME TypeInv(st, ctl), Read
  PROVE  ReadOf(st, ctl, st', ctl') /\ TypeInv(st', ctl')
<1>1. StOK(st) /\ ctl # <<>> /\ On(ctl).k \in {"fn", "build"} /\ Now = On(ctl) /\ ctl' = ctl
  BY NowFacts DEF Read, Inside, TypeInv
<1>2. PICK x : x = Piece(st, On(ctl).fn)
  OBVIOUS
<1>3. StOK(x) /\ Still(st, x) /\ Pieced(st.fns, x.fns, On(ctl).fn, Len(st.marks))
  BY <1>1, <1>2, PieceDoes
<1>4. PICK h \in {st.seg, st.seg + 1} : h <= MaxHunks /\ st' = [x EXCEPT !.seg = h]
  BY <1>1, <1>2 DEF Read
<1>5. st.seg \in 0 .. MaxHunks
  BY <1>1, StFields DEF StOK
<1>6. h \in 0 .. MaxHunks
  BY <1>4, <1>5, GeneratedAssumption
<1>7. x \in StType
  BY <1>3 DEF StOK
<1>8. /\ st' \in StType /\ st'.marks = x.marks /\ st'.free = x.free /\ st'.blks = x.blks
      /\ st'.seg = h /\ st'.gen = x.gen /\ st'.pend = x.pend /\ st'.fns = x.fns /\ st'.out = x.out
  BY <1>4, <1>6, <1>7 DEF StType
<1>9. StOK(st')
  BY <1>3, <1>8 DEF StOK, BlocksApart
<1>10. TypeInv(st', ctl')
  BY <1>1, <1>9 DEF TypeInv
<1>11. st'.marks = st.marks /\ Lists(st, st') /\ st'.out = st.out
  BY <1>3, <1>8 DEF Still, Lists
<1> QED BY <1>1, <1>3, <1>4, <1>8, <1>10, <1>11 DEF ReadOf

LEMMA DescribeDoes ==
  ASSUME TypeInv(st, ctl), Describe
  PROVE  DescribeOf(st, ctl, st', ctl') /\ TypeInv(st', ctl')
<1>1. StOK(st) /\ ctl # <<>> /\ On(ctl).k \in {"fn", "decl"} /\ ctl' = ctl
  BY NowFacts DEF Describe, Inside, TypeInv
<1>2. st' \in Described(st) /\ st' # st
  BY DEF Describe
<1>3. StOK(st') /\ Extra(st, st')
  BY <1>1, <1>2, DescribedDoes
<1>4. TypeInv(st', ctl')
  BY <1>1, <1>3 DEF TypeInv
<1> QED BY <1>1, <1>3, <1>4 DEF DescribeOf

LEMMA RdHeadDoes ==
  ASSUME TypeInv(st, ctl), RdHead
  PROVE  HeadOf(st, ctl, st', ctl') /\ TypeInv(st', ctl')
<1>1. StOK(st) /\ ctl # <<>> /\ On(ctl).k = "fn" /\ Now = On(ctl) /\ On(ctl) \in FrameType
  BY NowFacts DEF RdHead, Inside, TypeInv
<1>2. StOK(st') /\ DescribedOf(st, st')
  BY <1>1, DescribedDoes DEF RdHead, DescribedOf
<1>3. PICK r : r = [On(ctl) EXCEPT !.how = "members"]
  OBVIOUS
<1>4. FrameIs(r, "fn", On(ctl).fn, On(ctl).mark, On(ctl).saved, "members")
  BY <1>1, <1>3, FrameNextHow
<1>5. ctl' = Append(Pop, r)
  BY <1>1, <1>3 DEF RdHead
<1>6. /\ Retopped(ctl, ctl') /\ TypeInv(st', ctl')
      /\ FrameIs(On(ctl'), "fn", On(ctl).fn, On(ctl).mark, On(ctl).saved, "members")
  BY <1>1, <1>2, <1>4, <1>5, RetopDoes
<1> QED BY <1>1, <1>2, <1>6 DEF HeadOf

LEMMA RdMembersDoes ==
  ASSUME TypeInv(st, ctl), RdMembers
  PROVE  MembersOf(st, ctl, st', ctl') /\ TypeInv(st', ctl')
<1>1. StOK(st) /\ ctl # <<>> /\ On(ctl).k = "fn" /\ Now = On(ctl) /\ On(ctl) \in FrameType
  BY NowFacts DEF RdMembers, Inside, TypeInv
<1>2. PICK r : r = [On(ctl) EXCEPT !.how = "body"]
  OBVIOUS
<1>3. FrameIs(r, "fn", On(ctl).fn, On(ctl).mark, On(ctl).saved, "body")
  BY <1>1, <1>2, FrameNextHow
<1>4. PICK b : b = Append(Pop, r)
  OBVIOUS
<1>5. /\ Retopped(ctl, b) /\ TypeInv(st, b) /\ b \in Seq(FrameType) /\ b # <<>>
      /\ FrameIs(On(b), "fn", On(ctl).fn, On(ctl).mark, On(ctl).saved, "body")
  BY <1>1, <1>3, <1>4, RetopDoes
<1>6. \/ ctl' = b /\ st' = st
      \/ /\ "core" \in features /\ Room
         /\ st' = NewFn(st, FALSE)
         /\ ctl' = Append(b, Frame("build", Newest(st) + 1))
  BY <1>1, <1>2, <1>4 DEF RdMembers
<1>7. CASE ctl' = b /\ st' = st
  BY <1>1, <1>5, <1>7 DEF MembersOf
<1>8. CASE /\ "core" \in features /\ Room
           /\ st' = NewFn(st, FALSE)
           /\ ctl' = Append(b, Frame("build", Newest(st) + 1))
  <2>1. Len(st.fns) \in Nat /\ Len(st.fns) < MaxFns
    BY <1>1, <1>8, StFields DEF StOK, Room, Newest
  <2>2. StOK(st') /\ Still(st, st') /\ Grown(st.fns, st'.fns, FALSE)
    BY <1>1, <1>8, <2>1, NewFnDoes
  <2>3. GrownBy(st.fns, st'.fns, {}, FALSE)
    BY <2>2, GrownIsBy
  <2>4. PICK f \in Fn : f = Len(st.fns) + 1 /\ f \in Nat
    BY <2>1, GeneratedAssumption DEF Fn
  <2>5. PICK q : q = Frame("build", f)
    OBVIOUS
  <2>6. FrameIs(q, "build", f, 0, <<>>, "top") /\ q \in FrameType
    <3>1. FrameIs(q, "build", f, 0, <<>>, "top")
      BY <2>4, <2>5, FramePlain DEF FrameK
    <3> QED BY <3>1 DEF FrameIs
  <2>7. ctl' = Append(b, q)
    BY <1>8, <2>4, <2>5 DEF Newest
  <2>8. ctl' \in Seq(FrameType) /\ Pushed(b, ctl') /\ On(ctl') = q
    BY <1>5, <2>6, <2>7, PushFacts
  <2>9. TypeInv(st', ctl')
    <3>1. On(ctl').fn \in Fn
      BY <2>4, <2>6, <2>8 DEF FrameIs
    <3> QED BY <1>5, <2>2, <2>8, <3>1, TypePush
  <2> QED BY <1>1, <1>5, <1>8, <2>2, <2>3, <2>4, <2>6, <2>8, <2>9 DEF MembersOf
<1> QED BY <1>6, <1>7, <1>8

LEMMA NoteGeneratedDoes ==
  ASSUME TypeInv(st, ctl), NoteGenerated
  PROVE  NotedOf(st, ctl, st', ctl') /\ TypeInv(st', ctl')
<1>1. StOK(st) /\ ctl # <<>> /\ On(ctl).k = "build" /\ Now = On(ctl) /\ On(ctl).fn \in Fn
  BY NowFacts DEF NoteGenerated, Inside, TypeInv
<1>2. StOK(st') /\ NoteOf(st, st', On(ctl).fn)
  BY <1>1, NoteDoes DEF NoteGenerated
<1>3. ctl' = Pop
  BY DEF NoteGenerated
<1>4. Popped(ctl, ctl') /\ TypeInv(st', ctl')
  BY <1>1, <1>2, <1>3, PopDoes
<1> QED BY <1>1, <1>2, <1>4 DEF NotedOf

LEMMA EndFnDoes ==
  ASSUME TypeInv(st, ctl), EndFn
  PROVE  EndFnOf(st, ctl, st', ctl') /\ TypeInv(st', ctl')
<1>1. StOK(st) /\ ctl # <<>> /\ On(ctl).k = "fn" /\ Now = On(ctl) /\ On(ctl).fn \in Nat /\ On(ctl).mark \in Nat
  BY NowFacts DEF EndFn, Inside, TypeInv
<1>2. \/ st.fns[On(ctl).fn].only /\ st' = Made(st, On(ctl).fn) /\ ctl' = Pop
      \/ /\ ~st.fns[On(ctl).fn].only /\ st' = st
         /\ ctl' = Append(Pop, [Frame("cg", On(ctl).fn) EXCEPT !.mark = On(ctl).mark])
  BY <1>1 DEF EndFn, F
<1>3. CASE st.fns[On(ctl).fn].only /\ st' = Made(st, On(ctl).fn) /\ ctl' = Pop
  <2>1. StOK(st') /\ Still(st, st') /\ OneMade(st.fns, st'.fns, On(ctl).fn)
    BY <1>1, <1>3, MadeDoes
  <2>2. Popped(ctl, ctl') /\ TypeInv(st', ctl')
    BY <1>1, <1>3, <2>1, PopDoes
  <2> QED BY <1>1, <1>3, <2>1, <2>2 DEF EndFnOf
<1>4. CASE /\ ~st.fns[On(ctl).fn].only /\ st' = st
           /\ ctl' = Append(Pop, [Frame("cg", On(ctl).fn) EXCEPT !.mark = On(ctl).mark])
  <2>1. PICK r : r = [Frame("cg", On(ctl).fn) EXCEPT !.mark = On(ctl).mark]
    OBVIOUS
  <2>2. FrameIs(r, "cg", On(ctl).fn, On(ctl).mark, <<>>, "top")
    BY <1>1, <2>1, FrameMarked DEF FrameK
  <2>3. ctl' = Append(Pop, r)
    BY <1>4, <2>1
  <2>4. /\ Retopped(ctl, ctl') /\ TypeInv(st', ctl')
        /\ FrameIs(On(ctl'), "cg", On(ctl).fn, On(ctl).mark, <<>>, "top")
    <3>1. r \in FrameType /\ r.k # "build" /\ ctl # <<>> /\ StOK(st')
      BY <1>1, <1>4, <2>2 DEF FrameIs
    <3>2. Retopped(ctl, ctl') /\ On(ctl') = r /\ TypeInv(st', ctl')
      BY <2>3, <3>1, RetopTypes
    <3> QED BY <2>2, <3>2
  <2> QED BY <1>1, <1>4, <2>4 DEF EndFnOf
<1> QED BY <1>2, <1>3, <1>4

LEMMA CgTopDeclDoes ==
  ASSUME TypeInv(st, ctl), CgTopDecl
  PROVE  CompiledOf(st, ctl, st', ctl') /\ TypeInv(st', ctl')
<1>1. StOK(st) /\ ctl # <<>> /\ On(ctl).k = "cg" /\ Now = On(ctl) /\ ctl' = Pop
  BY NowFacts DEF CgTopDecl, Inside, TypeInv
<1>2. PICK x \in Described(st) : st' = EndFly(Compiled(x, On(ctl).fn), On(ctl).mark)
  BY <1>1 DEF CgTopDecl
<1>3. StOK(x) /\ DescribedOf(st, x)
  BY <1>1, DescribedDoes DEF DescribedOf
<1>4. PICK y : y = Made(x, On(ctl).fn)
  OBVIOUS
<1>5. StOK(y) /\ Still(x, y) /\ OneMade(x.fns, y.fns, On(ctl).fn)
  BY <1>3, <1>4, MadeDoes
<1>6. PICK z : z = Drop(y)
  OBVIOUS
<1>7. StOK(z) /\ DropOf(y, z)
  BY <1>5, <1>6, DropDoes
<1>8. st' = EndFly(z, On(ctl).mark)
  BY <1>2, <1>4, <1>6 DEF Compiled
<1>9. CASE On(ctl).mark = 0
  <2>1. st' = z
    BY <1>8, <1>9 DEF EndFly
  <2>2. Popped(ctl, ctl') /\ TypeInv(st', ctl')
    BY <1>1, <1>7, <2>1, PopDoes
  <2> QED BY <1>1, <1>3, <1>5, <1>7, <1>9, <2>1, <2>2 DEF CompiledOf
<1>10. CASE On(ctl).mark # 0
  <2>1. PICK w : w = Drop(z)
    OBVIOUS
  <2>2. StOK(w) /\ DropOf(z, w)
    BY <1>7, <2>1, DropDoes
  <2>3. st' = Unmark(w, On(ctl).mark)
    BY <1>8, <1>10, <2>1 DEF EndFly
  <2>4. StOK(st') /\ UnmarkOf(w, st', On(ctl).mark)
    BY <2>2, <2>3, UnmarkFacts
  <2>5. Popped(ctl, ctl') /\ TypeInv(st', ctl')
    BY <1>1, <2>4, PopDoes
  <2> QED BY <1>1, <1>3, <1>5, <1>7, <1>10, <2>2, <2>4, <2>5 DEF CompiledOf
<1> QED BY <1>9, <1>10

LEMMA UsingFacts ==
  ASSUME TypeInv(st, ctl), Using
  PROVE  UsingOf(ctl)
BY NowFacts DEF Using, Inside, UsingOf

LEMMA InstantiateFnDoes ==
  ASSUME TypeInv(st, ctl), InstantiateFn
  PROVE  InstanceFnOf(st, ctl, st', ctl') /\ TypeInv(st', ctl')
<1>1. StOK(st) /\ UsingOf(ctl)
  BY UsingFacts DEF InstantiateFn, TypeInv
<1>2. PICK m : m = Mark(st)
  OBVIOUS
<1>3. StOK(m) /\ MarkOf(st, m)
  BY <1>1, <1>2, MarkDoes
<1>4. Len(m.fns) = Len(st.fns) /\ Len(st.fns) \in Nat
  BY <1>1, <1>3, Growth
<1>0. PICK no \in BOOLEAN : ~no /\ no = FALSE
  OBVIOUS
<1>5. PICK n : n = NewFn(m, no)
  OBVIOUS
<1>6. /\ st' = Piece(n, Newest(n)) /\ Len(m.fns) < MaxFns
      /\ ctl' = Push([Frame("fn", Newest(n)) EXCEPT !.mark = Top(n).blk])
  BY <1>0, <1>2, <1>4, <1>5 DEF InstantiateFn, Room, Newest
<1>7. /\ StOK(st') /\ Still(m, st') /\ GrownBy(m.fns, st'.fns, {Len(m.marks)}, no)
      /\ Newest(n) = Len(m.fns) + 1
  BY <1>3, <1>5, <1>6, NewPieceDoes
<1>8. PICK b : b = Top(n).blk
  OBVIOUS
<1>9. b = m.marks[Len(m.marks)].blk /\ b \in Nat
  <2>1. StOK(n) /\ Still(m, n)
    BY <1>3, <1>5, <1>6, NewFnDoes
  <2>2. Top(n) = n.marks[Len(n.marks)] /\ Top(n).blk \in Blk
    BY <2>1, TopFacts
  <2> QED BY <1>8, <2>1, <2>2 DEF Still, Blk
<1>10. PICK f \in Nat : f = Len(st.fns) + 1
  BY <1>4
<1>11. PICK r : r = [Frame("fn", f) EXCEPT !.mark = b]
  OBVIOUS
<1>12. FrameIs(r, "fn", f, b, <<>>, "top")
  BY <1>9, <1>11, FrameMarked DEF FrameK
<1>13. ctl' = Push(r)
  BY <1>4, <1>6, <1>7, <1>8, <1>10, <1>11
<1>14. Pushed(ctl, ctl') /\ FrameIs(On(ctl'), "fn", f, b, <<>>, "top") /\ TypeInv(st', ctl')
  <2>1. PICK t : t = st'
    OBVIOUS
  <2>2. StOK(t)
    BY <1>7, <2>1
  <2>3. /\ Pushed(ctl, Push(r)) /\ FrameIs(On(Push(r)), "fn", f, b, <<>>, "top")
        /\ TypeInv(t, Push(r))
    BY <1>12, <2>2, PushDoes
  <2> QED BY <1>13, <2>1, <2>3
<1>15. GrownBy(m.fns, st'.fns, {Len(m.marks)}, FALSE)
  BY <1>0, <1>7
<1> QED BY <1>1, <1>3, <1>7, <1>9, <1>10, <1>14, <1>15 DEF InstanceFnOf

LEMMA InstantiateClassDoes ==
  ASSUME TypeInv(st, ctl), InstantiateClass
  PROVE  InstanceClassOf(st, ctl, st', ctl') /\ TypeInv(st', ctl')
<1>1. StOK(st) /\ (UsingOf(ctl) \/ (ctl # <<>> /\ On(ctl).k = "class")) /\ st' = st
  BY UsingFacts, NowFacts DEF InstantiateClass, Inside, TypeInv
<1>2. PICK r : r = [Frame("class", 0) EXCEPT !.how = "instance"]
  OBVIOUS
<1>3. FrameIs(r, "class", 0, 0, <<>>, "instance")
  BY <1>2, FrameHow DEF FrameK
<1>4. ctl' = Push(r)
  BY <1>2 DEF InstantiateClass
<1>5. Pushed(ctl, ctl') /\ FrameIs(On(ctl'), "class", 0, 0, <<>>, "instance") /\ TypeInv(st', ctl')
  BY <1>1, <1>3, <1>4, PushDoes
<1> QED BY <1>1, <1>5 DEF InstanceClassOf

LEMMA LocalClassDoes ==
  ASSUME TypeInv(st, ctl), LocalClass
  PROVE  LocalClassOf(st, ctl, st', ctl') /\ TypeInv(st', ctl')
<1>1. StOK(st) /\ ctl # <<>> /\ On(ctl).k = "fn" /\ st.pend \in Seq(Fn)
  BY NowFacts, StFields DEF LocalClass, Inside, TypeInv, StOK
<1>0. PICK r0 : r0 = Frame("class", 0)
  OBVIOUS
<1>2. PICK r : r = [r0 EXCEPT !.how = "local", !.saved = st.pend]
  OBVIOUS
<1>3. FrameIs(r, "class", 0, 0, st.pend, "local")
  <2>1. "class" \in FrameK /\ 0 \in Nat
    BY DEF FrameK
  <2> QED BY <1>0, <1>1, <1>2, <2>1, FrameLocal
<1>4. ctl' = Push(r) /\ st' = [st EXCEPT !.pend = <<>>]
  BY <1>0, <1>2 DEF LocalClass
<1>5. StOK(st') /\ PendIs(st, st', <<>>)
  <2>1. <<>> \in Seq(Fn)
    OBVIOUS
  <2> QED BY <1>1, <1>4, <2>1, PendDoes
<1>6. Pushed(ctl, ctl') /\ FrameIs(On(ctl'), "class", 0, 0, st.pend, "local") /\ TypeInv(st', ctl')
  BY <1>3, <1>4, <1>5, PushDoes
<1> QED BY <1>1, <1>5, <1>6 DEF LocalClassOf

LEMMA TopClassDoes ==
  ASSUME TypeInv(st, ctl), TopClass
  PROVE  TopClassOf(st, ctl, st', ctl') /\ TypeInv(st', ctl')
<1>1. StOK(st) /\ ctl # <<>> /\ On(ctl).k = "decl" /\ st' = st
  BY NowFacts DEF TopClass, Inside, TypeInv
<1>2. PICK r : r = Frame("class", 0)
  OBVIOUS
<1>3. FrameIs(r, "class", 0, 0, <<>>, "top")
  BY <1>2, FramePlain DEF FrameK
<1>4. ctl' = Push(r)
  BY <1>2 DEF TopClass
<1>5. Pushed(ctl, ctl') /\ FrameIs(On(ctl'), "class", 0, 0, <<>>, "top") /\ TypeInv(st', ctl')
  BY <1>1, <1>3, <1>4, PushDoes
<1> QED BY <1>1, <1>5 DEF TopClassOf

LEMMA NestedClassDoes ==
  ASSUME TypeInv(st, ctl), NestedClass
  PROVE  NestedClassOf(st, ctl, st', ctl') /\ TypeInv(st', ctl')
<1>1. StOK(st) /\ ctl # <<>> /\ On(ctl).k = "class" /\ st' = st
  BY NowFacts DEF NestedClass, Inside, TypeInv
<1>2. PICK r : r = [Frame("class", 0) EXCEPT !.how = "nested"]
  OBVIOUS
<1>3. FrameIs(r, "class", 0, 0, <<>>, "nested")
  BY <1>2, FrameHow DEF FrameK
<1>4. ctl' = Push(r)
  BY <1>2 DEF NestedClass
<1>5. Pushed(ctl, ctl') /\ FrameIs(On(ctl'), "class", 0, 0, <<>>, "nested") /\ TypeInv(st', ctl')
  BY <1>1, <1>3, <1>4, PushDoes
<1> QED BY <1>1, <1>5 DEF NestedClassOf

LEMMA MemberFnDoes ==
  ASSUME TypeInv(st, ctl), MemberFn
  PROVE  MemberFnOf(st, ctl, st', ctl') /\ TypeInv(st', ctl')
<1>1. /\ StOK(st) /\ ctl # <<>> /\ On(ctl).k = "class" /\ On(ctl).how # "instance" /\ ctl' = ctl
      /\ ctl \in Seq(FrameType)
  BY NowFacts DEF MemberFn, Inside, TypeInv
<1>2. DOMAIN ctl = 1 .. Len(ctl)
  BY <1>1, LenProperties
<1>3. PICK only \in BOOLEAN :
        /\ only \in IF InBody /\ "template" \notin features THEN {FALSE} ELSE BOOLEAN
        /\ st' = [NewFn(st, only) EXCEPT !.pend = Append(@, Newest(st) + 1)]
  BY DEF MemberFn
<1>4. "template" \notin features /\ (\E i \in 1 .. Len(ctl) : ctl[i].k \in {"fn", "build"}) => ~only
  BY <1>2, <1>3 DEF InBody
<1>5. PICK n : n = NewFn(st, only)
  OBVIOUS
<1>6. Len(st.fns) \in Nat /\ Len(st.fns) < MaxFns
  BY <1>1, StFields DEF StOK, MemberFn, Room, Newest
<1>7. StOK(n) /\ Still(st, n) /\ Grown(st.fns, n.fns, only)
  BY <1>1, <1>5, <1>6, NewFnDoes
<1>8. PICK f \in Fn : f = Len(st.fns) + 1
  BY <1>6, GeneratedAssumption DEF Fn
<1>9. PICK p : p = Append(n.pend, f)
  OBVIOUS
<1>10. p \in Seq(Fn) /\ Queued(st.pend, p, f)
  <2>1. n.pend \in Seq(Fn) /\ Len(n.pend) \in Nat
    BY <1>7, StFields DEF StOK
  <2>2. p \in Seq(Fn) /\ Len(p) = Len(n.pend) + 1 /\ p[Len(n.pend) + 1] = f /\ \A i \in 1 .. Len(n.pend) : p[i] = n.pend[i]
    BY <1>9, <2>1, AppendProperties
  <2>3. n.pend = st.pend
    BY <1>7 DEF Still, Lists
  <2> QED BY <2>2, <2>3 DEF Queued
<1>11. st' = [n EXCEPT !.pend = p]
  BY <1>3, <1>5, <1>8, <1>9 DEF Newest
<1>12. StOK(st') /\ PendIs(n, st', p)
  BY <1>7, <1>10, <1>11, PendDoes
<1>13. GrownBy(st.fns, st'.fns, {}, only)
  <2>1. GrownBy(st.fns, n.fns, {}, only)
    BY <1>7, GrownIsBy
  <2> QED BY <1>12, <2>1 DEF PendIs
<1>14. Queued(st.pend, st'.pend, Len(st.fns) + 1)
  BY <1>8, <1>10, <1>12 DEF PendIs
<1>15. st'.marks = st.marks /\ st'.seg = st.seg /\ st'.gen = st.gen /\ st'.out = st.out
  BY <1>7, <1>12 DEF PendIs, Still, Lists
<1>16. TypeInv(st', ctl')
  BY <1>1, <1>12 DEF TypeInv
<1> QED BY <1>1, <1>4, <1>13, <1>14, <1>15, <1>16 DEF MemberFnOf

LEMMA GenerateFnDoes ==
  ASSUME TypeInv(st, ctl), GenerateFn
  PROVE  GenerateFnOf(st, ctl, st', ctl') /\ TypeInv(st', ctl')
<1>1. StOK(st) /\ ctl # <<>> /\ On(ctl).k = "class" /\ Now = On(ctl) /\ On(ctl) \in FrameType
  BY NowFacts DEF GenerateFn, Inside, TypeInv
<1>2. PICK r : r = [On(ctl) EXCEPT !.late = TRUE]
  OBVIOUS
<1>3. FrameIs(r, "class", On(ctl).fn, On(ctl).mark, On(ctl).saved, On(ctl).how)
  BY <1>1, <1>2, FrameLate
<1>4. PICK b : b = Append(Pop, r)
  OBVIOUS
<1>5. /\ Retopped(ctl, b) /\ TypeInv(st, b) /\ b \in Seq(FrameType) /\ b # <<>>
      /\ FrameIs(On(b), "class", On(ctl).fn, On(ctl).mark, On(ctl).saved, On(ctl).how)
  BY <1>1, <1>3, <1>4, RetopDoes
<1>6. Len(st.fns) \in Nat /\ Len(st.fns) < MaxFns
  BY <1>1, StFields DEF StOK, GenerateFn, Room, Newest
<1>7. StOK(st') /\ Still(st, st') /\ Grown(st.fns, st'.fns, FALSE)
  BY <1>1, <1>6, NewFnDoes DEF GenerateFn
<1>8. GrownBy(st.fns, st'.fns, {}, FALSE)
  BY <1>7, GrownIsBy
<1>9. PICK f \in Fn : f = Len(st.fns) + 1 /\ f \in Nat
  BY <1>6, GeneratedAssumption DEF Fn
<1>10. PICK q : q = Frame("build", f)
  OBVIOUS
<1>11. FrameIs(q, "build", f, 0, <<>>, "top") /\ q \in FrameType
  <2>1. FrameIs(q, "build", f, 0, <<>>, "top")
    BY <1>9, <1>10, FramePlain DEF FrameK
  <2> QED BY <2>1 DEF FrameIs
<1>12. ctl' = Append(b, q)
  BY <1>1, <1>2, <1>4, <1>9, <1>10 DEF GenerateFn, Newest
<1>13. ctl' \in Seq(FrameType) /\ Pushed(b, ctl') /\ On(ctl') = q
  BY <1>5, <1>11, <1>12, PushFacts
<1>14. TypeInv(st', ctl')
  <2>1. On(ctl').fn \in Fn
    BY <1>9, <1>11, <1>13 DEF FrameIs
  <2> QED BY <1>5, <1>7, <1>13, <2>1, TypePush
<1> QED BY <1>1, <1>5, <1>7, <1>8, <1>9, <1>11, <1>13, <1>14 DEF GenerateFnOf

LEMMA EndClassDoes ==
  ASSUME TypeInv(st, ctl), EndClass
  PROVE  EndClassOf(st, ctl, st', ctl') /\ TypeInv(st', ctl')
<1>1. /\ StOK(st) /\ ctl # <<>> /\ On(ctl).k = "class" /\ Now = On(ctl) /\ On(ctl) \in FrameType
      /\ On(ctl).saved \in Seq(Fn) /\ st.pend \in Seq(Fn)
  BY NowFacts, StFields DEF EndClass, Inside, TypeInv, StOK
<1>2. PICK m : m = Mark(st)
  OBVIOUS
<1>3. StOK(m) /\ MarkOf(st, m) /\ Block(st) \in Blk
  BY <1>1, <1>2, MarkDoes
<1>4. Block(st) = m.marks[Len(m.marks)].blk /\ Block(st) \in Nat
  BY <1>3 DEF MarkOf, Blk
<1>5. ASSUME NEW p \in Seq(Fn), NEW t, StOK(t), ctl' = Append(Pop, Loop(p))
      PROVE  /\ Retopped(ctl, ctl') /\ FrameIs(On(ctl'), "loop", 0, Block(st), p, "top")
             /\ TypeInv(t, ctl')
  <2>0. PICK r0 : r0 = Frame("loop", 0)
    OBVIOUS
  <2>1. PICK r : r = [r0 EXCEPT !.mark = Block(st), !.saved = p]
    OBVIOUS
  <2>2. FrameIs(r, "loop", 0, Block(st), p, "top")
    <3>1. "loop" \in FrameK /\ 0 \in Nat
      BY DEF FrameK
    <3> QED BY <1>4, <2>0, <2>1, <3>1, FrameLoop
  <2>3. ctl' = Append(Pop, r)
    BY <1>5, <2>0, <2>1 DEF Loop
  <2>4. StOK(t)
    BY <1>5
  <2>5. PICK d : d = Append(Pop, r)
    OBVIOUS
  <2>6. /\ Retopped(ctl, d) /\ FrameIs(On(d), "loop", 0, Block(st), p, "top") /\ TypeInv(t, d)
    <3>1. r \in FrameType /\ r.k # "build" /\ ctl # <<>>
      BY <1>1, <2>2 DEF FrameIs
    <3>2. Retopped(ctl, d) /\ On(d) = r /\ TypeInv(t, d)
      BY <2>4, <2>5, <3>1, RetopTypes
    <3> QED BY <2>2, <3>2
  <2> QED BY <2>3, <2>5, <2>6
<1>6. CASE Now.how = "local" /\ Waiting(st)
  <2>1. st' = m /\ ctl' = Append(Pop, Loop(On(ctl).saved))
    BY <1>1, <1>2, <1>6 DEF EndClass, LoopMark
  <2>2. /\ Retopped(ctl, ctl') /\ FrameIs(On(ctl'), "loop", 0, Block(st), On(ctl).saved, "top")
        /\ TypeInv(st', ctl')
    BY <1>1, <1>3, <1>5, <2>1
  <2> QED BY <1>1, <1>3, <1>4, <1>6, <2>1, <2>2 DEF EndClassOf
<1>7. CASE Now.how = "local" /\ ~Waiting(st)
  <2>1. st' = [st EXCEPT !.pend = On(ctl).saved] /\ ctl' = Pop
    BY <1>1, <1>7 DEF EndClass
  <2>2. StOK(st') /\ PendIs(st, st', On(ctl).saved)
    BY <1>1, <2>1, PendDoes
  <2>3. Popped(ctl, ctl') /\ TypeInv(st', ctl')
    BY <1>1, <2>1, <2>2, PopDoes
  <2> QED BY <1>1, <1>7, <2>2, <2>3 DEF EndClassOf
<1>8. CASE Now.how = "instance" /\ Waiting(st)
  <2>1. st' = [m EXCEPT !.pend = <<>>] /\ ctl' = Append(Pop, Loop(st.pend))
    BY <1>1, <1>2, <1>8 DEF EndClass, LoopMark
  <2>2. StOK(st') /\ PendIs(m, st', <<>>)
    <3>1. <<>> \in Seq(Fn)
      OBVIOUS
    <3> QED BY <1>3, <2>1, <3>1, PendDoes
  <2>3. /\ Retopped(ctl, ctl') /\ FrameIs(On(ctl'), "loop", 0, Block(st), st.pend, "top")
        /\ TypeInv(st', ctl')
    BY <1>1, <1>5, <2>1, <2>2
  <2>4. Block(st) = st'.marks[Len(st'.marks)].blk
    BY <1>4, <2>2 DEF PendIs
  <2> QED BY <1>1, <1>3, <1>8, <2>2, <2>3, <2>4 DEF EndClassOf
<1>9. CASE /\ ~(Now.how = "local" /\ Waiting(st)) /\ ~(Now.how = "local" /\ ~Waiting(st))
           /\ ~(Now.how = "instance" /\ Waiting(st))
  <2>1. st' = st /\ ctl' = Pop /\ On(ctl).how # "local"
    BY <1>1, <1>9 DEF EndClass
  <2>2. Popped(ctl, ctl') /\ TypeInv(st', ctl')
    BY <1>1, <2>1, PopDoes
  <2>3. On(ctl).how = "instance" => ~Waiting(st)
    BY <1>1, <1>9
  <2> QED BY <1>1, <2>1, <2>2, <2>3 DEF EndClassOf
<1> QED BY <1>6, <1>7, <1>8, <1>9

LEMMA EndLoopDoes ==
  ASSUME TypeInv(st, ctl), EndLoop
  PROVE  EndLoopOf(st, ctl, st', ctl') /\ TypeInv(st', ctl')
<1>1. /\ StOK(st) /\ ctl # <<>> /\ On(ctl).k = "loop" /\ Now = On(ctl) /\ ~Waiting(st)
      /\ On(ctl).saved \in Seq(Fn)
  BY NowFacts DEF EndLoop, Inside, TypeInv
<1>2. PICK u : u = Unmark(st, On(ctl).mark)
  OBVIOUS
<1>3. StOK(u) /\ UnmarkOf(st, u, On(ctl).mark)
  BY <1>1, <1>2, UnmarkFacts
<1>4. st' = [u EXCEPT !.pend = On(ctl).saved] /\ ctl' = Pop
  BY <1>1, <1>2 DEF EndLoop
<1>5. StOK(st') /\ PendIs(u, st', On(ctl).saved)
  BY <1>1, <1>3, <1>4, PendDoes
<1>6. Popped(ctl, ctl') /\ TypeInv(st', ctl')
  BY <1>1, <1>4, <1>5, PopDoes
<1> QED BY <1>1, <1>3, <1>5, <1>6 DEF EndLoopOf

LEMMA EndDeclDoes ==
  ASSUME TypeInv(st, ctl), EndDecl
  PROVE  EndDeclOf(st, ctl, st', ctl') /\ TypeInv(st', ctl')
<1>1. StOK(st) /\ ctl # <<>> /\ On(ctl).k = "decl" /\ st' = st /\ ctl' = Pop
  BY NowFacts DEF EndDecl, Inside, TypeInv
<1>2. Popped(ctl, ctl') /\ TypeInv(st', ctl')
  BY <1>1, PopDoes
<1> QED BY <1>1, <1>2 DEF EndDeclOf

----------------------------------------------------------------------------
(* Types.                                                                  *)

Types == features \in FeatureSets /\ TypeInv(st, ctl)

\* One of the actions, by what it does.
Steps(s, c, t, d) ==
  \/ GeneratedOf(s, c, t, d) \/ PendingOf(s, c, t, d) \/ SourceOf(s, c, t, d)
  \/ EndOfFileOf(s, c, t, d) \/ ReadOf(s, c, t, d) \/ DescribeOf(s, c, t, d)
  \/ HeadOf(s, c, t, d) \/ MembersOf(s, c, t, d) \/ NotedOf(s, c, t, d)
  \/ EndFnOf(s, c, t, d) \/ CompiledOf(s, c, t, d) \/ InstanceFnOf(s, c, t, d)
  \/ InstanceClassOf(s, c, t, d) \/ LocalClassOf(s, c, t, d) \/ TopClassOf(s, c, t, d)
  \/ NestedClassOf(s, c, t, d) \/ MemberFnOf(s, c, t, d) \/ GenerateFnOf(s, c, t, d)
  \/ EndClassOf(s, c, t, d) \/ EndLoopOf(s, c, t, d) \/ EndDeclOf(s, c, t, d)

LEMMA NextSteps ==
  ASSUME Types, [Next]_vars
  PROVE  /\ \/ st.out = "ok" /\ Steps(st, ctl, st', ctl')
            \/ UNCHANGED vars
         /\ TypeInv(st', ctl') /\ features' = features
<1>1. TypeInv(st, ctl)
  BY DEF Types
<1>2. CASE UNCHANGED vars
  BY <1>1, <1>2 DEF vars
<1>3. CASE st.out = "ok" /\ features' = features /\ (RdGenerated \/ RdPending \/ RdSource \/ EndOfFile)
  BY <1>1, <1>3, RdGeneratedDoes, RdPendingDoes, RdSourceDoes, EndOfFileDoes DEF Steps
<1>4. CASE st.out = "ok" /\ features' = features /\ (Read \/ Describe \/ RdHead \/ RdMembers \/ NoteGenerated)
  BY <1>1, <1>4, ReadDoes, DescribeDoes, RdHeadDoes, RdMembersDoes, NoteGeneratedDoes DEF Steps
<1>5. CASE st.out = "ok" /\ features' = features /\ (EndFn \/ CgTopDecl \/ InstantiateFn \/ InstantiateClass)
  BY <1>1, <1>5, EndFnDoes, CgTopDeclDoes, InstantiateFnDoes, InstantiateClassDoes DEF Steps
<1>6. CASE st.out = "ok" /\ features' = features /\ (LocalClass \/ TopClass \/ NestedClass \/ MemberFn)
  BY <1>1, <1>6, LocalClassDoes, TopClassDoes, NestedClassDoes, MemberFnDoes DEF Steps
<1>7. CASE st.out = "ok" /\ features' = features /\ (GenerateFn \/ EndClass \/ EndLoop \/ EndDecl)
  BY <1>1, <1>7, GenerateFnDoes, EndClassDoes, EndLoopDoes, EndDeclDoes DEF Steps
<1> QED BY <1>2, <1>3, <1>4, <1>5, <1>6, <1>7 DEF Next, Over

\* At the start there is the base mark.
Start ==
  /\ st.marks = <<[blk |-> 1, seg |-> 0, unmarked |-> FALSE]>> /\ st.free = <<>> /\ st.blks = 1
  /\ st.seg = 0 /\ st.gen = <<>> /\ st.pend = <<>> /\ st.fns = <<>> /\ st.out = "ok"
  /\ ctl = <<>> /\ Len(st.marks) = 1 /\ Len(st.gen) = 0 /\ Len(st.pend) = 0 /\ Len(st.fns) = 0
  /\ Len(ctl) = 0

LEMMA InitStarts ==
  ASSUME Init
  PROVE  Start /\ features \in FeatureSets
BY DEF Init, Start

LEMMA InitTypes ==
  ASSUME Init
  PROVE  Types
<1>1. Start /\ features \in FeatureSets
  BY InitStarts
<1>2. PICK b : b = [blk |-> 1, seg |-> 0, unmarked |-> FALSE]
  OBVIOUS
<1>3. b \in MarkType /\ b.blk = 1 /\ ~b.unmarked
  BY <1>2, GeneratedAssumption DEF MarkType, Blk
<1>4. st.marks = <<b>>
  BY <1>1, <1>2 DEF Start
<1>5. st.marks \in Seq(MarkType) /\ st.marks # <<>> /\ st.marks[1] = b
  BY <1>3, <1>4
<1>6. st \in StType
  <2>1. /\ st = [marks |-> <<b>>, free |-> <<>>, blks |-> 1, seg |-> 0, gen |-> <<>>, pend |-> <<>>,
                 fns |-> <<>>, out |-> "ok"]
    BY <1>2 DEF Init
  <2>2. /\ <<b>> \in Seq(MarkType) /\ <<>> \in Seq(Blk) /\ 0 \in 0 .. MaxHunks
        /\ <<>> \in Seq(NoteType) /\ <<>> \in Seq(Fn) /\ <<>> \in Seq(FnType)
    BY <1>4, <1>5, GeneratedAssumption
  <2> QED BY <2>1, <2>2 DEF StType
<1>7. BlocksApart(st)
  <2>1. Len(st.marks) = 1 /\ Len(st.free) = 0 /\ st.blks = 1 /\ st.marks[1].blk = 1
    BY <1>1, <1>3, <1>5 DEF Start
  <2> QED BY <1>5, <2>1 DEF BlocksApart, Apart
<1>8. TopLive(st.marks)
  BY <1>1, <1>3, <1>5 DEF Start, TopLive
<1>9. StOK(st)
  BY <1>1, <1>6, <1>7, <1>8, GeneratedAssumption DEF StOK, Start
<1>10. ctl \in Seq(FrameType)
  BY <1>1 DEF Start
<1> QED BY <1>1, <1>9, <1>10 DEF Types, TypeInv, Start

LEMMA TypesKept ==
  ASSUME Types, [Next]_vars
  PROVE  Types'
BY NextSteps DEF Types

LEMMA ApartIs ==
  ASSUME NEW M \in Seq(MarkType), NEW A \in Seq(Blk), NEW n \in Nat, Apart(M, A, n)
  PROVE  /\ IsInjective(Blocks(M) \o A)
         /\ ToSet(Blocks(M) \o A) = 1 .. n
<1>1. Len(M) \in Nat /\ Len(A) \in Nat
  BY LenProperties
<1>2. PICK B : B = Blocks(M)
  OBVIOUS
<1>3. B = [i \in 1 .. Len(M) |-> B[i]] /\ \A i \in 1 .. Len(M) : B[i] = M[i].blk /\ B[i] \in Blk
  BY <1>2, MarkFields DEF Blocks
<1>4. B \in Seq(Blk) /\ Len(B) = Len(M)
  BY <1>1, <1>3, FnIsSeq
<1>5. PICK C : C = B \o A
  OBVIOUS
<1>6. C \in Seq(Blk) /\ Joined(B, A, C)
  BY <1>4, <1>5, ConcatParts
<1>7. DOMAIN C = 1 .. Len(C) /\ Len(C) = Len(M) + Len(A)
  BY <1>4, <1>6, LenProperties DEF Joined
<1>8. ASSUME NEW i \in 1 .. Len(C)
      PROVE  \/ i \in 1 .. Len(M) /\ C[i] = M[i].blk
             \/ i - Len(M) \in 1 .. Len(A) /\ C[i] = A[i - Len(M)]
  <2>1. CASE i <= Len(M)
    <3>1. i \in 1 .. Len(B)
      BY <1>4, <2>1
    <3>2. C[i] = B[i]
      BY <1>6, <3>1 DEF Joined
    <3> QED BY <1>3, <1>4, <3>1, <3>2
  <2>2. CASE ~(i <= Len(M))
    <3>1. i - Len(M) \in 1 .. Len(A) /\ Len(M) + (i - Len(M)) = i
      BY <1>1, <1>7, <2>2
    <3>2. C[Len(M) + (i - Len(M))] = A[i - Len(M)]
      BY <1>4, <1>6, <3>1 DEF Joined
    <3> QED BY <3>1, <3>2
  <2> QED BY <2>1, <2>2
<1>9. ASSUME NEW i \in 1 .. Len(C), NEW j \in 1 .. Len(C), C[i] = C[j] PROVE i = j
  <2>1. ASSUME NEW a \in 1 .. Len(M), NEW b \in 1 .. Len(A) PROVE M[a].blk # A[b]
    BY DEF Apart
  <2>2. ASSUME NEW a \in 1 .. Len(M), NEW b \in 1 .. Len(M), M[a].blk = M[b].blk PROVE a = b
    BY <2>2 DEF Apart
  <2>3. ASSUME NEW a \in 1 .. Len(A), NEW b \in 1 .. Len(A), A[a] = A[b] PROVE a = b
    BY <2>3 DEF Apart
  <2>4. CASE i \in 1 .. Len(M) /\ C[i] = M[i].blk /\ j \in 1 .. Len(M) /\ C[j] = M[j].blk
    BY <1>9, <2>2, <2>4
  <2>5. CASE i \in 1 .. Len(M) /\ C[i] = M[i].blk /\ j - Len(M) \in 1 .. Len(A) /\ C[j] = A[j - Len(M)]
    <3>1. M[i].blk # A[j - Len(M)]
      BY <2>1, <2>5
    <3> QED BY <1>9, <2>5, <3>1
  <2>6. CASE j \in 1 .. Len(M) /\ C[j] = M[j].blk /\ i - Len(M) \in 1 .. Len(A) /\ C[i] = A[i - Len(M)]
    <3>1. M[j].blk # A[i - Len(M)]
      BY <2>1, <2>6
    <3> QED BY <1>9, <2>6, <3>1
  <2>7. CASE i - Len(M) \in 1 .. Len(A) /\ C[i] = A[i - Len(M)] /\ j - Len(M) \in 1 .. Len(A) /\ C[j] = A[j - Len(M)]
    <3>1. A[i - Len(M)] = A[j - Len(M)]
      BY <1>9, <2>7
    <3>2. i - Len(M) = j - Len(M)
      BY <2>3, <2>7, <3>1
    <3> QED BY <1>1, <3>2
  <2> QED BY <1>8, <2>4, <2>5, <2>6, <2>7
<1>10. IsInjective(C)
  BY <1>7, <1>9 DEF IsInjective
<1>11. ASSUME NEW i \in 1 .. Len(C) PROVE C[i] \in 1 .. n
  <2>1. C[i] <= n
    BY <1>8 DEF Apart
  <2>2. C[i] \in Nat /\ C[i] # 0
    BY <1>6, ElementOfSeq DEF Blk
  <2> QED BY <2>1, <2>2
<1>12. ASSUME NEW b \in 1 .. n PROVE \E i \in 1 .. Len(C) : C[i] = b
  <2>1. CASE \E i \in 1 .. Len(M) : M[i].blk = b
    <3>1. PICK i \in 1 .. Len(M) : M[i].blk = b
      BY <2>1
    <3>2. i \in 1 .. Len(C) /\ i \in 1 .. Len(B) /\ B[i] = b
      BY <1>1, <1>3, <1>4, <1>7, <3>1
    <3>3. C[i] = B[i]
      BY <1>6, <3>2 DEF Joined
    <3> QED BY <3>2, <3>3
  <2>2. CASE \E i \in 1 .. Len(A) : A[i] = b
    <3>1. PICK i \in 1 .. Len(A) : A[i] = b
      BY <2>2
    <3>2. Len(M) + i \in 1 .. Len(C)
      BY <1>1, <1>7
    <3>3. C[Len(M) + i] = A[i]
      BY <1>4, <1>6 DEF Joined
    <3> QED BY <3>1, <3>2, <3>3
  <2>3. \/ \E i \in 1 .. Len(M) : M[i].blk = b
        \/ \E i \in 1 .. Len(A) : A[i] = b
    BY DEF Apart
  <2> QED BY <2>1, <2>2, <2>3
<1>13. ToSet(C) = 1 .. n
  BY <1>7, <1>11, <1>12 DEF ToSet
<1> QED BY <1>2, <1>5, <1>10, <1>13

LEMMA TypesAre ==
  ASSUME Types
  PROVE  TypeOK
<1>1. StOK(st) /\ ctl \in Seq(FrameType) /\ features \in FeatureSets
  BY DEF Types, TypeInv
<1>2. /\ st.marks \in Seq(MarkType) /\ st.free \in Seq(Blk) /\ st.blks \in Nat
      /\ st.seg \in 0 .. MaxHunks /\ st.gen \in Seq(NoteType) /\ st.pend \in Seq(Fn)
      /\ st.fns \in Seq(FnType) /\ st.out \in {"ok", "done", "unmark", "unmark1", "marklist"}
  BY <1>1, StFields DEF StOK
<1>3. Apart(st.marks, st.free, st.blks)
  BY <1>1 DEF StOK, BlocksApart
<1>4. /\ IsInjective(Blocks(st.marks) \o st.free)
      /\ ToSet(Blocks(st.marks) \o st.free) = 1 .. st.blks
  BY <1>2, <1>3, ApartIs
<1> QED BY <1>1, <1>2, <1>4 DEF TypeOK, MarkType, NoteType, FnType, FrameType, F

\* The lists hold what they should, and every block of a mark is on the list
\* of marks or free, once.
THEOREM GeneratedTypes == Spec => []TypeOK
<1>1. Init => Types
  BY InitTypes
<1>2. Types /\ [Next]_vars => Types'
  BY TypesKept
<1>3. Types => TypeOK
  BY TypesAre
<1> QED BY <1>1, <1>2, <1>3, PTL DEF Spec

----------------------------------------------------------------------------
(* Functions are known, and frames are made as they should be.             *)

\* The functions go on: there may be more.
FnsOn(G, H) == Len(H) >= Len(G) /\ \A f \in 1 .. Len(G) : H[f].only = G[f].only

\* Only functions, built or read or compiled, have a function; what waits
\* outside is kept by the loops and the local classes only.
Sits(G, r) ==
  /\ r.k \in {"fn", "build", "cg"} => r.fn \in 1 .. Len(G)
  /\ \A j \in 1 .. Len(r.saved) : r.saved[j] \in 1 .. Len(G)
  /\ r.k \in {"class", "build", "decl"} => r.mark = 0
  /\ r.k = "loop" => r.mark # 0
  /\ r.k = "fn" /\ r.mark # 0 => ~G[r.fn].only
  /\ r.saved = <<>> \/ r.k = "loop" \/ (r.k = "class" /\ r.how = "local")

AllSit(G, c)    == \A i \in 1 .. Len(c) : Sits(G, c[i])
GenKnown(g, G)  == \A i \in 1 .. Len(g) : g[i].fn \in 1 .. Len(G)
PendKnown(p, G) == \A i \in 1 .. Len(p) : p[i] \in 1 .. Len(G)

KnownInv(s, c) == GenKnown(s.gen, s.fns) /\ PendKnown(s.pend, s.fns) /\ AllSit(s.fns, c)

LEMMA FnsOnFacts ==
  ASSUME NEW G \in Seq(FnType), NEW H \in Seq(FnType)
  PROVE  /\ H = G => FnsOn(G, H)
         /\ \A n : Given(G, H, n) => FnsOn(G, H)
         /\ \A f, n : Pieced(G, H, f, n) => FnsOn(G, H)
         /\ \A S, only : GrownBy(G, H, S, only) => FnsOn(G, H)
         /\ \A f : OneMade(G, H, f) => FnsOn(G, H)
<1>1. Len(G) \in Nat /\ Len(H) \in Nat
  BY LenProperties
<1>2. H = G => FnsOn(G, H)
  BY <1>1 DEF FnsOn
<1>3. ASSUME NEW n, Given(G, H, n) PROVE FnsOn(G, H)
  BY <1>1, <1>3 DEF FnsOn, Given
<1>4. ASSUME NEW f, NEW n, Pieced(G, H, f, n) PROVE FnsOn(G, H)
  BY <1>1, <1>4 DEF FnsOn, Pieced
<1>5. ASSUME NEW S, NEW only, GrownBy(G, H, S, only) PROVE FnsOn(G, H)
  BY <1>1, <1>5 DEF FnsOn, GrownBy, Alike
<1>6. ASSUME NEW f, OneMade(G, H, f) PROVE FnsOn(G, H)
  BY <1>1, <1>6 DEF FnsOn, OneMade
<1> QED BY <1>2, <1>3, <1>4, <1>5, <1>6

LEMMA FnsOnTwice ==
  ASSUME NEW G \in Seq(FnType), NEW H \in Seq(FnType), NEW I \in Seq(FnType),
         FnsOn(G, H), FnsOn(H, I)
  PROVE  FnsOn(G, I)
<1>1. Len(G) \in Nat /\ Len(H) \in Nat /\ Len(I) \in Nat
  BY LenProperties
<1>2. Len(I) >= Len(G)
  BY <1>1 DEF FnsOn
<1>3. ASSUME NEW f \in 1 .. Len(G) PROVE I[f].only = G[f].only
  <2>1. f \in 1 .. Len(H)
    BY <1>1 DEF FnsOn
  <2>2. H[f].only = G[f].only
    BY DEF FnsOn
  <2>3. I[f].only = H[f].only
    BY <2>1 DEF FnsOn
  <2> QED BY <2>2, <2>3
<1> QED BY <1>2, <1>3 DEF FnsOn

LEMMA SitsOn ==
  ASSUME NEW G \in Seq(FnType), NEW H \in Seq(FnType), FnsOn(G, H), NEW r, Sits(G, r)
  PROVE  Sits(H, r)
<1>1. Len(G) \in Nat /\ Len(H) \in Nat /\ Len(H) >= Len(G)
  BY LenProperties DEF FnsOn
<1>2. \A f \in 1 .. Len(G) : f \in 1 .. Len(H) /\ H[f].only = G[f].only
  BY <1>1 DEF FnsOn
<1>3. r.k \in {"fn", "build", "cg"} => r.fn \in 1 .. Len(H)
  BY <1>2 DEF Sits
<1>4. \A j \in 1 .. Len(r.saved) : r.saved[j] \in 1 .. Len(H)
  BY <1>2 DEF Sits
<1>5. r.k = "fn" /\ r.mark # 0 => ~H[r.fn].only
  BY <1>2 DEF Sits
<1>6. /\ r.k \in {"class", "build", "decl"} => r.mark = 0
      /\ r.k = "loop" => r.mark # 0
      /\ r.saved = <<>> \/ r.k = "loop" \/ (r.k = "class" /\ r.how = "local")
  BY DEF Sits
<1> QED BY <1>3, <1>4, <1>5, <1>6 DEF Sits

\* The lists of functions, when there are more functions.
LEMMA KnownOn ==
  ASSUME NEW G \in Seq(FnType), NEW H \in Seq(FnType), FnsOn(G, H)
  PROVE  /\ \A g : GenKnown(g, G) => GenKnown(g, H)
         /\ \A p : PendKnown(p, G) => PendKnown(p, H)
         /\ \A c : AllSit(G, c) => AllSit(H, c)
<1>1. Len(G) \in Nat /\ Len(H) \in Nat /\ Len(H) >= Len(G)
  BY LenProperties DEF FnsOn
<1>2. \A f \in 1 .. Len(G) : f \in 1 .. Len(H)
  BY <1>1
<1>3. ASSUME NEW g, GenKnown(g, G) PROVE GenKnown(g, H)
  BY <1>2, <1>3 DEF GenKnown
<1>4. ASSUME NEW p, PendKnown(p, G) PROVE PendKnown(p, H)
  BY <1>2, <1>4 DEF PendKnown
<1>5. ASSUME NEW c, AllSit(G, c) PROVE AllSit(H, c)
  BY <1>5, SitsOn DEF AllSit
<1> QED BY <1>3, <1>4, <1>5

LEMMA ConsKnown ==
  ASSUME NEW g, NEW h, NEW e, Consed(g, h, e), Len(g) \in Nat, NEW G
  PROVE  /\ GenKnown(h, G) <=> GenKnown(g, G) /\ e.fn \in 1 .. Len(G)
         /\ PendKnown(h, G) <=> PendKnown(g, G) /\ e \in 1 .. Len(G)
<1>1. Len(h) = Len(g) + 1 /\ h[1] = e /\ 1 \in 1 .. Len(h)
  BY DEF Consed
<1>2. ASSUME NEW i \in 1 .. Len(h)
      PROVE  h[i] = e \/ (i - 1 \in 1 .. Len(g) /\ h[i] = g[i - 1])
  <2>1. CASE i = 1
    BY <1>1, <2>1
  <2>2. CASE i # 1
    <3>1. i - 1 \in 1 .. Len(g) /\ (i - 1) + 1 = i
      BY <1>1, <2>2
    <3>2. h[(i - 1) + 1] = g[i - 1]
      BY <3>1 DEF Consed
    <3> QED BY <3>1, <3>2
  <2> QED BY <2>1, <2>2
<1>3. ASSUME NEW i \in 1 .. Len(g)
      PROVE  i + 1 \in 1 .. Len(h) /\ h[i + 1] = g[i]
  BY <1>1 DEF Consed
<1>4. GenKnown(h, G) <=> GenKnown(g, G) /\ e.fn \in 1 .. Len(G)
  <2>1. ASSUME GenKnown(h, G) PROVE GenKnown(g, G) /\ e.fn \in 1 .. Len(G)
    BY <1>1, <1>3, <2>1 DEF GenKnown
  <2>2. ASSUME GenKnown(g, G), e.fn \in 1 .. Len(G) PROVE GenKnown(h, G)
    BY <1>2, <2>2 DEF GenKnown
  <2> QED BY <2>1, <2>2
<1>5. PendKnown(h, G) <=> PendKnown(g, G) /\ e \in 1 .. Len(G)
  <2>1. ASSUME PendKnown(h, G) PROVE PendKnown(g, G) /\ e \in 1 .. Len(G)
    BY <1>1, <1>3, <2>1 DEF PendKnown
  <2>2. ASSUME PendKnown(g, G), e \in 1 .. Len(G) PROVE PendKnown(h, G)
    BY <1>2, <2>2 DEF PendKnown
  <2> QED BY <2>1, <2>2
<1> QED BY <1>4, <1>5

\* The frames after a step are those of before, and the top one.
LEMMA FramesSit ==
  ASSUME NEW c \in Seq(FrameType), NEW d \in Seq(FrameType), NEW G, AllSit(G, c)
  PROVE  /\ Pushed(c, d) /\ Sits(G, On(d)) => AllSit(G, d)
         /\ Popped(c, d) => AllSit(G, d)
         /\ Retopped(c, d) /\ Sits(G, On(d)) => AllSit(G, d)
<1>1. Len(c) \in Nat /\ Len(d) \in Nat
  BY LenProperties
<1>2. ASSUME Pushed(c, d), Sits(G, On(d)), NEW i \in 1 .. Len(d) PROVE Sits(G, d[i])
  <2>1. i = Len(d) \/ i \in 1 .. Len(c)
    BY <1>1, <1>2 DEF Pushed
  <2>2. CASE i = Len(d)
    BY <1>2, <2>2 DEF On
  <2>3. CASE i \in 1 .. Len(c)
    BY <1>2, <2>3 DEF Pushed, AllSit
  <2> QED BY <2>1, <2>2, <2>3
<1>3. ASSUME Popped(c, d), NEW i \in 1 .. Len(d) PROVE Sits(G, d[i])
  <2>1. i \in 1 .. Len(c) /\ d[i] = c[i]
    BY <1>1, <1>3 DEF Popped
  <2> QED BY <2>1 DEF AllSit
<1>4. ASSUME Retopped(c, d), Sits(G, On(d)), NEW i \in 1 .. Len(d) PROVE Sits(G, d[i])
  <2>1. i = Len(d) \/ (i \in 1 .. Len(c) - 1 /\ i \in 1 .. Len(c))
    BY <1>1, <1>4 DEF Retopped
  <2>2. CASE i = Len(d)
    BY <1>4, <2>2 DEF On
  <2>3. CASE i \in 1 .. Len(c) - 1 /\ i \in 1 .. Len(c)
    BY <1>4, <2>3 DEF Retopped, AllSit
  <2> QED BY <2>1, <2>2, <2>3
<1> QED BY <1>2, <1>3, <1>4 DEF AllSit

StKnown(s) == GenKnown(s.gen, s.fns) /\ PendKnown(s.pend, s.fns)

\* What a step of the store keeps of this.
Onward(s, t) == FnsOn(s.fns, t.fns) /\ (StKnown(s) => StKnown(t))

LEMMA OnwardTwice ==
  ASSUME NEW s, NEW t, NEW u, StOK(s), StOK(t), StOK(u), Onward(s, t), Onward(t, u)
  PROVE  Onward(s, u)
<1>1. s.fns \in Seq(FnType) /\ t.fns \in Seq(FnType) /\ u.fns \in Seq(FnType)
  BY StFields DEF StOK
<1>2. FnsOn(s.fns, u.fns)
  BY <1>1, FnsOnTwice DEF Onward
<1> QED BY <1>2 DEF Onward

LEMMA OnwardLists ==
  ASSUME NEW s, NEW t, StOK(s), StOK(t), FnsOn(s.fns, t.fns), Lists(s, t)
  PROVE  Onward(s, t)
<1>1. s.fns \in Seq(FnType) /\ t.fns \in Seq(FnType)
  BY StFields DEF StOK
<1> QED BY <1>1, KnownOn DEF Onward, StKnown, Lists

LEMMA OnwardCons ==
  ASSUME NEW s, NEW t, StOK(s), StOK(t), FnsOn(s.fns, t.fns), t.pend = s.pend,
         NEW e, Consed(s.gen, t.gen, e), e.fn \in 1 .. Len(t.fns)
  PROVE  Onward(s, t)
<1>1. s.fns \in Seq(FnType) /\ t.fns \in Seq(FnType) /\ s.gen \in Seq(NoteType)
  BY StFields DEF StOK
<1>2. Len(s.gen) \in Nat
  BY <1>1, LenProperties
<1>3. ASSUME StKnown(s) PROVE StKnown(t)
  <2>1. GenKnown(s.gen, t.fns) /\ PendKnown(s.pend, t.fns)
    BY <1>1, <1>3, KnownOn DEF StKnown
  <2>2. GenKnown(t.gen, t.fns)
    BY <1>2, <2>1, ConsKnown
  <2> QED BY <2>1, <2>2 DEF StKnown
<1> QED BY <1>3 DEF Onward

LEMMA Onwards ==
  ASSUME NEW s, NEW t, StOK(s), StOK(t)
  PROVE  /\ t = s => Onward(s, t)
         /\ DropOf(s, t) => Onward(s, t)
         /\ MarkOf(s, t) => Onward(s, t)
         /\ Extra(s, t) => Onward(s, t)
         /\ \A b : UnmarkOf(s, t, b) => Onward(s, t)
         /\ Still(s, t) /\ FnsOn(s.fns, t.fns) => Onward(s, t)
         /\ \A f \in 1 .. Len(s.fns) : NoteOf(s, t, f) => Onward(s, t)
<1>1. s.fns \in Seq(FnType) /\ t.fns \in Seq(FnType)
  BY StFields DEF StOK
<1>2. Len(s.fns) \in Nat /\ Len(t.fns) \in Nat
  BY <1>1, LenProperties
<1>3. FnsOn(s.fns, s.fns) /\ Lists(s, s)
  BY <1>1, FnsOnFacts DEF Lists
<1>4. t = s => Onward(s, t)
  BY <1>3, OnwardLists
<1>5. ASSUME DropOf(s, t) PROVE Onward(s, t)
  <2>1. FnsOn(s.fns, t.fns) /\ Lists(s, t)
    BY <1>1, <1>5, FnsOnFacts DEF DropOf
  <2> QED BY <2>1, OnwardLists
<1>6. ASSUME MarkOf(s, t) PROVE Onward(s, t)
  <2>1. FnsOn(s.fns, t.fns) /\ Lists(s, t)
    BY <1>3, <1>6 DEF MarkOf
  <2> QED BY <2>1, OnwardLists
<1>7. ASSUME Extra(s, t) PROVE Onward(s, t)
  <2>1. PICK e : e = [fn |-> Len(s.fns) + 1, mark |-> t.marks[Len(t.marks)].blk]
    OBVIOUS
  <2>2. Consed(s.gen, t.gen, e) /\ e.fn = Len(s.fns) + 1 /\ t.pend = s.pend
    BY <1>7, <2>1 DEF Extra
  <2>3. GrownBy(s.fns, t.fns, {Len(s.marks)}, FALSE)
    BY <1>7 DEF Extra
  <2>4. FnsOn(s.fns, t.fns) /\ Len(t.fns) = Len(s.fns) + 1
    <3>1. FnsOn(s.fns, t.fns)
      BY <1>1, <2>3, FnsOnFacts
    <3> QED BY <2>3, <3>1 DEF GrownBy
  <2>5. e.fn \in 1 .. Len(t.fns)
    BY <1>2, <2>2, <2>4
  <2> QED BY <2>2, <2>4, <2>5, OnwardCons
<1>8. ASSUME NEW b, UnmarkOf(s, t, b) PROVE Onward(s, t)
  <2>1. Lists(s, t)
    BY <1>8 DEF UnmarkOf
  <2>2. t.fns = s.fns \/ Given(s.fns, t.fns, Len(t.marks))
    BY <1>8 DEF UnmarkOf, NoSuchMark, NotDropped, CutBack, JustNoted
  <2>3. FnsOn(s.fns, t.fns)
    BY <1>1, <1>3, <2>2, FnsOnFacts
  <2> QED BY <2>1, <2>3, OnwardLists
<1>9. ASSUME Still(s, t), FnsOn(s.fns, t.fns) PROVE Onward(s, t)
  BY <1>9, OnwardLists DEF Still
<1>10. ASSUME NEW f \in 1 .. Len(s.fns), NoteOf(s, t, f) PROVE Onward(s, t)
  <2>1. PICK e : e = [fn |-> f, mark |-> t.marks[Len(t.marks)].blk]
    OBVIOUS
  <2>2. Consed(s.gen, t.gen, e) /\ e.fn = f /\ t.pend = s.pend
    BY <1>10, <2>1 DEF NoteOf
  <2>3. Pieced(s.fns, t.fns, f, Len(s.marks))
    BY <1>10 DEF NoteOf
  <2>4. FnsOn(s.fns, t.fns) /\ Len(t.fns) = Len(s.fns)
    <3>1. FnsOn(s.fns, t.fns)
      BY <1>1, <2>3, FnsOnFacts
    <3> QED BY <2>3, <3>1 DEF Pieced
  <2>5. e.fn \in 1 .. Len(t.fns)
    BY <1>10, <2>2, <2>4
  <2> QED BY <2>2, <2>4, <2>5, OnwardCons
<1> QED BY <1>4, <1>5, <1>6, <1>7, <1>8, <1>9, <1>10

LEMMA DescribedOnward ==
  ASSUME NEW s, NEW t, StOK(s), DescribedOf(s, t)
  PROVE  Onward(s, t) /\ StOK(t)
BY Onwards DEF DescribedOf

LEMMA EntryOnward ==
  ASSUME NEW s, NEW c, NEW e, StOK(s), EntryOf(s, c, e)
  PROVE  Onward(s, e) /\ StOK(e)
BY Onwards DEF EntryOf

\* The state of the store goes on, and the stack changes at its top.
LEMMA KnownPush ==
  ASSUME NEW s, NEW c, NEW t, NEW d, TypeInv(s, c), TypeInv(t, d), KnownInv(s, c),
         FnsOn(s.fns, t.fns), StKnown(t)
  PROVE  /\ Pushed(c, d) /\ Sits(t.fns, On(d)) => KnownInv(t, d)
         /\ Popped(c, d) => KnownInv(t, d)
         /\ Retopped(c, d) /\ Sits(t.fns, On(d)) => KnownInv(t, d)
         /\ d = c => KnownInv(t, d)
         /\ c # <<>> => Sits(s.fns, On(c)) /\ Sits(t.fns, On(c))
         /\ AllSit(t.fns, c)
<1>1. c \in Seq(FrameType) /\ d \in Seq(FrameType) /\ s.fns \in Seq(FnType) /\ t.fns \in Seq(FnType)
  BY StFields DEF TypeInv, StOK
<1>2. AllSit(s.fns, c)
  BY DEF KnownInv
<1>3. AllSit(t.fns, c)
  BY <1>1, <1>2, KnownOn
<1>4. c # <<>> => Len(c) \in 1 .. Len(c)
  <2>1. c # <<>> => Len(c) \in Nat \ {0}
    BY <1>1, EmptySeq
  <2> QED BY <2>1
<1>5. c # <<>> => Sits(s.fns, On(c)) /\ Sits(t.fns, On(c))
  BY <1>2, <1>3, <1>4 DEF AllSit, On
<1> QED BY <1>1, <1>3, <1>5, FramesSit DEF KnownInv, StKnown

LEMMA SitsIs ==
  ASSUME NEW r, NEW k, NEW f, NEW m, NEW p, NEW h, FrameIs(r, k, f, m, p, h), NEW G, PendKnown(p, G)
  PROVE  /\ k \in {"build", "cg"} /\ f \in 1 .. Len(G) /\ p = <<>> /\ (k = "build" => m = 0)
              => Sits(G, r)
         /\ k = "fn" /\ f \in 1 .. Len(G) /\ p = <<>> /\ (m = 0 \/ ~G[f].only) => Sits(G, r)
         /\ k \in {"class", "decl"} /\ m = 0 /\ (p = <<>> \/ (k = "class" /\ h = "local")) => Sits(G, r)
         /\ k = "loop" /\ m # 0 => Sits(G, r)
BY DEF FrameIs, Sits, PendKnown

LEMMA NoneKnown ==
  ASSUME NEW G PROVE PendKnown(<<>>, G) /\ GenKnown(<<>>, G)
<1>1. Len(<<>>) = 0
  OBVIOUS
<1>2. \A i \in 1 .. 0 : FALSE
  OBVIOUS
<1> QED BY <1>1, <1>2 DEF PendKnown, GenKnown

LEMMA GeneratedKnown ==
  ASSUME NEW s, NEW c, NEW t, NEW d, TypeInv(s, c), TypeInv(t, d), KnownInv(s, c),
         GeneratedOf(s, c, t, d)
  PROVE  KnownInv(t, d)
<1>1. PICK e, x, y : /\ EntryOf(s, c, e) /\ DescribedOf(e, x) /\ StOK(y) /\ GenTaken(x, y)
                     /\ UnmarkOf(y, t, s.gen[1].mark)
  BY DEF GeneratedOf
<1>2. StOK(s) /\ StOK(e) /\ StOK(x) /\ StOK(y) /\ StOK(t) /\ StKnown(s)
  BY <1>1, EntryOnward, DescribedOnward DEF TypeInv, KnownInv, StKnown
<1>3. Onward(s, e) /\ Onward(e, x) /\ Onward(y, t)
  BY <1>1, <1>2, EntryOnward, DescribedOnward, Onwards
<1>4. Onward(s, x) /\ StKnown(x)
  <2>1. Onward(s, x)
    BY <1>2, <1>3, OnwardTwice
  <2> QED BY <1>2, <2>1 DEF Onward
<1>5. y.gen \in Seq(NoteType) /\ Len(y.gen) \in Nat /\ x.fns \in Seq(FnType)
  BY <1>2, StFields, LenProperties DEF StOK
<1>6. Onward(x, y)
  <2>1. FnsOn(x.fns, y.fns) /\ y.fns = x.fns /\ y.pend = x.pend
    BY <1>1, <1>5, FnsOnFacts DEF GenTaken
  <2>2. Consed(y.gen, x.gen, x.gen[1])
    BY <1>1 DEF GenTaken
  <2>3. GenKnown(y.gen, x.fns)
    BY <1>4, <1>5, <2>2, ConsKnown DEF StKnown
  <2> QED BY <1>4, <2>1, <2>3 DEF Onward, StKnown
<1>7. Onward(s, t)
  <2>1. Onward(s, y)
    BY <1>2, <1>4, <1>6, OnwardTwice
  <2> QED BY <1>2, <1>3, <2>1, OnwardTwice
<1>8. s.gen[1].fn \in 1 .. Len(t.fns)
  <2>1. s.gen # <<>> /\ s.gen \in Seq(NoteType)
    BY <1>2, StFields DEF GeneratedOf, StOK
  <2>2. 1 \in 1 .. Len(s.gen)
    BY <2>1, EmptySeq
  <2>3. s.gen[1].fn \in 1 .. Len(s.fns)
    BY <1>2, <2>2 DEF StKnown, GenKnown
  <2>4. s.fns \in Seq(FnType) /\ t.fns \in Seq(FnType) /\ Len(t.fns) >= Len(s.fns)
    BY <1>2, <1>7, StFields DEF StOK, Onward, FnsOn
  <2> QED BY <2>3, <2>4, LenProperties
<1>9. Pushed(c, d) /\ FrameIs(On(d), "cg", s.gen[1].fn, 0, <<>>, "top")
  BY DEF GeneratedOf
<1>10. Sits(t.fns, On(d))
  BY <1>8, <1>9, SitsIs, NoneKnown
<1> QED BY <1>2, <1>7, <1>9, <1>10, KnownPush DEF Onward

LEMMA PendingKnown ==
  ASSUME NEW s, NEW c, NEW t, NEW d, TypeInv(s, c), TypeInv(t, d), KnownInv(s, c),
         PendingOf(s, c, t, d)
  PROVE  KnownInv(t, d)
<1>1. PICK e, x : /\ EntryOf(s, c, e) /\ PendIs(e, x, Tail(s.pend)) /\ StOK(x)
                  /\ Consed(x.pend, s.pend, s.pend[1])
                  /\ Still(x, t) /\ Pieced(x.fns, t.fns, s.pend[1], Len(x.marks))
  BY DEF PendingOf
<1>2. StOK(s) /\ StOK(e) /\ StOK(x) /\ StOK(t) /\ StKnown(s) /\ Onward(s, e)
  BY <1>1, EntryOnward DEF TypeInv, KnownInv, StKnown
<1>3. x.pend \in Seq(Fn) /\ Len(x.pend) \in Nat /\ x.fns \in Seq(FnType) /\ t.fns \in Seq(FnType)
  BY <1>2, StFields, LenProperties DEF StOK
<1>4. x.fns = e.fns /\ x.gen = e.gen /\ StKnown(e)
  BY <1>1, <1>2 DEF PendIs, Onward
<1>5. PendKnown(s.pend, e.fns)
  BY <1>1, <1>2, <1>4 DEF StKnown, EntryOf, DropOf, Lists
<1>6. PendKnown(x.pend, x.fns) /\ s.pend[1] \in 1 .. Len(x.fns)
  BY <1>1, <1>3, <1>4, <1>5, ConsKnown
<1>7. FnsOn(s.fns, x.fns) /\ StKnown(x)
  BY <1>2, <1>4, <1>6 DEF StKnown, Onward
<1>8. FnsOn(x.fns, t.fns) /\ Len(t.fns) = Len(x.fns)
  <2>1. Pieced(x.fns, t.fns, s.pend[1], Len(x.marks))
    BY <1>1
  <2>2. FnsOn(x.fns, t.fns)
    BY <1>3, <2>1, FnsOnFacts
  <2> QED BY <2>1, <2>2 DEF Pieced
<1>9. Onward(x, t) /\ FnsOn(s.fns, t.fns)
  <2>1. s.fns \in Seq(FnType)
    BY <1>2, StFields DEF StOK
  <2> QED BY <1>1, <1>2, <1>3, <1>7, <1>8, <2>1, Onwards, FnsOnTwice
<1>10. Pushed(c, d) /\ FrameIs(On(d), "fn", s.pend[1], 0, <<>>, "top")
  BY DEF PendingOf
<1>11. Sits(t.fns, On(d))
  BY <1>6, <1>8, <1>10, SitsIs, NoneKnown
<1> QED BY <1>2, <1>7, <1>9, <1>10, <1>11, KnownPush DEF Onward

\* Local store dropped between declarations; a step of the store alone.
LEMMA GrownLen ==
  ASSUME NEW G \in Seq(FnType), NEW H \in Seq(FnType), NEW S, NEW only, GrownBy(G, H, S, only)
  PROVE  /\ Len(G) \in Nat /\ Len(H) = Len(G) + 1 /\ Len(G) + 1 \in 1 .. Len(H)
         /\ H[Len(G) + 1].only = only /\ FnsOn(G, H)
<1>1. Len(G) \in Nat
  BY LenProperties
<1> QED BY <1>1, FnsOnFacts DEF GrownBy

LEMMA SourceKnown ==
  ASSUME NEW s, NEW c, NEW t, NEW d, TypeInv(s, c), TypeInv(t, d), KnownInv(s, c),
         SourceOf(s, c, t, d)
  PROVE  KnownInv(t, d)
<1>1. PICK e : /\ StOK(e) /\ DropOf(s, e)
               /\ \/ \E only \in BOOLEAN :
                       /\ Still(e, t) /\ GrownBy(e.fns, t.fns, {Len(e.marks)}, only)
                       /\ FrameIs(On(d), "fn", Len(e.fns) + 1, 0, <<>>, "top")
                  \/ t = e /\ FrameIs(On(d), "decl", 0, 0, <<>>, "top")
  BY DEF SourceOf
<1>2. StOK(s) /\ StOK(t) /\ StKnown(s) /\ Onward(s, e)
  BY <1>1, Onwards DEF TypeInv, KnownInv, StKnown
<1>3. e.fns \in Seq(FnType) /\ t.fns \in Seq(FnType)
  BY <1>1, <1>2, StFields DEF StOK
<1>4. Pushed(c, d)
  BY DEF SourceOf
<1>5. CASE t = e /\ FrameIs(On(d), "decl", 0, 0, <<>>, "top")
  <2>1. Sits(t.fns, On(d))
    BY <1>5, SitsIs, NoneKnown
  <2>2. FnsOn(s.fns, t.fns) /\ StKnown(t)
    BY <1>2, <1>5 DEF Onward
  <2> QED BY <1>4, <2>1, <2>2, KnownPush
<1>6. ASSUME NEW only \in BOOLEAN, Still(e, t), GrownBy(e.fns, t.fns, {Len(e.marks)}, only),
             FrameIs(On(d), "fn", Len(e.fns) + 1, 0, <<>>, "top")
      PROVE  KnownInv(t, d)
  <2>1. Len(e.fns) + 1 \in 1 .. Len(t.fns) /\ FnsOn(e.fns, t.fns)
    BY <1>3, <1>6, GrownLen
  <2>2. Sits(t.fns, On(d))
    BY <1>6, <2>1, SitsIs, NoneKnown
  <2>3. Onward(e, t)
    BY <1>1, <1>2, <1>6, <2>1, Onwards
  <2>4. Onward(s, t)
    BY <1>1, <1>2, <2>3, OnwardTwice
  <2> QED BY <1>2, <1>4, <2>2, <2>4, KnownPush DEF Onward
<1> QED BY <1>1, <1>5, <1>6

LEMMA EndOfFileKnown ==
  ASSUME NEW s, NEW c, NEW t, NEW d, TypeInv(s, c), TypeInv(t, d), KnownInv(s, c),
         EndOfFileOf(s, c, t, d)
  PROVE  KnownInv(t, d)
<1>1. PICK e : StOK(e) /\ DropOf(s, e) /\ t.fns = e.fns /\ Lists(e, t)
  BY DEF EndOfFileOf
<1>2. StOK(s) /\ StOK(t) /\ StKnown(s) /\ Onward(s, e)
  BY <1>1, Onwards DEF TypeInv, KnownInv, StKnown
<1>3. FnsOn(s.fns, t.fns) /\ StKnown(t)
  BY <1>1, <1>2 DEF Onward, StKnown, Lists
<1>4. d = c
  BY DEF EndOfFileOf
<1> QED BY <1>3, <1>4, KnownPush

LEMMA ReadKnown ==
  ASSUME NEW s, NEW c, NEW t, NEW d, TypeInv(s, c), TypeInv(t, d), KnownInv(s, c),
         ReadOf(s, c, t, d) \/ DescribeOf(s, c, t, d)
  PROVE  KnownInv(t, d)
<1>1. StOK(s) /\ StOK(t) /\ StKnown(s)
  BY DEF TypeInv, KnownInv, StKnown
<1>2. s.fns \in Seq(FnType) /\ t.fns \in Seq(FnType)
  BY <1>1, StFields DEF StOK
<1>3. Onward(s, t)
  <2>1. CASE ReadOf(s, c, t, d)
    <3>1. Pieced(s.fns, t.fns, On(c).fn, Len(s.marks)) /\ Lists(s, t)
      BY <2>1 DEF ReadOf
    <3>2. FnsOn(s.fns, t.fns)
      BY <1>2, <3>1, FnsOnFacts
    <3> QED BY <1>1, <3>1, <3>2, OnwardLists
  <2>2. CASE DescribeOf(s, c, t, d)
    BY <1>1, <2>2, Onwards DEF DescribeOf
  <2> QED BY <2>1, <2>2
<1>4. d = c
  BY DEF ReadOf, DescribeOf
<1> QED BY <1>1, <1>3, <1>4, KnownPush DEF Onward

LEMMA HeadKnown ==
  ASSUME NEW s, NEW c, NEW t, NEW d, TypeInv(s, c), TypeInv(t, d), KnownInv(s, c),
         HeadOf(s, c, t, d)
  PROVE  KnownInv(t, d)
<1>1. StOK(s) /\ StOK(t) /\ StKnown(s) /\ Onward(s, t)
  BY DescribedOnward DEF TypeInv, KnownInv, StKnown, HeadOf
<1>2. FnsOn(s.fns, t.fns) /\ StKnown(t)
  BY <1>1 DEF Onward
<1>3. Sits(t.fns, On(c))
  BY <1>2, KnownPush DEF HeadOf
<1>4. Retopped(c, d) /\ FrameIs(On(d), "fn", On(c).fn, On(c).mark, On(c).saved, "members") /\ On(c).k = "fn"
  BY DEF HeadOf
<1>5. Sits(t.fns, On(d))
  BY <1>3, <1>4 DEF Sits, FrameIs
<1> QED BY <1>2, <1>4, <1>5, KnownPush

LEMMA NewKnown ==
  ASSUME NEW s, NEW t, NEW only, NEW S, StOK(s), StOK(t), Still(s, t),
         GrownBy(s.fns, t.fns, S, only)
  PROVE  /\ Onward(s, t) /\ Len(s.fns) + 1 \in 1 .. Len(t.fns)
         /\ t.fns[Len(s.fns) + 1].only = only
<1>1. s.fns \in Seq(FnType) /\ t.fns \in Seq(FnType)
  BY StFields DEF StOK
<1>2. Len(s.fns) + 1 \in 1 .. Len(t.fns) /\ FnsOn(s.fns, t.fns) /\ t.fns[Len(s.fns) + 1].only = only
  BY <1>1, GrownLen
<1> QED BY <1>2, Onwards

\* A frame is replaced, and another one pushed.
LEMMA BothSit ==
  ASSUME NEW c, NEW b, NEW d, NEW G, AllSit(G, c), c \in Seq(FrameType), b \in Seq(FrameType),
         d \in Seq(FrameType), Retopped(c, b), Sits(G, On(b)), Pushed(b, d), Sits(G, On(d))
  PROVE  AllSit(G, d)
<1>1. AllSit(G, b)
  BY FramesSit
<1> QED BY <1>1, FramesSit

LEMMA MembersKnown ==
  ASSUME NEW s, NEW c, NEW t, NEW d, TypeInv(s, c), TypeInv(t, d), KnownInv(s, c),
         MembersOf(s, c, t, d)
  PROVE  KnownInv(t, d)
<1>1. PICK b : /\ Retopped(c, b) /\ FrameIs(On(b), "fn", On(c).fn, On(c).mark, On(c).saved, "body")
               /\ b \in Seq(FrameType) /\ b # <<>>
               /\ \/ t = s /\ d = b
                  \/ /\ "core" \in features
                     /\ Still(s, t) /\ GrownBy(s.fns, t.fns, {}, FALSE)
                     /\ Pushed(b, d) /\ FrameIs(On(d), "build", Len(s.fns) + 1, 0, <<>>, "top")
  BY DEF MembersOf
<1>2. StOK(s) /\ StOK(t) /\ StKnown(s) /\ c \in Seq(FrameType) /\ d \in Seq(FrameType)
  BY DEF TypeInv, KnownInv, StKnown
<1>3. Onward(s, t)
  BY <1>1, <1>2, NewKnown, Onwards
<1>4. Sits(t.fns, On(c)) /\ AllSit(t.fns, c)
  BY <1>2, <1>3, KnownPush DEF Onward, MembersOf
<1>5. Sits(t.fns, On(b))
  BY <1>1, <1>4 DEF Sits, FrameIs, MembersOf
<1>6. CASE t = s /\ d = b
  BY <1>1, <1>2, <1>3, <1>5, <1>6, KnownPush DEF Onward
<1>7. CASE /\ Still(s, t) /\ GrownBy(s.fns, t.fns, {}, FALSE)
           /\ Pushed(b, d) /\ FrameIs(On(d), "build", Len(s.fns) + 1, 0, <<>>, "top")
  <2>1. Sits(t.fns, On(d))
    BY <1>2, <1>7, NewKnown, NoneKnown, SitsIs
  <2>2. AllSit(t.fns, d)
    BY <1>1, <1>2, <1>4, <1>5, <1>7, <2>1, BothSit
  <2> QED BY <1>2, <1>3, <2>2 DEF Onward, KnownInv, StKnown
<1> QED BY <1>1, <1>6, <1>7

LEMMA NotedKnown ==
  ASSUME NEW s, NEW c, NEW t, NEW d, TypeInv(s, c), TypeInv(t, d), KnownInv(s, c),
         NotedOf(s, c, t, d)
  PROVE  KnownInv(t, d)
<1>1. StOK(s) /\ StOK(t) /\ StKnown(s) /\ s.fns \in Seq(FnType)
  BY StFields DEF TypeInv, KnownInv, StKnown, StOK
<1>2. Sits(s.fns, On(c))
  <2>1. FnsOn(s.fns, s.fns)
    BY <1>1, FnsOnFacts
  <2> QED BY <1>1, <2>1, KnownPush DEF NotedOf
<1>3. On(c).fn \in 1 .. Len(s.fns)
  BY <1>2 DEF Sits, NotedOf
<1>4. Onward(s, t)
  BY <1>1, <1>3, Onwards DEF NotedOf
<1> QED BY <1>1, <1>4, KnownPush DEF Onward, NotedOf

LEMMA EndFnKnown ==
  ASSUME NEW s, NEW c, NEW t, NEW d, TypeInv(s, c), TypeInv(t, d), KnownInv(s, c),
         EndFnOf(s, c, t, d)
  PROVE  KnownInv(t, d)
<1>1. StOK(s) /\ StOK(t) /\ StKnown(s) /\ s.fns \in Seq(FnType) /\ t.fns \in Seq(FnType)
  BY StFields DEF TypeInv, KnownInv, StKnown, StOK
<1>2. CASE Still(s, t) /\ OneMade(s.fns, t.fns, On(c).fn) /\ Popped(c, d)
  <2>1. FnsOn(s.fns, t.fns)
    BY <1>1, <1>2, FnsOnFacts
  <2>2. Onward(s, t)
    BY <1>1, <1>2, <2>1, Onwards
  <2> QED BY <1>1, <1>2, <2>2, KnownPush DEF Onward
<1>3. CASE t = s /\ Retopped(c, d) /\ FrameIs(On(d), "cg", On(c).fn, On(c).mark, <<>>, "top")
  <2>1. Onward(s, t)
    BY <1>1, <1>3, Onwards
  <2>2. Sits(t.fns, On(c))
    BY <1>1, <2>1, KnownPush DEF Onward, EndFnOf
  <2>3. On(c).fn \in 1 .. Len(t.fns)
    BY <2>2 DEF Sits, EndFnOf
  <2>4. Sits(t.fns, On(d))
    BY <1>3, <2>3, SitsIs, NoneKnown
  <2> QED BY <1>1, <1>3, <2>1, <2>4, KnownPush DEF Onward
<1> QED BY <1>2, <1>3 DEF EndFnOf

LEMMA CompiledKnown ==
  ASSUME NEW s, NEW c, NEW t, NEW d, TypeInv(s, c), TypeInv(t, d), KnownInv(s, c),
         CompiledOf(s, c, t, d)
  PROVE  KnownInv(t, d)
<1>1. PICK x, y, z :
        /\ DescribedOf(s, x) /\ StOK(y) /\ Still(x, y) /\ OneMade(x.fns, y.fns, On(c).fn)
        /\ StOK(z) /\ DropOf(y, z)
        /\ \/ On(c).mark = 0 /\ t = z
           \/ On(c).mark # 0 /\ \E w : StOK(w) /\ DropOf(z, w) /\ UnmarkOf(w, t, On(c).mark)
  BY DEF CompiledOf
<1>2. StOK(s) /\ StOK(t) /\ StKnown(s) /\ StOK(x) /\ Onward(s, x)
  BY <1>1, DescribedOnward DEF TypeInv, KnownInv, StKnown
<1>3. x.fns \in Seq(FnType) /\ y.fns \in Seq(FnType)
  BY <1>1, <1>2, StFields DEF StOK
<1>4. FnsOn(x.fns, y.fns)
  <2>1. OneMade(x.fns, y.fns, On(c).fn)
    BY <1>1
  <2> QED BY <1>3, <2>1, FnsOnFacts
<1>5. Onward(x, y) /\ Onward(y, z)
  BY <1>1, <1>2, <1>4, Onwards
<1>6. Onward(s, y)
  BY <1>1, <1>2, <1>5, OnwardTwice
<1>7. Onward(s, z)
  BY <1>1, <1>2, <1>5, <1>6, OnwardTwice
<1>8. Onward(s, t)
  <2>1. CASE t = z
    BY <1>7, <2>1
  <2>2. ASSUME NEW w, StOK(w), DropOf(z, w), UnmarkOf(w, t, On(c).mark)
        PROVE  Onward(s, t)
    <3>1. Onward(z, w) /\ Onward(w, t)
      BY <1>1, <1>2, <2>2, Onwards
    <3>2. Onward(s, w)
      BY <1>1, <1>2, <1>7, <2>2, <3>1, OnwardTwice
    <3> QED BY <1>2, <2>2, <3>1, <3>2, OnwardTwice
  <2> QED BY <1>1, <2>1, <2>2
<1> QED BY <1>2, <1>8, KnownPush DEF Onward, CompiledOf

LEMMA InstanceFnKnown ==
  ASSUME NEW s, NEW c, NEW t, NEW d, TypeInv(s, c), TypeInv(t, d), KnownInv(s, c),
         InstanceFnOf(s, c, t, d)
  PROVE  KnownInv(t, d)
<1>1. PICK m : /\ StOK(m) /\ MarkOf(s, m)
               /\ Still(m, t) /\ GrownBy(m.fns, t.fns, {Len(m.marks)}, FALSE)
               /\ FrameIs(On(d), "fn", Len(s.fns) + 1, m.marks[Len(m.marks)].blk, <<>>, "top")
  BY DEF InstanceFnOf
<1>2. StOK(s) /\ StOK(t) /\ StKnown(s)
  BY DEF TypeInv, KnownInv, StKnown
<1>3. /\ Onward(s, m) /\ Onward(m, t) /\ Len(m.fns) + 1 \in 1 .. Len(t.fns)
      /\ t.fns[Len(m.fns) + 1].only = FALSE /\ m.fns = s.fns
  BY <1>1, <1>2, Onwards, NewKnown DEF MarkOf
<1>4. Onward(s, t)
  BY <1>1, <1>2, <1>3, OnwardTwice
<1>5. Sits(t.fns, On(d))
  <2>1. ~t.fns[Len(s.fns) + 1].only
    BY <1>3
  <2> QED BY <1>1, <1>3, <2>1, SitsIs, NoneKnown
<1> QED BY <1>2, <1>4, <1>5, KnownPush DEF Onward, InstanceFnOf

LEMMA ClassesKnown ==
  ASSUME NEW s, NEW c, NEW t, NEW d, TypeInv(s, c), TypeInv(t, d), KnownInv(s, c),
         \/ InstanceClassOf(s, c, t, d) \/ TopClassOf(s, c, t, d) \/ NestedClassOf(s, c, t, d)
         \/ EndDeclOf(s, c, t, d)
  PROVE  KnownInv(t, d)
<1>1. StOK(s) /\ StOK(t) /\ StKnown(s) /\ t = s
  BY DEF TypeInv, KnownInv, StKnown, InstanceClassOf, TopClassOf, NestedClassOf, EndDeclOf
<1>2. FnsOn(s.fns, t.fns) /\ StKnown(t)
  BY <1>1, Onwards DEF Onward
<1>3. CASE \E h : Pushed(c, d) /\ FrameIs(On(d), "class", 0, 0, <<>>, h)
  <2>1. Sits(t.fns, On(d))
    BY <1>3, SitsIs, NoneKnown
  <2> QED BY <1>2, <1>3, <2>1, KnownPush
<1>4. CASE Popped(c, d)
  BY <1>2, <1>4, KnownPush
<1> QED BY <1>3, <1>4 DEF InstanceClassOf, TopClassOf, NestedClassOf, EndDeclOf

LEMMA LocalClassKnown ==
  ASSUME NEW s, NEW c, NEW t, NEW d, TypeInv(s, c), TypeInv(t, d), KnownInv(s, c),
         LocalClassOf(s, c, t, d)
  PROVE  KnownInv(t, d)
<1>1. StKnown(s) /\ s.fns \in Seq(FnType)
  BY StFields DEF TypeInv, KnownInv, StKnown, StOK
<1>2. FnsOn(s.fns, t.fns) /\ StKnown(t)
  BY <1>1, FnsOnFacts, NoneKnown DEF LocalClassOf, PendIs, StKnown
<1>3. Sits(t.fns, On(d))
  <2>1. PendKnown(s.pend, t.fns) /\ FrameIs(On(d), "class", 0, 0, s.pend, "local")
    BY <1>1 DEF LocalClassOf, PendIs, StKnown
  <2> QED BY <2>1, SitsIs
<1> QED BY <1>2, <1>3, KnownPush DEF LocalClassOf

LEMMA MemberFnKnown ==
  ASSUME NEW s, NEW c, NEW t, NEW d, TypeInv(s, c), TypeInv(t, d), KnownInv(s, c),
         MemberFnOf(s, c, t, d)
  PROVE  KnownInv(t, d)
<1>1. StKnown(s) /\ s.fns \in Seq(FnType) /\ t.fns \in Seq(FnType)
  BY StFields DEF TypeInv, KnownInv, StKnown, StOK
<1>2. Len(s.fns) + 1 \in 1 .. Len(t.fns) /\ FnsOn(s.fns, t.fns)
  BY <1>1, GrownLen DEF MemberFnOf
<1>3. GenKnown(t.gen, t.fns)
  BY <1>1, <1>2, KnownOn DEF StKnown, MemberFnOf
<1>4. PendKnown(t.pend, t.fns)
  <2>1. PendKnown(s.pend, t.fns) /\ Queued(s.pend, t.pend, Len(s.fns) + 1)
    BY <1>1, <1>2, KnownOn DEF StKnown, MemberFnOf
  <2>2. s.pend \in Seq(Fn)
    BY StFields DEF TypeInv, StOK
  <2>3. Len(s.pend) \in Nat
    BY <2>2, LenProperties
  <2>4. ASSUME NEW i \in 1 .. Len(t.pend) PROVE t.pend[i] \in 1 .. Len(t.fns)
    <3>1. i = Len(t.pend) \/ i \in 1 .. Len(s.pend)
      BY <2>1, <2>3 DEF Queued
    <3>2. CASE i = Len(t.pend)
      BY <1>2, <2>1, <3>2 DEF Queued
    <3>3. CASE i \in 1 .. Len(s.pend)
      BY <2>1, <3>3 DEF Queued, PendKnown
    <3> QED BY <3>1, <3>2, <3>3
  <2> QED BY <2>4 DEF PendKnown
<1> QED BY <1>2, <1>3, <1>4, KnownPush DEF StKnown, MemberFnOf

LEMMA GenerateFnKnown ==
  ASSUME NEW s, NEW c, NEW t, NEW d, TypeInv(s, c), TypeInv(t, d), KnownInv(s, c),
         GenerateFnOf(s, c, t, d)
  PROVE  KnownInv(t, d)
<1>1. PICK b : /\ Retopped(c, b) /\ FrameIs(On(b), "class", On(c).fn, On(c).mark, On(c).saved, On(c).how)
               /\ b \in Seq(FrameType) /\ b # <<>>
               /\ Pushed(b, d) /\ FrameIs(On(d), "build", Len(s.fns) + 1, 0, <<>>, "top")
  BY DEF GenerateFnOf
<1>2. StOK(s) /\ StOK(t) /\ StKnown(s) /\ c \in Seq(FrameType) /\ d \in Seq(FrameType)
  BY DEF TypeInv, KnownInv, StKnown
<1>3. Onward(s, t) /\ Len(s.fns) + 1 \in 1 .. Len(t.fns)
  BY <1>2, NewKnown DEF GenerateFnOf
<1>4. Sits(t.fns, On(c)) /\ AllSit(t.fns, c)
  BY <1>2, <1>3, KnownPush DEF Onward, GenerateFnOf
<1>5. Sits(t.fns, On(b))
  BY <1>1, <1>4 DEF Sits, FrameIs, GenerateFnOf
<1>6. Sits(t.fns, On(d))
  BY <1>1, <1>3, NoneKnown, SitsIs
<1>7. AllSit(t.fns, d)
  BY <1>1, <1>2, <1>4, <1>5, <1>6, BothSit
<1> QED BY <1>2, <1>3, <1>7 DEF Onward, KnownInv, StKnown

LEMMA TopMarkFacts ==
  ASSUME NEW s, NEW t, StOK(s), StOK(t), MarkOf(s, t)
  PROVE  /\ t.marks[Len(t.marks)].blk \in Nat /\ t.marks[Len(t.marks)].blk # 0
         /\ t.marks[Len(t.marks)].blk # 1
<1>1. Top(t).blk \in Blk /\ Top(t) = t.marks[Len(t.marks)] /\ Len(s.marks) >= 1
  BY TopFacts
<1>2. s.marks[1].blk = 1 /\ 1 \in 1 .. Len(s.marks)
  BY TopFacts DEF StOK, TopLive
<1>3. t.marks[1].blk = 1 /\ t.marks[1].blk # t.marks[Len(t.marks)].blk
  BY <1>2 DEF MarkOf, Appended
<1> QED BY <1>1, <1>3 DEF Blk

LEMMA EndClassKnown ==
  ASSUME NEW s, NEW c, NEW t, NEW d, TypeInv(s, c), TypeInv(t, d), KnownInv(s, c),
         EndClassOf(s, c, t, d)
  PROVE  KnownInv(t, d)
<1>1. StOK(s) /\ StOK(t) /\ StKnown(s) /\ s.fns \in Seq(FnType) /\ FnsOn(s.fns, s.fns)
  BY StFields, FnsOnFacts DEF TypeInv, KnownInv, StKnown, StOK
<1>2. Sits(s.fns, On(c))
  BY <1>1, KnownPush DEF EndClassOf
<1>3. PendKnown(On(c).saved, s.fns)
  BY <1>2 DEF Sits, PendKnown
<1>4. CASE /\ MarkOf(s, t) /\ Retopped(c, d)
           /\ FrameIs(On(d), "loop", 0, t.marks[Len(t.marks)].blk, On(c).saved, "top")
  <2>1. t.fns = s.fns /\ StKnown(t)
    BY <1>1, <1>4 DEF MarkOf, Lists, StKnown
  <2>2. Sits(t.fns, On(d))
    BY <1>1, <1>3, <1>4, <2>1, SitsIs, TopMarkFacts
  <2> QED BY <1>1, <1>4, <2>1, <2>2, KnownPush
<1>5. CASE PendIs(s, t, On(c).saved) /\ Popped(c, d)
  <2>1. t.fns = s.fns /\ StKnown(t)
    BY <1>1, <1>3, <1>5 DEF PendIs, StKnown
  <2> QED BY <1>1, <1>5, <2>1, KnownPush
<1>6. ASSUME NEW m, StOK(m), MarkOf(s, m), PendIs(m, t, <<>>), Retopped(c, d),
             FrameIs(On(d), "loop", 0, t.marks[Len(t.marks)].blk, s.pend, "top")
      PROVE  KnownInv(t, d)
  <2>1. t.fns = s.fns /\ t.gen = s.gen /\ t.pend = <<>> /\ t.marks = m.marks
    BY <1>6 DEF MarkOf, Lists, PendIs
  <2>2. StKnown(t)
    BY <1>1, <2>1, NoneKnown DEF StKnown
  <2>3. Sits(t.fns, On(d))
    BY <1>1, <1>6, <2>1, SitsIs, TopMarkFacts DEF StKnown
  <2> QED BY <1>1, <1>6, <2>1, <2>2, <2>3, KnownPush
<1>7. CASE t = s /\ Popped(c, d)
  BY <1>1, <1>7, KnownPush
<1> QED BY <1>4, <1>5, <1>6, <1>7 DEF EndClassOf

LEMMA EndLoopKnown ==
  ASSUME NEW s, NEW c, NEW t, NEW d, TypeInv(s, c), TypeInv(t, d), KnownInv(s, c),
         EndLoopOf(s, c, t, d)
  PROVE  KnownInv(t, d)
<1>1. PICK u : StOK(u) /\ UnmarkOf(s, u, On(c).mark) /\ PendIs(u, t, On(c).saved)
  BY DEF EndLoopOf
<1>2. StOK(s) /\ StOK(t) /\ StKnown(s)
  BY DEF TypeInv, KnownInv, StKnown
<1>3. Onward(s, u)
  BY <1>1, <1>2, Onwards
<1>4. FnsOn(s.fns, t.fns) /\ GenKnown(t.gen, t.fns)
  BY <1>1, <1>2, <1>3 DEF Onward, StKnown, PendIs
<1>5. PendKnown(t.pend, t.fns)
  <2>1. AllSit(t.fns, c)
    <3>1. s.fns \in Seq(FnType) /\ t.fns \in Seq(FnType)
      BY <1>2, StFields DEF StOK
    <3> QED BY <1>4, <3>1, KnownOn DEF KnownInv
  <2>2. c # <<>> /\ c \in Seq(FrameType)
    BY DEF EndLoopOf, TypeInv
  <2>3. Len(c) \in 1 .. Len(c)
    <3>1. Len(c) \in Nat \ {0}
      BY <2>2, EmptySeq
    <3> QED BY <3>1
  <2>4. Sits(t.fns, On(c))
    BY <2>1, <2>3 DEF AllSit, On
  <2> QED BY <1>1, <2>4 DEF Sits, PendKnown, PendIs
<1> QED BY <1>4, <1>5, KnownPush DEF StKnown, EndLoopOf

LEMMA StepKnown ==
  ASSUME NEW s, NEW c, NEW t, NEW d, TypeInv(s, c), TypeInv(t, d), KnownInv(s, c),
         Steps(s, c, t, d)
  PROVE  KnownInv(t, d)
<1>1. CASE \/ GeneratedOf(s, c, t, d) \/ PendingOf(s, c, t, d) \/ SourceOf(s, c, t, d)
           \/ EndOfFileOf(s, c, t, d) \/ ReadOf(s, c, t, d) \/ DescribeOf(s, c, t, d)
           \/ HeadOf(s, c, t, d) \/ MembersOf(s, c, t, d) \/ NotedOf(s, c, t, d)
  BY <1>1, GeneratedKnown, PendingKnown, SourceKnown, EndOfFileKnown, ReadKnown, HeadKnown,
     MembersKnown, NotedKnown
<1>2. CASE \/ EndFnOf(s, c, t, d) \/ CompiledOf(s, c, t, d) \/ InstanceFnOf(s, c, t, d)
           \/ InstanceClassOf(s, c, t, d) \/ LocalClassOf(s, c, t, d) \/ TopClassOf(s, c, t, d)
           \/ NestedClassOf(s, c, t, d) \/ MemberFnOf(s, c, t, d) \/ GenerateFnOf(s, c, t, d)
           \/ EndClassOf(s, c, t, d) \/ EndLoopOf(s, c, t, d) \/ EndDeclOf(s, c, t, d)
  BY <1>2, EndFnKnown, CompiledKnown, InstanceFnKnown, ClassesKnown, LocalClassKnown,
     MemberFnKnown, GenerateFnKnown, EndClassKnown, EndLoopKnown
<1> QED BY <1>1, <1>2 DEF Steps

LEMMA StartKnown ==
  ASSUME Start PROVE KnownInv(st, ctl)
<1>1. \A i \in 1 .. 0 : FALSE
  OBVIOUS
<1> QED BY <1>1 DEF Start, KnownInv, GenKnown, PendKnown, AllSit

----------------------------------------------------------------------------
(* Who undoes which mark.                                                  *)

\* The marks that someone will undo: those of the generated functions in
\* waiting, and those that the calls in progress set.  Each has one owner.
GenMarks(g) == {g[i].mark : i \in 1 .. Len(g)}
CtlMarks(c) == {c[i].mark : i \in 1 .. Len(c)} \ {0}

OneOwner(g, c) ==
  /\ \A i, j \in 1 .. Len(g) : g[i].mark = g[j].mark => i = j
  /\ \A i, j \in 1 .. Len(c) : c[i].mark # 0 /\ c[i].mark = c[j].mark => i = j
  /\ \A i \in 1 .. Len(g), j \in 1 .. Len(c) : g[i].mark # c[j].mark
  /\ \A i \in 1 .. Len(g) : g[i].mark # 0

OwnersOf(g, c, O) == OneOwner(g, c) /\ O = GenMarks(g) \cup CtlMarks(c)

LEMMA ConsOwners ==
  ASSUME NEW g, NEW h, NEW e, Consed(g, h, e), Len(g) \in Nat, NEW c, NEW O
  PROVE  /\ OwnersOf(g, c, O) /\ e.mark \notin O /\ e.mark # 0 => OwnersOf(h, c, O \cup {e.mark})
         /\ OwnersOf(h, c, O) => e.mark \in O /\ OwnersOf(g, c, O \ {e.mark})
<1>1. Len(h) = Len(g) + 1 /\ h[1] = e /\ 1 \in 1 .. Len(h)
  BY DEF Consed
<1>2. ASSUME NEW i \in 1 .. Len(h)
      PROVE  (i = 1 /\ h[i] = e) \/ (i - 1 \in 1 .. Len(g) /\ h[i] = g[i - 1])
  <2>1. CASE i = 1
    BY <1>1, <2>1
  <2>2. CASE i # 1
    <3>1. i - 1 \in 1 .. Len(g) /\ (i - 1) + 1 = i
      BY <1>1, <2>2
    <3>2. h[(i - 1) + 1] = g[i - 1]
      BY <3>1 DEF Consed
    <3> QED BY <3>1, <3>2
  <2> QED BY <2>1, <2>2
<1>3. ASSUME NEW i \in 1 .. Len(g)
      PROVE  i + 1 \in 1 .. Len(h) /\ h[i + 1] = g[i] /\ i + 1 # 1
  BY <1>1 DEF Consed
<1>4. GenMarks(h) = GenMarks(g) \cup {e.mark}
  <2>1. ASSUME NEW b \in GenMarks(h) PROVE b \in GenMarks(g) \cup {e.mark}
    BY <1>2, <2>1 DEF GenMarks
  <2>2. ASSUME NEW b \in GenMarks(g) PROVE b \in GenMarks(h)
    <3>1. PICK i \in 1 .. Len(g) : b = g[i].mark
      BY <2>2 DEF GenMarks
    <3> QED BY <1>3, <3>1 DEF GenMarks
  <2>3. e.mark \in GenMarks(h)
    BY <1>1 DEF GenMarks
  <2> QED BY <2>1, <2>2, <2>3
<1>5. ASSUME OwnersOf(g, c, O), e.mark \notin O, e.mark # 0
      PROVE  OwnersOf(h, c, O \cup {e.mark})
  <2>1. OneOwner(g, c) /\ O = GenMarks(g) \cup CtlMarks(c)
    BY <1>5 DEF OwnersOf
  <2>2. ASSUME NEW i \in 1 .. Len(g) PROVE g[i].mark # e.mark
    BY <1>5, <2>1 DEF GenMarks
  <2>3. ASSUME NEW i \in 1 .. Len(c) PROVE c[i].mark # e.mark
    BY <1>5, <2>1 DEF CtlMarks
  <2>4. ASSUME NEW i \in 1 .. Len(h), NEW j \in 1 .. Len(h), h[i].mark = h[j].mark PROVE i = j
    <3>1. CASE i = 1 /\ h[i] = e
      BY <1>2, <2>2, <2>4, <3>1
    <3>2. CASE j = 1 /\ h[j] = e
      BY <1>2, <2>2, <2>4, <3>2
    <3>3. CASE i - 1 \in 1 .. Len(g) /\ h[i] = g[i - 1] /\ j - 1 \in 1 .. Len(g) /\ h[j] = g[j - 1]
      <4>1. i - 1 = j - 1
        BY <2>1, <2>4, <3>3 DEF OneOwner
      <4> QED BY <4>1
    <3> QED BY <1>2, <3>1, <3>2, <3>3
  <2>5. ASSUME NEW i \in 1 .. Len(h), NEW j \in 1 .. Len(c) PROVE h[i].mark # c[j].mark
    <3>1. \A k \in 1 .. Len(g) : g[k].mark # c[j].mark
      BY <2>1 DEF OneOwner
    <3>2. c[j].mark # e.mark
      BY <2>3
    <3> QED BY <1>2, <3>1, <3>2
  <2>6. ASSUME NEW i \in 1 .. Len(h) PROVE h[i].mark # 0
    <3>1. \A j \in 1 .. Len(g) : g[j].mark # 0
      BY <2>1 DEF OneOwner
    <3> QED BY <1>2, <1>5, <3>1
  <2>7. OneOwner(h, c)
    BY <2>1, <2>4, <2>5, <2>6 DEF OneOwner
  <2> QED BY <1>4, <2>1, <2>7 DEF OwnersOf
<1>6. ASSUME OwnersOf(h, c, O) PROVE e.mark \in O /\ OwnersOf(g, c, O \ {e.mark})
  <2>1. OneOwner(h, c) /\ O = GenMarks(h) \cup CtlMarks(c)
    BY <1>6 DEF OwnersOf
  <2>2. ASSUME NEW i \in 1 .. Len(g) PROVE g[i].mark # e.mark /\ g[i].mark # 0
    BY <1>1, <1>3, <2>1 DEF OneOwner
  <2>3. ASSUME NEW i \in 1 .. Len(c) PROVE c[i].mark # e.mark
    BY <1>1, <2>1 DEF OneOwner
  <2>4. ASSUME NEW i \in 1 .. Len(g), NEW j \in 1 .. Len(g), g[i].mark = g[j].mark PROVE i = j
    <3>1. i + 1 = j + 1
      BY <1>3, <2>1, <2>4 DEF OneOwner
    <3> QED BY <3>1
  <2>5. ASSUME NEW i \in 1 .. Len(g), NEW j \in 1 .. Len(c) PROVE g[i].mark # c[j].mark
    BY <1>3, <2>1 DEF OneOwner
  <2>6. OneOwner(g, c)
    BY <2>1, <2>2, <2>4, <2>5 DEF OneOwner
  <2>7. e.mark \notin GenMarks(g) /\ e.mark \notin CtlMarks(c)
    BY <2>2, <2>3 DEF GenMarks, CtlMarks
  <2> QED BY <1>4, <2>1, <2>6, <2>7 DEF OwnersOf
<1> QED BY <1>5, <1>6

\* A frame with no mark, or with a new one, is pushed or takes the place of
\* one with no mark; one is popped with its mark.
LEMMA PushOwners ==
  ASSUME NEW c \in Seq(FrameType), NEW d \in Seq(FrameType), Pushed(c, d), NEW g, NEW O
  PROVE  /\ OwnersOf(g, c, O) /\ On(d).mark = 0 => OwnersOf(g, d, O)
         /\ OwnersOf(g, c, O) /\ On(d).mark \notin O /\ On(d).mark # 0
               => OwnersOf(g, d, O \cup {On(d).mark})
<1>1. Len(c) \in Nat /\ Len(d) = Len(c) + 1
  BY LenProperties DEF Pushed
<1>2. PICK m : m = On(d).mark
  OBVIOUS
<1>3. ASSUME NEW i \in 1 .. Len(d)
      PROVE  (i = Len(d) /\ d[i].mark = m) \/ (i \in 1 .. Len(c) /\ d[i].mark = c[i].mark)
  BY <1>1, <1>2 DEF Pushed, On
<1>4. ASSUME NEW i \in 1 .. Len(c) PROVE i \in 1 .. Len(d) /\ d[i].mark = c[i].mark
  BY <1>1 DEF Pushed
<1>5. Len(d) \in 1 .. Len(d) /\ d[Len(d)].mark = m
  BY <1>1, <1>2 DEF On
<1>6. CtlMarks(d) = CtlMarks(c) \cup ({m} \ {0})
  <2>1. ASSUME NEW b \in CtlMarks(d) PROVE b \in CtlMarks(c) \cup ({m} \ {0})
    BY <1>3, <2>1 DEF CtlMarks
  <2>2. ASSUME NEW b \in CtlMarks(c) PROVE b \in CtlMarks(d)
    <3>1. PICK i \in 1 .. Len(c) : b = c[i].mark /\ b # 0
      BY <2>2 DEF CtlMarks
    <3> QED BY <1>4, <3>1 DEF CtlMarks
  <2>3. m # 0 => m \in CtlMarks(d)
    BY <1>5 DEF CtlMarks
  <2> QED BY <2>1, <2>2, <2>3
<1>7. ASSUME OwnersOf(g, c, O), m = 0 \/ m \notin O PROVE OneOwner(g, d)
  <2>1. OneOwner(g, c) /\ O = GenMarks(g) \cup CtlMarks(c)
    BY <1>7 DEF OwnersOf
  <2>2. m # 0 => \A i \in 1 .. Len(c) : c[i].mark # m
    BY <1>7, <2>1 DEF CtlMarks
  <2>3. \A i \in 1 .. Len(g) : g[i].mark # m
    <3>1. m # 0 => \A i \in 1 .. Len(g) : g[i].mark # m
      BY <1>7, <2>1 DEF GenMarks
    <3> QED BY <2>1, <3>1 DEF OneOwner
  <2>4. ASSUME NEW i \in 1 .. Len(d), NEW j \in 1 .. Len(d), d[i].mark # 0, d[i].mark = d[j].mark
        PROVE  i = j
    BY <1>3, <2>1, <2>2, <2>4 DEF OneOwner
  <2>5. ASSUME NEW i \in 1 .. Len(g), NEW j \in 1 .. Len(d) PROVE g[i].mark # d[j].mark
    BY <1>3, <2>1, <2>3 DEF OneOwner
  <2> QED BY <2>1, <2>4, <2>5 DEF OneOwner
<1>8. ASSUME OwnersOf(g, c, O), m = 0 PROVE OwnersOf(g, d, O)
  BY <1>6, <1>7, <1>8 DEF OwnersOf
<1>9. ASSUME OwnersOf(g, c, O), m \notin O, m # 0 PROVE OwnersOf(g, d, O \cup {m})
  <2>1. OneOwner(g, d)
    BY <1>7, <1>9
  <2> QED BY <1>6, <1>9, <2>1 DEF OwnersOf
<1> QED BY <1>2, <1>8, <1>9

LEMMA PopOwners ==
  ASSUME NEW c \in Seq(FrameType), NEW d \in Seq(FrameType), Popped(c, d), NEW g, NEW O,
         OwnersOf(g, c, O)
  PROVE  /\ On(c).mark = 0 => OwnersOf(g, d, O)
         /\ On(c).mark # 0 => On(c).mark \in O /\ OwnersOf(g, d, O \ {On(c).mark})
<1>1. Len(d) \in Nat /\ Len(c) = Len(d) + 1 /\ Len(c) \in Nat
  BY LenProperties DEF Popped
<1>2. PICK m : m = On(c).mark
  OBVIOUS
<1>3. ASSUME NEW i \in 1 .. Len(d)
      PROVE  i \in 1 .. Len(c) /\ c[i].mark = d[i].mark /\ i # Len(c)
  BY <1>1 DEF Popped
<1>4. Len(c) \in 1 .. Len(c) /\ c[Len(c)].mark = m
  BY <1>1, <1>2 DEF On
<1>5. ASSUME NEW i \in 1 .. Len(c)
      PROVE  (i \in 1 .. Len(d) /\ c[i].mark = d[i].mark) \/ (i = Len(c) /\ c[i].mark = m)
  BY <1>1, <1>2 DEF Popped, On
<1>6. OneOwner(g, c) /\ O = GenMarks(g) \cup CtlMarks(c)
  BY DEF OwnersOf
<1>7. OneOwner(g, d)
  <2>1. ASSUME NEW i \in 1 .. Len(d), NEW j \in 1 .. Len(d), d[i].mark # 0, d[i].mark = d[j].mark
        PROVE  i = j
    BY <1>3, <1>6, <2>1 DEF OneOwner
  <2>2. ASSUME NEW i \in 1 .. Len(g), NEW j \in 1 .. Len(d) PROVE g[i].mark # d[j].mark
    BY <1>3, <1>6 DEF OneOwner
  <2> QED BY <1>6, <2>1, <2>2 DEF OneOwner
<1>8. CtlMarks(c) = CtlMarks(d) \cup ({m} \ {0})
  <2>1. ASSUME NEW b \in CtlMarks(c) PROVE b \in CtlMarks(d) \cup ({m} \ {0})
    BY <1>5, <2>1 DEF CtlMarks
  <2>2. ASSUME NEW b \in CtlMarks(d) PROVE b \in CtlMarks(c)
    <3>1. PICK i \in 1 .. Len(d) : b = d[i].mark /\ b # 0
      BY <2>2 DEF CtlMarks
    <3> QED BY <1>3, <3>1 DEF CtlMarks
  <2>3. m # 0 => m \in CtlMarks(c)
    BY <1>4 DEF CtlMarks
  <2> QED BY <2>1, <2>2, <2>3
<1>9. m = 0 => OwnersOf(g, d, O)
  BY <1>6, <1>7, <1>8 DEF OwnersOf
<1>10. ASSUME m # 0 PROVE m \in O /\ OwnersOf(g, d, O \ {m})
  <2>1. \A i \in 1 .. Len(d) : d[i].mark # m
    BY <1>3, <1>4, <1>6, <1>10 DEF OneOwner
  <2>2. \A i \in 1 .. Len(g) : g[i].mark # m
    BY <1>4, <1>6 DEF OneOwner
  <2>3. m \notin CtlMarks(d) /\ m \notin GenMarks(g)
    BY <2>1, <2>2 DEF CtlMarks, GenMarks
  <2> QED BY <1>6, <1>7, <1>8, <1>10, <2>3 DEF OwnersOf
<1> QED BY <1>2, <1>9, <1>10

LEMMA RetopOwners ==
  ASSUME NEW c \in Seq(FrameType), NEW d \in Seq(FrameType), Retopped(c, d), NEW g, NEW O,
         OwnersOf(g, c, O)
  PROVE  /\ On(d).mark = On(c).mark => OwnersOf(g, d, O)
         /\ On(c).mark = 0 /\ On(d).mark # 0 /\ On(d).mark \notin O
               => OwnersOf(g, d, O \cup {On(d).mark})
<1>1. PICK b : b = Front(c)
  OBVIOUS
<1>2. b \in Seq(FrameType) /\ Popped(c, b) /\ Len(c) \in Nat \ {0}
  BY <1>1, PopFacts DEF Retopped
<1>3. Len(d) = Len(b) + 1 /\ \A i \in 1 .. Len(b) : d[i] = b[i]
  BY <1>2 DEF Popped, Retopped
<1>4. Pushed(b, d)
  BY <1>3 DEF Pushed
<1>5. CASE On(c).mark = 0
  <2>1. OwnersOf(g, b, O)
    BY <1>2, <1>5, PopOwners
  <2> QED BY <1>2, <1>4, <1>5, <2>1, PushOwners
<1>6. CASE On(c).mark # 0
  <2>1. On(c).mark \in O /\ OwnersOf(g, b, O \ {On(c).mark})
    BY <1>2, <1>6, PopOwners
  <2>2. ASSUME On(d).mark = On(c).mark PROVE OwnersOf(g, d, O)
    <3>1. OwnersOf(g, d, (O \ {On(c).mark}) \cup {On(d).mark})
      BY <1>2, <1>4, <1>6, <2>1, <2>2, PushOwners
    <3>2. (O \ {On(c).mark}) \cup {On(d).mark} = O
      BY <2>1, <2>2
    <3> QED BY <3>1, <3>2
  <2> QED BY <1>6, <2>2
<1> QED BY <1>5, <1>6

\* A mark that no one will undo and that is not pending: debug tables make
\* them, and the pending ones below it stay as long as it does.
Lost(M, O, q) == ~M[q].unmarked /\ M[q].blk \notin O

Held(M, O, b) ==
  \E p \in 2 .. Len(M) :
    M[p].blk = b /\ (~M[p].unmarked \/ \E q \in p + 1 .. Len(M) : Lost(M, O, q))

MarksKept(M, O) ==
  /\ 1 \notin O /\ \A b \in O : Held(M, O, b)
  /\ "debug" \notin features => \A q \in 2 .. Len(M) : ~Lost(M, O, q)

LEMMA AppendedKept ==
  ASSUME NEW M, NEW N, NEW O, Len(M) \in Nat, Len(M) >= 1, M[1].blk = 1,
         Appended(M, N), MarksKept(M, O), NEW b, b = N[Len(N)].blk
  PROVE  b \notin O /\ b # 1 /\ MarksKept(N, O \cup {b})
<1>1. /\ Len(N) = Len(M) + 1 /\ ~N[Len(N)].unmarked
      /\ \A i \in 1 .. Len(M) : N[i] = M[i] /\ M[i].blk # b
  BY DEF Appended
<1>2. b \notin O
  BY <1>1 DEF MarksKept, Held
<1>3. b # 1
  BY <1>1
<1>4. ASSUME NEW q \in 2 .. Len(M) PROVE Lost(N, O \cup {b}, q) <=> Lost(M, O, q)
  BY <1>1 DEF Lost
<1>5. ASSUME NEW a \in O PROVE Held(N, O \cup {b}, a)
  <2>1. PICK p \in 2 .. Len(M) :
          M[p].blk = a /\ (~M[p].unmarked \/ \E q \in p + 1 .. Len(M) : Lost(M, O, q))
    BY DEF MarksKept, Held
  <2>2. p \in 2 .. Len(N) /\ N[p] = M[p]
    BY <1>1
  <2>3. CASE ~M[p].unmarked
    BY <2>1, <2>2, <2>3 DEF Held
  <2>4. CASE \E q \in p + 1 .. Len(M) : Lost(M, O, q)
    <3>1. PICK q \in p + 1 .. Len(M) : Lost(M, O, q)
      BY <2>4
    <3>2. q \in 2 .. Len(M) /\ q \in p + 1 .. Len(N)
      BY <1>1
    <3>3. Lost(N, O \cup {b}, q)
      BY <1>4, <3>1, <3>2
    <3> QED BY <2>1, <2>2, <3>2, <3>3 DEF Held
  <2> QED BY <2>1, <2>3, <2>4
<1>6. Held(N, O \cup {b}, b)
  <2>1. Len(N) \in 2 .. Len(N)
    BY <1>1
  <2> QED BY <1>1, <2>1 DEF Held
<1>7. ASSUME "debug" \notin features, NEW q \in 2 .. Len(N) PROVE ~Lost(N, O \cup {b}, q)
  <2>1. CASE q = Len(N)
    BY <2>1 DEF Lost
  <2>2. CASE q # Len(N)
    <3>1. q \in 2 .. Len(M)
      BY <1>1, <2>2
    <3> QED BY <1>4, <1>7, <3>1 DEF MarksKept
  <2> QED BY <2>1, <2>2
<1>8. 1 \notin O \cup {b}
  BY <1>3 DEF MarksKept
<1> QED BY <1>2, <1>3, <1>5, <1>6, <1>7, <1>8 DEF MarksKept

\* The top mark goes, and the pending ones under it.
LEMMA CutKept ==
  ASSUME NEW M, NEW N, NEW O, Len(M) \in Nat, Len(M) >= 2, NEW b \in O, M[Len(M)].blk = b,
         \A i, j \in 1 .. Len(M) : M[i].blk = M[j].blk => i = j,
         Cut(M, N), MarksKept(M, O)
  PROVE  MarksKept(N, O \ {b})
<1>1. /\ Len(N) \in 1 .. Len(M) - 1 /\ \A i \in 1 .. Len(N) : N[i] = M[i]
      /\ \A i \in Len(N) + 1 .. Len(M) - 1 : M[i].unmarked
  BY DEF Cut
<1>2. ASSUME NEW q \in 2 .. Len(N) PROVE Lost(N, O \ {b}, q) <=> Lost(M, O, q)
  <2>1. q \in 1 .. Len(M) /\ q # Len(M) /\ Len(M) \in 1 .. Len(M) /\ N[q] = M[q]
    BY <1>1
  <2>2. M[q].blk # b
    BY <2>1
  <2> QED BY <2>1, <2>2 DEF Lost
<1>3. ASSUME NEW a \in O, a # b PROVE Held(N, O \ {b}, a)
  <2>1. PICK p \in 2 .. Len(M) :
          M[p].blk = a /\ (~M[p].unmarked \/ \E q \in p + 1 .. Len(M) : Lost(M, O, q))
    BY DEF MarksKept, Held
  <2>2. p \in 2 .. Len(M) - 1
    BY <1>3, <2>1
  <2>3. CASE ~M[p].unmarked
    <3>1. p \in 2 .. Len(N)
      BY <1>1, <2>2, <2>3
    <3>2. N[p] = M[p]
      BY <1>1, <3>1
    <3> QED BY <2>1, <2>3, <3>1, <3>2 DEF Held
  <2>4. CASE \E q \in p + 1 .. Len(M) : Lost(M, O, q)
    <3>1. PICK q \in p + 1 .. Len(M) : Lost(M, O, q)
      BY <2>4
    <3>2. ~M[q].unmarked /\ q # Len(M)
      BY <3>1 DEF Lost
    <3>3. q \in p + 1 .. Len(N) /\ q \in 2 .. Len(N) /\ p \in 2 .. Len(N)
      BY <1>1, <2>2, <3>2
    <3>4. Lost(N, O \ {b}, q)
      BY <1>2, <3>1, <3>3
    <3>5. N[p] = M[p]
      BY <1>1, <3>3
    <3> QED BY <2>1, <3>3, <3>4, <3>5 DEF Held
  <2> QED BY <2>1, <2>3, <2>4
<1>4. ASSUME "debug" \notin features, NEW q \in 2 .. Len(N) PROVE ~Lost(N, O \ {b}, q)
  <2>1. q \in 2 .. Len(M)
    BY <1>1
  <2> QED BY <1>2, <1>4, <2>1 DEF MarksKept
<1> QED BY <1>3, <1>4 DEF MarksKept

\* A mark under the top one is noted as pending.
LEMMA FlaggedKept ==
  ASSUME NEW M, NEW N, NEW O, Len(M) \in Nat, NEW b \in O, Flagged(M, N, b), MarksKept(M, O)
  PROVE  MarksKept(N, O \ {b})
<1>1. /\ Len(N) = Len(M)
      /\ \A i \in 1 .. Len(M) : N[i].blk = M[i].blk
      /\ \A i \in 1 .. Len(M) : N[i].unmarked <=> M[i].unmarked \/ (i # 1 /\ M[i].blk = b)
  BY DEF Flagged
<1>2. ASSUME NEW q \in 2 .. Len(M) PROVE Lost(N, O \ {b}, q) <=> Lost(M, O, q)
  <2>1. q \in 1 .. Len(M) /\ q # 1
    OBVIOUS
  <2>2. CASE M[q].blk = b
    BY <1>1, <2>1, <2>2 DEF Lost
  <2>3. CASE M[q].blk # b
    BY <1>1, <2>1, <2>3 DEF Lost
  <2> QED BY <2>2, <2>3
<1>3. ASSUME NEW a \in O, a # b PROVE Held(N, O \ {b}, a)
  <2>1. PICK p \in 2 .. Len(M) :
          M[p].blk = a /\ (~M[p].unmarked \/ \E q \in p + 1 .. Len(M) : Lost(M, O, q))
    BY DEF MarksKept, Held
  <2>2. p \in 1 .. Len(M) /\ N[p].blk = a /\ p \in 2 .. Len(N)
    BY <1>1, <2>1
  <2>3. CASE ~M[p].unmarked
    <3>1. ~N[p].unmarked
      BY <1>1, <1>3, <2>1, <2>2, <2>3
    <3> QED BY <2>2, <3>1 DEF Held
  <2>4. CASE \E q \in p + 1 .. Len(M) : Lost(M, O, q)
    <3>1. PICK q \in p + 1 .. Len(M) : Lost(M, O, q)
      BY <2>4
    <3>2. q \in 2 .. Len(M) /\ q \in p + 1 .. Len(N)
      BY <1>1
    <3>3. Lost(N, O \ {b}, q)
      BY <1>2, <3>1, <3>2
    <3> QED BY <2>2, <3>2, <3>3 DEF Held
  <2> QED BY <2>1, <2>3, <2>4
<1>4. ASSUME "debug" \notin features, NEW q \in 2 .. Len(N) PROVE ~Lost(N, O \ {b}, q)
  BY <1>1, <1>2, <1>4 DEF MarksKept
<1> QED BY <1>3, <1>4 DEF MarksKept

\* alloc_unmark by the owner: the mark is there.
LEMMA UnmarkKept ==
  ASSUME NEW s, NEW t, StOK(s), NEW O, MarksKept(s.marks, O), NEW b \in O, UnmarkOf(s, t, b),
         s.out = "ok"
  PROVE  t.out = "unmark1" \/ (t.out = "ok" /\ MarksKept(t.marks, O \ {b}))
<1>1. Len(s.marks) \in Nat /\ Top(s) = s.marks[Len(s.marks)]
  BY TopFacts
<1>2. \A i, j \in 1 .. Len(s.marks) : s.marks[i].blk = s.marks[j].blk => i = j
  BY DEF StOK, BlocksApart, Apart
<1>3. PICK p \in 2 .. Len(s.marks) : s.marks[p].blk = b
  BY DEF MarksKept, Held
<1>4. ~NoSuchMark(s, t, b)
  BY <1>3 DEF NoSuchMark
<1>5. CASE NotDropped(s, t)
  BY <1>5 DEF NotDropped
<1>6. CASE Top(s).blk = b /\ Len(s.marks) >= 2 /\ CutBack(s, t)
  BY <1>1, <1>2, <1>6, CutKept DEF CutBack
<1>7. CASE JustNoted(s, t, b)
  BY <1>1, <1>7, FlaggedKept DEF JustNoted
<1> QED BY <1>4, <1>5, <1>6, <1>7 DEF UnmarkOf

\* The list of functions grew in between: the function taken off it is the
\* new one, and the mark undone is that of one that stays on it.
LEMMA WrongKept ==
  ASSUME NEW s, NEW t, StOK(s), StOK(t), NEW x, StOK(x), NEW O, MarksKept(s.marks, O), NEW b \in O,
         Extra(s, x), NEW y, StOK(y), y.marks = x.marks, y.out = "ok", UnmarkOf(y, t, b)
  PROVE  t.out = "ok" /\ MarksKept(t.marks, O)
<1>1. /\ Len(s.marks) \in Nat /\ Len(s.marks) >= 1 /\ s.marks[1].blk = 1
      /\ Len(y.marks) \in Nat /\ Top(y) = y.marks[Len(y.marks)]
  BY TopFacts DEF StOK, TopLive
<1>2. PICK a : a = y.marks[Len(y.marks)].blk
  OBVIOUS
<1>3. /\ Len(y.marks) = Len(s.marks) + 1 /\ ~y.marks[Len(y.marks)].unmarked
      /\ \A i \in 1 .. Len(s.marks) : y.marks[i] = s.marks[i] /\ s.marks[i].blk # a
  BY <1>2 DEF Extra, Appended
<1>4. ASSUME NEW o \in O
      PROVE  \E p \in 2 .. Len(s.marks) : s.marks[p].blk = o
  BY DEF MarksKept, Held
<1>5. a \notin O
  BY <1>3, <1>4
<1>6. PICK p \in 2 .. Len(s.marks) : s.marks[p].blk = b
  BY <1>4
<1>7. p \in 2 .. Len(y.marks) /\ y.marks[p].blk = b
  BY <1>3, <1>6
<1>8. JustNoted(y, t, b)
  <2>1. Top(y).blk # b
    BY <1>1, <1>2, <1>5
  <2> QED BY <1>7, <2>1 DEF UnmarkOf, NoSuchMark
<1>9. /\ Len(t.marks) = Len(y.marks) /\ t.out = "ok"
      /\ \A i \in 1 .. Len(y.marks) : t.marks[i].blk = y.marks[i].blk
      /\ \A i \in 1 .. Len(y.marks) :
           t.marks[i].unmarked <=> y.marks[i].unmarked \/ (i # 1 /\ y.marks[i].blk = b)
  BY <1>8 DEF JustNoted, Flagged
<1>10. Lost(t.marks, O, Len(t.marks))
  <2>1. Len(y.marks) \in 1 .. Len(y.marks)
    BY <1>1, <1>3
  <2>2. t.marks[Len(t.marks)].blk = a /\ a # b
    BY <1>2, <1>5, <1>9, <2>1
  <2>3. ~t.marks[Len(t.marks)].unmarked
    BY <1>2, <1>3, <1>9, <2>1, <2>2
  <2> QED BY <1>5, <2>2, <2>3 DEF Lost
<1>11. ASSUME NEW o \in O PROVE Held(t.marks, O, o)
  <2>1. PICK q \in 2 .. Len(s.marks) : s.marks[q].blk = o
    BY <1>4
  <2>2. q \in 2 .. Len(t.marks) /\ t.marks[q].blk = o
    BY <1>1, <1>3, <1>9, <2>1
  <2>3. Len(t.marks) \in q + 1 .. Len(t.marks)
    BY <1>1, <1>3, <1>9
  <2> QED BY <1>10, <2>2, <2>3 DEF Held
<1> QED BY <1>9, <1>11 DEF MarksKept, Extra

Owned(s, c) == \E O : OwnersOf(s.gen, c, O) /\ MarksKept(s.marks, O)

LEMMA OwnedSame ==
  ASSUME NEW s, NEW t, NEW c, Owned(s, c), t.marks = s.marks, t.gen = s.gen
  PROVE  Owned(t, c)
BY DEF Owned

LEMMA OwnedStack ==
  ASSUME NEW s, NEW c \in Seq(FrameType), NEW d \in Seq(FrameType), Owned(s, c)
  PROVE  /\ Pushed(c, d) /\ On(d).mark = 0 => Owned(s, d)
         /\ Popped(c, d) /\ On(c).mark = 0 => Owned(s, d)
         /\ Retopped(c, d) /\ On(d).mark = On(c).mark => Owned(s, d)
<1>1. PICK O : OwnersOf(s.gen, c, O) /\ MarksKept(s.marks, O)
  BY DEF Owned
<1>2. ASSUME OwnersOf(s.gen, d, O) PROVE Owned(s, d)
  BY <1>1, <1>2 DEF Owned
<1>3. ASSUME Pushed(c, d), On(d).mark = 0 PROVE Owned(s, d)
  <2>1. OwnersOf(s.gen, d, O)
    BY <1>1, <1>3, PushOwners
  <2> QED BY <1>2, <2>1
<1>4. ASSUME Popped(c, d), On(c).mark = 0 PROVE Owned(s, d)
  <2>1. OwnersOf(s.gen, d, O)
    BY <1>1, <1>4, PopOwners
  <2> QED BY <1>2, <2>1
<1>5. ASSUME Retopped(c, d), On(d).mark = On(c).mark PROVE Owned(s, d)
  <2>1. OwnersOf(s.gen, d, O)
    BY <1>1, <1>5, RetopOwners
  <2> QED BY <1>2, <2>1
<1> QED BY <1>3, <1>4, <1>5

LEMMA MarksGrow ==
  ASSUME NEW s, NEW t, StOK(s), StOK(t), Appended(s.marks, t.marks), NEW O, MarksKept(s.marks, O),
         NEW b, b = t.marks[Len(t.marks)].blk
  PROVE  b \notin O /\ b # 0 /\ MarksKept(t.marks, O \cup {b})
<1>1. Len(s.marks) \in Nat /\ Len(s.marks) >= 1 /\ s.marks[1].blk = 1
  BY TopFacts DEF StOK, TopLive
<1>2. b # 0
  <2>1. Top(t) = t.marks[Len(t.marks)] /\ Top(t).blk \in Nat \ {0}
    BY TopFacts
  <2> QED BY <2>1
<1> QED BY <1>1, <1>2, AppendedKept

\* A generated function joins those in waiting.
LEMMA OwnedNoted ==
  ASSUME NEW s, NEW t, NEW c, StOK(s), StOK(t), Owned(s, c), Appended(s.marks, t.marks),
         NEW e, Consed(s.gen, t.gen, e), e.mark = t.marks[Len(t.marks)].blk
  PROVE  Owned(t, c)
<1>1. PICK O : OwnersOf(s.gen, c, O) /\ MarksKept(s.marks, O)
  BY DEF Owned
<1>2. e.mark \notin O /\ e.mark # 0 /\ MarksKept(t.marks, O \cup {e.mark})
  BY <1>1, MarksGrow
<1>3. Len(s.gen) \in Nat
  <2>1. s.gen \in Seq(NoteType)
    BY StFields DEF StOK
  <2> QED BY <2>1, LenProperties
<1>4. OwnersOf(t.gen, c, O \cup {e.mark})
  BY <1>1, <1>2, <1>3, ConsOwners
<1> QED BY <1>2, <1>4 DEF Owned

LEMMA OwnedExtra ==
  ASSUME NEW s, NEW t, NEW c, StOK(s), StOK(t), Owned(s, c), Extra(s, t)
  PROVE  Owned(t, c)
<1>1. PICK e : e = [fn |-> Len(s.fns) + 1, mark |-> t.marks[Len(t.marks)].blk]
  OBVIOUS
<1>2. Consed(s.gen, t.gen, e) /\ e.mark = t.marks[Len(t.marks)].blk /\ Appended(s.marks, t.marks)
  BY <1>1 DEF Extra
<1> QED BY <1>2, OwnedNoted

LEMMA OwnedNote ==
  ASSUME NEW s, NEW t, NEW c, StOK(s), StOK(t), Owned(s, c), NEW f, NoteOf(s, t, f)
  PROVE  Owned(t, c)
<1>1. PICK e : e = [fn |-> f, mark |-> t.marks[Len(t.marks)].blk]
  OBVIOUS
<1>2. Consed(s.gen, t.gen, e) /\ e.mark = t.marks[Len(t.marks)].blk /\ Appended(s.marks, t.marks)
  BY <1>1 DEF NoteOf
<1> QED BY <1>2, OwnedNoted

LEMMA OwnedDescribed ==
  ASSUME NEW s, NEW t, NEW c, StOK(s), Owned(s, c), DescribedOf(s, t)
  PROVE  Owned(t, c) /\ t.out = s.out
BY OwnedExtra DEF DescribedOf, Extra

\* A call sets a mark.
LEMMA OwnedMark ==
  ASSUME NEW s, NEW t, StOK(s), StOK(t), NEW c \in Seq(FrameType), NEW d \in Seq(FrameType),
         Owned(s, c), MarkOf(s, t), On(d).mark = t.marks[Len(t.marks)].blk,
         Pushed(c, d) \/ (Retopped(c, d) /\ On(c).mark = 0)
  PROVE  Owned(t, d)
<1>1. PICK O : OwnersOf(s.gen, c, O) /\ MarksKept(s.marks, O)
  BY DEF Owned
<1>2. PICK b : b = On(d).mark
  OBVIOUS
<1>3. b \notin O /\ b # 0 /\ MarksKept(t.marks, O \cup {b})
  BY <1>1, <1>2, MarksGrow DEF MarkOf
<1>4. OwnersOf(s.gen, d, O \cup {b})
  BY <1>1, <1>2, <1>3, PushOwners, RetopOwners
<1>5. t.gen = s.gen
  BY DEF MarkOf, Lists
<1> QED BY <1>3, <1>4, <1>5 DEF Owned

\* A call undoes its mark, and ends.
LEMMA OwnedUndo ==
  ASSUME NEW s, NEW t, StOK(s), NEW c \in Seq(FrameType), NEW d \in Seq(FrameType),
         Owned(s, c), s.out = "ok", Popped(c, d), On(c).mark # 0, UnmarkOf(s, t, On(c).mark)
  PROVE  t.out = "unmark1" \/ (t.out = "ok" /\ Owned(t, d))
<1>1. PICK O : OwnersOf(s.gen, c, O) /\ MarksKept(s.marks, O)
  BY DEF Owned
<1>2. PICK b : b = On(c).mark
  OBVIOUS
<1>3. b \in O /\ OwnersOf(s.gen, d, O \ {b})
  BY <1>1, <1>2, PopOwners
<1>4. t.out = "unmark1" \/ (t.out = "ok" /\ MarksKept(t.marks, O \ {b}))
  BY <1>1, <1>2, <1>3, UnmarkKept
<1>5. t.gen = s.gen
  BY DEF UnmarkOf, Lists
<1> QED BY <1>3, <1>4, <1>5 DEF Owned

\* Marks: what a step comes to.
Balanced(t, d) == t.out = "unmark1" \/ (t.out = "ok" /\ Owned(t, d))

LEMMA GeneratedOwned ==
  ASSUME NEW s, NEW c, NEW t, NEW d, TypeInv(s, c), TypeInv(t, d), KnownInv(s, c), s.out = "ok",
         Owned(s, c), GeneratedOf(s, c, t, d)
  PROVE  Balanced(t, d)
<1>1. PICK e, x, y : /\ EntryOf(s, c, e) /\ DescribedOf(e, x) /\ StOK(y) /\ GenTaken(x, y)
                     /\ UnmarkOf(y, t, s.gen[1].mark)
  BY DEF GeneratedOf
<1>2. StOK(s) /\ StOK(e) /\ StOK(x) /\ StOK(y) /\ StOK(t)
  BY <1>1, EntryOnward, DescribedOnward DEF TypeInv
<1>3. c \in Seq(FrameType) /\ d \in Seq(FrameType)
  BY DEF TypeInv
<1>4. Pushed(c, d) /\ On(d).mark = 0
  BY DEF GeneratedOf, FrameIs
<1>5. e.gen = s.gen /\ e.marks = s.marks /\ e.out = "ok"
  BY <1>1 DEF EntryOf, DropOf, Lists
<1>6. PICK O : OwnersOf(s.gen, c, O) /\ MarksKept(s.marks, O)
  BY DEF Owned
<1>7. PICK h : h = s.gen[1]
  OBVIOUS
<1>8. /\ s.gen \in Seq(NoteType) /\ Tail(s.gen) \in Seq(NoteType) /\ Consed(Tail(s.gen), s.gen, h)
      /\ Len(Tail(s.gen)) \in Nat
  <2>1. s.gen \in Seq(NoteType) /\ s.gen # <<>>
    BY <1>2, StFields DEF StOK, GeneratedOf
  <2>2. Tail(s.gen) \in Seq(NoteType) /\ Consed(Tail(s.gen), s.gen, h)
    BY <1>7, <2>1, TailFacts
  <2> QED BY <2>1, <2>2, LenProperties
<1>9. h.mark \in O /\ OwnersOf(Tail(s.gen), c, O \ {h.mark})
  BY <1>6, <1>8, ConsOwners
<1>10. y.marks = x.marks /\ y.out = x.out /\ Consed(y.gen, x.gen, x.gen[1])
  BY <1>1 DEF GenTaken
<1>11. y.gen \in Seq(NoteType) /\ x.gen \in Seq(NoteType)
  BY <1>2, StFields DEF StOK
<1>12. t.gen = y.gen /\ UnmarkOf(y, t, h.mark)
  BY <1>1, <1>7 DEF UnmarkOf, Lists
<1>13. CASE x = e
  <2>1. y.gen \in Seq(NoteType) /\ Consed(y.gen, s.gen, h)
    BY <1>5, <1>7, <1>10, <1>11, <1>13
  <2>2. OwnersOf(y.gen, c, O \ {h.mark})
    BY <1>6, <2>1, LenProperties, ConsOwners
  <2>3. y.marks = s.marks /\ y.out = "ok"
    BY <1>5, <1>10, <1>13
  <2>4. t.out = "unmark1" \/ (t.out = "ok" /\ MarksKept(t.marks, O \ {h.mark}))
    BY <1>2, <1>6, <1>9, <1>12, <2>3, UnmarkKept
  <2>5. t.out = "unmark1" \/ (t.out = "ok" /\ Owned(t, c))
    BY <1>12, <2>2, <2>4 DEF Owned
  <2> QED BY <1>3, <1>4, <2>5, OwnedStack DEF Balanced
<1>14. CASE Extra(e, x)
  <2>1. Tail(x.gen) = s.gen /\ x.out = "ok"
    BY <1>5, <1>14 DEF Extra
  <2>2. y.gen = s.gen
    <3>1. x.gen # <<>>
      BY <1>1 DEF GenTaken
    <3>2. Tail(x.gen) \in Seq(NoteType) /\ Consed(Tail(x.gen), x.gen, x.gen[1])
      BY <1>11, <3>1, TailFacts
    <3>3. PICK g : g = Tail(x.gen)
      OBVIOUS
    <3>4. g \in Seq(NoteType) /\ Consed(g, x.gen, x.gen[1])
      BY <3>2, <3>3
    <3>5. Len(g) \in Nat /\ Len(y.gen) \in Nat
      BY <1>11, <3>4, LenProperties
    <3>6. Len(g) = Len(y.gen)
      BY <1>10, <3>4, <3>5 DEF Consed
    <3>7. \A i \in 1 .. Len(g) : g[i] = y.gen[i]
      BY <1>10, <3>4, <3>6 DEF Consed
    <3>8. g = y.gen
      BY <1>11, <3>4, <3>6, <3>7, SeqEqual
    <3> QED BY <2>1, <3>3, <3>8
  <2>3. y.marks = x.marks /\ y.out = "ok" /\ MarksKept(e.marks, O)
    BY <1>5, <1>6, <1>10, <2>1
  <2>4. t.out = "ok" /\ MarksKept(t.marks, O)
    BY <1>2, <1>9, <1>12, <1>14, <2>3, WrongKept
  <2>5. Owned(t, c)
    BY <1>6, <1>12, <2>2, <2>4 DEF Owned
  <2> QED BY <1>3, <1>4, <2>4, <2>5, OwnedStack DEF Balanced
<1> QED BY <1>1, <1>13, <1>14 DEF DescribedOf

\* Steps that set and undo no mark.
LEMMA QuietOwned ==
  ASSUME NEW s, NEW c, NEW t, NEW d, TypeInv(s, c), TypeInv(t, d), KnownInv(s, c), s.out = "ok",
         Owned(s, c),
         \/ PendingOf(s, c, t, d) \/ SourceOf(s, c, t, d) \/ ReadOf(s, c, t, d)
         \/ InstanceClassOf(s, c, t, d) \/ LocalClassOf(s, c, t, d) \/ TopClassOf(s, c, t, d)
         \/ NestedClassOf(s, c, t, d) \/ MemberFnOf(s, c, t, d)
  PROVE  Balanced(t, d)
<1>1. c \in Seq(FrameType) /\ d \in Seq(FrameType)
  BY DEF TypeInv
<1>2. t.marks = s.marks /\ t.gen = s.gen /\ t.out = s.out
  <2>1. CASE PendingOf(s, c, t, d)
    BY <2>1 DEF PendingOf, EntryOf, DropOf, Lists, PendIs, Still
  <2>2. CASE SourceOf(s, c, t, d)
    BY <2>2 DEF SourceOf, DropOf, Lists, Still
  <2>3. CASE \/ ReadOf(s, c, t, d) \/ InstanceClassOf(s, c, t, d) \/ LocalClassOf(s, c, t, d)
             \/ TopClassOf(s, c, t, d) \/ NestedClassOf(s, c, t, d) \/ MemberFnOf(s, c, t, d)
    BY <2>3 DEF ReadOf, Lists, InstanceClassOf, LocalClassOf, PendIs, TopClassOf, NestedClassOf, MemberFnOf
  <2> QED BY <2>1, <2>2, <2>3
<1>3. d = c \/ (Pushed(c, d) /\ On(d).mark = 0)
  <2>1. CASE PendingOf(s, c, t, d) \/ SourceOf(s, c, t, d)
    BY <2>1 DEF PendingOf, SourceOf, FrameIs
  <2>2. CASE \/ ReadOf(s, c, t, d) \/ InstanceClassOf(s, c, t, d) \/ LocalClassOf(s, c, t, d)
             \/ TopClassOf(s, c, t, d) \/ NestedClassOf(s, c, t, d) \/ MemberFnOf(s, c, t, d)
    BY <2>2 DEF ReadOf, InstanceClassOf, LocalClassOf, TopClassOf, NestedClassOf, MemberFnOf, FrameIs
  <2> QED BY <2>1, <2>2
<1>4. Owned(t, c)
  BY <1>2, OwnedSame
<1> QED BY <1>1, <1>2, <1>3, <1>4, OwnedStack DEF Balanced

\* Functions are described, built and noted.
LEMMA NotedOwned ==
  ASSUME NEW s, NEW c, NEW t, NEW d, TypeInv(s, c), TypeInv(t, d), KnownInv(s, c), s.out = "ok",
         Owned(s, c), c # <<>> => Sits(s.fns, On(c)),
         \/ DescribeOf(s, c, t, d) \/ HeadOf(s, c, t, d) \/ NotedOf(s, c, t, d)
         \/ MembersOf(s, c, t, d) \/ GenerateFnOf(s, c, t, d)
  PROVE  Balanced(t, d)
<1>1. c \in Seq(FrameType) /\ d \in Seq(FrameType) /\ StOK(s) /\ StOK(t)
  BY DEF TypeInv
<1>2. CASE DescribeOf(s, c, t, d)
  <2>1. Extra(s, t) /\ d = c
    BY <1>2 DEF DescribeOf
  <2>2. Owned(t, c) /\ t.out = "ok"
    BY <1>1, <2>1, OwnedExtra DEF Extra
  <2> QED BY <2>1, <2>2 DEF Balanced
<1>3. CASE HeadOf(s, c, t, d)
  <2>1. Owned(t, c) /\ t.out = "ok"
    BY <1>1, <1>3, OwnedDescribed DEF HeadOf
  <2>2. Retopped(c, d) /\ On(d).mark = On(c).mark
    BY <1>3 DEF HeadOf, FrameIs
  <2> QED BY <1>1, <2>1, <2>2, OwnedStack DEF Balanced
<1>4. CASE NotedOf(s, c, t, d)
  <2>1. Owned(t, c) /\ t.out = "ok"
    BY <1>1, <1>4, OwnedNote DEF NotedOf, NoteOf
  <2>2. Popped(c, d) /\ On(c).mark = 0
    BY <1>4 DEF NotedOf, Sits
  <2> QED BY <1>1, <2>1, <2>2, OwnedStack DEF Balanced
<1>5. CASE MembersOf(s, c, t, d)
  <2>1. PICK b : /\ Retopped(c, b) /\ On(b).mark = On(c).mark /\ b \in Seq(FrameType)
                 /\ \/ t = s /\ d = b
                    \/ Still(s, t) /\ Pushed(b, d) /\ On(d).mark = 0
    BY <1>5 DEF MembersOf, FrameIs
  <2>2. Owned(s, b)
    BY <1>1, <2>1, OwnedStack
  <2>3. Owned(s, d) /\ t.marks = s.marks /\ t.gen = s.gen /\ t.out = s.out
    BY <1>1, <2>1, <2>2, OwnedStack DEF Still, Lists
  <2> QED BY <2>3, OwnedSame DEF Balanced
<1>6. CASE GenerateFnOf(s, c, t, d)
  <2>1. PICK b : /\ Retopped(c, b) /\ On(b).mark = On(c).mark /\ b \in Seq(FrameType)
                 /\ Pushed(b, d) /\ On(d).mark = 0
    BY <1>6 DEF GenerateFnOf, FrameIs
  <2>2. Owned(s, b)
    BY <1>1, <2>1, OwnedStack
  <2>3. Owned(s, d) /\ t.marks = s.marks /\ t.gen = s.gen /\ t.out = s.out
    BY <1>1, <1>6, <2>1, <2>2, OwnedStack DEF GenerateFnOf, Still, Lists
  <2> QED BY <2>3, OwnedSame DEF Balanced
<1> QED BY <1>2, <1>3, <1>4, <1>5, <1>6

LEMMA EndFnOwned ==
  ASSUME NEW s, NEW c, NEW t, NEW d, TypeInv(s, c), TypeInv(t, d), KnownInv(s, c), s.out = "ok",
         Owned(s, c), c # <<>> => Sits(s.fns, On(c)),
         EndFnOf(s, c, t, d) \/ EndDeclOf(s, c, t, d)
  PROVE  Balanced(t, d)
<1>1. c \in Seq(FrameType) /\ d \in Seq(FrameType)
  BY DEF TypeInv
<1>2. t.marks = s.marks /\ t.gen = s.gen /\ t.out = s.out
  BY DEF EndFnOf, EndDeclOf, Still, Lists
<1>3. \/ Popped(c, d) /\ On(c).mark = 0
      \/ Retopped(c, d) /\ On(d).mark = On(c).mark
  <2>1. CASE EndDeclOf(s, c, t, d)
    BY <2>1 DEF EndDeclOf, Sits
  <2>2. CASE EndFnOf(s, c, t, d) /\ s.fns[On(c).fn].only
    BY <2>2 DEF EndFnOf, Sits
  <2>3. CASE EndFnOf(s, c, t, d) /\ ~s.fns[On(c).fn].only
    BY <2>3 DEF EndFnOf, FrameIs
  <2> QED BY <2>1, <2>2, <2>3
<1>4. Owned(t, c)
  BY <1>2, OwnedSame
<1> QED BY <1>1, <1>2, <1>3, <1>4, OwnedStack DEF Balanced

LEMMA CompiledOwned ==
  ASSUME NEW s, NEW c, NEW t, NEW d, TypeInv(s, c), TypeInv(t, d), KnownInv(s, c), s.out = "ok",
         Owned(s, c), CompiledOf(s, c, t, d)
  PROVE  Balanced(t, d)
<1>1. PICK x, y, z :
        /\ DescribedOf(s, x) /\ StOK(y) /\ Still(x, y) /\ OneMade(x.fns, y.fns, On(c).fn)
        /\ StOK(z) /\ DropOf(y, z)
        /\ \/ On(c).mark = 0 /\ t = z
           \/ On(c).mark # 0 /\ \E w : StOK(w) /\ DropOf(z, w) /\ UnmarkOf(w, t, On(c).mark)
  BY DEF CompiledOf
<1>2. StOK(s) /\ c \in Seq(FrameType) /\ d \in Seq(FrameType) /\ Popped(c, d)
  BY DEF TypeInv, CompiledOf
<1>3. Owned(x, c) /\ x.out = "ok"
  BY <1>1, <1>2, OwnedDescribed
<1>4. Owned(y, c) /\ y.out = "ok"
  BY <1>1, <1>3, OwnedSame DEF Still, Lists
<1>5. Owned(z, c) /\ z.out = "ok"
  BY <1>1, <1>4, OwnedSame DEF DropOf, Lists
<1>6. CASE On(c).mark = 0 /\ t = z
  BY <1>2, <1>5, <1>6, OwnedStack DEF Balanced
<1>7. ASSUME NEW w, On(c).mark # 0, StOK(w), DropOf(z, w), UnmarkOf(w, t, On(c).mark)
      PROVE  Balanced(t, d)
  <2>1. Owned(w, c) /\ w.out = "ok"
    BY <1>5, <1>7, OwnedSame DEF DropOf, Lists
  <2> QED BY <1>2, <1>7, <2>1, OwnedUndo DEF Balanced
<1> QED BY <1>1, <1>6, <1>7

LEMMA InstanceFnOwned ==
  ASSUME NEW s, NEW c, NEW t, NEW d, TypeInv(s, c), TypeInv(t, d), KnownInv(s, c), s.out = "ok",
         Owned(s, c), InstanceFnOf(s, c, t, d)
  PROVE  Balanced(t, d)
<1>1. PICK m : /\ StOK(m) /\ MarkOf(s, m) /\ Still(m, t)
               /\ FrameIs(On(d), "fn", Len(s.fns) + 1, m.marks[Len(m.marks)].blk, <<>>, "top")
  BY DEF InstanceFnOf
<1>2. StOK(s) /\ c \in Seq(FrameType) /\ d \in Seq(FrameType) /\ Pushed(c, d)
  BY DEF TypeInv, InstanceFnOf
<1>3. Owned(m, d)
  BY <1>1, <1>2, OwnedMark DEF FrameIs
<1>4. t.marks = m.marks /\ t.gen = m.gen /\ t.out = "ok"
  BY <1>1 DEF Still, Lists, MarkOf
<1> QED BY <1>3, <1>4, OwnedSame DEF Balanced

LEMMA EndClassOwned ==
  ASSUME NEW s, NEW c, NEW t, NEW d, TypeInv(s, c), TypeInv(t, d), KnownInv(s, c), s.out = "ok",
         Owned(s, c), c # <<>> => Sits(s.fns, On(c)), EndClassOf(s, c, t, d)
  PROVE  Balanced(t, d)
<1>1. StOK(s) /\ StOK(t) /\ c \in Seq(FrameType) /\ d \in Seq(FrameType)
  BY DEF TypeInv
<1>2. On(c).mark = 0
  BY DEF Sits, EndClassOf
<1>3. CASE /\ MarkOf(s, t) /\ Retopped(c, d)
           /\ FrameIs(On(d), "loop", 0, t.marks[Len(t.marks)].blk, On(c).saved, "top")
  BY <1>1, <1>2, <1>3, OwnedMark DEF FrameIs, Balanced, MarkOf
<1>4. CASE PendIs(s, t, On(c).saved) /\ Popped(c, d)
  <2>1. Owned(s, d)
    BY <1>1, <1>2, <1>4, OwnedStack
  <2> QED BY <1>4, <2>1, OwnedSame DEF Balanced, PendIs
<1>5. ASSUME NEW m, StOK(m), MarkOf(s, m), PendIs(m, t, <<>>), Retopped(c, d),
             FrameIs(On(d), "loop", 0, t.marks[Len(t.marks)].blk, s.pend, "top")
      PROVE  Balanced(t, d)
  <2>1. t.marks = m.marks /\ t.gen = m.gen /\ t.out = "ok" /\ On(d).mark = m.marks[Len(m.marks)].blk
    BY <1>5 DEF PendIs, MarkOf, FrameIs
  <2>2. Owned(m, d)
    BY <1>1, <1>2, <1>5, <2>1, OwnedMark
  <2> QED BY <2>1, <2>2, OwnedSame DEF Balanced
<1>6. CASE t = s /\ Popped(c, d)
  BY <1>1, <1>2, <1>6, OwnedStack DEF Balanced
<1> QED BY <1>3, <1>4, <1>5, <1>6 DEF EndClassOf

LEMMA EndLoopOwned ==
  ASSUME NEW s, NEW c, NEW t, NEW d, TypeInv(s, c), TypeInv(t, d), KnownInv(s, c), s.out = "ok",
         Owned(s, c), c # <<>> => Sits(s.fns, On(c)), EndLoopOf(s, c, t, d)
  PROVE  Balanced(t, d)
<1>1. PICK u : StOK(u) /\ UnmarkOf(s, u, On(c).mark) /\ PendIs(u, t, On(c).saved)
  BY DEF EndLoopOf
<1>2. StOK(s) /\ c \in Seq(FrameType) /\ d \in Seq(FrameType) /\ Popped(c, d)
  BY DEF TypeInv, EndLoopOf
<1>3. On(c).mark # 0
  BY DEF Sits, EndLoopOf
<1>4. u.out = "unmark1" \/ (u.out = "ok" /\ Owned(u, d))
  BY <1>1, <1>2, <1>3, OwnedUndo
<1>5. t.marks = u.marks /\ t.gen = u.gen /\ t.out = u.out
  BY <1>1 DEF PendIs
<1> QED BY <1>4, <1>5, OwnedSame DEF Balanced

\* At the end, without debug tables, only the base mark is left.
LEMMA EndOfFileOwned ==
  ASSUME NEW s, NEW c, NEW t, NEW d, TypeInv(s, c), s.out = "ok", Owned(s, c),
         EndOfFileOf(s, c, t, d)
  PROVE  t.out = "done" \/ (t.out = "marklist" /\ "debug" \in features)
<1>1. PICK O : OwnersOf(s.gen, c, O) /\ MarksKept(s.marks, O)
  BY DEF Owned
<1>2. c = <<>> /\ s.gen = <<>>
  BY DEF EndOfFileOf, Waiting
<1>3. O = {}
  <2>1. Len(s.gen) = 0 /\ Len(c) = 0
    BY <1>2
  <2>2. \A i \in 1 .. 0 : FALSE
    OBVIOUS
  <2> QED BY <1>1, <2>1, <2>2 DEF OwnersOf, GenMarks, CtlMarks
<1>4. Len(s.marks) \in Nat /\ Len(s.marks) >= 1 /\ ~s.marks[Len(s.marks)].unmarked
  BY TopFacts DEF TypeInv, StOK, TopLive
<1>5. ASSUME "debug" \notin features PROVE Len(s.marks) = 1
  <2>1. Len(s.marks) \in 2 .. Len(s.marks) => ~Lost(s.marks, O, Len(s.marks))
    BY <1>1, <1>5 DEF MarksKept
  <2>2. Len(s.marks) \notin 2 .. Len(s.marks)
    BY <1>3, <1>4, <2>1 DEF Lost
  <2>3. PICK n \in Nat : n = Len(s.marks)
    BY <1>4
  <2>4. n >= 1
    BY <1>4, <2>3
  <2>5. n \notin 2 .. n
    BY <2>2, <2>3
  <2>6. n = 1
    BY <2>4, <2>5
  <2> QED BY <2>3, <2>6
<1>6. t.out = IF Len(s.marks) = 1 THEN "done" ELSE "marklist"
  BY DEF EndOfFileOf
<1> QED BY <1>5, <1>6

LEMMA StepOwned ==
  ASSUME NEW s, NEW c, NEW t, NEW d, TypeInv(s, c), TypeInv(t, d), KnownInv(s, c), s.out = "ok",
         Owned(s, c), Steps(s, c, t, d)
  PROVE  \/ Balanced(t, d) \/ t.out = "done"
         \/ t.out = "marklist" /\ "debug" \in features
<1>1. c # <<>> => Sits(s.fns, On(c))
  <2>1. c \in Seq(FrameType) /\ AllSit(s.fns, c)
    BY DEF TypeInv, KnownInv
  <2>2. c # <<>> => Len(c) \in Nat \ {0}
    BY <2>1, EmptySeq
  <2>3. c # <<>> => Len(c) \in 1 .. Len(c)
    BY <2>2
  <2> QED BY <2>1, <2>3 DEF AllSit, On
<1>2. CASE \/ PendingOf(s, c, t, d) \/ SourceOf(s, c, t, d) \/ ReadOf(s, c, t, d)
           \/ InstanceClassOf(s, c, t, d) \/ LocalClassOf(s, c, t, d) \/ TopClassOf(s, c, t, d)
           \/ NestedClassOf(s, c, t, d) \/ MemberFnOf(s, c, t, d)
  BY <1>2, QuietOwned
<1>3. CASE \/ DescribeOf(s, c, t, d) \/ HeadOf(s, c, t, d) \/ NotedOf(s, c, t, d)
           \/ MembersOf(s, c, t, d) \/ GenerateFnOf(s, c, t, d)
  BY <1>1, <1>3, NotedOwned
<1>4. CASE \/ GeneratedOf(s, c, t, d) \/ EndFnOf(s, c, t, d) \/ EndDeclOf(s, c, t, d)
           \/ CompiledOf(s, c, t, d) \/ InstanceFnOf(s, c, t, d)
  BY <1>1, <1>4, GeneratedOwned, EndFnOwned, CompiledOwned, InstanceFnOwned
<1>5. CASE EndClassOf(s, c, t, d) \/ EndLoopOf(s, c, t, d)
  BY <1>1, <1>5, EndClassOwned, EndLoopOwned
<1>6. CASE EndOfFileOf(s, c, t, d)
  BY <1>6, EndOfFileOwned
<1> QED BY <1>2, <1>3, <1>4, <1>5, <1>6 DEF Steps

MarksInv ==
  /\ Types /\ KnownInv(st, ctl)
  /\ st.out = "ok" => Owned(st, ctl)
  /\ st.out # "unmark" /\ ("debug" \notin features => st.out # "marklist")

LEMMA InitMarks ==
  ASSUME Init PROVE MarksInv
<1>1. Start /\ Types
  BY InitStarts, InitTypes
<1>2. KnownInv(st, ctl)
  BY <1>1, StartKnown
<1>3. \A i \in 1 .. 0 : FALSE
  OBVIOUS
<1>4. \A i \in 2 .. 1 : FALSE
  OBVIOUS
<1>5. OwnersOf(st.gen, ctl, {})
  BY <1>1, <1>3 DEF Start, OwnersOf, OneOwner, GenMarks, CtlMarks
<1>6. MarksKept(st.marks, {})
  BY <1>1, <1>4 DEF Start, MarksKept
<1> QED BY <1>1, <1>2, <1>5, <1>6 DEF MarksInv, Owned, Start

LEMMA MarksStay ==
  ASSUME MarksInv, [Next]_vars PROVE MarksInv'
<1>1. Types /\ KnownInv(st, ctl)
  BY DEF MarksInv
<1>2. TypeInv(st, ctl) /\ TypeInv(st', ctl') /\ features' = features /\ Types'
  BY <1>1, NextSteps, TypesKept DEF Types
<1>3. CASE UNCHANGED vars
  BY <1>3 DEF MarksInv, vars, Types, KnownInv, Owned, MarksKept
<1>4. CASE st.out = "ok" /\ Steps(st, ctl, st', ctl')
  <2>1. KnownInv(st', ctl')
    BY <1>1, <1>2, <1>4, StepKnown
  <2>2. \/ Balanced(st', ctl') \/ st'.out = "done"
        \/ st'.out = "marklist" /\ "debug" \in features
    BY <1>1, <1>2, <1>4, StepOwned DEF MarksInv
  <2>3. KnownInv(st, ctl)'
    BY <2>1
  <2>4. Owned(st', ctl') => Owned(st, ctl)'
    BY <1>2 DEF Owned, MarksKept
  <2> QED BY <1>2, <2>2, <2>3, <2>4 DEF MarksInv, Balanced
<1> QED BY <1>1, <1>3, <1>4, NextSteps

\* alloc_unmark is never asked to undo a mark that is gone ("called too often"), with any
\* features, and without debug tables no mark is left at the end of a file ("corrupt
\* alloc_marklist"): what MarksBalanced says of the two, and more, for the second holds with
\* member templates as well.
THEOREM GeneratedMarks ==
  Spec => [](st.out # "unmark" /\ ("debug" \notin features => st.out # "marklist"))
<1>1. Init => MarksInv
  BY InitMarks
<1>2. MarksInv /\ [Next]_vars => MarksInv'
  BY MarksStay
<1>3. MarksInv => st.out # "unmark" /\ ("debug" \notin features => st.out # "marklist")
  BY DEF MarksInv
<1> QED BY <1>1, <1>2, <1>3, PTL DEF Spec

----------------------------------------------------------------------------
(* Each function waits, or is in hand, in one place.                       *)

\* The functions of a frame: the one it reads, builds or compiles, and those
\* it keeps for later.  With debug tables a function that is compiled may still wait in
\* st.gen, since it was another that rd_topdecl removed.
Sound == "debug" \notin features
InHand == {k \in {"fn", "build", "cg"} : Sound \/ k # "cg"}

Holds(r) ==
  {f \in {r.fn} : r.k \in InHand} \cup {r.saved[j] : j \in 1 .. Len(r.saved)}

GenSet(g, G) ==
  /\ \A i, j \in 1 .. Len(g) : g[i].fn = g[j].fn => i = j
  /\ G = {g[i].fn : i \in 1 .. Len(g)}

PendSet(p, P) ==
  /\ \A i, j \in 1 .. Len(p) : p[i] = p[j] => i = j
  /\ P = {p[i] : i \in 1 .. Len(p)}

KeptOnce(r) == \A i, j \in 1 .. Len(r.saved) : r.saved[i] = r.saved[j] => i = j

CtlSet(c, C) ==
  /\ \A i \in 1 .. Len(c) : KeptOnce(c[i])
  /\ \A i, j \in 1 .. Len(c) : i # j => Holds(c[i]) \cap Holds(c[j]) = {}
  /\ C = UNION {Holds(c[i]) : i \in 1 .. Len(c)}

LEMMA ConsParts ==
  ASSUME NEW g, NEW h, NEW e, Consed(g, h, e), Len(g) \in Nat
  PROVE  /\ 1 \in 1 .. Len(h) /\ h[1] = e
         /\ \A i \in 1 .. Len(h) : i = 1 \/ (i - 1 \in 1 .. Len(g) /\ h[i] = g[i - 1])
         /\ \A i \in 1 .. Len(g) : i + 1 \in 1 .. Len(h) /\ h[i + 1] = g[i] /\ i + 1 # 1
<1>1. Len(h) = Len(g) + 1 /\ h[1] = e /\ 1 \in 1 .. Len(h)
  BY DEF Consed
<1>2. ASSUME NEW i \in 1 .. Len(h), i # 1
      PROVE  i - 1 \in 1 .. Len(g) /\ h[i] = g[i - 1]
  <2>1. i - 1 \in 1 .. Len(g) /\ (i - 1) + 1 = i
    BY <1>1, <1>2
  <2>2. h[(i - 1) + 1] = g[i - 1]
    BY <2>1 DEF Consed
  <2> QED BY <2>1, <2>2
<1>3. ASSUME NEW i \in 1 .. Len(g)
      PROVE  i + 1 \in 1 .. Len(h) /\ h[i + 1] = g[i] /\ i + 1 # 1
  BY <1>1 DEF Consed
<1> QED BY <1>1, <1>2, <1>3

LEMMA ConsGenSet ==
  ASSUME NEW g, NEW h, NEW e, Consed(g, h, e), Len(g) \in Nat, NEW G
  PROVE  /\ GenSet(g, G) /\ e.fn \notin G => GenSet(h, G \cup {e.fn})
         /\ GenSet(h, G) => e.fn \in G /\ GenSet(g, G \ {e.fn})
<1>1. 1 \in 1 .. Len(h) /\ h[1] = e
  BY ConsParts
<1>2. \A i \in 1 .. Len(h) : i = 1 \/ (i - 1 \in 1 .. Len(g) /\ h[i] = g[i - 1])
  BY ConsParts
<1>3. \A i \in 1 .. Len(g) : i + 1 \in 1 .. Len(h) /\ h[i + 1] = g[i] /\ i + 1 # 1
  BY ConsParts
<1>4. ASSUME GenSet(g, G), e.fn \notin G PROVE GenSet(h, G \cup {e.fn})
  <2>1. \A i \in 1 .. Len(g) : g[i].fn \in G
    BY <1>4 DEF GenSet
  <2>2. ASSUME NEW i \in 1 .. Len(h), NEW j \in 1 .. Len(h), h[i].fn = h[j].fn PROVE i = j
    <3>1. CASE i = 1 \/ j = 1
      BY <1>1, <1>2, <1>4, <2>1, <2>2, <3>1
    <3>2. CASE i # 1 /\ j # 1
      <4>1. i - 1 = j - 1
        BY <1>2, <1>4, <2>2, <3>2 DEF GenSet
      <4> QED BY <4>1
    <3> QED BY <3>1, <3>2
  <2>3. G \cup {e.fn} = {h[i].fn : i \in 1 .. Len(h)}
    <3>1. ASSUME NEW f \in G PROVE f \in {h[i].fn : i \in 1 .. Len(h)}
      <4>1. PICK i \in 1 .. Len(g) : f = g[i].fn
        BY <1>4, <3>1 DEF GenSet
      <4> QED BY <1>3, <4>1
    <3>2. e.fn \in {h[i].fn : i \in 1 .. Len(h)}
      BY <1>1
    <3>3. ASSUME NEW i \in 1 .. Len(h) PROVE h[i].fn \in G \cup {e.fn}
      BY <1>1, <1>2, <2>1
    <3> QED BY <3>1, <3>2, <3>3
  <2> QED BY <2>2, <2>3 DEF GenSet
<1>5. ASSUME GenSet(h, G) PROVE e.fn \in G /\ GenSet(g, G \ {e.fn})
  <2>1. e.fn \in G
    BY <1>1, <1>5 DEF GenSet
  <2>2. ASSUME NEW i \in 1 .. Len(g), NEW j \in 1 .. Len(g), g[i].fn = g[j].fn PROVE i = j
    <3>1. i + 1 = j + 1
      BY <1>3, <1>5, <2>2 DEF GenSet
    <3> QED BY <3>1
  <2>3. ASSUME NEW i \in 1 .. Len(g) PROVE g[i].fn \in G \ {e.fn}
    BY <1>1, <1>3, <1>5 DEF GenSet
  <2>4. ASSUME NEW f \in G, f # e.fn PROVE \E i \in 1 .. Len(g) : f = g[i].fn
    <3>1. PICK i \in 1 .. Len(h) : f = h[i].fn
      BY <1>5, <2>4 DEF GenSet
    <3> QED BY <1>1, <1>2, <2>4, <3>1
  <2>5. G \ {e.fn} = {g[i].fn : i \in 1 .. Len(g)}
    BY <2>3, <2>4
  <2> QED BY <2>1, <2>2, <2>5 DEF GenSet
<1> QED BY <1>4, <1>5

LEMMA ConsPendSet ==
  ASSUME NEW g, NEW h, NEW e, Consed(g, h, e), Len(g) \in Nat, NEW P, PendSet(h, P)
  PROVE  e \in P /\ PendSet(g, P \ {e})
<1>1. 1 \in 1 .. Len(h) /\ h[1] = e
  BY ConsParts
<1>2. \A i \in 1 .. Len(h) : i = 1 \/ (i - 1 \in 1 .. Len(g) /\ h[i] = g[i - 1])
  BY ConsParts
<1>3. \A i \in 1 .. Len(g) : i + 1 \in 1 .. Len(h) /\ h[i + 1] = g[i] /\ i + 1 # 1
  BY ConsParts
<1>4. e \in P
  BY <1>1 DEF PendSet
<1>5. ASSUME NEW i \in 1 .. Len(g), NEW j \in 1 .. Len(g), g[i] = g[j] PROVE i = j
  <2>1. i + 1 = j + 1
    BY <1>3, <1>5 DEF PendSet
  <2> QED BY <2>1
<1>6. ASSUME NEW i \in 1 .. Len(g) PROVE g[i] \in P \ {e}
  BY <1>1, <1>3 DEF PendSet
<1>7. ASSUME NEW f \in P, f # e PROVE \E i \in 1 .. Len(g) : f = g[i]
  <2>1. PICK i \in 1 .. Len(h) : f = h[i]
    BY <1>7 DEF PendSet
  <2> QED BY <1>1, <1>2, <1>7, <2>1
<1>8. P \ {e} = {g[i] : i \in 1 .. Len(g)}
  BY <1>6, <1>7
<1> QED BY <1>4, <1>5, <1>8 DEF PendSet

LEMMA QueuePendSet ==
  ASSUME NEW p, NEW q, NEW e, Queued(p, q, e), Len(p) \in Nat, NEW P, PendSet(p, P), e \notin P
  PROVE  PendSet(q, P \cup {e})
<1>1. Len(q) \in 1 .. Len(q) /\ q[Len(q)] = e
  BY DEF Queued
<1>2. \A i \in 1 .. Len(q) : i = Len(q) \/ (i \in 1 .. Len(p) /\ q[i] = p[i])
  BY DEF Queued
<1>3. \A i \in 1 .. Len(p) : i \in 1 .. Len(q) /\ q[i] = p[i]
  BY DEF Queued
<1>4. \A i \in 1 .. Len(p) : p[i] \in P
  BY DEF PendSet
<1>5. ASSUME NEW i \in 1 .. Len(q), NEW j \in 1 .. Len(q), q[i] = q[j] PROVE i = j
  <2>1. CASE i = Len(q) \/ j = Len(q)
    BY <1>1, <1>2, <1>4, <1>5, <2>1
  <2>2. CASE i # Len(q) /\ j # Len(q)
    BY <1>2, <1>5, <2>2 DEF PendSet
  <2> QED BY <2>1, <2>2
<1>6. ASSUME NEW f \in P PROVE f \in {q[i] : i \in 1 .. Len(q)}
  <2>1. PICK i \in 1 .. Len(p) : f = p[i]
    BY <1>6 DEF PendSet
  <2> QED BY <1>3, <2>1
<1>7. ASSUME NEW i \in 1 .. Len(q) PROVE q[i] \in P \cup {e}
  BY <1>1, <1>2, <1>4
<1>8. e \in {q[i] : i \in 1 .. Len(q)}
  BY <1>1
<1>9. P \cup {e} = {q[i] : i \in 1 .. Len(q)}
  BY <1>6, <1>7, <1>8
<1> QED BY <1>5, <1>9 DEF PendSet

LEMMA NonePend ==
  PendSet(<<>>, {})
<1>1. Len(<<>>) = 0
  OBVIOUS
<1>2. \A i \in 1 .. 0 : FALSE
  OBVIOUS
<1> QED BY <1>1, <1>2 DEF PendSet

LEMMA PushSet ==
  ASSUME NEW c \in Seq(FrameType), NEW d \in Seq(FrameType), Pushed(c, d), NEW C, CtlSet(c, C),
         NEW H, H = Holds(On(d)), H \cap C = {}, KeptOnce(On(d))
  PROVE  CtlSet(d, C \cup H)
<1>1. Len(c) \in Nat /\ Len(d) = Len(c) + 1 /\ Len(d) \in 1 .. Len(d) /\ On(d) = d[Len(d)]
  BY LenProperties DEF Pushed, On
<1>2. \A i \in 1 .. Len(d) : i = Len(d) \/ (i \in 1 .. Len(c) /\ d[i] = c[i])
  BY <1>1 DEF Pushed
<1>3. \A i \in 1 .. Len(c) : i \in 1 .. Len(d) /\ d[i] = c[i]
  BY <1>1 DEF Pushed
<1>4. \A i \in 1 .. Len(c) : Holds(c[i]) \subseteq C
  BY DEF CtlSet
<1>5. \A i \in 1 .. Len(d) : KeptOnce(d[i])
  BY <1>1, <1>2 DEF CtlSet
<1>6. ASSUME NEW i \in 1 .. Len(d), NEW j \in 1 .. Len(d), i # j
      PROVE  Holds(d[i]) \cap Holds(d[j]) = {}
  <2>1. CASE i = Len(d)
    <3>1. j \in 1 .. Len(c) /\ d[j] = c[j]
      BY <1>2, <1>6, <2>1
    <3> QED BY <1>1, <1>4, <2>1, <3>1
  <2>2. CASE j = Len(d)
    <3>1. i \in 1 .. Len(c) /\ d[i] = c[i]
      BY <1>2, <1>6, <2>2
    <3> QED BY <1>1, <1>4, <2>2, <3>1
  <2>3. CASE i # Len(d) /\ j # Len(d)
    BY <1>2, <1>6, <2>3 DEF CtlSet
  <2> QED BY <2>1, <2>2, <2>3
<1>7. ASSUME NEW f \in C PROVE \E i \in 1 .. Len(d) : f \in Holds(d[i])
  <2>1. PICK i \in 1 .. Len(c) : f \in Holds(c[i])
    BY <1>7 DEF CtlSet
  <2> QED BY <1>3, <2>1
<1>8. ASSUME NEW i \in 1 .. Len(d), NEW f \in Holds(d[i]) PROVE f \in C \cup H
  BY <1>1, <1>2, <1>4, <1>8
<1>9. C \cup H = UNION {Holds(d[i]) : i \in 1 .. Len(d)}
  BY <1>1, <1>7, <1>8
<1> QED BY <1>5, <1>6, <1>9 DEF CtlSet

LEMMA PopSet ==
  ASSUME NEW c \in Seq(FrameType), NEW d \in Seq(FrameType), Popped(c, d), NEW C, CtlSet(c, C),
         NEW H, H = Holds(On(c))
  PROVE  H \subseteq C /\ KeptOnce(On(c)) /\ CtlSet(d, C \ H)
<1>1. Len(d) \in Nat /\ Len(c) = Len(d) + 1 /\ Len(c) \in 1 .. Len(c) /\ On(c) = c[Len(c)]
  BY LenProperties DEF Popped, On
<1>2. \A i \in 1 .. Len(d) : i \in 1 .. Len(c) /\ i # Len(c) /\ c[i] = d[i]
  BY <1>1 DEF Popped
<1>3. \A i \in 1 .. Len(c) : i = Len(c) \/ (i \in 1 .. Len(d) /\ d[i] = c[i])
  BY <1>1 DEF Popped
<1>4. H \subseteq C /\ KeptOnce(On(c))
  BY <1>1 DEF CtlSet
<1>5. \A i \in 1 .. Len(d) : KeptOnce(d[i])
  BY <1>2 DEF CtlSet
<1>6. ASSUME NEW i \in 1 .. Len(d), NEW j \in 1 .. Len(d), i # j
      PROVE  Holds(d[i]) \cap Holds(d[j]) = {}
  BY <1>2, <1>6 DEF CtlSet
<1>7. ASSUME NEW i \in 1 .. Len(d), NEW f \in Holds(d[i]) PROVE f \in C \ H
  <2>1. f \in C
    BY <1>2, <1>7 DEF CtlSet
  <2>2. Holds(c[i]) \cap Holds(c[Len(c)]) = {}
    BY <1>1, <1>2 DEF CtlSet
  <2> QED BY <1>1, <1>2, <1>7, <2>1, <2>2
<1>8. ASSUME NEW f \in C \ H PROVE \E i \in 1 .. Len(d) : f \in Holds(d[i])
  <2>1. PICK i \in 1 .. Len(c) : f \in Holds(c[i])
    BY <1>8 DEF CtlSet
  <2> QED BY <1>1, <1>3, <1>8, <2>1
<1>9. C \ H = UNION {Holds(d[i]) : i \in 1 .. Len(d)}
  BY <1>7, <1>8
<1> QED BY <1>4, <1>5, <1>6, <1>9 DEF CtlSet

LEMMA RetopSet ==
  ASSUME NEW c \in Seq(FrameType), NEW d \in Seq(FrameType), Retopped(c, d), NEW C, CtlSet(c, C),
         NEW H, H = Holds(On(c)), NEW I, I = Holds(On(d)), I \cap (C \ H) = {}, KeptOnce(On(d))
  PROVE  H \subseteq C /\ CtlSet(d, (C \ H) \cup I)
<1>1. PICK b : b = Front(c)
  OBVIOUS
<1>2. b \in Seq(FrameType) /\ Popped(c, b) /\ Len(c) \in Nat \ {0}
  BY <1>1, PopFacts DEF Retopped
<1>3. Pushed(b, d)
  BY <1>2 DEF Popped, Retopped, Pushed
<1>4. H \subseteq C /\ CtlSet(b, C \ H)
  BY <1>2, PopSet
<1> QED BY <1>2, <1>3, <1>4, PushSet

\* The functions made, and those that are not: W.
Counted(H, W) ==
  /\ W \subseteq 1 .. Len(H)
  /\ Sound => \A f \in 1 .. Len(H) : (f \in W /\ H[f].made = 0) \/ (f \notin W /\ H[f].made = 1)

MadeSame(H, I) == Len(I) = Len(H) /\ \A f \in 1 .. Len(H) : I[f].made = H[f].made

LEMMA MadeSames ==
  ASSUME NEW H, NEW I
  PROVE  /\ MadeSame(H, H)
         /\ \A n : Given(H, I, n) => MadeSame(H, I)
         /\ \A f, n : Pieced(H, I, f, n) => MadeSame(H, I)
BY DEF MadeSame, Given, Pieced

LEMMA CountedSame ==
  ASSUME NEW H, NEW I, NEW W, MadeSame(H, I), Counted(H, W)
  PROVE  Counted(I, W)
BY DEF MadeSame, Counted

LEMMA CountedNew ==
  ASSUME NEW H, NEW I, NEW W, NEW S, NEW only, Len(H) \in Nat, GrownBy(H, I, S, only), Counted(H, W)
  PROVE  Len(H) + 1 \notin W /\ Counted(I, W \cup {Len(H) + 1})
<1>1. Len(I) = Len(H) + 1 /\ I[Len(H) + 1].made = 0
  BY DEF GrownBy
<1>2. Len(H) + 1 \notin W
  BY DEF Counted
<1>3. ASSUME Sound, NEW f \in 1 .. Len(I)
      PROVE  \/ f \in W \cup {Len(H) + 1} /\ I[f].made = 0
             \/ f \notin W \cup {Len(H) + 1} /\ I[f].made = 1
  <2>1. CASE f = Len(H) + 1
    BY <1>1, <2>1
  <2>2. CASE f # Len(H) + 1
    <3>1. f \in 1 .. Len(H)
      BY <1>1, <2>2
    <3>2. I[f].made = H[f].made
      BY <3>1 DEF GrownBy, Alike
    <3> QED BY <1>3, <2>2, <3>1, <3>2 DEF Counted
  <2> QED BY <2>1, <2>2
<1>4. W \cup {Len(H) + 1} \subseteq 1 .. Len(I)
  <2>1. ASSUME NEW f \in W PROVE f \in 1 .. Len(I)
    <3>1. f \in 1 .. Len(H)
      BY DEF Counted
    <3> QED BY <1>1, <3>1
  <2>2. Len(H) + 1 \in 1 .. Len(I)
    BY <1>1
  <2> QED BY <2>1, <2>2
<1> QED BY <1>2, <1>3, <1>4 DEF Counted

\* With debug tables only that they are functions counts.
LEMMA CountedSome ==
  ASSUME NEW H, NEW I, NEW W, NEW V, ~Sound, Counted(H, W), V \subseteq W, Len(I) = Len(H)
  PROVE  Counted(I, V)
BY DEF Counted

LEMMA CountedMade ==
  ASSUME NEW H, NEW I, NEW W, NEW f \in W, OneMade(H, I, f), Counted(H, W)
  PROVE  Counted(I, W \ {f})
<1>1. Len(I) = Len(H) /\ f \in 1 .. Len(H) /\ (Sound => H[f].made = 0)
  BY DEF OneMade, Counted
<1>2. Sound => I[f].made = 1
  <2>1. I[f].made = H[f].made + 1
    BY <1>1 DEF OneMade
  <2> QED BY <1>1, <2>1
<1>3. ASSUME NEW g \in 1 .. Len(H), g # f PROVE I[g].made = H[g].made
  BY <1>3 DEF OneMade
<1> QED BY <1>1, <1>2, <1>3 DEF Counted

Placed(s, c, G, P, C) ==
  /\ GenSet(s.gen, G) /\ PendSet(s.pend, P) /\ CtlSet(c, C)
  /\ G \cap P = {} /\ G \cap C = {} /\ P \cap C = {}
  /\ Counted(s.fns, G \cup P \cup C)

OncePlaced(s, c) == \E G, P, C : Placed(s, c, G, P, C)

\* What a frame holds.
LEMMA HoldsIs ==
  ASSUME NEW r, NEW k, NEW f, NEW m, NEW p, NEW h, FrameIs(r, k, f, m, p, h)
  PROVE  /\ k \in {"fn", "build"} /\ p = <<>> => Holds(r) = {f} /\ KeptOnce(r)
         /\ k = "cg" /\ p = <<>> => Holds(r) = (IF Sound THEN {f} ELSE {}) /\ KeptOnce(r)
         /\ k \notin {"fn", "build", "cg"} /\ p = <<>> => Holds(r) = {} /\ KeptOnce(r)
         /\ \A P : k \notin {"fn", "build", "cg"} /\ PendSet(p, P) => Holds(r) = P /\ KeptOnce(r)
<1>1. r.k = k /\ r.fn = f /\ r.saved = p
  BY DEF FrameIs
<1>2. p = <<>> => {r.saved[j] : j \in 1 .. Len(r.saved)} = {} /\ KeptOnce(r)
  <2>1. Len(<<>>) = 0
    OBVIOUS
  <2>2. \A i \in 1 .. 0 : FALSE
    OBVIOUS
  <2> QED BY <1>1, <2>1, <2>2 DEF KeptOnce
<1>3. \A P : PendSet(p, P) => {r.saved[j] : j \in 1 .. Len(r.saved)} = P /\ KeptOnce(r)
  BY <1>1 DEF PendSet, KeptOnce
<1>4. /\ "fn" \in InHand /\ "build" \in InHand /\ ("cg" \in InHand <=> Sound)
      /\ (k \notin {"fn", "build", "cg"} => k \notin InHand)
  BY DEF InHand
<1>5. k \in InHand /\ p = <<>> => Holds(r) = {f} /\ KeptOnce(r)
  BY <1>1, <1>2 DEF Holds
<1>6. k \notin InHand /\ p = <<>> => Holds(r) = {} /\ KeptOnce(r)
  BY <1>1, <1>2 DEF Holds
<1>7. \A P : k \notin InHand /\ PendSet(p, P) => Holds(r) = P /\ KeptOnce(r)
  BY <1>1, <1>3 DEF Holds
<1> QED BY <1>4, <1>5, <1>6, <1>7

LEMMA SitsHolds ==
  ASSUME NEW G, NEW r, Sits(G, r)
  PROVE  /\ r.k \in {"fn", "build"} => Holds(r) = {r.fn} /\ r.saved = <<>> /\ KeptOnce(r)
         /\ r.k = "cg" => Holds(r) = (IF Sound THEN {r.fn} ELSE {}) /\ r.saved = <<>>
         /\ r.k \notin {"fn", "build", "cg", "loop"} /\ ~(r.k = "class" /\ r.how = "local")
               => Holds(r) = {} /\ r.saved = <<>> /\ KeptOnce(r)
         /\ r.k \notin {"fn", "build", "cg"} /\ KeptOnce(r) => PendSet(r.saved, Holds(r))
<1>1. r.saved = <<>> => {r.saved[j] : j \in 1 .. Len(r.saved)} = {} /\ KeptOnce(r)
  <2>1. Len(<<>>) = 0
    OBVIOUS
  <2>2. \A i \in 1 .. 0 : FALSE
    OBVIOUS
  <2> QED BY <2>1, <2>2 DEF KeptOnce
<1>0. /\ "fn" \in InHand /\ "build" \in InHand /\ ("cg" \in InHand <=> Sound)
      /\ (r.k \notin {"fn", "build", "cg"} => r.k \notin InHand)
  BY DEF InHand
<1>2. r.k \in {"fn", "build"} => Holds(r) = {r.fn} /\ r.saved = <<>> /\ KeptOnce(r)
  BY <1>0, <1>1 DEF Sits, Holds
<1>5. r.k = "cg" => Holds(r) = (IF Sound THEN {r.fn} ELSE {}) /\ r.saved = <<>>
  BY <1>0, <1>1 DEF Sits, Holds
<1>3. r.k \notin {"fn", "build", "cg", "loop"} /\ ~(r.k = "class" /\ r.how = "local")
         => Holds(r) = {} /\ r.saved = <<>> /\ KeptOnce(r)
  BY <1>0, <1>1 DEF Sits, Holds
<1>4. r.k \notin {"fn", "build", "cg"} /\ KeptOnce(r) => PendSet(r.saved, Holds(r))
  BY <1>0 DEF KeptOnce, PendSet, Holds
<1> QED BY <1>2, <1>3, <1>4, <1>5

\* The lists stay, and so do the functions but for their store.
LEMMA PlacedSame ==
  ASSUME NEW s, NEW t, NEW c, OncePlaced(s, c), t.gen = s.gen, t.pend = s.pend,
         MadeSame(s.fns, t.fns)
  PROVE  OncePlaced(t, c)
<1>1. PICK G, P, C : Placed(s, c, G, P, C)
  BY DEF OncePlaced
<1>2. Counted(t.fns, G \cup P \cup C)
  BY <1>1, CountedSame DEF Placed
<1> QED BY <1>1, <1>2 DEF OncePlaced, Placed

\* The top frame is replaced by one that holds the same; one that holds
\* nothing is pushed or popped.
LEMMA PlacedRetop ==
  ASSUME NEW s, NEW c \in Seq(FrameType), NEW d \in Seq(FrameType), OncePlaced(s, c),
         \/ Retopped(c, d) /\ Holds(On(d)) = Holds(On(c)) /\ KeptOnce(On(d))
         \/ Pushed(c, d) /\ Holds(On(d)) = {} /\ KeptOnce(On(d))
         \/ Popped(c, d) /\ Holds(On(c)) = {}
  PROVE  OncePlaced(s, d)
<1>1. PICK G, P, C : Placed(s, c, G, P, C)
  BY DEF OncePlaced
<1>2. CtlSet(c, C)
  BY <1>1 DEF Placed
<1>3. CtlSet(d, C)
  <2>1. CASE Retopped(c, d) /\ Holds(On(d)) = Holds(On(c)) /\ KeptOnce(On(d))
    <3>1. PICK H : H = Holds(On(c))
      OBVIOUS
    <3>2. H \cap (C \ H) = {} /\ H = Holds(On(d))
      BY <2>1, <3>1
    <3>3. H \subseteq C /\ CtlSet(d, (C \ H) \cup H)
      BY <1>2, <2>1, <3>1, <3>2, RetopSet
    <3>4. (C \ H) \cup H = C
      BY <3>3
    <3> QED BY <3>3, <3>4
  <2>2. CASE Pushed(c, d) /\ Holds(On(d)) = {} /\ KeptOnce(On(d))
    <3>1. CtlSet(d, C \cup {})
      BY <1>2, <2>2, PushSet
    <3> QED BY <3>1
  <2>3. CASE Popped(c, d) /\ Holds(On(c)) = {}
    <3>1. CtlSet(d, C \ {})
      BY <1>2, <2>3, PopSet
    <3> QED BY <3>1
  <2> QED BY <2>1, <2>2, <2>3
<1> QED BY <1>1, <1>3 DEF Placed, OncePlaced

\* A new function, in the frame that is pushed.
LEMMA PlacedNew ==
  ASSUME NEW s, NEW t, NEW c \in Seq(FrameType), NEW d \in Seq(FrameType), StOK(s), OncePlaced(s, c),
         t.gen = s.gen, t.pend = s.pend, NEW S, NEW only, GrownBy(s.fns, t.fns, S, only),
         Pushed(c, d), NEW f, f = Len(s.fns) + 1, Holds(On(d)) = {f}, KeptOnce(On(d))
  PROVE  OncePlaced(t, d)
<1>1. PICK G, P, C : Placed(s, c, G, P, C)
  BY DEF OncePlaced
<1>2. Len(s.fns) \in Nat
  <2>1. s.fns \in Seq(FnType)
    BY StFields DEF StOK
  <2> QED BY <2>1, LenProperties
<1>3. f \notin G \cup P \cup C /\ Counted(t.fns, (G \cup P \cup C) \cup {f})
  BY <1>1, <1>2, CountedNew DEF Placed
<1>4. CtlSet(d, C \cup {f})
  <2>1. {f} \cap C = {}
    BY <1>3
  <2> QED BY <1>1, <2>1, PushSet DEF Placed
<1>5. (G \cup P \cup C) \cup {f} = G \cup P \cup (C \cup {f})
  OBVIOUS
<1>6. Counted(t.fns, G \cup P \cup (C \cup {f}))
  BY <1>3, <1>5
<1>7. G \cap (C \cup {f}) = {} /\ P \cap (C \cup {f}) = {} /\ G \cap P = {}
  BY <1>1, <1>3 DEF Placed
<1> QED BY <1>1, <1>4, <1>6, <1>7 DEF Placed, OncePlaced

\* A function is made, and its call ends.
LEMMA PlacedMade ==
  ASSUME NEW s, NEW t, NEW c \in Seq(FrameType), NEW d \in Seq(FrameType), OncePlaced(s, c),
         t.gen = s.gen, t.pend = s.pend, NEW f, Holds(On(c)) = {f}, OneMade(s.fns, t.fns, f),
         Popped(c, d)
  PROVE  OncePlaced(t, d)
<1>1. PICK G, P, C : Placed(s, c, G, P, C)
  BY DEF OncePlaced
<1>2. {f} \subseteq C /\ CtlSet(d, C \ {f})
  BY <1>1, PopSet DEF Placed
<1>3. Counted(t.fns, (G \cup P \cup C) \ {f})
  BY <1>1, <1>2, CountedMade DEF Placed
<1>4. (G \cup P \cup C) \ {f} = G \cup P \cup (C \ {f})
  BY <1>1, <1>2 DEF Placed
<1>5. G \cap (C \ {f}) = {} /\ P \cap (C \ {f}) = {} /\ G \cap P = {}
  BY <1>1 DEF Placed
<1>6. Counted(t.fns, G \cup P \cup (C \ {f}))
  BY <1>3, <1>4
<1> QED BY <1>1, <1>2, <1>5, <1>6 DEF Placed, OncePlaced

\* A generated function is taken in; one that is built is noted.
LEMMA PlacedTaken ==
  ASSUME NEW s, NEW t, NEW c \in Seq(FrameType), NEW d \in Seq(FrameType), OncePlaced(s, c),
         NEW e, Consed(t.gen, s.gen, e), Len(t.gen) \in Nat, t.pend = s.pend,
         MadeSame(s.fns, t.fns), Pushed(c, d), Holds(On(d)) = {e.fn}, KeptOnce(On(d))
  PROVE  OncePlaced(t, d)
<1>1. PICK G, P, C : Placed(s, c, G, P, C)
  BY DEF OncePlaced
<1>2. PICK f : f = e.fn
  OBVIOUS
<1>3. f \in G /\ GenSet(t.gen, G \ {f})
  BY <1>1, <1>2, ConsGenSet DEF Placed
<1>4. CtlSet(d, C \cup {f})
  <2>1. {f} \cap C = {}
    BY <1>1, <1>3 DEF Placed
  <2> QED BY <1>1, <1>2, <2>1, PushSet DEF Placed
<1>5. (G \ {f}) \cup P \cup (C \cup {f}) = G \cup P \cup C
  BY <1>3
<1>6. Counted(t.fns, (G \ {f}) \cup P \cup (C \cup {f}))
  BY <1>1, <1>5, CountedSame DEF Placed
<1>7. (G \ {f}) \cap P = {} /\ (G \ {f}) \cap (C \cup {f}) = {} /\ P \cap (C \cup {f}) = {}
  BY <1>1, <1>3 DEF Placed
<1> QED BY <1>1, <1>3, <1>4, <1>6, <1>7 DEF Placed, OncePlaced

LEMMA PlacedNoted ==
  ASSUME NEW s, NEW t, NEW c \in Seq(FrameType), NEW d \in Seq(FrameType), OncePlaced(s, c),
         NEW e, Consed(s.gen, t.gen, e), Len(s.gen) \in Nat, t.pend = s.pend,
         MadeSame(s.fns, t.fns), Popped(c, d), Holds(On(c)) = {e.fn}
  PROVE  OncePlaced(t, d)
<1>1. PICK G, P, C : Placed(s, c, G, P, C)
  BY DEF OncePlaced
<1>2. PICK f : f = e.fn
  OBVIOUS
<1>3. f \in C /\ CtlSet(d, C \ {f})
  BY <1>1, <1>2, PopSet DEF Placed
<1>4. GenSet(t.gen, G \cup {f})
  BY <1>1, <1>2, <1>3, ConsGenSet DEF Placed
<1>5. (G \cup {f}) \cup P \cup (C \ {f}) = G \cup P \cup C
  BY <1>3
<1>6. Counted(t.fns, (G \cup {f}) \cup P \cup (C \ {f}))
  BY <1>1, <1>5, CountedSame DEF Placed
<1>7. (G \cup {f}) \cap P = {} /\ (G \cup {f}) \cap (C \ {f}) = {} /\ P \cap (C \ {f}) = {}
  BY <1>1, <1>3 DEF Placed
<1> QED BY <1>1, <1>3, <1>4, <1>6, <1>7 DEF Placed, OncePlaced

\* A pending function is taken in; one more is pending.
LEMMA PlacedBegun ==
  ASSUME NEW s, NEW t, NEW c \in Seq(FrameType), NEW d \in Seq(FrameType), OncePlaced(s, c),
         NEW f, Consed(t.pend, s.pend, f), Len(t.pend) \in Nat, t.gen = s.gen,
         MadeSame(s.fns, t.fns), Pushed(c, d), Holds(On(d)) = {f}, KeptOnce(On(d))
  PROVE  OncePlaced(t, d)
<1>1. PICK G, P, C : Placed(s, c, G, P, C)
  BY DEF OncePlaced
<1>2. f \in P /\ PendSet(t.pend, P \ {f})
  BY <1>1, ConsPendSet DEF Placed
<1>3. CtlSet(d, C \cup {f})
  <2>1. {f} \cap C = {}
    BY <1>1, <1>2 DEF Placed
  <2> QED BY <1>1, <2>1, PushSet DEF Placed
<1>4. G \cup (P \ {f}) \cup (C \cup {f}) = G \cup P \cup C
  BY <1>2
<1>5. Counted(t.fns, G \cup (P \ {f}) \cup (C \cup {f}))
  BY <1>1, <1>4, CountedSame DEF Placed
<1>6. G \cap (P \ {f}) = {} /\ G \cap (C \cup {f}) = {} /\ (P \ {f}) \cap (C \cup {f}) = {}
  BY <1>1, <1>2 DEF Placed
<1> QED BY <1>1, <1>2, <1>3, <1>5, <1>6 DEF Placed, OncePlaced

LEMMA PlacedQueued ==
  ASSUME NEW s, NEW t, NEW c, StOK(s), OncePlaced(s, c), NEW f, f = Len(s.fns) + 1,
         Queued(s.pend, t.pend, f), t.gen = s.gen, NEW S, NEW only, GrownBy(s.fns, t.fns, S, only)
  PROVE  OncePlaced(t, c)
<1>1. PICK G, P, C : Placed(s, c, G, P, C)
  BY DEF OncePlaced
<1>2. Len(s.fns) \in Nat /\ Len(s.pend) \in Nat
  <2>1. s.fns \in Seq(FnType) /\ s.pend \in Seq(Fn)
    BY StFields DEF StOK
  <2> QED BY <2>1, LenProperties
<1>3. f \notin G \cup P \cup C /\ Counted(t.fns, (G \cup P \cup C) \cup {f})
  BY <1>1, <1>2, CountedNew DEF Placed
<1>4. PendSet(t.pend, P \cup {f})
  BY <1>1, <1>2, <1>3, QueuePendSet DEF Placed
<1>5. (G \cup P \cup C) \cup {f} = G \cup (P \cup {f}) \cup C
  OBVIOUS
<1>6. Counted(t.fns, G \cup (P \cup {f}) \cup C)
  BY <1>3, <1>5
<1>7. G \cap (P \cup {f}) = {} /\ G \cap C = {} /\ (P \cup {f}) \cap C = {}
  BY <1>1, <1>3 DEF Placed
<1> QED BY <1>1, <1>4, <1>6, <1>7 DEF Placed, OncePlaced

\* Those pending are set aside in a frame; they come back from one.
LEMMA PlacedAside ==
  ASSUME NEW s, NEW t, NEW c \in Seq(FrameType), NEW d \in Seq(FrameType), OncePlaced(s, c),
         t.gen = s.gen, t.pend = <<>>, MadeSame(s.fns, t.fns),
         \/ Pushed(c, d)
         \/ Retopped(c, d) /\ Holds(On(c)) = {},
         \A P : PendSet(s.pend, P) => Holds(On(d)) = P /\ KeptOnce(On(d))
  PROVE  OncePlaced(t, d)
<1>1. PICK G, P, C : Placed(s, c, G, P, C)
  BY DEF OncePlaced
<1>2. Holds(On(d)) = P /\ KeptOnce(On(d)) /\ P \cap C = {} /\ CtlSet(c, C)
  BY <1>1 DEF Placed
<1>3. CtlSet(d, C \cup P)
  <2>1. CASE Pushed(c, d)
    BY <1>2, <2>1, PushSet
  <2>2. CASE Retopped(c, d) /\ Holds(On(c)) = {}
    <3>1. P \cap (C \ {}) = {}
      BY <1>2
    <3>2. CtlSet(d, (C \ {}) \cup P)
      BY <1>2, <2>2, <3>1, RetopSet
    <3>3. (C \ {}) \cup P = C \cup P
      OBVIOUS
    <3> QED BY <3>2, <3>3
  <2> QED BY <2>1, <2>2
<1>4. G \cup {} \cup (C \cup P) = G \cup P \cup C
  OBVIOUS
<1>5. Counted(t.fns, G \cup {} \cup (C \cup P))
  BY <1>1, <1>4, CountedSame DEF Placed
<1>6. G \cap {} = {} /\ G \cap (C \cup P) = {} /\ {} \cap (C \cup P) = {}
  BY <1>1 DEF Placed
<1> QED BY <1>1, <1>3, <1>5, <1>6, NonePend DEF Placed, OncePlaced

LEMMA PlacedBack ==
  ASSUME NEW s, NEW t, NEW c \in Seq(FrameType), NEW d \in Seq(FrameType), OncePlaced(s, c),
         t.gen = s.gen, s.pend = <<>>, MadeSame(s.fns, t.fns), Popped(c, d),
         KeptOnce(On(c)) => PendSet(t.pend, Holds(On(c)))
  PROVE  OncePlaced(t, d)
<1>1. PICK G, P, C : Placed(s, c, G, P, C)
  BY DEF OncePlaced
<1>2. PICK H : H = Holds(On(c))
  OBVIOUS
<1>3. H \subseteq C /\ PendSet(t.pend, H) /\ CtlSet(d, C \ H)
  BY <1>1, <1>2, PopSet DEF Placed
<1>4. P = {}
  <2>1. Len(<<>>) = 0
    OBVIOUS
  <2>2. \A i \in 1 .. 0 : FALSE
    OBVIOUS
  <2> QED BY <1>1, <2>1, <2>2 DEF Placed, PendSet
<1>5. G \cup H \cup (C \ H) = G \cup P \cup C
  BY <1>3, <1>4
<1>6. Counted(t.fns, G \cup H \cup (C \ H))
  BY <1>1, <1>5, CountedSame DEF Placed
<1>7. G \cap H = {} /\ G \cap (C \ H) = {} /\ H \cap (C \ H) = {}
  BY <1>1, <1>3 DEF Placed
<1> QED BY <1>1, <1>3, <1>6, <1>7 DEF Placed, OncePlaced

\* With debug tables describing may make a function, which is generated at once, and a
\* function in hand may be let go.
LEMMA PlainDescribed ==
  ASSUME NEW s, NEW t, DescribedOf(s, t), Sound
  PROVE  t = s
BY DEF DescribedOf, Extra, Sound

LEMMA LenFacts ==
  ASSUME NEW s, StOK(s)
  PROVE  Len(s.fns) \in Nat /\ Len(s.gen) \in Nat /\ Len(s.pend) \in Nat
<1>1. s.fns \in Seq(FnType) /\ s.gen \in Seq(NoteType) /\ s.pend \in Seq(Fn)
  BY StFields DEF StOK
<1> QED BY <1>1, LenProperties

LEMMA PlacedExtra ==
  ASSUME NEW s, NEW t, NEW c, StOK(s), OncePlaced(s, c), Extra(s, t)
  PROVE  OncePlaced(t, c)
<1>1. PICK G, P, C : Placed(s, c, G, P, C)
  BY DEF OncePlaced
<1>2. PICK f : f = Len(s.fns) + 1
  OBVIOUS
<1>3. PICK e : e = [fn |-> f, mark |-> t.marks[Len(t.marks)].blk]
  OBVIOUS
<1>4. PICK S : S = {Len(s.marks)}
  OBVIOUS
<1>5. /\ Consed(s.gen, t.gen, e) /\ e.fn = f /\ t.pend = s.pend
      /\ GrownBy(s.fns, t.fns, S, FALSE)
  BY <1>2, <1>3, <1>4 DEF Extra
<1>6. Len(s.fns) \in Nat /\ Len(s.gen) \in Nat
  BY LenFacts
<1>7. PICK W : W = G \cup P \cup C
  OBVIOUS
<1>8. Counted(s.fns, W)
  BY <1>1, <1>7 DEF Placed
<1>9. f \notin W /\ Counted(t.fns, W \cup {f})
  BY <1>2, <1>5, <1>6, <1>8, CountedNew
<1>10. GenSet(t.gen, G \cup {f})
  BY <1>1, <1>5, <1>6, <1>7, <1>9, ConsGenSet DEF Placed
<1>11. W \cup {f} = (G \cup {f}) \cup P \cup C
  BY <1>7
<1>12. Counted(t.fns, (G \cup {f}) \cup P \cup C)
  BY <1>9, <1>11
<1>13. (G \cup {f}) \cap P = {} /\ (G \cup {f}) \cap C = {} /\ P \cap C = {}
  BY <1>1, <1>7, <1>9 DEF Placed
<1> QED BY <1>1, <1>5, <1>10, <1>12, <1>13 DEF Placed, OncePlaced

LEMMA PlacedDescribed ==
  ASSUME NEW s, NEW t, NEW c, StOK(s), OncePlaced(s, c), DescribedOf(s, t)
  PROVE  OncePlaced(t, c)
BY PlacedExtra DEF DescribedOf

LEMMA PlacedLetGo ==
  ASSUME NEW s, NEW c \in Seq(FrameType), NEW d \in Seq(FrameType), ~Sound, OncePlaced(s, c),
         Retopped(c, d), Holds(On(d)) = {}, KeptOnce(On(d))
  PROVE  OncePlaced(s, d)
<1>1. PICK G, P, C : Placed(s, c, G, P, C)
  BY DEF OncePlaced
<1>2. PICK H : H = Holds(On(c))
  OBVIOUS
<1>3. {} \cap (C \ H) = {}
  OBVIOUS
<1>4. CtlSet(d, (C \ H) \cup {})
  BY <1>1, <1>2, <1>3, RetopSet DEF Placed
<1>5. PICK D : D = (C \ H) \cup {}
  OBVIOUS
<1>6. D \subseteq C /\ CtlSet(d, D)
  BY <1>4, <1>5
<1>7. G \cup P \cup D \subseteq G \cup P \cup C
  BY <1>6
<1>8. Counted(s.fns, G \cup P \cup D)
  BY <1>1, <1>7, CountedSome DEF Placed
<1>9. G \cap D = {} /\ P \cap D = {} /\ G \cap P = {}
  BY <1>1, <1>6 DEF Placed
<1> QED BY <1>1, <1>6, <1>8, <1>9 DEF Placed, OncePlaced

LEMMA PlacedLoose ==
  ASSUME NEW s, NEW t, NEW c, ~Sound, OncePlaced(s, c), t.gen = s.gen, t.pend = s.pend,
         Len(t.fns) = Len(s.fns)
  PROVE  OncePlaced(t, c)
<1>1. PICK G, P, C : Placed(s, c, G, P, C)
  BY DEF OncePlaced
<1>2. Counted(t.fns, G \cup P \cup C)
  BY <1>1, CountedSome DEF Placed
<1> QED BY <1>1, <1>2 DEF Placed, OncePlaced

LEMMA PlacedRemoved ==
  ASSUME NEW s, NEW t, NEW c, ~Sound, OncePlaced(s, c), NEW e, Consed(t.gen, s.gen, e),
         Len(t.gen) \in Nat, t.pend = s.pend, Len(t.fns) = Len(s.fns)
  PROVE  OncePlaced(t, c)
<1>1. PICK G, P, C : Placed(s, c, G, P, C)
  BY DEF OncePlaced
<1>2. PICK f : f = e.fn
  OBVIOUS
<1>3. f \in G /\ GenSet(t.gen, G \ {f})
  BY <1>1, <1>2, ConsGenSet DEF Placed
<1>4. PICK H : H = G \ {f}
  OBVIOUS
<1>5. H \subseteq G /\ GenSet(t.gen, H)
  BY <1>3, <1>4
<1>6. H \cup P \cup C \subseteq G \cup P \cup C
  BY <1>5
<1>7. Counted(t.fns, H \cup P \cup C)
  BY <1>1, <1>6, CountedSome DEF Placed
<1>8. H \cap P = {} /\ H \cap C = {} /\ P \cap C = {}
  BY <1>1, <1>5 DEF Placed
<1> QED BY <1>1, <1>5, <1>7, <1>8 DEF Placed, OncePlaced

LEMMA EntryPlaced ==
  ASSUME NEW s, NEW c, NEW e, EntryOf(s, c, e)
  PROVE  e.gen = s.gen /\ e.pend = s.pend /\ MadeSame(s.fns, e.fns)
<1>1. CASE c = <<>>
  <2>1. Given(s.fns, e.fns, Len(s.marks) - 1) /\ Lists(s, e)
    BY <1>1 DEF EntryOf, DropOf
  <2> QED BY <2>1, MadeSames DEF Lists
<1>2. CASE c # <<>>
  BY <1>2, MadeSames DEF EntryOf
<1> QED BY <1>1, <1>2

LEMMA DropPlaced ==
  ASSUME NEW s, NEW e, DropOf(s, e)
  PROVE  e.gen = s.gen /\ e.pend = s.pend /\ MadeSame(s.fns, e.fns)
<1>1. Given(s.fns, e.fns, Len(s.marks) - 1) /\ Lists(s, e)
  BY DEF DropOf
<1> QED BY <1>1, MadeSames DEF Lists

LEMMA UnmarkPlaced ==
  ASSUME NEW s, NEW t, NEW b, UnmarkOf(s, t, b)
  PROVE  t.gen = s.gen /\ t.pend = s.pend /\ MadeSame(s.fns, t.fns)
<1>1. Lists(s, t) /\ (t.fns = s.fns \/ Given(s.fns, t.fns, Len(t.marks)))
  BY DEF UnmarkOf, NoSuchMark, NotDropped, CutBack, JustNoted
<1> QED BY <1>1, MadeSames DEF Lists

LEMMA MadeSameTwice ==
  ASSUME NEW G, NEW H, NEW I, MadeSame(G, H), MadeSame(H, I) PROVE MadeSame(G, I)
BY DEF MadeSame

LEMMA GeneratedPlaced ==
  ASSUME NEW s, NEW c, NEW t, NEW d, TypeInv(s, c), TypeInv(t, d), OncePlaced(s, c),
         GeneratedOf(s, c, t, d)
  PROVE  OncePlaced(t, d)
<1>1. PICK e, x, y : /\ EntryOf(s, c, e) /\ DescribedOf(e, x) /\ StOK(y) /\ GenTaken(x, y)
                     /\ UnmarkOf(y, t, s.gen[1].mark)
  BY DEF GeneratedOf
<1>2. e.gen = s.gen /\ e.pend = s.pend /\ MadeSame(s.fns, e.fns) /\ StOK(e)
  BY <1>1, EntryPlaced DEF EntryOf
<1>3. t.gen = y.gen /\ t.pend = y.pend /\ MadeSame(y.fns, t.fns)
  BY <1>1, UnmarkPlaced
<1>4. c \in Seq(FrameType) /\ d \in Seq(FrameType) /\ Len(t.gen) \in Nat
  BY LenFacts DEF TypeInv
<1>5. Pushed(c, d) /\ FrameIs(On(d), "cg", s.gen[1].fn, 0, <<>>, "top")
  BY DEF GeneratedOf
<1>6. CASE Sound
  <2>1. x = e
    BY <1>1, <1>6, PlainDescribed
  <2>2. y.pend = s.pend /\ y.fns = e.fns /\ Consed(y.gen, s.gen, s.gen[1])
    BY <1>1, <1>2, <2>1 DEF GenTaken
  <2>3. t.pend = s.pend /\ Consed(t.gen, s.gen, s.gen[1]) /\ MadeSame(s.fns, t.fns)
    BY <1>2, <1>3, <2>2, MadeSameTwice
  <2>4. Holds(On(d)) = {s.gen[1].fn} /\ KeptOnce(On(d))
    BY <1>5, <1>6, HoldsIs
  <2> QED BY <1>4, <1>5, <2>3, <2>4, PlacedTaken
<1>7. CASE ~Sound
  <2>1. OncePlaced(x, c)
    BY <1>1, <1>2, PlacedSame, PlacedDescribed
  <2>2. y.pend = x.pend /\ y.fns = x.fns /\ Consed(y.gen, x.gen, x.gen[1])
    BY <1>1 DEF GenTaken
  <2>3. t.pend = x.pend /\ Consed(t.gen, x.gen, x.gen[1]) /\ Len(t.fns) = Len(x.fns)
    BY <1>3, <2>2 DEF MadeSame
  <2>4. OncePlaced(t, c)
    BY <1>4, <1>7, <2>1, <2>3, PlacedRemoved
  <2>5. Holds(On(d)) = {} /\ KeptOnce(On(d))
    BY <1>5, <1>7, HoldsIs
  <2> QED BY <1>4, <1>5, <2>4, <2>5, PlacedRetop
<1> QED BY <1>6, <1>7

LEMMA PendingPlaced ==
  ASSUME NEW s, NEW c, NEW t, NEW d, TypeInv(s, c), TypeInv(t, d), OncePlaced(s, c),
         PendingOf(s, c, t, d)
  PROVE  OncePlaced(t, d)
<1>1. PICK e, x : /\ EntryOf(s, c, e) /\ PendIs(e, x, Tail(s.pend)) /\ StOK(x)
                  /\ Consed(x.pend, s.pend, s.pend[1])
                  /\ Still(x, t) /\ Pieced(x.fns, t.fns, s.pend[1], Len(x.marks))
  BY DEF PendingOf
<1>2. e.gen = s.gen /\ MadeSame(s.fns, e.fns)
  BY <1>1, EntryPlaced
<1>3. t.gen = s.gen /\ t.pend = x.pend /\ x.fns = e.fns
  BY <1>1, <1>2 DEF PendIs, Still, Lists
<1>4. MadeSame(x.fns, t.fns)
  <2>1. Pieced(x.fns, t.fns, s.pend[1], Len(x.marks))
    BY <1>1
  <2> QED BY <2>1, MadeSames
<1>5. MadeSame(s.fns, t.fns) /\ Consed(t.pend, s.pend, s.pend[1])
  BY <1>1, <1>2, <1>3, <1>4, MadeSameTwice
<1>6. c \in Seq(FrameType) /\ d \in Seq(FrameType) /\ Len(t.pend) \in Nat
  <2>1. t.pend \in Seq(Fn) /\ c \in Seq(FrameType) /\ d \in Seq(FrameType)
    BY StFields DEF TypeInv, StOK
  <2> QED BY <2>1, LenProperties
<1>7. Pushed(c, d) /\ FrameIs(On(d), "fn", s.pend[1], 0, <<>>, "top")
  BY DEF PendingOf
<1>8. Holds(On(d)) = {s.pend[1]} /\ KeptOnce(On(d))
  BY <1>7, HoldsIs
<1> QED BY <1>3, <1>5, <1>6, <1>7, <1>8, PlacedBegun

LEMMA SourcePlaced ==
  ASSUME NEW s, NEW c, NEW t, NEW d, TypeInv(s, c), TypeInv(t, d), OncePlaced(s, c),
         SourceOf(s, c, t, d)
  PROVE  OncePlaced(t, d)
<1>1. PICK e : /\ StOK(e) /\ DropOf(s, e)
               /\ \/ \E only \in BOOLEAN :
                       /\ Still(e, t) /\ GrownBy(e.fns, t.fns, {Len(e.marks)}, only)
                       /\ FrameIs(On(d), "fn", Len(e.fns) + 1, 0, <<>>, "top")
                  \/ t = e /\ FrameIs(On(d), "decl", 0, 0, <<>>, "top")
  BY DEF SourceOf
<1>2. OncePlaced(e, c)
  BY <1>1, DropPlaced, PlacedSame
<1>3. c \in Seq(FrameType) /\ d \in Seq(FrameType) /\ Pushed(c, d)
  BY DEF TypeInv, SourceOf
<1>4. CASE t = e /\ FrameIs(On(d), "decl", 0, 0, <<>>, "top")
  <2>1. Holds(On(d)) = {} /\ KeptOnce(On(d))
    BY <1>4, HoldsIs
  <2> QED BY <1>2, <1>3, <1>4, <2>1, PlacedRetop
<1>5. ASSUME NEW only \in BOOLEAN, Still(e, t), GrownBy(e.fns, t.fns, {Len(e.marks)}, only),
             FrameIs(On(d), "fn", Len(e.fns) + 1, 0, <<>>, "top")
      PROVE  OncePlaced(t, d)
  <2>1. PICK S : S = {Len(e.marks)}
    OBVIOUS
  <2>2. GrownBy(e.fns, t.fns, S, only)
    BY <1>5, <2>1
  <2>3. Holds(On(d)) = {Len(e.fns) + 1} /\ KeptOnce(On(d))
    BY <1>5, HoldsIs
  <2>4. t.gen = e.gen /\ t.pend = e.pend
    BY <1>5 DEF Still, Lists
  <2> QED BY <1>1, <1>2, <1>3, <2>2, <2>3, <2>4, PlacedNew
<1> QED BY <1>1, <1>4, <1>5

LEMMA QuietPlaced ==
  ASSUME NEW s, NEW c, NEW t, NEW d, TypeInv(s, c), TypeInv(t, d), OncePlaced(s, c),
         c # <<>> => Sits(s.fns, On(c)),
         \/ EndOfFileOf(s, c, t, d) \/ ReadOf(s, c, t, d) \/ DescribeOf(s, c, t, d)
         \/ HeadOf(s, c, t, d) \/ InstanceClassOf(s, c, t, d) \/ TopClassOf(s, c, t, d)
         \/ NestedClassOf(s, c, t, d) \/ EndDeclOf(s, c, t, d)
  PROVE  OncePlaced(t, d)
<1>1. c \in Seq(FrameType) /\ d \in Seq(FrameType)
  BY DEF TypeInv
<1>2. CASE EndOfFileOf(s, c, t, d)
  <2>1. PICK e : DropOf(s, e) /\ t.fns = e.fns /\ Lists(e, t)
    BY <1>2 DEF EndOfFileOf
  <2> QED BY <1>2, <2>1, DropPlaced, PlacedSame DEF Lists, EndOfFileOf
<1>3. CASE ReadOf(s, c, t, d)
  <2>1. Pieced(s.fns, t.fns, On(c).fn, Len(s.marks)) /\ Lists(s, t) /\ d = c
    BY <1>3 DEF ReadOf
  <2>2. MadeSame(s.fns, t.fns)
    BY <2>1, MadeSames
  <2> QED BY <2>1, <2>2, PlacedSame DEF Lists
<1>4. CASE DescribeOf(s, c, t, d)
  BY <1>4, PlacedExtra DEF DescribeOf, TypeInv
<1>5. CASE HeadOf(s, c, t, d)
  <2>1. OncePlaced(t, c)
    BY <1>5, PlacedDescribed DEF HeadOf, TypeInv
  <2>2. Holds(On(c)) = {On(c).fn} /\ On(c).saved = <<>>
    BY <1>5, SitsHolds DEF HeadOf
  <2>3. Holds(On(d)) = {On(c).fn} /\ KeptOnce(On(d)) /\ Retopped(c, d)
    BY <1>5, <2>2, HoldsIs DEF HeadOf
  <2> QED BY <1>1, <2>1, <2>2, <2>3, PlacedRetop
<1>6. CASE \/ InstanceClassOf(s, c, t, d) \/ TopClassOf(s, c, t, d) \/ NestedClassOf(s, c, t, d)
  <2>1. PICK h : t = s /\ Pushed(c, d) /\ FrameIs(On(d), "class", 0, 0, <<>>, h)
    BY <1>6 DEF InstanceClassOf, TopClassOf, NestedClassOf
  <2>2. Holds(On(d)) = {} /\ KeptOnce(On(d))
    BY <2>1, HoldsIs
  <2> QED BY <1>1, <2>1, <2>2, PlacedRetop
<1>7. CASE EndDeclOf(s, c, t, d)
  <2>1. t = s /\ Popped(c, d) /\ Holds(On(c)) = {}
    BY <1>7, SitsHolds DEF EndDeclOf
  <2> QED BY <1>1, <2>1, PlacedRetop
<1> QED BY <1>2, <1>3, <1>4, <1>5, <1>6, <1>7

LEMMA MadePlaced ==
  ASSUME NEW s, NEW c, NEW t, NEW d, TypeInv(s, c), TypeInv(t, d), OncePlaced(s, c),
         c # <<>> => Sits(s.fns, On(c)),
         \/ MembersOf(s, c, t, d) \/ NotedOf(s, c, t, d) \/ EndFnOf(s, c, t, d)
         \/ GenerateFnOf(s, c, t, d)
  PROVE  OncePlaced(t, d)
<1>1. c \in Seq(FrameType) /\ d \in Seq(FrameType) /\ StOK(s)
  BY DEF TypeInv
<1>2. CASE MembersOf(s, c, t, d)
  <2>1. PICK b : /\ Retopped(c, b) /\ FrameIs(On(b), "fn", On(c).fn, On(c).mark, On(c).saved, "body")
                 /\ b \in Seq(FrameType) /\ b # <<>>
                 /\ \/ t = s /\ d = b
                    \/ /\ "core" \in features
                       /\ Still(s, t) /\ GrownBy(s.fns, t.fns, {}, FALSE)
                       /\ Pushed(b, d) /\ FrameIs(On(d), "build", Len(s.fns) + 1, 0, <<>>, "top")
    BY <1>2 DEF MembersOf
  <2>2. Holds(On(c)) = {On(c).fn} /\ On(c).saved = <<>>
    BY <1>2, SitsHolds DEF MembersOf
  <2>3. Holds(On(b)) = {On(c).fn} /\ KeptOnce(On(b))
    BY <2>1, <2>2, HoldsIs
  <2>4. OncePlaced(s, b)
    BY <1>1, <2>1, <2>2, <2>3, PlacedRetop
  <2>5. CASE t = s /\ d = b
    BY <2>4, <2>5
  <2>6. CASE /\ Still(s, t) /\ GrownBy(s.fns, t.fns, {}, FALSE)
             /\ Pushed(b, d) /\ FrameIs(On(d), "build", Len(s.fns) + 1, 0, <<>>, "top")
    <3>1. Holds(On(d)) = {Len(s.fns) + 1} /\ KeptOnce(On(d))
      BY <2>6, HoldsIs
    <3>2. t.gen = s.gen /\ t.pend = s.pend
      BY <2>6 DEF Still, Lists
    <3> QED BY <1>1, <2>1, <2>4, <2>6, <3>1, <3>2, PlacedNew
  <2> QED BY <2>1, <2>5, <2>6
<1>3. CASE NotedOf(s, c, t, d)
  <2>1. Popped(c, d) /\ Holds(On(c)) = {On(c).fn} /\ NoteOf(s, t, On(c).fn)
    BY <1>3, SitsHolds DEF NotedOf
  <2>2. PICK e : e = [fn |-> On(c).fn, mark |-> t.marks[Len(t.marks)].blk]
    OBVIOUS
  <2>3. /\ Consed(s.gen, t.gen, e) /\ t.pend = s.pend /\ e.fn = On(c).fn
        /\ Pieced(s.fns, t.fns, On(c).fn, Len(s.marks))
    BY <2>1, <2>2 DEF NoteOf
  <2>4. Len(s.gen) \in Nat
    <3>1. s.gen \in Seq(NoteType)
      BY <1>1, StFields DEF StOK
    <3> QED BY <3>1, LenProperties
  <2>5. MadeSame(s.fns, t.fns)
    BY <2>3, MadeSames
  <2> QED BY <1>1, <2>1, <2>3, <2>4, <2>5, PlacedNoted
<1>4. CASE EndFnOf(s, c, t, d)
  <2>1. Holds(On(c)) = {On(c).fn}
    BY <1>4, SitsHolds DEF EndFnOf
  <2>2. CASE Still(s, t) /\ OneMade(s.fns, t.fns, On(c).fn) /\ Popped(c, d)
    <3>1. t.gen = s.gen /\ t.pend = s.pend
      BY <2>2 DEF Still, Lists
    <3> QED BY <1>1, <2>1, <2>2, <3>1, PlacedMade
  <2>3. CASE t = s /\ Retopped(c, d) /\ FrameIs(On(d), "cg", On(c).fn, On(c).mark, <<>>, "top")
    <3>1. Holds(On(d)) = (IF Sound THEN {On(c).fn} ELSE {}) /\ KeptOnce(On(d))
      BY <2>3, HoldsIs
    <3> QED BY <1>1, <2>1, <2>3, <3>1, PlacedRetop, PlacedLetGo
  <2> QED BY <1>4, <2>2, <2>3 DEF EndFnOf
<1>5. CASE GenerateFnOf(s, c, t, d)
  <2>1. PICK b : /\ Retopped(c, b) /\ FrameIs(On(b), "class", On(c).fn, On(c).mark, On(c).saved, On(c).how)
                 /\ b \in Seq(FrameType) /\ b # <<>>
                 /\ Pushed(b, d) /\ FrameIs(On(d), "build", Len(s.fns) + 1, 0, <<>>, "top")
    BY <1>5 DEF GenerateFnOf
  <2>2. Holds(On(b)) = Holds(On(c)) /\ (KeptOnce(On(c)) => KeptOnce(On(b)))
    BY <1>5, <2>1 DEF GenerateFnOf, FrameIs, Holds, KeptOnce
  <2>3. KeptOnce(On(c))
    <3>1. PICK G, P, C : Placed(s, c, G, P, C)
      BY DEF OncePlaced
    <3>2. c # <<>>
      BY <1>5 DEF GenerateFnOf
    <3>3. Popped(c, Front(c)) /\ Front(c) \in Seq(FrameType)
      BY <1>1, <3>2, PopFacts
    <3> QED BY <1>1, <3>1, <3>3, PopSet DEF Placed
  <2>4. OncePlaced(s, b)
    BY <1>1, <2>1, <2>2, <2>3, PlacedRetop
  <2>5. Holds(On(d)) = {Len(s.fns) + 1} /\ KeptOnce(On(d))
    BY <2>1, HoldsIs
  <2>6. t.gen = s.gen /\ t.pend = s.pend /\ GrownBy(s.fns, t.fns, {}, FALSE)
    BY <1>5 DEF GenerateFnOf, Still, Lists
  <2> QED BY <1>1, <2>1, <2>4, <2>5, <2>6, PlacedNew
<1> QED BY <1>2, <1>3, <1>4, <1>5

LEMMA CompiledPlaced ==
  ASSUME NEW s, NEW c, NEW t, NEW d, TypeInv(s, c), TypeInv(t, d), OncePlaced(s, c),
         c # <<>> => Sits(s.fns, On(c)), CompiledOf(s, c, t, d)
  PROVE  OncePlaced(t, d)
<1>1. PICK x, y, z :
        /\ DescribedOf(s, x) /\ StOK(y) /\ Still(x, y) /\ OneMade(x.fns, y.fns, On(c).fn)
        /\ StOK(z) /\ DropOf(y, z)
        /\ \/ On(c).mark = 0 /\ t = z
           \/ On(c).mark # 0 /\ \E w : StOK(w) /\ DropOf(z, w) /\ UnmarkOf(w, t, On(c).mark)
  BY DEF CompiledOf
<1>2. y.gen = x.gen /\ y.pend = x.pend /\ OneMade(x.fns, y.fns, On(c).fn)
  BY <1>1 DEF Still, Lists
<1>3. /\ c \in Seq(FrameType) /\ d \in Seq(FrameType) /\ Popped(c, d)
      /\ Holds(On(c)) = (IF Sound THEN {On(c).fn} ELSE {})
  BY SitsHolds DEF TypeInv, CompiledOf
<1>4. OncePlaced(y, d)
  <2>1. CASE Sound
    <3>1. x = s
      BY <1>1, <2>1, PlainDescribed
    <3> QED BY <1>2, <1>3, <2>1, <3>1, PlacedMade
  <2>2. CASE ~Sound
    <3>1. OncePlaced(x, c)
      BY <1>1, PlacedDescribed DEF TypeInv
    <3>2. OncePlaced(y, c)
      <4>1. Len(y.fns) = Len(x.fns)
        BY <1>2 DEF OneMade
      <4> QED BY <1>2, <2>2, <3>1, <4>1, PlacedLoose
    <3> QED BY <1>3, <2>2, <3>2, PlacedRetop
  <2> QED BY <2>1, <2>2
<1>5. OncePlaced(z, d)
  BY <1>1, <1>4, DropPlaced, PlacedSame
<1>6. CASE t = z
  BY <1>5, <1>6
<1>7. ASSUME NEW w, StOK(w), DropOf(z, w), UnmarkOf(w, t, On(c).mark) PROVE OncePlaced(t, d)
  <2>1. OncePlaced(w, d)
    BY <1>5, <1>7, DropPlaced, PlacedSame
  <2> QED BY <1>7, <2>1, UnmarkPlaced, PlacedSame
<1> QED BY <1>1, <1>6, <1>7

LEMMA InstancePlaced ==
  ASSUME NEW s, NEW c, NEW t, NEW d, TypeInv(s, c), TypeInv(t, d), OncePlaced(s, c),
         InstanceFnOf(s, c, t, d)
  PROVE  OncePlaced(t, d)
<1>1. PICK m : /\ StOK(m) /\ MarkOf(s, m)
               /\ Still(m, t) /\ GrownBy(m.fns, t.fns, {Len(m.marks)}, FALSE)
               /\ FrameIs(On(d), "fn", Len(s.fns) + 1, m.marks[Len(m.marks)].blk, <<>>, "top")
  BY DEF InstanceFnOf
<1>2. StOK(s) /\ c \in Seq(FrameType) /\ d \in Seq(FrameType) /\ Pushed(c, d)
  BY DEF TypeInv, InstanceFnOf
<1>3. m.fns = s.fns /\ t.gen = s.gen /\ t.pend = s.pend
  BY <1>1 DEF MarkOf, Still, Lists
<1>4. PICK S : S = {Len(m.marks)}
  OBVIOUS
<1>5. GrownBy(s.fns, t.fns, S, FALSE)
  BY <1>1, <1>3, <1>4
<1>6. Holds(On(d)) = {Len(s.fns) + 1} /\ KeptOnce(On(d))
  BY <1>1, HoldsIs
<1> QED BY <1>2, <1>3, <1>5, <1>6, PlacedNew

LEMMA LocalPlaced ==
  ASSUME NEW s, NEW c, NEW t, NEW d, TypeInv(s, c), TypeInv(t, d), OncePlaced(s, c),
         LocalClassOf(s, c, t, d)
  PROVE  OncePlaced(t, d)
<1>1. c \in Seq(FrameType) /\ d \in Seq(FrameType) /\ Pushed(c, d) /\ PendIs(s, t, <<>>)
  BY DEF TypeInv, LocalClassOf
<1>2. t.gen = s.gen /\ t.pend = <<>> /\ MadeSame(s.fns, t.fns)
  BY <1>1, MadeSames DEF PendIs
<1>3. FrameIs(On(d), "class", 0, 0, s.pend, "local")
  BY DEF LocalClassOf
<1>4. \A P : PendSet(s.pend, P) => Holds(On(d)) = P /\ KeptOnce(On(d))
  BY <1>3, HoldsIs
<1> QED BY <1>1, <1>2, <1>4, PlacedAside

LEMMA MemberPlaced ==
  ASSUME NEW s, NEW c, NEW t, NEW d, TypeInv(s, c), TypeInv(t, d), OncePlaced(s, c),
         MemberFnOf(s, c, t, d)
  PROVE  OncePlaced(t, d)
<1>1. StOK(s) /\ d = c /\ t.gen = s.gen /\ Queued(s.pend, t.pend, Len(s.fns) + 1)
  BY DEF TypeInv, MemberFnOf
<1>2. PICK only \in BOOLEAN : GrownBy(s.fns, t.fns, {}, only)
  BY DEF MemberFnOf
<1> QED BY <1>1, <1>2, PlacedQueued

LEMMA EndClassPlaced ==
  ASSUME NEW s, NEW c, NEW t, NEW d, TypeInv(s, c), TypeInv(t, d), OncePlaced(s, c),
         c # <<>> => Sits(s.fns, On(c)), EndClassOf(s, c, t, d)
  PROVE  OncePlaced(t, d)
<1>1. c \in Seq(FrameType) /\ d \in Seq(FrameType) /\ On(c).k = "class" /\ Sits(s.fns, On(c))
  BY DEF TypeInv, EndClassOf
<1>2. KeptOnce(On(c))
  <2>1. PICK G, P, C : Placed(s, c, G, P, C)
    BY DEF OncePlaced
  <2>2. c # <<>>
    BY DEF EndClassOf
  <2>3. Popped(c, Front(c)) /\ Front(c) \in Seq(FrameType)
    BY <1>1, <2>2, PopFacts
  <2> QED BY <1>1, <2>1, <2>3, PopSet DEF Placed
<1>3. CASE /\ MarkOf(s, t) /\ Retopped(c, d)
           /\ FrameIs(On(d), "loop", 0, t.marks[Len(t.marks)].blk, On(c).saved, "top")
  <2>1. Holds(On(d)) = Holds(On(c)) /\ KeptOnce(On(d))
    <3>1. "class" \notin InHand /\ "loop" \notin InHand
      BY DEF InHand
    <3> QED BY <1>1, <1>2, <1>3, <3>1 DEF FrameIs, Holds, KeptOnce
  <2>2. OncePlaced(s, d)
    BY <1>1, <1>3, <2>1, PlacedRetop
  <2>3. t.gen = s.gen /\ t.pend = s.pend /\ MadeSame(s.fns, t.fns)
    BY <1>3, MadeSames DEF MarkOf, Lists
  <2> QED BY <2>2, <2>3, PlacedSame
<1>4. CASE ~Waiting(s) /\ PendIs(s, t, On(c).saved) /\ Popped(c, d)
  <2>1. s.pend = <<>> /\ t.gen = s.gen /\ t.pend = On(c).saved /\ MadeSame(s.fns, t.fns)
    BY <1>4, MadeSames DEF PendIs, Waiting
  <2>2. PendSet(t.pend, Holds(On(c)))
    BY <1>1, <1>2, <2>1, SitsHolds
  <2> QED BY <1>1, <1>4, <2>1, <2>2, PlacedBack
<1>5. ASSUME NEW m, MarkOf(s, m), PendIs(m, t, <<>>), Retopped(c, d), On(c).how = "instance",
             FrameIs(On(d), "loop", 0, t.marks[Len(t.marks)].blk, s.pend, "top")
      PROVE  OncePlaced(t, d)
  <2>1. t.gen = s.gen /\ t.pend = <<>> /\ MadeSame(s.fns, t.fns)
    BY <1>5, MadeSames DEF MarkOf, Lists, PendIs
  <2>2. Holds(On(c)) = {}
    BY <1>1, <1>5, SitsHolds
  <2>3. \A P : PendSet(s.pend, P) => Holds(On(d)) = P /\ KeptOnce(On(d))
    BY <1>5, HoldsIs
  <2> QED BY <1>1, <1>5, <2>1, <2>2, <2>3, PlacedAside
<1>6. CASE On(c).how # "local" /\ t = s /\ Popped(c, d)
  <2>1. Holds(On(c)) = {}
    BY <1>1, <1>6, SitsHolds
  <2> QED BY <1>1, <1>6, <2>1, PlacedRetop
<1> QED BY <1>3, <1>4, <1>5, <1>6 DEF EndClassOf

LEMMA EndLoopPlaced ==
  ASSUME NEW s, NEW c, NEW t, NEW d, TypeInv(s, c), TypeInv(t, d), OncePlaced(s, c),
         c # <<>> => Sits(s.fns, On(c)), EndLoopOf(s, c, t, d)
  PROVE  OncePlaced(t, d)
<1>1. PICK u : UnmarkOf(s, u, On(c).mark) /\ PendIs(u, t, On(c).saved)
  BY DEF EndLoopOf
<1>2. u.gen = s.gen /\ MadeSame(s.fns, u.fns)
  BY <1>1, UnmarkPlaced
<1>3. t.gen = s.gen /\ t.pend = On(c).saved /\ MadeSame(s.fns, t.fns) /\ s.pend = <<>>
  BY <1>1, <1>2 DEF PendIs, EndLoopOf, Waiting
<1>4. c \in Seq(FrameType) /\ d \in Seq(FrameType) /\ Popped(c, d) /\ On(c).k = "loop"
  BY DEF TypeInv, EndLoopOf
<1>5. KeptOnce(On(c)) => PendSet(t.pend, Holds(On(c)))
  BY <1>3, <1>4, SitsHolds DEF EndLoopOf
<1> QED BY <1>3, <1>4, <1>5, PlacedBack

LEMMA OnTopSits ==
  ASSUME NEW s, NEW c, TypeInv(s, c), KnownInv(s, c)
  PROVE  c # <<>> => Sits(s.fns, On(c))
<1>1. c \in Seq(FrameType) /\ AllSit(s.fns, c)
  BY DEF TypeInv, KnownInv
<1>2. c # <<>> => Len(c) \in Nat \ {0}
  BY <1>1, EmptySeq
<1>3. c # <<>> => Len(c) \in 1 .. Len(c)
  BY <1>2
<1> QED BY <1>1, <1>3 DEF AllSit, On

LEMMA StepPlaced ==
  ASSUME NEW s, NEW c, NEW t, NEW d, TypeInv(s, c), TypeInv(t, d), KnownInv(s, c),
         OncePlaced(s, c), Steps(s, c, t, d)
  PROVE  OncePlaced(t, d)
<1>1. c # <<>> => Sits(s.fns, On(c))
  BY OnTopSits
<1>2. CASE \/ EndOfFileOf(s, c, t, d) \/ ReadOf(s, c, t, d) \/ DescribeOf(s, c, t, d)
           \/ HeadOf(s, c, t, d) \/ InstanceClassOf(s, c, t, d) \/ TopClassOf(s, c, t, d)
           \/ NestedClassOf(s, c, t, d) \/ EndDeclOf(s, c, t, d)
  BY <1>1, <1>2, QuietPlaced
<1>3. CASE \/ MembersOf(s, c, t, d) \/ NotedOf(s, c, t, d) \/ EndFnOf(s, c, t, d)
           \/ GenerateFnOf(s, c, t, d)
  BY <1>1, <1>3, MadePlaced
<1>4. CASE \/ GeneratedOf(s, c, t, d) \/ PendingOf(s, c, t, d) \/ SourceOf(s, c, t, d)
           \/ CompiledOf(s, c, t, d) \/ InstanceFnOf(s, c, t, d)
  BY <1>1, <1>4, GeneratedPlaced, PendingPlaced, SourcePlaced, CompiledPlaced, InstancePlaced
<1>5. CASE \/ LocalClassOf(s, c, t, d) \/ MemberFnOf(s, c, t, d) \/ EndClassOf(s, c, t, d)
           \/ EndLoopOf(s, c, t, d)
  BY <1>1, <1>5, LocalPlaced, MemberPlaced, EndClassPlaced, EndLoopPlaced
<1> QED BY <1>2, <1>3, <1>4, <1>5 DEF Steps

\* When the compilation is done nothing waits.
DoneInv(s, c) == s.out = "done" => c = <<>> /\ s.gen = <<>> /\ s.pend = <<>>

LEMMA StepDone ==
  ASSUME NEW s, NEW c, NEW t, NEW d, TypeInv(s, c), TypeInv(t, d), KnownInv(s, c), s.out = "ok",
         Owned(s, c), Steps(s, c, t, d)
  PROVE  DoneInv(t, d)
<1>1. CASE EndOfFileOf(s, c, t, d)
  BY <1>1 DEF EndOfFileOf, Waiting, DropOf, Lists, DoneInv
<1>2. CASE ~EndOfFileOf(s, c, t, d)
  <2>1. Balanced(t, d)
    <3>1. CASE \/ PendingOf(s, c, t, d) \/ SourceOf(s, c, t, d) \/ ReadOf(s, c, t, d)
               \/ InstanceClassOf(s, c, t, d) \/ LocalClassOf(s, c, t, d) \/ TopClassOf(s, c, t, d)
               \/ NestedClassOf(s, c, t, d) \/ MemberFnOf(s, c, t, d)
      BY <3>1, QuietOwned
    <3>2. CASE \/ DescribeOf(s, c, t, d) \/ HeadOf(s, c, t, d) \/ NotedOf(s, c, t, d)
               \/ MembersOf(s, c, t, d) \/ GenerateFnOf(s, c, t, d)
      BY <3>2, OnTopSits, NotedOwned
    <3>3. CASE \/ GeneratedOf(s, c, t, d) \/ EndFnOf(s, c, t, d) \/ EndDeclOf(s, c, t, d)
               \/ CompiledOf(s, c, t, d) \/ InstanceFnOf(s, c, t, d)
      BY <3>3, OnTopSits, GeneratedOwned, EndFnOwned, CompiledOwned, InstanceFnOwned
    <3>4. CASE EndClassOf(s, c, t, d) \/ EndLoopOf(s, c, t, d)
      BY <3>4, OnTopSits, EndClassOwned, EndLoopOwned
    <3> QED BY <1>2, <3>1, <3>2, <3>3, <3>4 DEF Steps
  <2> QED BY <2>1 DEF Balanced, DoneInv
<1> QED BY <1>1, <1>2

OnceInv ==
  MarksInv /\ DoneInv(st, ctl) /\ OncePlaced(st, ctl)

LEMMA InitOnce ==
  ASSUME Init PROVE OnceInv
<1>1. Start /\ MarksInv
  BY InitStarts, InitMarks
<1>2. \A i \in 1 .. 0 : FALSE
  OBVIOUS
<1>3. GenSet(st.gen, {}) /\ PendSet(st.pend, {}) /\ CtlSet(ctl, {})
  BY <1>1, <1>2 DEF Start, GenSet, PendSet, CtlSet
<1>4. Counted(st.fns, {} \cup {} \cup {})
  BY <1>1, <1>2 DEF Start, Counted
<1>5. Placed(st, ctl, {}, {}, {})
  BY <1>3, <1>4 DEF Placed
<1>6. OncePlaced(st, ctl)
  BY <1>5 DEF OncePlaced
<1> QED BY <1>1, <1>6 DEF OnceInv, DoneInv, Start

LEMMA OncePrimed ==
  ASSUME features' = features, OncePlaced(st', ctl')
  PROVE  OncePlaced(st, ctl)'
<1>1. InHand' = InHand /\ Sound' = Sound
  BY DEF InHand, Sound
<1>2. PICK G, P, C : Placed(st', ctl', G, P, C)
  BY DEF OncePlaced
<1>3. GenSet(st.gen, G)' /\ PendSet(st.pend, P)' /\ Counted(st.fns, G \cup P \cup C)'
  BY <1>1, <1>2 DEF Placed, GenSet, PendSet, Counted
<1>4. ASSUME NEW i \in 1 .. Len(ctl') PROVE Holds(ctl[i])' = Holds(ctl'[i])
  BY <1>1 DEF Holds
<1>5. ASSUME NEW i \in 1 .. Len(ctl') PROVE KeptOnce(ctl[i])' <=> KeptOnce(ctl'[i])
  BY DEF KeptOnce
<1>6. CtlSet(ctl, C)'
  <2>1. CtlSet(ctl', C)
    BY <1>2 DEF Placed
  <2> QED BY <1>4, <1>5, <2>1 DEF CtlSet
<1>7. Placed(st, ctl, G, P, C)'
  BY <1>2, <1>3, <1>6 DEF Placed
<1> QED BY <1>7 DEF OncePlaced

LEMMA OnceStays ==
  ASSUME OnceInv, [Next]_vars PROVE OnceInv'
<1>1. MarksInv /\ MarksInv' /\ Types /\ KnownInv(st, ctl)
  BY MarksStay DEF OnceInv, MarksInv
<1>2. TypeInv(st, ctl) /\ TypeInv(st', ctl') /\ features' = features
  BY <1>1, NextSteps DEF Types
<1>3. CASE UNCHANGED vars
  <2>1. st' = st /\ ctl' = ctl /\ features' = features
    BY <1>3 DEF vars
  <2>2. OncePlaced(st', ctl') /\ DoneInv(st', ctl')
    BY <2>1 DEF OnceInv
  <2> QED BY <1>1, <1>2, <2>2, OncePrimed DEF OnceInv, DoneInv
<1>4. CASE st.out = "ok" /\ Steps(st, ctl, st', ctl')
  <2>1. Owned(st, ctl)
    BY <1>1, <1>4 DEF MarksInv
  <2>2. DoneInv(st', ctl')
    BY <1>1, <1>2, <1>4, <2>1, StepDone
  <2>3. OncePlaced(st', ctl')
    BY <1>1, <1>2, <1>4, StepPlaced DEF OnceInv
  <2> QED BY <1>1, <1>2, <2>2, <2>3, OncePrimed DEF OnceInv, DoneInv
<1> QED BY <1>1, <1>3, <1>4, NextSteps

LEMMA OnceIs ==
  ASSUME OnceInv PROVE EachOnce
<1>1. SUFFICES ASSUME Cores, NEW f \in DOMAIN F
               PROVE  /\ F[f].made <= 1
                      /\ st.out = "done" => F[f].made = 1
  BY DEF EachOnce
<1>2. Sound
  BY <1>1 DEF Cores, Sound
<1>3. PICK G, P, C : Placed(st, ctl, G, P, C)
  BY DEF OnceInv, OncePlaced
<1>4. st.fns \in Seq(FnType)
  BY DEF OnceInv, MarksInv, Types, TypeInv, StOK, StType
<1>5. f \in 1 .. Len(st.fns)
  BY <1>1, <1>4, LenProperties DEF F
<1>6. PICK W : W = G \cup P \cup C
  OBVIOUS
<1>7. (f \in W /\ st.fns[f].made = 0) \/ (f \notin W /\ st.fns[f].made = 1)
  BY <1>2, <1>3, <1>5, <1>6 DEF Placed, Counted
<1>8. ASSUME st.out = "done" PROVE f \notin W
  <2>1. ctl = <<>> /\ st.gen = <<>> /\ st.pend = <<>>
    BY <1>8 DEF OnceInv, DoneInv
  <2>2. Len(ctl) = 0 /\ Len(st.gen) = 0 /\ Len(st.pend) = 0
    BY <2>1
  <2>3. \A i \in 1 .. 0 : FALSE
    OBVIOUS
  <2>4. G = {} /\ P = {}
    BY <1>3, <2>2, <2>3 DEF Placed, GenSet, PendSet
  <2>5. C = UNION {Holds(ctl[i]) : i \in 1 .. 0}
    BY <1>3, <2>2 DEF Placed, CtlSet
  <2>6. C = {}
    BY <2>3, <2>5
  <2> QED BY <1>6, <2>4, <2>6
<1>9. 0 <= 1 /\ 1 <= 1
  OBVIOUS
<1> QED BY <1>7, <1>8, <1>9 DEF F

\* Without debug tables every function is compiled, or parsed, at most once, and when
\* the compilation is done exactly once: rd_topdecl's two queues, the lists the loops
\* put aside and the calls in progress hold each function that is left, in one place.
THEOREM GeneratedOnce == Spec => []EachOnce
<1>1. Init => OnceInv
  BY InitOnce
<1>2. OnceInv /\ [Next]_vars => OnceInv'
  BY OnceStays
<1>3. OnceInv => EachOnce
  BY OnceIs
<1> QED BY <1>1, <1>2, <1>3, PTL DEF Spec

============================================================================
