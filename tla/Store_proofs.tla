---------------------------- MODULE Store_proofs ----------------------------
(***************************************************************************)
(* Type correctness of the store allocator, for every value of the         *)
(* constants.  TypeOK is not inductive: SubSeq, Front and Last stay inside *)
(* their arrays only because the marks never count more segments than are  *)
(* in use, and because a later mark never counts fewer than an earlier one *)
(* (Shape).                                                                *)
(***************************************************************************)
EXTENDS Store, SequenceTheorems, TLAPS

IInv == TypeOK /\ Shape

----------------------------------------------------------------------------
(* Sequences.                                                              *)

\* All but the last element of a sequence.
LEMMA FrontFacts ==
  ASSUME NEW S, NEW s \in Seq(S), s # <<>>
  PROVE  /\ Front(s) \in Seq(S)
         /\ Len(Front(s)) = Len(s) - 1
         /\ \A i \in 1 .. Len(s) - 1 : Front(s)[i] = s[i]
         /\ Last(s) \in S
<1>1. Len(s) \in Nat \ {0}
  BY EmptySeq
<1>2. \A i \in 1 .. Len(s) : s[i] \in S
  BY ElementOfSeq
<1>3. \A i \in 1 .. Len(s) - 1 : s[i] \in S
  BY <1>1, <1>2
<1> DEFINE n == Len(s) - 1
<1>n. n \in Int /\ n >= 0
  BY <1>1
<1>4. /\ SubSeq(s, 1, n) \in Seq(S)
      /\ Len(SubSeq(s, 1, n)) = IF 1 <= n THEN n - 1 + 1 ELSE 0
      /\ \A i \in 1 .. n - 1 + 1 : SubSeq(s, 1, n)[i] = s[1 + i - 1]
  BY <1>n, <1>3, SubSeqProperties
<1>5. Len(s) \in 1 .. Len(s)
  BY <1>1
<1>6. Last(s) \in S
  BY <1>2, <1>5 DEF Last
<1> HIDE DEF n
<1>7. \A i \in 1 .. n : SubSeq(s, 1, n)[i] = s[i]
  BY <1>n, <1>4
<1>8. Len(SubSeq(s, 1, n)) = n
  BY <1>n, <1>4
<1> QED BY <1>4, <1>6, <1>7, <1>8 DEF Front, n

\* Swapping two elements gives a sequence of the same length.
LEMMA SwapFacts ==
  ASSUME NEW S, NEW s \in Seq(S), NEW i \in 1 .. Len(s), NEW j \in 1 .. Len(s)
  PROVE  Swap(s, i, j) \in Seq(S) /\ Len(Swap(s, i, j)) = Len(s)
BY DEF Swap

----------------------------------------------------------------------------
(* Updates of the records.                                                 *)

LEMMA AdvanceType ==
  ASSUME NEW p \in Pointer, NEW n \in Nat PROVE Advance(p, n) \in Pointer
BY DEF Advance, Pointer

LEMMA PointerType ==
  ASSUME NEW h \in Hunk, NEW x \in Nat PROVE [hunk |-> h, off |-> x] \in Pointer
BY StoreAssumption DEF Pointer, Hunk

LEMMA PoolFields ==
  ASSUME NEW s \in PoolType
  PROVE  /\ s.segmax \in Nat /\ s.chain \in 0 .. MaxHunks /\ s.perm \subseteq Hunk
         /\ s.permallp \in Pointer /\ s.bindseg \in Seq(Hunk) /\ s.bindsegcur \in Nat
         /\ s.err \in Errors /\ Len(s.bindseg) \in Nat
BY LenProperties DEF PoolType

----------------------------------------------------------------------------
(* The pool: what the takers of hunks preserve.                            *)

\* What a hunk taker leaves: t still has its type, the hunks Bind uses are the
\* ones it used in s, and an error is not forgotten.
Keeps(s, t) ==
  /\ t \in PoolType
  /\ t.bindsegcur = s.bindsegcur
  /\ Len(t.bindseg) <= Len(s.bindseg)
  /\ s.bindsegcur <= Len(s.bindseg) => s.bindsegcur <= Len(t.bindseg)
  /\ s.bindsegcur >= Len(s.bindseg) => t.bindseg = s.bindseg
  /\ s.err # "none" => t.err # "none"

LEMMA KeepsTransitive ==
  ASSUME NEW s \in PoolType, NEW t, NEW u, Keeps(s, t), Keeps(t, u)
  PROVE  Keeps(s, u)
BY DEF Keeps, PoolType

LEMMA TakeHunkKeeps ==
  ASSUME NEW s \in PoolType
  PROVE  /\ Keeps(s, TakeHunk(s))
         /\ TakeHunk(s).err = "none" => HunkFor(s) \in Hunk
<1>1. CASE Spare(s)
  <2>1. s.bindseg # <<>>
    BY <1>1 DEF Spare, PoolType
  <2>2. /\ Front(s.bindseg) \in Seq(Hunk) /\ Len(Front(s.bindseg)) = Len(s.bindseg) - 1
        /\ Last(s.bindseg) \in Hunk
    BY <2>1, FrontFacts DEF PoolType
  <2>3. TakeHunk(s) = [s EXCEPT !.bindseg = Front(s.bindseg)]
    BY <1>1 DEF TakeHunk
  <2>4. s.bindsegcur < Len(s.bindseg) /\ Len(s.bindseg) \in Nat /\ s.bindsegcur \in Nat
    BY <1>1, LenProperties DEF Spare, PoolType
  <2> QED
    BY SMTT(30), <1>1, <2>2, <2>3, <2>4 DEF HunkFor, Keeps, PoolType
<1>2. CASE ~Spare(s) /\ s.chain < MaxHunks
  <2>1. TakeHunk(s) = [s EXCEPT !.chain = s.chain + 1] /\ HunkFor(s) = s.chain + 1
    BY <1>2 DEF TakeHunk, HunkFor, CcAlloc
  <2>2. s.chain + 1 \in Hunk /\ s.chain + 1 \in 0 .. MaxHunks
    BY <1>2, StoreAssumption, PoolFields DEF Hunk
  <2> QED BY <2>1, <2>2 DEF Keeps, PoolType
<1>3. CASE ~Spare(s) /\ ~(s.chain < MaxHunks)
  <2>1. TakeHunk(s) = [s EXCEPT !.err = "space"]
    BY <1>3 DEF TakeHunk, CcAlloc
  <2> QED BY <2>1 DEF Keeps, PoolType, Errors
<1> QED BY <1>1, <1>2, <1>3

LEMMA PermAllocKeeps ==
  ASSUME NEW s \in PoolType, NEW n \in Nat
  PROVE  /\ Keeps(s, PermAlloc(s, n))
         /\ PermAlloc(s, n).err = "none" => PermAlloc(s, n).permallp.off >= n
<1>1. CASE n > SEGSIZE
  <2>1. PermAlloc(s, n) = [s EXCEPT !.err = "overlarge"]
    BY <1>1 DEF PermAlloc
  <2> QED BY <2>1 DEF Keeps, PoolType, Errors
<1>2. CASE ~(n > SEGSIZE) /\ Fits(s.permallp, n, SEGSIZE)
  <2> DEFINE p == Advance(s.permallp, n)
  <2>1. p \in Pointer /\ p.off >= n
    BY AdvanceType, PoolFields DEF Advance, Pointer
  <2>2. PermAlloc(s, n) = [s EXCEPT !.permallp = p]
    BY <1>2 DEF PermAlloc
  <2> HIDE DEF p
  <2> QED BY <2>1, <2>2 DEF Keeps, PoolType
<1>3. CASE ~(n > SEGSIZE) /\ ~Fits(s.permallp, n, SEGSIZE)
  <2> DEFINE t == TakeHunk(s)
             h == HunkFor(s)
  <2>1. PermAlloc(s, n) = IF t.err # "none" THEN t
                          ELSE [t EXCEPT !.perm = t.perm \cup {h},
                                         !.permallp = [hunk |-> h, off |-> n]]
    <3>1. PermAlloc(s, n) = NewPermSegment(s, n)
      BY <1>3 DEF PermAlloc
    <3> QED BY <3>1 DEF NewPermSegment
  <2>2. Keeps(s, t) /\ (t.err = "none" => h \in Hunk) /\ t \in PoolType
    BY TakeHunkKeeps DEF Keeps
  <2> HIDE DEF t, h
  <2>3. CASE t.err # "none"
    BY <2>1, <2>2, <2>3
  <2>4. CASE t.err = "none"
    <3>1. [hunk |-> h, off |-> n] \in Pointer /\ h \in Hunk /\ t \in PoolType
      BY <2>2, <2>4, PointerType
    <3> DEFINE P == t.perm \cup {h}
               q == [hunk |-> h, off |-> n]
    <3>a. P \in SUBSET Hunk /\ q.off = n
      BY <3>1, PoolFields
    <3>b. PermAlloc(s, n) = [t EXCEPT !.perm = P, !.permallp = q]
      BY <2>1, <2>4
    <3> HIDE DEF P, q
    <3>2. /\ PermAlloc(s, n) \in PoolType
          /\ PermAlloc(s, n).bindseg = t.bindseg
          /\ PermAlloc(s, n).bindsegcur = t.bindsegcur
          /\ PermAlloc(s, n).err = t.err
          /\ PermAlloc(s, n).permallp = q
      BY <3>1, <3>a, <3>b DEF PoolType, q
    <3> QED BY <2>2, <3>2, <3>a DEF Keeps
  <2> QED BY <2>3, <2>4
<1> QED BY <1>1, <1>2, <1>3

LEMMA ArrayWordsNat == ASSUME NEW m \in Nat PROVE ArrayWords(m) \in Nat
BY StoreAssumption DEF ArrayWords

LEMMA ExpandSegmaxKeeps ==
  ASSUME NEW s \in PoolType, NEW m \in Nat
  PROVE  Keeps(s, ExpandSegmax(s, m))
<1> DEFINE P(t) == PermAlloc(t, ArrayWords(m))
<1>1. \A t : t \in PoolType => Keeps(t, P(t))
  BY PermAllocKeeps, ArrayWordsNat
<1> DEFINE a == P(s)  b == P(a)  c == P(b)  d == P(c)  e == P(d)  f == P(e)
<1>2. Keeps(s, a) /\ Keeps(a, b) /\ Keeps(b, c) /\ Keeps(c, d) /\ Keeps(d, e) /\ Keeps(e, f)
  <2> HIDE DEF P
  <2> QED BY <1>1 DEF Keeps
<1> HIDE DEF a, b, c, d, e
<1>3. Keeps(s, f)
  <2> HIDE DEF f, P
  <2>1. a \in PoolType /\ b \in PoolType /\ c \in PoolType /\ d \in PoolType /\ e \in PoolType
    BY <1>2 DEF Keeps
  <2> QED BY <1>2, <2>1, KeepsTransitive
<1>4. ExpandSegmax(s, m) = [f EXCEPT !.segmax = m]
  BY DEF ExpandSegmax, a, b, c, d, e
<1> HIDE DEF f
<1> QED BY <1>3, <1>4 DEF Keeps, PoolType

LEMMA RoomKeeps ==
  ASSUME NEW s \in PoolType, NEW cnt \in Nat
  PROVE  Keeps(s, Room(s, cnt))
<1>1. s.segmax * SEGMAX_FACTOR \in Nat
  BY StoreAssumption DEF PoolType
<1>2. Keeps(s, s)
  BY DEF Keeps, PoolType
<1> QED BY <1>1, <1>2, ExpandSegmaxKeeps DEF Room

LEMMA CcAllocKeeps ==
  ASSUME NEW s \in PoolType
  PROVE  /\ Keeps(s, CcAlloc(s))
         /\ CcAlloc(s).err = "none" => s.chain + 1 \in Hunk
<1>1. CASE s.chain < MaxHunks
  <2>1. CcAlloc(s) = [s EXCEPT !.chain = s.chain + 1]
    BY <1>1 DEF CcAlloc
  <2>2. s.chain + 1 \in Hunk /\ s.chain + 1 \in 0 .. MaxHunks
    BY <1>1, StoreAssumption, PoolFields DEF Hunk
  <2> QED BY <2>1, <2>2 DEF Keeps, PoolType
<1>2. CASE ~(s.chain < MaxHunks)
  <2>1. CcAlloc(s) = [s EXCEPT !.err = "space"]
    BY <1>2 DEF CcAlloc
  <2> QED BY <2>1 DEF Keeps, PoolType, Errors
<1> QED BY <1>1, <1>2

----------------------------------------------------------------------------
(* Glob.                                                                   *)

LEMMA GlobFields ==
  ASSUME NEW g \in GlobType
  PROVE  /\ g.seg \in Seq(Page) /\ g.os \in Seq(Page) /\ g.allp \in Pointer /\ g.size \in Nat
         /\ Len(g.seg) \in Nat
BY LenProperties DEF GlobType

LEMMA NewGlobalSegmentType ==
  ASSUME NEW s \in PoolType, NEW g \in GlobType, NEW n \in Nat
  PROVE  /\ Keeps(s, NewGlobalSegment(s, g, n).pool)
         /\ NewGlobalSegment(s, g, n).pool.err = "none" =>
              /\ NewGlobalSegment(s, g, n).glob \in GlobType
              /\ NewGlobalSegment(s, g, n).at \in Pointer
<1> DEFINE r    == Room(s, Len(g.seg))
           page == IF g.os # <<>> THEN Head(g.os) ELSE [hunk |-> HunkFor(r), size |-> SEGSIZE]
           t    == IF g.os # <<>> THEN r ELSE TakeHunk(r)
           os   == IF g.os # <<>> THEN Tail(g.os) ELSE <<>>
           G    == [seg |-> Append(g.seg, page), os |-> os,
                    allp |-> [hunk |-> page.hunk, off |-> n], size |-> page.size]
<1>1. Keeps(s, r) /\ r \in PoolType
  BY RoomKeeps, GlobFields DEF Keeps
<1>2. Keeps(s, t)
  BY <1>1, TakeHunkKeeps, KeepsTransitive DEF Keeps
<1>3. t.err = "none" => page \in Page
  <2>1. CASE g.os # <<>>
    BY <2>1, GlobFields, HeadTailProperties
  <2>2. CASE ~(g.os # <<>>)
    BY <2>2, <1>1, TakeHunkKeeps, StoreAssumption DEF Page
  <2> QED BY <2>1, <2>2
<1>4. os \in Seq(Page)
  BY GlobFields, HeadTailProperties, EmptySeq
<1>5. /\ NewGlobalSegment(s, g, n).pool = t
      /\ NewGlobalSegment(s, g, n).glob = G
      /\ NewGlobalSegment(s, g, n).at = [hunk |-> page.hunk, off |-> 0]
  BY DEF NewGlobalSegment
<1> HIDE DEF r, page, t, os
<1>6. page \in Page => G \in GlobType /\ [hunk |-> page.hunk, off |-> 0] \in Pointer
  <2> SUFFICES ASSUME page \in Page
               PROVE  G \in GlobType /\ [hunk |-> page.hunk, off |-> 0] \in Pointer
    OBVIOUS
  <2>1. page.hunk \in 0 .. MaxHunks /\ page.size \in Nat
    BY StoreAssumption DEF Page, Hunk
  <2>2. Append(g.seg, page) \in Seq(Page)
    BY GlobFields, AppendProperties
  <2> QED BY <2>1, <2>2, <1>4 DEF GlobType, Pointer
<1> QED BY <1>2, <1>3, <1>5, <1>6

LEMMA GlobAllocType ==
  ASSUME NEW s \in PoolType, NEW g \in GlobType, NEW n \in Nat
  PROVE  /\ Keeps(s, GlobAlloc(s, g, n).pool)
         /\ GlobAlloc(s, g, n).pool.err = "none" => /\ GlobAlloc(s, g, n).glob \in GlobType
                                                    /\ GlobAlloc(s, g, n).at \in Pointer
<1>1. CASE n > SEGSIZE
  <2> DEFINE r == Room(s, Len(g.seg))
             p == [hunk |-> r.chain + 1, size |-> n]
  <2>1. Keeps(s, r) /\ r \in PoolType
    BY RoomKeeps, GlobFields DEF Keeps
  <2>2. /\ GlobAlloc(s, g, n).pool = CcAlloc(r)
        /\ GlobAlloc(s, g, n).glob = [g EXCEPT !.seg = Append(g.seg, p)]
        /\ GlobAlloc(s, g, n).at = [hunk |-> r.chain + 1, off |-> 0]
    BY <1>1 DEF GlobAlloc, OverlargePage
  <2> HIDE DEF r
  <2>3. Keeps(s, CcAlloc(r))
    BY <2>1, CcAllocKeeps, KeepsTransitive DEF Keeps
  <2>4. CcAlloc(r).err = "none" => p \in Page /\ [hunk |-> r.chain + 1, off |-> 0] \in Pointer
    BY <2>1, CcAllocKeeps, StoreAssumption DEF Page, Pointer, Hunk
  <2>5. p \in Page => [g EXCEPT !.seg = Append(g.seg, p)] \in GlobType
    <3> HIDE DEF p
    <3>1. p \in Page => Append(g.seg, p) \in Seq(Page)
      BY GlobFields, AppendProperties
    <3> QED BY <3>1 DEF GlobType
  <2> QED BY <2>2, <2>3, <2>4, <2>5
<1>2. CASE ~(n > SEGSIZE) /\ Fits(g.allp, n, g.size)
  <2>1. /\ GlobAlloc(s, g, n).pool = s
        /\ GlobAlloc(s, g, n).glob = [g EXCEPT !.allp = Advance(g.allp, n)]
        /\ GlobAlloc(s, g, n).at = g.allp
    BY <1>2 DEF GlobAlloc
  <2>2. Keeps(s, s)
    BY PoolFields DEF Keeps
  <2>3. [g EXCEPT !.allp = Advance(g.allp, n)] \in GlobType
    BY AdvanceType, GlobFields DEF GlobType
  <2> QED BY <2>1, <2>2, <2>3, GlobFields
<1>3. CASE ~(n > SEGSIZE) /\ ~Fits(g.allp, n, g.size)
  BY <1>3, NewGlobalSegmentType DEF GlobAlloc
<1> QED BY <1>1, <1>2, <1>3

----------------------------------------------------------------------------
(* The followed objects.                                                   *)

LEMMA NoteType ==
  ASSUME TypeOK, NEW class \in Classes, NEW p \in Pointer, NEW n \in Nat,
         Note(class, p, n)
  PROVE  live' \in [Obs -> LiveType \cup {None}]
<1>1. Object(class, p, n) \in LiveType
  <2>1. Len(marklist) \in Nat
    BY LenProperties DEF TypeOK
  <2> QED BY <2>1 DEF Object, LiveType, Pointer
<1> QED BY <1>1 DEF Note, TypeOK

\* A call that fails changes nothing but the outcome.
LEMMA FailStep ==
  ASSUME IInv, NEW e \in Errors, Fail(e)
  PROVE  IInv'
<1>1. pool' \in PoolType
  BY DEF IInv, TypeOK, Fail, PoolType
<1>2. ~Running'
  BY DEF Fail, Running
<1> QED BY <1>1, <1>2 DEF IInv, TypeOK, Shape, Fail

\* What leaves every static of the allocator alone, and the phase too or out of
\* a file, keeps their shape.
LEMMA ShapeKept ==
  ASSUME Shape, UNCHANGED <<syn, bnd, marklist>>, Running' => Running,
         Running => /\ pool'.bindsegcur = pool.bindsegcur
                    /\ pool.bindsegcur <= Len(pool.bindseg) =>
                         pool.bindsegcur <= Len(pool'.bindseg)
  PROVE  Shape'
<1>1. CASE Running'
  <2>1. Running
    BY <1>1
  <2> QED BY <2>1 DEF Shape
<1>2. CASE ~Running'
  BY <1>2 DEF Shape
<1> QED BY <1>1, <1>2

LEMMA SizesNat == /\ \A n \in Sizes : n \in Nat
                  /\ \A k \in CellSizes : k \in Nat /\ k <= SEGSIZE
                  /\ SEGSIZE \in Nat /\ MarkSize \in Nat /\ SEGMAX_INIT \in Nat
                  /\ MaxFiles \in Nat /\ MaxHunks \in Nat
BY StoreAssumption

----------------------------------------------------------------------------
(* Perm and Glob.                                                          *)

LEMMA PermAllocStep ==
  ASSUME IInv, NEW n \in Sizes, PermAllocCall(n)
  PROVE  IInv'
<1> DEFINE s == PermAlloc(pool, n)
<1>1. n \in Nat /\ pool \in PoolType
  BY SizesNat DEF IInv, TypeOK
<1>2. Keeps(pool, s) /\ (s.err = "none" => s.permallp.off >= n)
  BY <1>1, PermAllocKeeps
<1>3. \/ s.err # "none" /\ Fail(s.err)
      \/ /\ s.err = "none"
         /\ pool' = s
         /\ Note("perm", [s.permallp EXCEPT !.off = s.permallp.off - n], n)
         /\ UNCHANGED <<glob, syn, bnd, marklist, freemarks, pc, tool, files>>
  BY DEF PermAllocCall
<1> HIDE DEF s
<1>4. s \in PoolType /\ s.err \in Errors /\ s.permallp \in Pointer
  BY <1>2, PoolFields DEF Keeps
<1>5. CASE s.err # "none"
  BY <1>3, <1>4, <1>5, FailStep
<1>6. CASE s.err = "none"
  <2>1. [s.permallp EXCEPT !.off = s.permallp.off - n] \in Pointer
    BY <1>1, <1>2, <1>4, <1>6 DEF Pointer
  <2>2. live' \in [Obs -> LiveType \cup {None}]
    BY <1>1, <1>3, <1>6, <2>1, NoteType DEF IInv, Classes
  <2>3. TypeOK'
    BY <1>3, <1>4, <1>6, <2>2 DEF IInv, TypeOK
  <2>4. Shape'
    BY <1>2, <1>3, <1>6, ShapeKept DEF IInv, Keeps, Running
  <2> QED BY <2>3, <2>4 DEF IInv
<1> QED BY <1>5, <1>6

LEMMA GlobAllocStep ==
  ASSUME IInv, NEW n \in Sizes, GlobAllocCall(n)
  PROVE  IInv'
<1> DEFINE r == GlobAlloc(pool, glob, n)
<1>1. /\ n \in Nat /\ Keeps(pool, r.pool)
      /\ r.pool.err = "none" => r.glob \in GlobType /\ r.at \in Pointer
  BY SizesNat, GlobAllocType DEF IInv, TypeOK
<1>2. CASE r.pool.err # "none"
  <2>1. r.pool.err \in Errors
    BY <1>1, PoolFields DEF Keeps
  <2> QED BY <1>2, <2>1, FailStep DEF GlobAllocCall
<1>3. CASE r.pool.err = "none"
  <2>1. /\ pool' = r.pool /\ glob' = r.glob
        /\ Note("glob", r.at, n)
        /\ UNCHANGED <<syn, bnd, marklist, freemarks, pc, tool, files>>
    BY <1>3 DEF GlobAllocCall
  <2> HIDE DEF r
  <2>2. live' \in [Obs -> LiveType \cup {None}]
    BY <1>1, <1>3, <2>1, NoteType DEF IInv, Classes
  <2>3. TypeOK'
    BY <1>1, <1>3, <2>1, <2>2 DEF IInv, TypeOK, Keeps
  <2>4. Shape'
    BY <1>1, <2>1, ShapeKept DEF IInv, Keeps, Running
  <2> QED BY <2>3, <2>4 DEF IInv
<1> QED BY <1>2, <1>3

----------------------------------------------------------------------------
(* Syn and Bind.                                                           *)

LEMMA SynFields ==
  ASSUME syn \in SynType
  PROVE  /\ syn.seg \in Seq(Hunk) /\ syn.ptr \in Seq(Nat) /\ syn.allp \in Pointer
         /\ syn.free \in Cells /\ Len(syn.seg) \in Nat /\ Len(syn.ptr) \in Nat
BY LenProperties DEF SynType

LEMMA BndFields ==
  ASSUME bnd \in BndType
  PROVE  /\ bnd.ptr \in Seq(Nat) /\ bnd.allp \in Pointer
         /\ bnd.free \in Cells /\ Len(bnd.ptr) \in Nat
BY LenProperties DEF BndType

LEMMA MarkFields ==
  ASSUME TypeOK
  PROVE  /\ Len(marklist) \in Nat
         /\ marklist # <<>> => Len(marklist) \in 1 .. Len(marklist)
         /\ \A i \in 1 .. Len(marklist) :
              /\ marklist[i] \in MarkType
              /\ marklist[i].synno \in Nat /\ marklist[i].synp \in Pointer
              /\ marklist[i].bindno \in Nat /\ marklist[i].bindp \in Pointer
<1>1. marklist \in Seq(MarkType)
  BY DEF TypeOK
<1>2. /\ Len(marklist) \in Nat
      /\ marklist # <<>> => Len(marklist) \in 1 .. Len(marklist)
  BY <1>1, EmptySeq, LenProperties
<1>3. \A i \in 1 .. Len(marklist) : marklist[i] \in MarkType
  BY <1>1, ElementOfSeq
<1>4. \A m \in MarkType : /\ m.synno \in Nat /\ m.synp \in Pointer
                          /\ m.bindno \in Nat /\ m.bindp \in Pointer
  BY DEF MarkType
<1> QED BY <1>2, <1>3, <1>4

LEMMA StashFacts ==
  ASSUME NEW r, r.ptr \in Seq(Nat), r.allp \in Pointer
  PROVE  Stash(r) \in Seq(Nat) /\ Len(Stash(r)) = Len(r.ptr)
<1>1. CASE r.ptr = <<>>
  BY <1>1 DEF Stash
<1>2. CASE r.ptr # <<>>
  <2>1. Len(r.ptr) \in 1 .. Len(r.ptr)
    BY <1>2, EmptySeq
  <2>2. r.allp.off \in Nat
    BY DEF Pointer
  <2> QED BY <1>2, <2>1, <2>2, ExceptSeq DEF Stash
<1> QED BY <1>1, <1>2

\* A hunk taken up again: one more block in it, and the entries swapped.
LEMMA ScavengedPtr ==
  ASSUME NEW r, r.ptr \in Seq(Nat), r.allp \in Pointer, NEW i \in 1 .. Len(r.ptr)
  PROVE  /\ Stash(r)[i] \in Nat
         /\ [Stash(r) EXCEPT ![i] = Stash(r)[Len(r.ptr)], ![Len(r.ptr)] = 0] \in Seq(Nat)
         /\ Len([Stash(r) EXCEPT ![i] = Stash(r)[Len(r.ptr)], ![Len(r.ptr)] = 0])
              = Len(r.ptr)
<1> DEFINE t == Stash(r)
           c == Len(r.ptr)
           u == [t EXCEPT ![i] = t[c]]
<1>1. t \in Seq(Nat) /\ Len(t) = c
  BY StashFacts
<1>2. c \in 1 .. c
  OBVIOUS
<1> HIDE DEF t, c
<1>3. i \in 1 .. c
  BY DEF c
<1>4. t[i] \in Nat /\ t[c] \in Nat
  BY <1>1, <1>2, <1>3, ElementOfSeq
<1>5. u \in Seq(Nat) /\ Len(u) = c
  BY <1>1, <1>3, <1>4, ExceptSeq
<1>6. [u EXCEPT ![c] = 0] \in Seq(Nat) /\ Len([u EXCEPT ![c] = 0]) = c
  <2> HIDE DEF u
  <2> QED BY <1>2, <1>5, ExceptSeq
<1>7. [u EXCEPT ![c] = 0] = [t EXCEPT ![i] = t[c], ![c] = 0]
  OBVIOUS
<1> QED BY <1>4, <1>6, <1>7 DEF t, c

LEMMA SynBumpStep ==
  ASSUME IInv, pc = "run", NEW n \in Nat, SynBump(n),
         UNCHANGED <<glob, bnd, marklist, freemarks, tool, files>>
  PROVE  IInv'
<1>1. syn \in SynType /\ syn.allp \in Pointer
  BY SynFields DEF IInv, TypeOK
<1>2. /\ syn' = [syn EXCEPT !.allp = Advance(syn.allp, n)]
      /\ UNCHANGED <<pool, pc>>
      /\ Note("syn", syn.allp, n)
  BY DEF SynBump
<1>3. /\ syn' \in SynType /\ syn'.seg = syn.seg /\ syn'.ptr = syn.ptr
  BY <1>1, <1>2, AdvanceType DEF SynType
<1>4. live' \in [Obs -> LiveType \cup {None}]
  BY <1>1, <1>2, NoteType DEF IInv, Classes
<1>5. TypeOK'
  BY <1>2, <1>3, <1>4 DEF IInv, TypeOK
<1>6. Shape'
  BY <1>2, <1>3 DEF IInv, Shape, Running
<1> QED BY <1>5, <1>6 DEF IInv

LEMMA SynScavengeStep ==
  ASSUME IInv, pc = "run", NEW n \in Nat, SynScavenge(n),
         UNCHANGED <<glob, bnd, marklist, freemarks, tool, files>>
  PROVE  IInv'
<1>1. PICK i \in 1 .. Len(syn.seg) :
        /\ syn' = [Scavenged(syn, i, syn.seg[i], n) EXCEPT !.seg = Swap(@, i, Len(@))]
        /\ Note("syn", [hunk |-> syn.seg[i], off |-> Stash(syn)[i]], n)
  BY DEF SynScavenge
<1>2. UNCHANGED <<pool, pc>>
  BY DEF SynScavenge
<1>3. /\ syn \in SynType /\ Running /\ Len(syn.ptr) = Len(syn.seg)
      /\ syn.seg \in Seq(Hunk) /\ syn.ptr \in Seq(Nat) /\ syn.allp \in Pointer
  BY SynFields DEF IInv, TypeOK, Shape, Running
<1> DEFINE t == [Stash(syn) EXCEPT ![i] = Stash(syn)[Len(syn.ptr)], ![Len(syn.ptr)] = 0]
           p == [hunk |-> syn.seg[i], off |-> Stash(syn)[i] + n]
           w == Swap(syn.seg, i, Len(syn.seg))
<1>4. t \in Seq(Nat) /\ Len(t) = Len(syn.ptr) /\ Stash(syn)[i] \in Nat
  BY <1>3, ScavengedPtr
<1>5. syn.seg[i] \in Hunk
  BY <1>3, ElementOfSeq
<1>6. p \in Pointer /\ [hunk |-> syn.seg[i], off |-> Stash(syn)[i]] \in Pointer
  <2>1. Stash(syn)[i] + n \in Nat
    BY <1>4
  <2> QED BY <1>4, <1>5, <2>1, PointerType
<1>7. w \in Seq(Hunk) /\ Len(w) = Len(syn.seg)
  <2>1. Len(syn.seg) \in 1 .. Len(syn.seg)
    BY <1>1, <1>3
  <2> QED BY <1>3, <2>1, SwapFacts
<1>8. syn' = [syn EXCEPT !.ptr = t, !.allp = p, !.seg = w]
  BY <1>1, <1>3 DEF Scavenged, SynType
<1>9. syn' \in SynType /\ syn'.seg = w /\ syn'.ptr = t
  <2> HIDE DEF t, p, w
  <2> QED BY <1>3, <1>4, <1>6, <1>7, <1>8 DEF SynType
<1>10. live' \in [Obs -> LiveType \cup {None}]
  BY <1>1, <1>6, NoteType DEF IInv, Classes
<1> HIDE DEF t, p, w
<1>11. TypeOK'
  BY <1>2, <1>9, <1>10 DEF IInv, TypeOK
<1>12. Shape'
  BY <1>2, <1>3, <1>4, <1>7, <1>9 DEF IInv, Shape, Running
<1> QED BY <1>11, <1>12 DEF IInv

LEMMA NewCurrentPtr ==
  ASSUME NEW r, r.ptr \in Seq(Nat), r.allp \in Pointer
  PROVE  /\ Append(Stash(r), 0) \in Seq(Nat)
         /\ Len(Append(Stash(r), 0)) = Len(r.ptr) + 1
BY StashFacts, AppendProperties

LEMMA SynNewHunkStep ==
  ASSUME IInv, pc = "run", NEW n \in Nat, SynNewHunk(n),
         UNCHANGED <<glob, bnd, marklist, freemarks, tool, files>>
  PROVE  IInv'
<1> DEFINE r == Room(pool, Len(syn.seg))
           s == TakeHunk(r)
           h == HunkFor(r)
           t == Append(Stash(syn), 0)
           w == Append(syn.seg, h)
           p == [hunk |-> h, off |-> n]
           q == [hunk |-> h, off |-> 0]
<1>1. /\ pool \in PoolType /\ syn \in SynType /\ Running /\ Len(syn.ptr) = Len(syn.seg)
      /\ syn.seg \in Seq(Hunk) /\ syn.ptr \in Seq(Nat) /\ syn.allp \in Pointer
      /\ Len(syn.seg) \in Nat
  BY SynFields DEF IInv, TypeOK, Shape, Running
<1>2. Keeps(pool, r) /\ r \in PoolType
  BY <1>1, RoomKeeps DEF Keeps
<1>3. Keeps(pool, s) /\ (s.err = "none" => h \in Hunk)
  <2>1. Keeps(r, s) /\ (s.err = "none" => h \in Hunk)
    BY <1>2, TakeHunkKeeps
  <2> QED BY <1>1, <1>2, <2>1, KeepsTransitive
<1>4. /\ s.err = "none" /\ pool' = s /\ Note("syn", q, n) /\ UNCHANGED pc
      /\ syn' = [NewCurrent(syn, h, n) EXCEPT !.seg = Append(@, h)]
  BY DEF SynNewHunk
<1> HIDE DEF r, s, h
<1>5. syn' = [syn EXCEPT !.ptr = t, !.allp = p, !.seg = w]
  BY <1>1, <1>4 DEF NewCurrent, SynType
<1>6. p \in Pointer /\ q \in Pointer /\ h \in Hunk
  BY <1>3, <1>4, PointerType
<1>7. t \in Seq(Nat) /\ Len(t) = Len(syn.ptr) + 1
  BY <1>1, NewCurrentPtr
<1>8. w \in Seq(Hunk) /\ Len(w) = Len(syn.seg) + 1
  BY <1>1, <1>6, AppendProperties
<1> HIDE DEF t, w, p, q
<1>9. syn' \in SynType /\ syn'.seg = w /\ syn'.ptr = t
  BY <1>1, <1>5, <1>6, <1>7, <1>8 DEF SynType
<1>10. live' \in [Obs -> LiveType \cup {None}]
  BY <1>4, <1>6, NoteType DEF IInv, Classes
<1>11. TypeOK'
  BY <1>3, <1>4, <1>9, <1>10 DEF IInv, TypeOK, Keeps
<1>12. Shape'
  <2>1. /\ pool'.bindsegcur = pool.bindsegcur
        /\ pool.bindsegcur <= Len(pool.bindseg) => pool.bindsegcur <= Len(pool'.bindseg)
    BY <1>3, <1>4 DEF Keeps
  <2>2. \A i \in 1 .. Len(marklist) : marklist[i].synno <= Len(syn.seg) + 1
    <3>1. \A i \in 1 .. Len(marklist) : marklist[i].synno \in Nat
      BY MarkFields DEF IInv
    <3> QED BY <1>1, <3>1 DEF IInv, Shape
  <2> QED BY <1>1, <1>7, <1>8, <1>9, <2>1, <2>2 DEF IInv, Shape, Running
<1> QED BY <1>11, <1>12 DEF IInv

LEMMA SynAllocStep ==
  ASSUME IInv, pc = "run", NEW n \in Nat, SynAlloc(n)
  PROVE  IInv'
<1>1. CASE Fail("overlarge")
  BY <1>1, FailStep DEF Errors
<1>2. CASE /\ SynBump(n) \/ SynScavenge(n) \/ SynNewHunk(n)
           /\ UNCHANGED <<glob, bnd, marklist, freemarks, tool, files>>
  BY <1>2, SynBumpStep, SynScavengeStep, SynNewHunkStep
<1>3. CASE SynFails(n)
  <2> DEFINE r == Room(pool, Len(syn.seg))
             s == TakeHunk(r)
  <2>1. pool \in PoolType /\ Len(syn.seg) \in Nat
    BY SynFields DEF IInv, TypeOK
  <2>2. r \in PoolType
    BY <2>1, RoomKeeps DEF Keeps
  <2>3. s \in PoolType
    BY <2>2, TakeHunkKeeps DEF Keeps
  <2>4. s.err \in Errors
    BY <2>3, PoolFields
  <2>5. Fail(s.err)
    BY <1>3 DEF SynFails
  <2> QED BY <2>4, <2>5, FailStep
<1> QED BY <1>1, <1>2, <1>3 DEF SynAlloc

LEMMA CellsType ==
  ASSUME NEW f \in Cells, NEW k \in CellSizes
  PROVE  /\ f[k] \in Seq(Pointer)
         /\ f[k] # <<>> => /\ Head(f[k]) \in Pointer
                           /\ [f EXCEPT ![k] = Tail(f[k])] \in Cells
         /\ \A p \in Pointer : [f EXCEPT ![k] = <<p>> \o f[k]] \in Cells
<1>1. f[k] \in Seq(Pointer)
  BY DEF Cells
<1>2. f[k] # <<>> => Head(f[k]) \in Pointer /\ Tail(f[k]) \in Seq(Pointer)
  BY <1>1, HeadTailProperties
<1>3. \A p \in Pointer : <<p>> \o f[k] \in Seq(Pointer)
  <2> TAKE p \in Pointer
  <2>1. <<p>> \in Seq(Pointer)
    OBVIOUS
  <2> QED BY <1>1, <2>1, ConcatProperties
<1> QED BY <1>1, <1>2, <1>3 DEF Cells

LEMMA SynConsStep ==
  ASSUME IInv, pc = "run", NEW k \in CellSizes, SynCons(k)
  PROVE  IInv'
<1>1. k \in Nat /\ syn \in SynType /\ syn.free \in Cells
  BY SizesNat, SynFields DEF IInv, TypeOK
<1>2. CASE syn.free[k] = <<>>
  BY <1>1, <1>2, SynAllocStep DEF SynCons
<1>3. CASE syn.free[k] # <<>>
  <2>1. /\ syn' = [syn EXCEPT !.free = [syn.free EXCEPT ![k] = Tail(syn.free[k])]]
        /\ Note("syn", Head(syn.free[k]), k)
        /\ UNCHANGED <<pool, glob, bnd, marklist, freemarks, pc, tool, files>>
    BY <1>1, <1>3 DEF SynCons, SynType
  <2>2. syn' \in SynType /\ syn'.seg = syn.seg /\ syn'.ptr = syn.ptr
    BY <1>1, <1>3, <2>1, CellsType DEF SynType
  <2>3. live' \in [Obs -> LiveType \cup {None}]
    BY <1>1, <1>3, <2>1, CellsType, NoteType DEF IInv, Classes
  <2>4. TypeOK'
    BY <2>1, <2>2, <2>3 DEF IInv, TypeOK
  <2>5. Shape'
    BY <2>1, <2>2 DEF IInv, Shape, Running
  <2> QED BY <2>4, <2>5 DEF IInv
<1> QED BY <1>2, <1>3

LEMMA BindBumpStep ==
  ASSUME IInv, pc = "run", NEW n \in Nat, BindBump(n),
         UNCHANGED <<glob, syn, marklist, freemarks, tool, files>>
  PROVE  IInv'
<1>1. bnd \in BndType /\ bnd.allp \in Pointer
  BY BndFields DEF IInv, TypeOK
<1>2. /\ bnd' = [bnd EXCEPT !.allp = Advance(bnd.allp, n)]
      /\ UNCHANGED <<pool, pc>>
      /\ Note("bind", bnd.allp, n)
  BY DEF BindBump
<1>3. /\ bnd' \in BndType /\ bnd'.ptr = bnd.ptr
  BY <1>1, <1>2, AdvanceType DEF BndType
<1>4. live' \in [Obs -> LiveType \cup {None}]
  BY <1>1, <1>2, NoteType DEF IInv, Classes
<1>5. TypeOK'
  BY <1>2, <1>3, <1>4 DEF IInv, TypeOK
<1>6. Shape'
  BY <1>2, <1>3 DEF IInv, Shape, Running
<1> QED BY <1>5, <1>6 DEF IInv

LEMMA BindScavengeStep ==
  ASSUME IInv, pc = "run", NEW n \in Nat, BindScavenge(n),
         UNCHANGED <<glob, syn, marklist, freemarks, tool, files>>
  PROVE  IInv'
<1>1. PICK i \in 1 .. pool.bindsegcur :
        /\ pool' = [pool EXCEPT !.bindseg = Swap(pool.bindseg, i, pool.bindsegcur)]
        /\ bnd' = Scavenged(bnd, i, pool.bindseg[i], n)
        /\ Note("bind", [hunk |-> pool.bindseg[i], off |-> Stash(bnd)[i]], n)
  BY DEF BindScavenge
<1>2. UNCHANGED pc
  BY DEF BindScavenge
<1>3. /\ pool \in PoolType /\ pool.bindseg \in Seq(Hunk) /\ Running
      /\ pool.bindsegcur \in Nat /\ Len(pool.bindseg) \in Nat
      /\ pool.bindsegcur <= Len(pool.bindseg) /\ Len(bnd.ptr) = pool.bindsegcur
  BY PoolFields DEF IInv, TypeOK, Shape, Running
<1>4. bnd \in BndType /\ bnd.ptr \in Seq(Nat) /\ bnd.allp \in Pointer
  BY BndFields DEF IInv, TypeOK
<1> DEFINE t == [Stash(bnd) EXCEPT ![i] = Stash(bnd)[Len(bnd.ptr)], ![Len(bnd.ptr)] = 0]
           p == [hunk |-> pool.bindseg[i], off |-> Stash(bnd)[i] + n]
           w == Swap(pool.bindseg, i, pool.bindsegcur)
<1>5. t \in Seq(Nat) /\ Len(t) = Len(bnd.ptr) /\ Stash(bnd)[i] \in Nat
  BY <1>3, <1>4, ScavengedPtr
<1>6. pool.bindseg[i] \in Hunk
  BY <1>3, ElementOfSeq
<1>7. p \in Pointer /\ [hunk |-> pool.bindseg[i], off |-> Stash(bnd)[i]] \in Pointer
  <2>1. Stash(bnd)[i] + n \in Nat
    BY <1>5
  <2> QED BY <1>5, <1>6, <2>1, PointerType
<1>8. w \in Seq(Hunk) /\ Len(w) = Len(pool.bindseg)
  <2>1. i \in 1 .. Len(pool.bindseg) /\ pool.bindsegcur \in 1 .. Len(pool.bindseg)
    BY <1>1, <1>3
  <2> QED BY <1>3, <2>1, SwapFacts
<1>9. bnd' = [bnd EXCEPT !.ptr = t, !.allp = p]
  BY <1>1 DEF Scavenged
<1>10. live' \in [Obs -> LiveType \cup {None}]
  BY <1>1, <1>7, NoteType DEF IInv, Classes
<1>11. pool' = [pool EXCEPT !.bindseg = w]
  BY <1>1
<1> HIDE DEF t, p, w
<1>12. bnd' \in BndType /\ bnd'.ptr = t
  BY <1>4, <1>5, <1>7, <1>9 DEF BndType
<1>13. pool' \in PoolType /\ pool'.bindseg = w /\ pool'.bindsegcur = pool.bindsegcur
  BY <1>3, <1>8, <1>11 DEF PoolType
<1>14. TypeOK'
  BY <1>2, <1>10, <1>12, <1>13 DEF IInv, TypeOK
<1>15. Shape'
  BY <1>2, <1>3, <1>5, <1>8, <1>12, <1>13 DEF IInv, Shape, Running
<1> QED BY <1>14, <1>15 DEF IInv

\* The hunk that BindAlloc moves on to: the one after those it uses.
LEMMA NextBindHunkFacts ==
  ASSUME NEW s \in PoolType, s.bindsegcur <= Len(s.bindseg)
  PROVE  /\ NextBindHunk(s).err \in Errors
         /\ NextBindHunk(s).err = "none" =>
              /\ NextBindHunk(s) \in PoolType
              /\ NextBindHunk(s).bindsegcur = s.bindsegcur
              /\ s.bindsegcur + 1 <= Len(NextBindHunk(s).bindseg)
<1>1. s.bindsegcur \in Nat /\ Len(s.bindseg) \in Nat /\ s.bindseg \in Seq(Hunk)
  BY PoolFields
<1>2. CASE Spare(s)
  BY <1>1, <1>2, PoolFields DEF NextBindHunk, Spare
<1>3. CASE ~Spare(s)
  <2> DEFINE a == CcAlloc(s)
             r == Room(a, Len(s.bindseg))
             w == Append(r.bindseg, s.chain + 1)
  <2>1. NextBindHunk(s) = [r EXCEPT !.bindseg = w]
    BY <1>3 DEF NextBindHunk
  <2>2. Keeps(s, a) /\ a \in PoolType /\ (a.err = "none" => s.chain + 1 \in Hunk)
    BY CcAllocKeeps DEF Keeps
  <2>3. Keeps(a, r) /\ r \in PoolType
    BY <1>1, <2>2, RoomKeeps DEF Keeps
  <2> HIDE DEF a, r
  <2>4. Keeps(s, r)
    BY <2>2, <2>3, KeepsTransitive
  <2>5. r.bindseg = s.bindseg /\ r.bindsegcur = s.bindsegcur
    BY <1>1, <1>3, <2>4 DEF Keeps, Spare
  <2>6. r.err \in Errors /\ (r.err = "none" => s.chain + 1 \in Hunk)
    BY <2>2, <2>3, PoolFields DEF Keeps
  <2>7. s.chain + 1 \in Hunk => w \in Seq(Hunk) /\ Len(w) = Len(s.bindseg) + 1
    BY <1>1, <2>5, AppendProperties
  <2> HIDE DEF w
  <2>8. /\ NextBindHunk(s).err = r.err
        /\ NextBindHunk(s).bindsegcur = r.bindsegcur
        /\ NextBindHunk(s).bindseg = w
        /\ w \in Seq(Hunk) => NextBindHunk(s) \in PoolType
    BY <2>1, <2>3 DEF PoolType
  <2>9. s.bindsegcur + 1 <= Len(s.bindseg) + 1
    BY <1>1
  <2> QED BY <2>5, <2>6, <2>7, <2>8, <2>9
<1> QED BY <1>2, <1>3

LEMMA BindNewHunkStep ==
  ASSUME IInv, pc = "run", NEW n \in Nat, BindNewHunk(n),
         UNCHANGED <<glob, syn, marklist, freemarks, tool, files>>
  PROVE  IInv'
<1> DEFINE s == NextBindHunk(pool)
           h == s.bindseg[pool.bindsegcur + 1]
           t == Append(Stash(bnd), 0)
           p == [hunk |-> h, off |-> n]
           q == [hunk |-> h, off |-> 0]
<1>1. /\ pool \in PoolType /\ Running /\ pool.bindsegcur \in Nat
      /\ pool.bindsegcur <= Len(pool.bindseg) /\ Len(bnd.ptr) = pool.bindsegcur
  BY PoolFields DEF IInv, TypeOK, Shape, Running
<1>2. bnd \in BndType /\ bnd.ptr \in Seq(Nat) /\ bnd.allp \in Pointer
  BY BndFields DEF IInv, TypeOK
<1>3. /\ s.err = "none" /\ pool' = [s EXCEPT !.bindsegcur = s.bindsegcur + 1]
      /\ Note("bind", q, n) /\ UNCHANGED pc
      /\ bnd' = [bnd EXCEPT !.ptr = t, !.allp = p]
  BY DEF BindNewHunk, NewCurrent
<1>4. /\ s \in PoolType /\ s.bindsegcur = pool.bindsegcur
      /\ pool.bindsegcur + 1 <= Len(s.bindseg)
  BY <1>1, <1>3, NextBindHunkFacts
<1> HIDE DEF s
<1>5. h \in Hunk
  <2>1. pool.bindsegcur + 1 \in 1 .. Len(s.bindseg) /\ s.bindseg \in Seq(Hunk)
    BY <1>1, <1>4, PoolFields
  <2> QED BY <2>1, ElementOfSeq
<1> HIDE DEF h
<1>6. p \in Pointer /\ q \in Pointer
  BY <1>5, PointerType
<1>7. t \in Seq(Nat) /\ Len(t) = Len(bnd.ptr) + 1
  BY <1>2, NewCurrentPtr
<1> HIDE DEF t, p, q
<1>8. bnd' \in BndType /\ bnd'.ptr = t
  BY <1>2, <1>3, <1>6, <1>7 DEF BndType
<1>9. pool' \in PoolType /\ pool'.bindseg = s.bindseg /\ pool'.bindsegcur = pool.bindsegcur + 1
  <2> DEFINE k == pool.bindsegcur + 1
  <2>1. k \in Nat /\ s \in PoolType
    BY <1>1, <1>4
  <2>2. pool' = [s EXCEPT !.bindsegcur = k]
    BY <1>3, <1>4
  <2> HIDE DEF k
  <2>3. pool' \in PoolType /\ pool'.bindseg = s.bindseg /\ pool'.bindsegcur = k
    BY <2>1, <2>2 DEF PoolType
  <2> QED BY <2>3 DEF k
<1>10. live' \in [Obs -> LiveType \cup {None}]
  BY <1>3, <1>6, NoteType DEF IInv, Classes
<1>11. TypeOK'
  BY <1>3, <1>8, <1>9, <1>10 DEF IInv, TypeOK
<1>12. Shape'
  <2>1. \A i \in 1 .. Len(marklist) : marklist[i].bindno <= pool.bindsegcur + 1
    BY <1>1, MarkFields DEF IInv, Shape
  <2> QED BY <1>1, <1>3, <1>4, <1>7, <1>8, <1>9, <2>1 DEF IInv, Shape, Running
<1> QED BY <1>11, <1>12 DEF IInv

LEMMA BindAllocStep ==
  ASSUME IInv, pc = "run", NEW n \in Nat, BindAlloc(n)
  PROVE  IInv'
<1>1. CASE Fail("overlarge")
  BY <1>1, FailStep DEF Errors
<1>2. CASE /\ BindBump(n) \/ BindScavenge(n) \/ BindNewHunk(n)
           /\ UNCHANGED <<glob, syn, marklist, freemarks, tool, files>>
  BY <1>2, BindBumpStep, BindScavengeStep, BindNewHunkStep
<1>3. CASE BindFails(n)
  <2>1. pool \in PoolType /\ pool.bindsegcur <= Len(pool.bindseg)
    BY DEF IInv, TypeOK, Shape, Running
  <2>2. NextBindHunk(pool).err \in Errors
    BY <2>1, NextBindHunkFacts
  <2>3. Fail(NextBindHunk(pool).err)
    BY <1>3 DEF BindFails
  <2> QED BY <2>2, <2>3, FailStep
<1> QED BY <1>1, <1>2, <1>3 DEF BindAlloc

LEMMA BindConsStep ==
  ASSUME IInv, pc = "run", NEW k \in CellSizes, BindCons(k)
  PROVE  IInv'
<1>1. k \in Nat /\ bnd \in BndType /\ bnd.free \in Cells
  BY SizesNat, BndFields DEF IInv, TypeOK
<1>2. CASE bnd.free[k] = <<>>
  BY <1>1, <1>2, BindAllocStep DEF BindCons
<1>3. CASE bnd.free[k] # <<>>
  <2>1. /\ bnd' = [bnd EXCEPT !.free = [bnd.free EXCEPT ![k] = Tail(bnd.free[k])]]
        /\ Note("bind", Head(bnd.free[k]), k)
        /\ UNCHANGED <<pool, glob, syn, marklist, freemarks, pc, tool, files>>
    BY <1>1, <1>3 DEF BindCons, BndType
  <2>2. bnd' \in BndType /\ bnd'.ptr = bnd.ptr
    BY <1>1, <1>3, <2>1, CellsType DEF BndType
  <2>3. live' \in [Obs -> LiveType \cup {None}]
    BY <1>1, <1>3, <2>1, CellsType, NoteType DEF IInv, Classes
  <2>4. TypeOK'
    BY <2>1, <2>2, <2>3 DEF IInv, TypeOK
  <2>5. Shape'
    BY <2>1, <2>2 DEF IInv, Shape, Running
  <2> QED BY <2>4, <2>5 DEF IInv
<1> QED BY <1>2, <1>3

LEMMA DiscardStep ==
  ASSUME IInv, pc = "run", NEW o \in Obs, Discard(o)
  PROVE  IInv'
<1> DEFINE c == live[o]
           p == [hunk |-> c.hunk, off |-> c.off]
<1>1. c # None /\ c.size \in CellSizes
  BY DEF Discard
<1>2. c \in LiveType
  BY <1>1 DEF IInv, TypeOK
<1>3. p \in Pointer
  BY <1>2 DEF LiveType, Pointer
<1>4. syn \in SynType /\ bnd \in BndType /\ syn.free \in Cells /\ bnd.free \in Cells
  BY SynFields, BndFields DEF IInv, TypeOK
<1>5. \/ /\ syn' = [syn EXCEPT !.free = [syn.free EXCEPT ![c.size] = <<p>> \o syn.free[c.size]]]
         /\ UNCHANGED bnd
      \/ /\ bnd' = [bnd EXCEPT !.free = [bnd.free EXCEPT ![c.size] = <<p>> \o bnd.free[c.size]]]
         /\ UNCHANGED syn
  BY <1>4 DEF Discard, SynType, BndType
<1>6. /\ live' = [live EXCEPT ![o] = None]
      /\ UNCHANGED <<pool, glob, marklist, freemarks, pc, tool, files>>
  BY DEF Discard
<1> HIDE DEF c, p
<1>7. /\ syn' \in SynType /\ syn'.seg = syn.seg /\ syn'.ptr = syn.ptr
      /\ bnd' \in BndType /\ bnd'.ptr = bnd.ptr
  <2>1. /\ [syn.free EXCEPT ![c.size] = <<p>> \o syn.free[c.size]] \in Cells
        /\ [bnd.free EXCEPT ![c.size] = <<p>> \o bnd.free[c.size]] \in Cells
    BY <1>1, <1>3, <1>4, CellsType
  <2> QED BY <1>4, <1>5, <2>1 DEF SynType, BndType
<1>8. live' \in [Obs -> LiveType \cup {None}]
  BY <1>6 DEF IInv, TypeOK
<1>9. TypeOK'
  BY <1>6, <1>7, <1>8 DEF IInv, TypeOK
<1>10. Shape'
  BY <1>6, <1>7 DEF IInv, Shape, Running
<1> QED BY <1>9, <1>10 DEF IInv

----------------------------------------------------------------------------
(* Marks.                                                                  *)

LEMMA AllocMarkStep ==
  ASSUME IInv, pc = "run", AllocMark
  PROVE  IInv'
<1> DEFINE r == GlobAlloc(pool, glob, MarkSize)
<1>1. /\ pool \in PoolType /\ glob \in GlobType /\ syn \in SynType /\ bnd \in BndType
      /\ Running /\ marklist \in Seq(MarkType)
  BY DEF IInv, TypeOK, Running
<1>2. /\ Keeps(pool, r.pool)
      /\ r.pool.err = "none" => r.glob \in GlobType
  BY <1>1, SizesNat, GlobAllocType
<1>3. \/ r.pool.err # "none" /\ Fail(r.pool.err)
      \/ /\ marklist' = Append(marklist, NewMark)
         /\ \/ freemarks > 0 /\ freemarks' = freemarks - 1 /\ UNCHANGED <<pool, glob>>
            \/ /\ r.pool.err = "none" /\ pool' = r.pool /\ glob' = r.glob
               /\ UNCHANGED freemarks
         /\ UNCHANGED <<syn, bnd, pc, tool, files, live>>
  BY DEF AllocMark
<1> HIDE DEF r
<1>4. CASE r.pool.err # "none" /\ Fail(r.pool.err)
  <2>1. r.pool.err \in Errors
    BY <1>2, PoolFields DEF Keeps
  <2> QED BY <1>4, <2>1, FailStep
<1>5. CASE ~(r.pool.err # "none" /\ Fail(r.pool.err))
  <2>1. /\ NewMark \in MarkType
        /\ NewMark.synno = Len(syn.seg) /\ NewMark.bindno = pool.bindsegcur
    BY <1>1, SynFields, BndFields, PoolFields DEF NewMark, MarkType
  <2> HIDE DEF NewMark
  <2>2. /\ marklist' \in Seq(MarkType) /\ Len(marklist') = Len(marklist) + 1
        /\ marklist' # <<>>
        /\ \A i \in 1 .. Len(marklist) : marklist'[i] = marklist[i]
        /\ marklist'[Len(marklist) + 1] = NewMark
    BY <1>1, <1>3, <1>5, <2>1, AppendProperties
  <2>3. TypeOK'
    BY <1>2, <1>3, <1>5, <2>2 DEF IInv, TypeOK, Keeps
  <2>4. /\ pool'.bindsegcur = pool.bindsegcur
        /\ pool.bindsegcur <= Len(pool.bindseg) => pool.bindsegcur <= Len(pool'.bindseg)
    BY <1>2, <1>3, <1>5 DEF Keeps
  <2>5. /\ \A i \in 1 .. Len(marklist') : /\ marklist'[i].synno <= Len(syn.seg)
                                          /\ marklist'[i].bindno <= pool.bindsegcur
        /\ \A i, j \in 1 .. Len(marklist') :
             i <= j => /\ marklist'[i].synno <= marklist'[j].synno
                       /\ marklist'[i].bindno <= marklist'[j].bindno
    <3>1. Len(marklist) \in Nat /\ Len(syn.seg) \in Nat /\ pool.bindsegcur \in Nat
      BY <1>1, SynFields, PoolFields, MarkFields DEF IInv
    <3>2. \A i \in 1 .. Len(marklist') : i \in 1 .. Len(marklist) \/ i = Len(marklist) + 1
      BY <2>2, <3>1
    <3>3. \A i \in 1 .. Len(marklist) : /\ marklist[i].synno <= Len(syn.seg)
                                        /\ marklist[i].bindno <= pool.bindsegcur
      BY <1>1 DEF IInv, Shape
    <3>4. \A i, j \in 1 .. Len(marklist) :
             i <= j => /\ marklist[i].synno <= marklist[j].synno
                       /\ marklist[i].bindno <= marklist[j].bindno
      BY <1>1 DEF IInv, Shape
    <3> QED BY SMTT(30), <2>1, <2>2, <3>1, <3>2, <3>3, <3>4
  <2>6. Shape'
    BY <1>1, <1>3, <1>5, <2>2, <2>4, <2>5 DEF IInv, Shape, Running
  <2> QED BY <2>3, <2>6 DEF IInv
<1> QED BY <1>4, <1>5

\* The free offsets of the first n hunks.
LEMMA CutPtrFacts ==
  ASSUME NEW ptr \in Seq(Nat), NEW n \in Nat, n <= Len(ptr)
  PROVE  CutPtr(ptr, n) \in Seq(Nat) /\ Len(CutPtr(ptr, n)) = n
<1> DEFINE c == CutPtr(ptr, n)
<1>1. \A i \in 1 .. n : ptr[i] \in Nat
  <2>1. \A i \in 1 .. n : i \in 1 .. Len(ptr)
    BY LenProperties
  <2> QED BY <2>1, ElementOfSeq
<1>2. c \in [1 .. n -> Nat] /\ DOMAIN c = 1 .. n
  BY <1>1 DEF CutPtr
<1> HIDE DEF c
<1>3. c \in Seq(Nat)
  BY <1>2, SeqDef
<1>4. Len(c) \in Nat /\ 1 .. Len(c) = 1 .. n
  BY <1>2, <1>3, LenProperties
<1>5. Len(c) = n
  BY <1>4
<1> QED BY <1>3, <1>5 DEF c

LEMMA SubSeqFacts ==
  ASSUME NEW S, NEW s \in Seq(S), NEW n \in Nat, n <= Len(s)
  PROVE  /\ SubSeq(s, 1, n) \in Seq(S)
         /\ Len(SubSeq(s, 1, n)) = n
         /\ \A i \in 1 .. n : SubSeq(s, 1, n)[i] = s[i]
<1>1. Len(s) \in Nat
  BY LenProperties
<1>2. \A i \in 1 .. n : s[i] \in S
  <2>1. \A i \in 1 .. n : i \in 1 .. Len(s)
    BY <1>1
  <2> QED BY <2>1, ElementOfSeq
<1>3. /\ SubSeq(s, 1, n) \in Seq(S)
      /\ Len(SubSeq(s, 1, n)) = IF 1 <= n THEN n - 1 + 1 ELSE 0
      /\ \A i \in 1 .. n - 1 + 1 : SubSeq(s, 1, n)[i] = s[1 + i - 1]
  BY <1>2, SubSeqProperties
<1> QED BY <1>3

LEMMA NoCellsType == NoCells \in Cells
BY EmptySeq DEF NoCells, Cells

\* Going back to a mark m that counts no more segments than are in use.
LEMMA BackToFacts ==
  ASSUME IInv, Running, NEW m \in MarkType, m.synno <= Len(syn.seg),
         m.bindno <= pool.bindsegcur
  PROVE  /\ SynBackTo(m) \in SynType
         /\ Len(SynBackTo(m).seg) = m.synno /\ Len(SynBackTo(m).ptr) = m.synno
         /\ BindBackTo(m) \in BndType /\ Len(BindBackTo(m).ptr) = m.bindno
<1>1. m.synno \in Nat /\ m.bindno \in Nat /\ m.synp \in Pointer /\ m.bindp \in Pointer
  BY DEF MarkType
<1>2. /\ syn.seg \in Seq(Hunk) /\ syn.ptr \in Seq(Nat) /\ bnd.ptr \in Seq(Nat)
      /\ Len(syn.ptr) = Len(syn.seg) /\ Len(bnd.ptr) = pool.bindsegcur
  BY SynFields, BndFields DEF IInv, TypeOK, Shape
<1> DEFINE sg == SubSeq(syn.seg, 1, m.synno)
           sp == CutPtr(syn.ptr, m.synno)
           bp == CutPtr(bnd.ptr, m.bindno)
<1>3. sg \in Seq(Hunk) /\ Len(sg) = m.synno
  BY <1>1, <1>2, SubSeqFacts
<1>4. sp \in Seq(Nat) /\ Len(sp) = m.synno
  BY <1>1, <1>2, CutPtrFacts
<1>5. bp \in Seq(Nat) /\ Len(bp) = m.bindno
  BY <1>1, <1>2, CutPtrFacts
<1>6. /\ SynBackTo(m) = [seg |-> sg, ptr |-> sp, allp |-> m.synp, free |-> NoCells]
      /\ BindBackTo(m) = [ptr |-> bp, allp |-> m.bindp, free |-> NoCells]
  BY DEF SynBackTo, BindBackTo
<1> HIDE DEF sg, sp, bp
<1> QED BY <1>1, <1>3, <1>4, <1>5, <1>6, NoCellsType DEF SynType, BndType

LEMMA UnmarkTopStep ==
  ASSUME IInv, pc = "run", UnmarkTop
  PROVE  IInv'
<1>1. PICK k \in 1 .. Len(marklist) - 1 :
        /\ syn' = SynBackTo(marklist[k + 1])
        /\ bnd' = BindBackTo(marklist[k + 1])
        /\ pool' = [pool EXCEPT !.bindsegcur = marklist[k + 1].bindno]
        /\ freemarks' = freemarks + (Len(marklist) - k)
        /\ marklist' = SubSeq(marklist, 1, k)
        /\ Kill(LAMBDA x : x.level > k)
  BY DEF UnmarkTop
<1>2. UNCHANGED <<glob, pc, tool, files>>
  BY DEF UnmarkTop
<1>3. /\ pool \in PoolType /\ marklist \in Seq(MarkType) /\ Running
      /\ freemarks \in Nat /\ Len(marklist) \in Nat
  BY MarkFields DEF IInv, TypeOK, Running
<1> DEFINE m == marklist[k + 1]
<1>4. k \in Nat /\ k \in 1 .. Len(marklist) /\ k + 1 \in 1 .. Len(marklist)
      /\ k <= Len(marklist) /\ k # 0
  BY <1>3
<1>5. m \in MarkType /\ m.bindno \in Nat
  BY <1>4, MarkFields DEF IInv
<1>6. /\ m.synno <= Len(syn.seg) /\ m.bindno <= pool.bindsegcur
      /\ pool.bindsegcur <= Len(pool.bindseg)
  BY <1>3, <1>4 DEF IInv, Shape
<1>7. /\ \A i \in 1 .. k : i \in 1 .. Len(marklist) /\ i <= k + 1
      /\ marklist' \in Seq(MarkType) /\ Len(marklist') = k
      /\ \A i \in 1 .. k : marklist'[i] = marklist[i]
  BY <1>1, <1>3, <1>4, SubSeqFacts
<1>8. live' \in [Obs -> LiveType \cup {None}]
  BY <1>1 DEF Kill, IInv, TypeOK
<1> HIDE DEF m
<1>9. /\ syn' \in SynType /\ bnd' \in BndType
      /\ Len(syn'.seg) = m.synno /\ Len(syn'.ptr) = m.synno /\ Len(bnd'.ptr) = m.bindno
  BY <1>1, <1>3, <1>5, <1>6, BackToFacts DEF m
<1>10. /\ pool' \in PoolType /\ pool'.bindsegcur = m.bindno /\ pool'.bindseg = pool.bindseg
  BY <1>1, <1>3, <1>5 DEF PoolType, m
<1>11. freemarks' \in Nat
  BY <1>1, <1>3, <1>4
<1>12. TypeOK'
  BY <1>2, <1>7, <1>8, <1>9, <1>10, <1>11 DEF IInv, TypeOK
<1>13. Shape'
  <2>1. \A i, j \in 1 .. Len(marklist) :
          i <= j => /\ marklist[i].synno <= marklist[j].synno
                    /\ marklist[i].bindno <= marklist[j].bindno
    BY <1>3 DEF IInv, Shape
  <2>2. \A i \in 1 .. k : marklist[i].synno <= m.synno /\ marklist[i].bindno <= m.bindno
    BY <1>4, <1>7, <2>1 DEF m
  <2>3. m.bindno <= Len(pool.bindseg)
    BY <1>3, <1>5, <1>6, PoolFields
  <2>4. marklist' # <<>>
    BY <1>4, <1>7, EmptySeq
  <2> QED BY <1>7, <1>9, <1>10, <2>1, <2>2, <2>3, <2>4 DEF Shape
<1> QED BY <1>12, <1>13 DEF IInv

LEMMA AllocUnmarkStep ==
  ASSUME IInv, pc = "run", NEW i \in 2 .. Len(marklist), AllocUnmark(i)
  PROVE  IInv'
<1>1. CASE UnmarkPending(i)
  <2>1. /\ marklist' = [marklist EXCEPT ![i].unmarked = TRUE]
        /\ UNCHANGED <<pool, glob, syn, bnd, freemarks, pc, tool, files, live>>
    BY <1>1 DEF UnmarkPending
  <2>2. i \in 1 .. Len(marklist) /\ marklist \in Seq(MarkType) /\ marklist[i] \in MarkType
    BY MarkFields DEF IInv, TypeOK
  <2> DEFINE m == [marklist[i] EXCEPT !.unmarked = TRUE]
  <2>3. m \in MarkType /\ m.synno = marklist[i].synno /\ m.bindno = marklist[i].bindno
    BY <2>2 DEF MarkType
  <2>4. marklist' = [marklist EXCEPT ![i] = m]
    BY <2>1
  <2> HIDE DEF m
  <2>5. /\ marklist' \in Seq(MarkType) /\ Len(marklist') = Len(marklist)
        /\ \A j \in 1 .. Len(marklist) : /\ marklist'[j].synno = marklist[j].synno
                                         /\ marklist'[j].bindno = marklist[j].bindno
    BY <2>2, <2>3, <2>4, ExceptSeq
  <2>6. marklist # <<>> => marklist' # <<>>
    BY <2>2, <2>5, EmptySeq
  <2>7. TypeOK'
    BY <2>1, <2>5 DEF IInv, TypeOK
  <2>8. Shape'
    BY <2>1, <2>5, <2>6 DEF IInv, Shape, Running
  <2> QED BY <2>7, <2>8 DEF IInv
<1>2. CASE UnmarkTop
  BY <1>2, UnmarkTopStep
<1>3. CASE Fail("unmark1")
  BY <1>3, FailStep DEF Errors
<1> QED BY <1>1, <1>2, <1>3 DEF AllocUnmark

----------------------------------------------------------------------------
(* drop_local_store, alloc_reinit and the passage from file to file.       *)

\* The call of drop_local_store, alone or from alloc_perfilefinalise.
LEMMA EnterStep ==
  ASSUME IInv, pc = "run", Drop("drop") \/ PerFileFinalise
  PROVE  IInv'
<1>1. CASE Fail("marklist")
  BY <1>1, FailStep DEF Errors
<1>2. CASE /\ live' \in [Obs -> LiveType \cup {None}]
           /\ pc' \in {"drop", "finaldrop"}
           /\ UNCHANGED <<pool, glob, syn, bnd, marklist, freemarks, tool, files>>
  <2>1. TypeOK'
    BY <1>2 DEF IInv, TypeOK
  <2>2. Shape'
    BY <1>2 DEF IInv, Shape, Running
  <2> QED BY <2>1, <2>2 DEF IInv
<1>3. CASE Drop("drop")
  BY <1>2, <1>3 DEF Drop, Kill, IInv, TypeOK
<1>4. CASE PerFileFinalise /\ ~Fail("marklist")
  BY <1>2, <1>4 DEF PerFileFinalise, Kill, IInv, TypeOK
<1> QED BY <1>1, <1>3, <1>4

\* The mark on top, while a file is compiled.
LEMMA TopFacts ==
  ASSUME IInv, Running
  PROVE  /\ Top \in MarkType /\ Top.synno \in Nat /\ Top.bindno \in Nat
         /\ Top.synp \in Pointer /\ Top.bindp \in Pointer
         /\ Top.synno <= Len(syn.seg) /\ Top.bindno <= pool.bindsegcur
         /\ pool.bindsegcur <= Len(pool.bindseg)
         /\ \A i \in 1 .. Len(marklist) : /\ marklist[i].synno <= Top.synno
                                          /\ marklist[i].bindno <= Top.bindno
<1>1. Len(marklist) \in 1 .. Len(marklist) /\ Top = marklist[Len(marklist)]
  BY MarkFields DEF IInv, Shape, Top, Last
<1>2. \A i \in 1 .. Len(marklist) : i <= Len(marklist)
  BY <1>1
<1> HIDE DEF Top
<1>3. \A i \in 1 .. Len(marklist) : /\ marklist[i].synno <= Top.synno
                                    /\ marklist[i].bindno <= Top.bindno
  BY <1>1, <1>2 DEF IInv, Shape
<1>4. /\ Top.synno <= Len(syn.seg) /\ Top.bindno <= pool.bindsegcur
      /\ pool.bindsegcur <= Len(pool.bindseg)
  BY <1>1 DEF IInv, Shape
<1>5. /\ Top \in MarkType /\ Top.synno \in Nat /\ Top.bindno \in Nat
      /\ Top.synp \in Pointer /\ Top.bindp \in Pointer
  BY <1>1, MarkFields DEF IInv
<1> QED BY <1>3, <1>4, <1>5

LEMMA DropHunkStep ==
  ASSUME IInv, DropHunk
  PROVE  IInv'
<1> DEFINE s == Room(pool, Len(pool.bindseg))
           h == Last(syn.seg)
           w == Append(s.bindseg, h)
<1>1. Running /\ Len(syn.seg) > Top.synno
  BY DEF DropHunk, Running
<1>2. /\ Top.synno \in Nat
      /\ pool \in PoolType /\ syn \in SynType /\ Len(pool.bindseg) \in Nat
      /\ syn.seg \in Seq(Hunk) /\ syn.ptr \in Seq(Nat) /\ Len(syn.seg) \in Nat
      /\ Len(syn.ptr) = Len(syn.seg) /\ pool.bindsegcur \in Nat
  BY <1>1, TopFacts, SynFields, PoolFields DEF IInv, TypeOK, Shape
<1>3. Keeps(pool, s) /\ s \in PoolType /\ s.err \in Errors /\ s.bindseg \in Seq(Hunk)
  BY <1>2, RoomKeeps, PoolFields DEF Keeps
<1>4. \/ s.err # "none" /\ Fail(s.err)
      \/ /\ pool' = [s EXCEPT !.bindseg = w]
         /\ syn' = [syn EXCEPT !.seg = Front(syn.seg), !.ptr = Front(syn.ptr)]
         /\ UNCHANGED <<glob, bnd, marklist, freemarks, pc, tool, files, live>>
  BY DEF DropHunk
<1> HIDE DEF s
<1>5. CASE s.err # "none" /\ Fail(s.err)
  BY <1>3, <1>5, FailStep
<1>6. CASE ~(s.err # "none" /\ Fail(s.err))
  <2>1. syn.seg # <<>> /\ syn.ptr # <<>>
    BY <1>1, <1>2, EmptySeq
  <2>2. /\ Front(syn.seg) \in Seq(Hunk) /\ Len(Front(syn.seg)) = Len(syn.seg) - 1
        /\ Front(syn.ptr) \in Seq(Nat) /\ Len(Front(syn.ptr)) = Len(syn.seg) - 1
        /\ h \in Hunk
    BY <1>2, <2>1, FrontFacts
  <2>3. w \in Seq(Hunk) /\ Len(w) = Len(s.bindseg) + 1
    BY <1>3, <2>2, AppendProperties
  <2> HIDE DEF h, w
  <2>4. pool' \in PoolType /\ pool'.bindseg = w /\ pool'.bindsegcur = pool.bindsegcur
    BY <1>3, <1>4, <1>6, <2>3 DEF PoolType, Keeps
  <2>5. /\ syn' \in SynType
        /\ Len(syn'.seg) = Len(syn.seg) - 1 /\ Len(syn'.ptr) = Len(syn.seg) - 1
    BY <1>2, <1>4, <1>6, <2>2 DEF SynType
  <2>6. TypeOK'
    BY <1>4, <1>6, <2>4, <2>5 DEF IInv, TypeOK
  <2>7. \A i \in 1 .. Len(marklist) : marklist[i].synno <= Len(syn.seg) - 1
    <3>1. Top.synno <= Len(syn.seg) - 1
      BY <1>1, <1>2
    <3>2. \A i \in 1 .. Len(marklist) :
            marklist[i].synno <= Top.synno /\ marklist[i].synno \in Nat
      BY <1>1, TopFacts, MarkFields DEF IInv
    <3> HIDE DEF Top
    <3> QED BY <1>2, <3>1, <3>2
  <2>8. pool.bindsegcur <= Len(w)
    <3>1. pool.bindsegcur <= Len(s.bindseg) /\ Len(s.bindseg) \in Nat
      BY <1>1, <1>3, PoolFields DEF Keeps, IInv, Shape
    <3> QED BY <1>2, <2>3, <3>1
  <2>9. Shape'
    BY <1>1, <1>4, <1>6, <2>4, <2>5, <2>7, <2>8 DEF IInv, Shape, Running
  <2> QED BY <2>6, <2>9 DEF IInv
<1> QED BY <1>5, <1>6

LEMMA DropEndStep ==
  ASSUME IInv, DropEnd
  PROVE  IInv'
<1>1. Running
  BY DEF DropEnd, Running
<1> DEFINE c == CutPtr(syn.ptr, Len(syn.seg))
<1>2. /\ syn' = [syn EXCEPT !.ptr = c, !.allp = Top.synp, !.free = NoCells]
      /\ pc' \in {"run", "final"}
      /\ UNCHANGED <<pool, glob, bnd, marklist, freemarks, tool, files, live>>
  BY DEF DropEnd
<1>3. /\ syn \in SynType /\ syn.ptr \in Seq(Nat) /\ Len(syn.seg) \in Nat
      /\ Len(syn.ptr) = Len(syn.seg)
  BY <1>1, SynFields DEF IInv, TypeOK, Shape
<1>4. c \in Seq(Nat) /\ Len(c) = Len(syn.seg)
  BY <1>3, CutPtrFacts
<1>5. Top.synp \in Pointer /\ NoCells \in Cells
  BY <1>1, TopFacts, NoCellsType
<1> HIDE DEF c, Top, NoCells
<1>6. syn' \in SynType /\ syn'.seg = syn.seg /\ syn'.ptr = c
  BY <1>2, <1>3, <1>4, <1>5 DEF SynType
<1>7. TypeOK'
  BY <1>2, <1>6 DEF IInv, TypeOK
<1>8. Shape'
  BY <1>1, <1>2, <1>4, <1>6 DEF IInv, Shape, Running
<1> QED BY <1>7, <1>8 DEF IInv

LEMMA AllocReinitStep ==
  ASSUME IInv, pc = "run", AllocReinit
  PROVE  IInv'
<1>1. CASE Fail("reinit")
  BY <1>1, FailStep DEF Errors
<1>2. CASE ~Fail("reinit")
  <2>1. Running
    BY DEF Running
  <2>2. /\ pool' = [pool EXCEPT !.bindsegcur = Top.bindno]
        /\ bnd' = BindBackTo(Top)
        /\ live' \in [Obs -> LiveType \cup {None}]
        /\ UNCHANGED <<glob, syn, marklist, freemarks, pc, tool, files>>
    BY <1>2 DEF AllocReinit, Kill, IInv, TypeOK
  <2>3. BindBackTo(Top) \in BndType /\ Len(BindBackTo(Top).ptr) = Top.bindno
    BY <2>1, TopFacts, BackToFacts
  <2>4. Top.bindno \in Nat /\ Top.bindno <= Len(pool.bindseg)
    BY <2>1, TopFacts, PoolFields DEF IInv, TypeOK
  <2>5. pool \in PoolType
    BY DEF IInv, TypeOK
  <2>6. \A i \in 1 .. Len(marklist) : marklist[i].bindno <= Top.bindno
    BY <2>1, TopFacts
  <2> HIDE DEF Top, BindBackTo
  <2>7. /\ pool' \in PoolType /\ pool'.bindsegcur = Top.bindno
        /\ pool'.bindseg = pool.bindseg
    BY <2>2, <2>4, <2>5 DEF PoolType
  <2>8. TypeOK'
    BY <2>2, <2>3, <2>7 DEF IInv, TypeOK
  <2>9. Shape'
    BY <2>1, <2>2, <2>3, <2>4, <2>6, <2>7 DEF IInv, Shape, Running
  <2> QED BY <2>8, <2>9 DEF IInv
<1> QED BY <1>1, <1>2

LEMMA RecycleGlobPageStep ==
  ASSUME IInv, RecycleGlobPage
  PROVE  IInv'
<1> DEFINE s    == Room(pool, Len(pool.bindseg))
           page == Last(glob.seg)
           w    == Append(s.bindseg, page.hunk)
           os   == <<page>> \o glob.os
<1>1. Running /\ glob.seg # <<>>
  BY DEF RecycleGlobPage, Running
<1>2. /\ pool \in PoolType /\ glob \in GlobType /\ Len(pool.bindseg) \in Nat
      /\ glob.seg \in Seq(Page) /\ glob.os \in Seq(Page)
  BY PoolFields, GlobFields DEF IInv, TypeOK
<1>3. Keeps(pool, s) /\ s \in PoolType /\ s.err \in Errors /\ s.bindseg \in Seq(Hunk)
  BY <1>2, RoomKeeps, PoolFields DEF Keeps
<1>4. \/ Fail(s.err)
      \/ /\ \/ /\ pool' = [s EXCEPT !.bindseg = w]
               /\ glob' = [glob EXCEPT !.seg = Front(glob.seg)]
            \/ /\ UNCHANGED pool
               /\ glob' = [glob EXCEPT !.seg = Front(glob.seg), !.os = os]
         /\ UNCHANGED <<syn, bnd, marklist, freemarks, pc, tool, files, live>>
  BY DEF RecycleGlobPage, KeepOversize
<1> HIDE DEF s
<1>5. CASE Fail(s.err)
  BY <1>3, <1>5, FailStep
<1>6. CASE ~Fail(s.err)
  <2>1. Front(glob.seg) \in Seq(Page) /\ page \in Page
    BY <1>1, <1>2, FrontFacts
  <2>2. page.hunk \in Hunk
    BY <2>1 DEF Page
  <2>3. w \in Seq(Hunk) /\ Len(w) = Len(s.bindseg) + 1 /\ Len(s.bindseg) \in Nat
    BY <1>3, <2>2, AppendProperties, PoolFields
  <2>4. os \in Seq(Page)
    <3>1. <<page>> \in Seq(Page)
      BY <2>1
    <3> QED BY <1>2, <3>1, ConcatProperties
  <2> HIDE DEF w, os, page
  <2>5. glob' \in GlobType
    BY <1>2, <1>4, <1>6, <2>1, <2>4 DEF GlobType
  <2>6. /\ pool' \in PoolType /\ pool'.bindsegcur = pool.bindsegcur
        /\ pool.bindsegcur <= Len(pool.bindseg) => pool.bindsegcur <= Len(pool'.bindseg)
    <3>1. CASE UNCHANGED pool
      BY <1>2, <3>1
    <3>2. CASE pool' = [s EXCEPT !.bindseg = w]
      <4>1. /\ pool' \in PoolType /\ pool'.bindsegcur = s.bindsegcur /\ pool'.bindseg = w
        BY <1>3, <2>3, <3>2 DEF PoolType
      <4>2. /\ s.bindsegcur = pool.bindsegcur
            /\ pool.bindsegcur <= Len(pool.bindseg) => pool.bindsegcur <= Len(s.bindseg)
        BY <1>3 DEF Keeps
      <4>3. pool.bindsegcur \in Nat
        BY <1>2, PoolFields
      <4> QED BY <2>3, <4>1, <4>2, <4>3
    <3> QED BY <1>4, <1>6, <3>1, <3>2
  <2>7. TypeOK'
    BY <1>4, <1>6, <2>5, <2>6 DEF IInv, TypeOK
  <2>8. Shape'
    BY <1>4, <1>6, <2>6, ShapeKept DEF IInv, Running
  <2> QED BY <2>7, <2>8 DEF IInv
<1> QED BY <1>5, <1>6

\* A file begins with no Syn or Bind hunk in use and with the base mark.
LEMMA PerFileInitStep ==
  ASSUME IInv, NEW command \in BOOLEAN, PerFileInit(command)
  PROVE  IInv'
<1> DEFINE g == [seg |-> <<>>, os |-> glob.os, allp |-> Duff, size |-> 0]
           s == [pool EXCEPT !.bindsegcur = 0]
           r == GlobAlloc(s, g, MarkSize)
           y == [seg |-> <<>>, ptr |-> <<>>, allp |-> Duff, free |-> NoCells]
           b == [ptr |-> <<>>, allp |-> Duff, free |-> NoCells]
<1>1. Duff \in Pointer
  BY SizesNat DEF Duff, Pointer
<1>2. pool \in PoolType /\ glob.os \in Seq(Page)
  BY GlobFields DEF IInv, TypeOK
<1>3. s \in PoolType /\ s.bindsegcur = 0 /\ g \in GlobType
  BY <1>1, <1>2, EmptySeq DEF PoolType, GlobType
<1>4. y \in SynType /\ b \in BndType
  BY <1>1, EmptySeq, NoCellsType DEF SynType, BndType
<1>5. BaseMark \in MarkType /\ BaseMark.synno = 0 /\ BaseMark.bindno = 0
  BY <1>1 DEF BaseMark, MarkType
<1>6. \/ r.pool.err # "none" /\ Fail(r.pool.err)
      \/ /\ r.pool.err = "none" /\ pool' = r.pool /\ glob' = r.glob
         /\ syn' = y /\ bnd' = b
         /\ marklist' = <<BaseMark>> /\ freemarks' = 0
         /\ pc' = "run" /\ tool' = command /\ files' = files + 1 /\ files < MaxFiles
         /\ Kill(LAMBDA x : x.class # "perm")
  BY DEF PerFileInit
<1> HIDE DEF s, g
<1>7. /\ Keeps(s, r.pool)
      /\ r.pool.err = "none" => r.glob \in GlobType
  BY <1>3, SizesNat, GlobAllocType
<1> HIDE DEF r
<1>8. CASE r.pool.err # "none" /\ Fail(r.pool.err)
  <2>1. r.pool.err \in Errors
    BY <1>7, PoolFields DEF Keeps
  <2> QED BY <1>8, <2>1, FailStep
<1>9. CASE ~(r.pool.err # "none" /\ Fail(r.pool.err))
  <2>1. /\ pool' \in PoolType /\ pool'.bindsegcur = 0 /\ Len(pool'.bindseg) \in Nat
    BY <1>3, <1>6, <1>7, <1>9, PoolFields DEF Keeps
  <2>2. live' \in [Obs -> LiveType \cup {None}]
    BY <1>6, <1>9 DEF Kill, IInv, TypeOK
  <2>0. marklist' = <<BaseMark>>
    BY <1>6, <1>9
  <2>3. /\ marklist' \in Seq(MarkType) /\ Len(marklist') = 1
        /\ marklist'[1] = BaseMark /\ marklist' # <<>>
    <3> HIDE DEF BaseMark
    <3>1. BaseMark \in MarkType
      BY <1>5
    <3> HIDE DEF MarkType
    <3> QED BY <2>0, <3>1
  <2>4. files' \in 0 .. MaxFiles
    BY <1>6, <1>9, SizesNat DEF IInv, TypeOK
  <2>5. /\ Len(syn'.seg) = 0 /\ Len(syn'.ptr) = 0 /\ Len(bnd'.ptr) = 0
    BY <1>6, <1>9
  <2> HIDE DEF y, b, BaseMark
  <2>6. TypeOK'
    BY <1>4, <1>6, <1>7, <1>9, <2>1, <2>2, <2>3, <2>4 DEF IInv, TypeOK
  <2>7. \A i \in 1 .. Len(marklist') : i = 1
    BY <2>3
  <2>8. Shape'
    BY <1>5, <2>1, <2>3, <2>5, <2>7 DEF Shape
  <2> QED BY <2>6, <2>8 DEF IInv
<1> QED BY <1>6, <1>8, <1>9

LEMMA AllocFinaliseStep ==
  ASSUME IInv, AllocFinalise
  PROVE  IInv'
<1>1. pool' \in PoolType
  <2>1. pool \in PoolType
    BY DEF IInv, TypeOK
  <2>2. 0 \in 0 .. MaxHunks
    BY SizesNat
  <2> QED BY <2>1, <2>2 DEF AllocFinalise, PoolType, Errors
<1>2. live' \in [Obs -> LiveType \cup {None}]
  BY DEF AllocFinalise, Kill, IInv, TypeOK
<1>3. TypeOK'
  BY <1>1, <1>2 DEF AllocFinalise, IInv, TypeOK
<1>4. Shape'
  BY DEF AllocFinalise, Shape, Running
<1> QED BY <1>3, <1>4 DEF IInv

LEMMA InitialPoolType ==
  ASSUME NEW cur \in Nat
  PROVE  InitialPool(cur) \in PoolType
<1> DEFINE s == [segmax |-> 0, chain |-> 0, perm |-> {}, permallp |-> Duff,
                 bindseg |-> <<>>, bindsegcur |-> cur, err |-> "none"]
<1>1. Duff \in Pointer /\ 0 \in 0 .. MaxHunks
  BY SizesNat DEF Duff, Pointer
<1>2. s \in PoolType
  BY <1>1, EmptySeq DEF PoolType, Errors
<1>3. InitialPool(cur) = ExpandSegmax(s, SEGMAX_INIT)
  BY DEF InitialPool
<1> HIDE DEF s
<1> QED BY <1>2, <1>3, ExpandSegmaxKeeps, SizesNat DEF Keeps

LEMMA AllocInitialiseStep ==
  ASSUME IInv, AllocInitialise
  PROVE  IInv'
<1>1. pool' \in PoolType
  BY InitialPoolType, PoolFields DEF AllocInitialise, IInv, TypeOK
<1>2. glob' \in GlobType
  BY EmptySeq DEF AllocInitialise, IInv, TypeOK, GlobType
<1>3. pc' \in {"idle", "failed"} /\ UNCHANGED <<syn, bnd, marklist, freemarks, tool, files, live>>
  BY DEF AllocInitialise
<1>4. TypeOK'
  BY <1>1, <1>2, <1>3 DEF IInv, TypeOK
<1>5. Shape'
  BY <1>3 DEF Shape, Running
<1> QED BY <1>4, <1>5 DEF IInv

----------------------------------------------------------------------------
(* The theorem.                                                            *)

LEMMA InitIInv == Init => IInv
<1> SUFFICES ASSUME Init PROVE IInv
  OBVIOUS
<1>1. pool \in PoolType
  BY InitialPoolType DEF Init
<1>2. Duff \in Pointer
  BY SizesNat DEF Duff, Pointer
<1>3. glob \in GlobType /\ syn \in SynType /\ bnd \in BndType
  BY <1>2, EmptySeq, NoCellsType DEF Init, GlobType, SynType, BndType
<1>4. marklist \in Seq(MarkType) /\ freemarks \in Nat /\ files \in 0 .. MaxFiles
  BY EmptySeq, SizesNat DEF Init
<1>5. /\ tool \in BOOLEAN /\ pc \in {"idle", "failed"}
      /\ live \in [Obs -> LiveType \cup {None}]
  BY DEF Init
<1>6. TypeOK
  BY <1>1, <1>3, <1>4, <1>5 DEF TypeOK
<1>7. Shape
  BY <1>5 DEF Shape, Running
<1> QED BY <1>6, <1>7 DEF IInv

LEMMA NextIInv == IInv /\ [Next]_vars => IInv'
<1> SUFFICES ASSUME IInv, [Next]_vars PROVE IInv'
  OBVIOUS
<1>1. ASSUME pc = "run", Common PROVE IInv'
  BY <1>1, SynAllocStep, SynConsStep, EnterStep, SizesNat DEF Common
<1>2. ASSUME pc = "run", Compile PROVE IInv'
  <2>1. ASSUME NEW n \in Sizes, GlobAllocCall(n) \/ BindAlloc(n) PROVE IInv'
    BY <1>2, <2>1, GlobAllocStep, BindAllocStep, SizesNat
  <2>2. ASSUME NEW k \in CellSizes, BindCons(k) PROVE IInv'
    BY <1>2, <2>2, BindConsStep
  <2>3. ASSUME NEW o \in Obs, Discard(o) \/ DiscardFails(o) PROVE IInv'
    BY <1>2, <2>3, DiscardStep, FailStep DEF DiscardFails, Errors
  <2>4. ASSUME AllocMark PROVE IInv'
    BY <1>2, <2>4, AllocMarkStep
  <2>5. ASSUME NEW i \in 2 .. Len(marklist), AllocUnmark(i) PROVE IInv'
    BY <1>2, <2>5, AllocUnmarkStep
  <2>6. ASSUME AllocReinit PROVE IInv'
    BY <1>2, <2>6, AllocReinitStep
  <2>7. ASSUME PerFileFinalise PROVE IInv'
    BY <1>2, <2>7, EnterStep
  <2> QED BY <1>2, <2>1, <2>2, <2>3, <2>4, <2>5, <2>6, <2>7 DEF Compile
<1>3. ASSUME FinaliseEnd PROVE IInv'
  <2>1. TypeOK'
    BY <1>3 DEF FinaliseEnd, IInv, TypeOK
  <2>2. Shape'
    BY <1>3 DEF FinaliseEnd, Shape, Running
  <2> QED BY <2>1, <2>2 DEF IInv
<1>4. ASSUME Loops PROVE IInv'
  BY <1>3, <1>4, DropHunkStep, DropEndStep, RecycleGlobPageStep DEF Loops
<1>5. ASSUME NEW n \in Sizes, PermAllocCall(n) PROVE IInv'
  BY <1>5, PermAllocStep
<1>6. ASSUME NEW command \in BOOLEAN, PerFileInit(command) PROVE IInv'
  BY <1>6, PerFileInitStep
<1>7. ASSUME UNCHANGED vars PROVE IInv'
  BY <1>7 DEF vars, IInv, TypeOK, Shape, Running
<1> QED BY <1>1, <1>2, <1>4, <1>5, <1>6, <1>7, AllocFinaliseStep, AllocInitialiseStep
    DEF Next

\* Whatever is allocated, dropped, marked and unmarked, in however many files
\* and invocations, the statics of mip/store.c keep their types.
THEOREM TypeCorrect == Spec => []TypeOK
<1>1. IInv => TypeOK
  BY DEF IInv
<1> QED BY <1>1, InitIInv, NextIInv, PTL DEF Spec

\* The segment counts that the marks remember stay within the arrays, in order:
\* what lets alloc_unmark and alloc_reinit index them.
THEOREM ShapeCorrect == Spec => []Shape
<1>1. IInv => Shape
  BY DEF IInv
<1> QED BY <1>1, InitIInv, NextIInv, PTL DEF Spec
============================================================================
