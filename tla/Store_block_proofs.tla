-------------------------- MODULE Store_block_proofs --------------------------
(***************************************************************************)
(* Blocks of store stay with their class for as long as they live, and no  *)
(* two in use overlap, for every value of the constants.                   *)
(***************************************************************************)
EXTENDS Store_hunk_proofs

----------------------------------------------------------------------------
(* The inductive invariant.                                                *)

\* A block of k words at p lies below the free pointer top in the last of the
\* first n hunks of seg, or below the free offset of another of them.
Below(seg, ptr, n, top, p, k) ==
  \E i \in 1 .. n : seg[i] = p.hunk /\ p.off + k <= IF i = n THEN top.off ELSE ptr[i]

\* Store of Glob up to offset e of hunk h, which will not be handed out again.
GlobUpTo(g, h, e) ==
  \E i \in 1 .. Len(g.seg) :
    g.seg[i].hunk = h /\ e <= IF h = g.allp.hunk THEN g.allp.off ELSE g.seg[i].size

\* The free store of Glob ends with one of its pages, and no page is smaller
\* than a hunk.
GlobSound(g) ==
  g.allp = Duff \/ \E i \in 1 .. Len(g.seg) :
                     /\ g.seg[i].hunk = g.allp.hunk /\ g.seg[i].size = g.size
                     /\ g.allp.off <= g.size
PagesWhole(g) ==
  /\ \A i \in 1 .. Len(g.seg) : g.seg[i].size >= SEGSIZE
  /\ \A i \in 1 .. Len(g.os) : g.os[i].size >= SEGSIZE

GlobInv == /\ Sound => PagesWhole(glob)
           /\ pc \in {"run", "drop"} => GlobSound(glob)

\* Where an object of each class must lie.  One of Syn or Bind also lies below
\* every mark set after it: that is what it falls back on when alloc_unmark,
\* alloc_reinit or drop_local_store goes back to the mark.
SynUnder(x) ==
  \A i \in 1 .. Len(marklist) : x.level < i =>
    Below(syn.seg, syn.ptr, marklist[i].synno, marklist[i].synp, x, x.size)
BindUnder(x) ==
  \A i \in 1 .. Len(marklist) : x.level < i =>
    Below(pool.bindseg, bnd.ptr, marklist[i].bindno, marklist[i].bindp, x, x.size)

PermOK(x) == x.class = "perm" => PermUpTo(pool, x.hunk, x.off + x.size) /\ x.level = 0
GlobOK(x) == x.class = "glob" => GlobUpTo(glob, x.hunk, x.off + x.size) /\ x.level = 0
SynOK(x)  == x.class = "syn" =>
               /\ x.off + x.size <= SEGSIZE /\ (Dropping => x.level < Len(marklist))
               /\ HeldSyn(x, x.size) /\ SynUnder(x)
BindOK(x) == x.class = "bind" => HeldBind(x, x.size) /\ BindUnder(x)
ObjOK(x)  == /\ x.class # "perm" => pc \in {"run", "drop"}
             /\ PermOK(x) /\ GlobOK(x) /\ SynOK(x) /\ BindOK(x)

ObjInv == /\ Sound => \A o \in Live : ObjOK(live[o])
          /\ pc = "exit" => Live = {}

\* A cell of Syn fits in a hunk, whatever becomes of the free pointer.
CellInv == /\ FreeCellsDead
           /\ Running => \A k \in CellSizes : \A a \in 1 .. Len(syn.free[k]) :
                           syn.free[k][a].off + k <= SEGSIZE

----------------------------------------------------------------------------
(* Stacks of hunks: Syn and Bind.                                          *)

\* The first n hunks and the free offsets of those before the n-th are kept.
Low(seg, ptr, seg2, ptr2, n) ==
  SameUpTo(seg, seg2, n) /\ \A i \in 1 .. n - 1 : ptr2[i] = ptr[i]

\* No hunk is twice among the first n.
Single(seg, n) == \A i, j \in 1 .. n : seg[i] = seg[j] => i = j

\* From one state of a stack to another a block of n words at b is handed out:
\* what was held is held still, apart from the block, and the block is held.
Grows(seg, ptr, c, top, seg2, ptr2, c2, top2, b, n) ==
  /\ \A q : \A m \in Nat : q.off \in Nat /\ Below(seg, ptr, c, top, q, m) =>
       Below(seg2, ptr2, c2, top2, q, m) /\ Disjoint(b, n, q, m)
  /\ Below(seg2, ptr2, c2, top2, b, n)

LEMMA BelowKept ==
  ASSUME NEW seg, NEW ptr, NEW seg2, NEW ptr2, NEW n \in Nat, NEW m \in Nat, m <= n,
         Low(seg, ptr, seg2, ptr2, n)
  PROVE  \A top, p, k : Below(seg, ptr, m, top, p, k) => Below(seg2, ptr2, m, top, p, k)
<1> SUFFICES ASSUME NEW top, NEW p, NEW k, Below(seg, ptr, m, top, p, k)
             PROVE  Below(seg2, ptr2, m, top, p, k)
  OBVIOUS
<1>1. PICK i \in 1 .. m : seg[i] = p.hunk /\ p.off + k <= IF i = m THEN top.off ELSE ptr[i]
  BY DEF Below
<1>2. seg2[i] = p.hunk
  BY <1>1 DEF Low, SameUpTo
<1>3. i = m \/ ptr2[i] = ptr[i]
  BY <1>1 DEF Low
<1>4. p.off + k <= IF i = m THEN top.off ELSE ptr2[i]
  BY <1>1, <1>3
<1> QED BY <1>2, <1>4 DEF Below

LEMMA InjectiveSingle ==
  ASSUME NEW seg, IsInjective(seg), NEW n \in Nat, n <= Len(seg), NEW S, seg \in Seq(S)
  PROVE  Single(seg, n)
<1>1. DOMAIN seg = 1 .. Len(seg) /\ Len(seg) \in Nat
  BY LenProperties
<1>2. \A i \in 1 .. n : i \in DOMAIN seg
  BY <1>1
<1> QED BY <1>2 DEF IsInjective, Single

\* n words more of the last hunk.
LEMMA GrowBump ==
  ASSUME NEW seg, NEW ptr, NEW c \in Nat, NEW top \in Pointer, NEW n \in Nat,
         Single(seg, c), At(top, seg, c), Fits(top, n, SEGSIZE)
  PROVE  Grows(seg, ptr, c, top, seg, ptr, c, Advance(top, n), top, n)
<1> DEFINE up == Advance(top, n)
<1>1. /\ top # Duff /\ top.off \in Nat /\ up.off = top.off + n /\ up.hunk = top.hunk
  BY DEF Fits, Advance, Pointer
<1>2. c \in 1 .. c /\ seg[c] = top.hunk
  BY <1>1 DEF At
<1> HIDE DEF up
<1>3. ASSUME NEW q, NEW m \in Nat, q.off \in Nat, Below(seg, ptr, c, top, q, m)
      PROVE  Below(seg, ptr, c, up, q, m) /\ Disjoint(top, n, q, m)
  <2>1. PICK i \in 1 .. c : /\ seg[i] = q.hunk
                            /\ q.off + m <= IF i = c THEN top.off ELSE ptr[i]
    BY <1>3 DEF Below
  <2>2. q.off + m <= IF i = c THEN up.off ELSE ptr[i]
    BY <1>1, <1>3, <2>1
  <2>3. q.hunk = top.hunk => q.off + m <= top.off
    BY <1>2, <2>1 DEF Single
  <2> QED BY <2>1, <2>2, <2>3 DEF Below, Disjoint
<1>4. Below(seg, ptr, c, up, top, n)
  <2>1. top.off + n <= IF c = c THEN up.off ELSE ptr[c]
    BY <1>1
  <2> QED BY <1>2, <2>1 DEF Below
<1> QED BY <1>3, <1>4 DEF Grows, up

\* n words of the i-th hunk, which becomes the last of the c in use.
Scavenges(r, seg, c, i, n, seg2, ptr2, top2, b) ==
  /\ c = Len(r.ptr) /\ i \in 1 .. c
  /\ seg2 = Swap(seg, i, c)
  /\ ptr2 = [Stash(r) EXCEPT ![i] = Stash(r)[c], ![c] = 0]
  /\ top2 = [hunk |-> seg[i], off |-> Stash(r)[i] + n]
  /\ b = [hunk |-> seg[i], off |-> Stash(r)[i]]

LEMMA GrowScavenge ==
  ASSUME NEW r, NEW seg, NEW c, NEW i, NEW n, NEW seg2, NEW ptr2, NEW top2, NEW b,
         Scavenges(r, seg, c, i, n, seg2, ptr2, top2, b),
         r.ptr \in Seq(Nat), r.allp \in Pointer, seg \in Seq(Hunk), n \in Nat,
         c <= Len(seg), Single(seg, c)
  PROVE  /\ Grows(seg, r.ptr, c, r.allp, seg2, ptr2, c, top2, b, n)
         /\ \A k \in 1 .. i - 1 : ptr2[k] = r.ptr[k]
<1>0. /\ c = Len(r.ptr) /\ i \in 1 .. c /\ seg2 = Swap(seg, i, c)
      /\ ptr2 = [Stash(r) EXCEPT ![i] = Stash(r)[c], ![c] = 0]
      /\ top2 = [hunk |-> seg[i], off |-> Stash(r)[i] + n]
      /\ b = [hunk |-> seg[i], off |-> Stash(r)[i]]
  BY DEF Scavenges
<1> DEFINE t == Stash(r)
<1>1. c \in Nat /\ c \in 1 .. c /\ t \in Seq(Nat) /\ Len(t) = c /\ Len(seg) \in Nat
  BY <1>0, StashFacts, LenProperties
<1>2. t[c] = r.allp.off /\ \A k \in 1 .. c : k # c => t[k] = r.ptr[k]
  <2>1. r.ptr # <<>> /\ DOMAIN r.ptr = 1 .. c
    BY <1>0, <1>1, EmptySeq, LenProperties
  <2> QED BY <1>1, <2>1 DEF Stash
<1>3. \A k \in 1 .. c : t[k] \in Nat
  BY <1>1, ElementOfSeq
<1>4. \A k \in 1 .. c : seg2[k] = IF k = c THEN seg[i] ELSE IF k = i THEN seg[c] ELSE seg[k]
  <2>1. c \in 1 .. Len(seg) /\ i \in 1 .. Len(seg) /\ \A k \in 1 .. c : k \in 1 .. Len(seg)
    BY <1>0, <1>1
  <2> DEFINE w == Swap(seg, i, c)
  <2>2. \A k \in 1 .. Len(seg) : w[k] = IF k = c THEN seg[i]
                                        ELSE IF k = i THEN seg[c] ELSE seg[k]
    BY <2>1, SwapSet
  <2>3. seg2 = w
    BY <1>0
  <2> HIDE DEF w
  <2> QED BY <2>1, <2>2, <2>3
<1>5. \A k \in 1 .. c : ptr2[k] = IF k = c THEN 0 ELSE IF k = i THEN t[c] ELSE t[k]
  <2>1. DOMAIN t = 1 .. c
    BY <1>1, LenProperties
  <2>2. ptr2 = [t EXCEPT ![i] = t[c], ![c] = 0]
    BY <1>0
  <2>3. i \in 1 .. c
    BY <1>0
  <2> HIDE DEF t
  <2> QED BY <1>1, <2>1, <2>2, <2>3
<1>6. b.hunk = seg[i] /\ b.off = t[i] /\ top2.off = t[i] + n /\ t[i] \in Nat
  BY <1>0, <1>3
<1> HIDE DEF t
<1>7. ASSUME NEW q, NEW m \in Nat, q.off \in Nat, Below(seg, r.ptr, c, r.allp, q, m)
      PROVE  Below(seg2, ptr2, c, top2, q, m) /\ Disjoint(b, n, q, m)
  <2>1. PICK j \in 1 .. c : /\ seg[j] = q.hunk
                            /\ q.off + m <= IF j = c THEN r.allp.off ELSE r.ptr[j]
    BY <1>7 DEF Below
  <2>2. q.off + m <= t[j] /\ t[j] \in Nat /\ q.off + m \in Nat
    BY <1>2, <1>3, <1>7, <2>1
  <2>3. Disjoint(b, n, q, m)
    <3>1. q.hunk = b.hunk => j = i
      BY <1>0, <1>6, <2>1 DEF Single
    <3> QED BY <1>6, <2>2, <3>1 DEF Disjoint
  <2>4. CASE j = i
    <3>1. seg2[c] = q.hunk /\ q.off + m <= top2.off
      BY <1>1, <1>4, <1>6, <2>1, <2>2, <2>4
    <3> QED BY <1>1, <2>3, <3>1 DEF Below
  <2>5. CASE j # i /\ j = c
    <3>1. seg2[i] = q.hunk /\ q.off + m <= ptr2[i] /\ i # c
      BY <1>0, <1>4, <1>5, <2>1, <2>2, <2>5
    <3> QED BY <1>0, <2>3, <3>1 DEF Below
  <2>6. CASE j # i /\ j # c
    <3>1. seg2[j] = q.hunk /\ q.off + m <= ptr2[j]
      BY <1>4, <1>5, <2>1, <2>2, <2>6
    <3> QED BY <2>3, <2>6, <3>1 DEF Below
  <2> QED BY <2>4, <2>5, <2>6
<1>8. Below(seg2, ptr2, c, top2, b, n)
  <2>1. seg2[c] = b.hunk /\ b.off + n <= top2.off
    BY <1>1, <1>4, <1>6
  <2> QED BY <1>1, <2>1 DEF Below
<1>9. \A k \in 1 .. i - 1 : ptr2[k] = r.ptr[k]
  <2> DEFINE d == c
  <2>1. i \in Nat /\ d \in Nat /\ i <= d
    BY <1>0, <1>1
  <2> HIDE DEF d
  <2>2. \A k \in 1 .. i - 1 : k \in 1 .. d /\ k # d /\ k # i
    BY <2>1
  <2>3. \A k \in 1 .. i - 1 : k \in 1 .. c /\ k # c /\ k # i
    BY <2>2 DEF d
  <2> QED BY <1>0, <1>2, <1>5, <2>3
<1> QED BY <1>7, <1>8, <1>9 DEF Grows

\* The first n words of a hunk h more, which is the d-th.
Extends(r, seg, c, d, h, n, seg2, ptr2, top2, b) ==
  /\ c = Len(r.ptr) /\ d = c + 1
  /\ SameUpTo(seg, seg2, c) /\ seg2[d] = h /\ \A i \in 1 .. c : seg[i] # h
  /\ ptr2 = Append(Stash(r), 0)
  /\ top2 = [hunk |-> h, off |-> n] /\ b = [hunk |-> h, off |-> 0]

LEMMA GrowHunk ==
  ASSUME NEW r, NEW seg, NEW c, NEW d, NEW h, NEW n, NEW seg2, NEW ptr2, NEW top2, NEW b,
         Extends(r, seg, c, d, h, n, seg2, ptr2, top2, b),
         r.ptr \in Seq(Nat), r.allp \in Pointer, n \in Nat
  PROVE  /\ Grows(seg, r.ptr, c, r.allp, seg2, ptr2, d, top2, b, n)
         /\ \A k \in 1 .. c - 1 : ptr2[k] = r.ptr[k]
<1> DEFINE t == Stash(r)
<1>1. c \in Nat /\ d = c + 1 /\ t \in Seq(Nat) /\ Len(t) = c /\ Len(r.ptr) = c
  BY StashFacts, LenProperties DEF Extends
<1>0. /\ SameUpTo(seg, seg2, c) /\ seg2[d] = h /\ \A i \in 1 .. c : seg[i] # h
      /\ ptr2 = Append(t, 0) /\ top2 = [hunk |-> h, off |-> n]
      /\ b = [hunk |-> h, off |-> 0]
  BY DEF Extends
<1>2. \A k \in 1 .. c : t[k] = IF k = c THEN r.allp.off ELSE r.ptr[k]
  <2>1. CASE r.ptr = <<>>
    <3>1. c = 0
      BY <1>1, <2>1
    <3> QED BY <3>1
  <2>2. CASE r.ptr # <<>>
    <3>1. DOMAIN r.ptr = 1 .. c
      BY <1>1, LenProperties
    <3> QED BY <1>1, <2>2, <3>1 DEF Stash
  <2> QED BY <2>1, <2>2
<1>3. \A k \in 1 .. c : ptr2[k] = t[k]
  <2> HIDE DEF t
  <2> QED BY <1>0, <1>1, AppendProperties
<1> HIDE DEF t
<1>4. ASSUME NEW q, NEW m \in Nat, q.off \in Nat, Below(seg, r.ptr, c, r.allp, q, m)
      PROVE  Below(seg2, ptr2, d, top2, q, m) /\ Disjoint(b, n, q, m)
  <2>1. PICK j \in 1 .. c : /\ seg[j] = q.hunk
                            /\ q.off + m <= IF j = c THEN r.allp.off ELSE r.ptr[j]
    BY <1>4 DEF Below
  <2>2. j # d /\ j \in 1 .. d
    BY <1>1
  <2>3. ptr2[j] = IF j = c THEN r.allp.off ELSE r.ptr[j]
    BY <1>2, <1>3
  <2>4. seg2[j] = q.hunk
    BY <1>0, <2>1 DEF SameUpTo
  <2>5. q.off + m <= ptr2[j] /\ q.hunk # h
    BY <1>0, <2>1, <2>3
  <2> QED BY <1>0, <2>2, <2>4, <2>5 DEF Below, Disjoint
<1>5. Below(seg2, ptr2, d, top2, b, n)
  <2>1. d \in 1 .. d /\ seg2[d] = b.hunk /\ b.off + n <= top2.off
    BY <1>0, <1>1
  <2> QED BY <2>1 DEF Below
<1>6. \A k \in 1 .. c - 1 : ptr2[k] = r.ptr[k]
  <2>1. \A k \in 1 .. c - 1 : k \in 1 .. c /\ k # c
    BY <1>1
  <2> QED BY <1>2, <1>3, <2>1
<1> QED BY <1>4, <1>5, <1>6 DEF Grows

----------------------------------------------------------------------------
(* What a step keeps.                                                      *)

\* HeldSyn and HeldBind are about blocks below the free pointers.
HeldAsBelow ==
  Running => \A p : \A k \in Nat :
    /\ ~Dropping => (HeldSyn(p, k) <=> Below(syn.seg, syn.ptr, Len(syn.seg), syn.allp, p, k))
    /\ HeldBind(p, k) <=> Below(pool.bindseg, bnd.ptr, pool.bindsegcur, bnd.allp, p, k)

LEMMA HeldFacts == IInv => HeldAsBelow
<1> SUFFICES ASSUME IInv, Running, NEW p, NEW k \in Nat
             PROVE  /\ ~Dropping => (HeldSyn(p, k) <=>
                                 Below(syn.seg, syn.ptr, Len(syn.seg), syn.allp, p, k))
                    /\ HeldBind(p, k) <=>
                         Below(pool.bindseg, bnd.ptr, pool.bindsegcur, bnd.allp, p, k)
  BY DEF HeldAsBelow
<1>1. /\ Len(syn.seg) \in Nat /\ pool.bindsegcur \in Nat /\ Len(pool.bindseg) \in Nat
      /\ pool.bindsegcur <= Len(pool.bindseg)
  BY HunkyFields
<1>2. ~Dropping => \A i \in 1 .. Len(syn.seg) :
        SynTop(i) = IF i = Len(syn.seg) THEN syn.allp.off ELSE syn.ptr[i]
  BY <1>1 DEF SynTop
<1>3. ~Dropping => (HeldSyn(p, k) <=>
                     Below(syn.seg, syn.ptr, Len(syn.seg), syn.allp, p, k))
  BY <1>2 DEF HeldSyn, Below
<1>4. \A i \in 1 .. pool.bindsegcur : i \in 1 .. Len(pool.bindseg) /\ i <= pool.bindsegcur
  BY <1>1
<1>5. \A i \in 1 .. Len(pool.bindseg) : i <= pool.bindsegcur => i \in 1 .. pool.bindsegcur
  BY <1>1
<1>6. HeldBind(p, k) <=> Below(pool.bindseg, bnd.ptr, pool.bindsegcur, bnd.allp, p, k)
  BY <1>4, <1>5 DEF HeldBind, BindTop, Below
<1> QED BY <1>3, <1>6

LEMMA HeldFactsNext == IInv' => HeldAsBelow'
BY HeldFacts, PTL

\* What the classes still hold after a step.
PermKeeps == \A h : \A e \in Nat : PermUpTo(pool, h, e) => PermUpTo(pool', h, e)
GlobKeeps == \A h : \A e \in Nat : GlobUpTo(glob, h, e) => GlobUpTo(glob', h, e)
SynKeeps  == /\ \A p : \A k \in Nat : p.off \in Nat /\ HeldSyn(p, k) => HeldSyn(p, k)'
             /\ \A x : SynUnder(x) => SynUnder(x)'
BindKeeps == /\ \A p : \A k \in Nat : p.off \in Nat /\ HeldBind(p, k) => HeldBind(p, k)'
             /\ \A x : BindUnder(x) => BindUnder(x)'

LEMMA UnderKept ==
  ASSUME IInv, SamePlaces(marklist, marklist'), NEW a \in Nat, NEW b \in Nat,
         Low(syn.seg, syn.ptr, syn'.seg, syn'.ptr, a),
         Low(pool.bindseg, bnd.ptr, pool'.bindseg, bnd'.ptr, b),
         \A i \in 1 .. Len(marklist) : marklist[i].synno <= a /\ marklist[i].bindno <= b
  PROVE  \A x : (SynUnder(x) => SynUnder(x)') /\ (BindUnder(x) => BindUnder(x)')
<1> SUFFICES ASSUME NEW x, NEW i \in 1 .. Len(marklist'), x.level < i
             PROVE  /\ SynUnder(x) => Below(syn'.seg, syn'.ptr, marklist'[i].synno,
                                            marklist'[i].synp, x, x.size)
                    /\ BindUnder(x) => Below(pool'.bindseg, bnd'.ptr, marklist'[i].bindno,
                                             marklist'[i].bindp, x, x.size)
  BY DEF SynUnder, BindUnder
<1>1. i \in 1 .. Len(marklist)
  BY DEF SamePlaces
<1> DEFINE m == marklist[i]
<1>2. /\ m.synno = marklist'[i].synno /\ m.synp = marklist'[i].synp
      /\ m.bindno = marklist'[i].bindno /\ m.bindp = marklist'[i].bindp
  BY <1>1 DEF SamePlaces
<1>3. m.synno \in Nat /\ m.bindno \in Nat /\ m.synno <= a /\ m.bindno <= b
  BY <1>1, MarkFields DEF IInv
<1>4. /\ SynUnder(x) => Below(syn.seg, syn.ptr, m.synno, m.synp, x, x.size)
      /\ BindUnder(x) => Below(pool.bindseg, bnd.ptr, m.bindno, m.bindp, x, x.size)
  BY <1>1 DEF SynUnder, BindUnder
<1> HIDE DEF m
<1>5. SynUnder(x) => Below(syn'.seg, syn'.ptr, m.synno, m.synp, x, x.size)
  BY <1>3, <1>4, BelowKept
<1>6. BindUnder(x) => Below(pool'.bindseg, bnd'.ptr, m.bindno, m.bindp, x, x.size)
  BY <1>3, <1>4, BelowKept
<1> QED BY <1>2, <1>5, <1>6

LEMMA LowSame == ASSUME NEW seg, NEW ptr, NEW n, n <= Len(seg) PROVE Low(seg, ptr, seg, ptr, n)
BY DEF Low, SameUpTo

LEMMA HeldBindKept ==
  ASSUME IInv, IInv', Running, Running', BindKept(pool, pool'),
         bnd'.ptr = bnd.ptr, bnd'.allp = bnd.allp
  PROVE  \A p : \A k \in Nat : HeldBind(p, k) => HeldBind(p, k)'
<1> SUFFICES ASSUME NEW p, NEW k \in Nat, HeldBind(p, k) PROVE HeldBind(p, k)'
  OBVIOUS
<1>1. Below(pool.bindseg, bnd.ptr, pool.bindsegcur, bnd.allp, p, k)
  BY HeldFacts DEF HeldAsBelow
<1>2. pool.bindsegcur <= pool.bindsegcur /\ pool.bindsegcur \in Nat
  BY HunkyFields
<1>3. /\ Low(pool.bindseg, bnd.ptr, pool'.bindseg, bnd'.ptr, pool.bindsegcur)
      /\ pool'.bindsegcur = pool.bindsegcur
  BY DEF BindKept, Low
<1>4. Below(pool'.bindseg, bnd'.ptr, pool'.bindsegcur, bnd'.allp, p, k)
  BY <1>1, <1>2, <1>3, BelowKept
<1> QED BY <1>4, HeldFactsNext DEF HeldAsBelow

\* The free pointers of the stacks and the hunks they use stay.
LEMMA StacksSame ==
  ASSUME IInv, IInv', Running, Running', SamePlaces(marklist, marklist'),
         syn'.seg = syn.seg, syn'.ptr = syn.ptr, syn'.allp = syn.allp,
         bnd'.ptr = bnd.ptr, bnd'.allp = bnd.allp, BindKept(pool, pool'),
         Dropping <=> Dropping'
  PROVE  SynKeeps /\ BindKeeps
<1>1. /\ Len(syn.seg) \in Nat /\ pool.bindsegcur \in Nat
      /\ \A i \in 1 .. Len(marklist) : /\ marklist[i].synno <= Len(syn.seg)
                                       /\ marklist[i].bindno <= pool.bindsegcur
  BY HunkyFields DEF IInv, Shape
<1>2. Low(syn.seg, syn.ptr, syn'.seg, syn'.ptr, Len(syn.seg))
  BY <1>1, LowSame
<1>3. /\ Low(pool.bindseg, bnd.ptr, pool'.bindseg, bnd'.ptr, pool.bindsegcur)
      /\ pool'.bindsegcur = pool.bindsegcur
  BY DEF BindKept, Low
<1>4. \A x : (SynUnder(x) => SynUnder(x)') /\ (BindUnder(x) => BindUnder(x)')
  BY <1>1, <1>2, <1>3, UnderKept
<1>5. \A p : \A k \in Nat : HeldSyn(p, k) => HeldSyn(p, k)'
  BY DEF HeldSyn, SynTop
<1>6. \A p : \A k \in Nat : HeldBind(p, k) => HeldBind(p, k)'
  BY HeldBindKept
<1> QED BY <1>4, <1>5, <1>6 DEF SynKeeps, BindKeeps

----------------------------------------------------------------------------
(* What SynAlloc, BindAlloc, PermAlloc and GlobAlloc hand out.             *)

\* A block of n words at b is handed out of Syn, or of Bind: it was free.
SynGives(b, n) ==
  /\ b.off + n <= SEGSIZE /\ HeldSyn(b, n)'
  /\ \A q : \A m \in Nat : q.off \in Nat /\ HeldSyn(q, m) => Disjoint(b, n, q, m)
BindGives(b, n) ==
  /\ HeldBind(b, n)'
  /\ \A q : \A m \in Nat : q.off \in Nat /\ HeldBind(q, m) => Disjoint(b, n, q, m)

LEMMA SynGrown ==
  ASSUME IInv, IInv', pc = "run", pc' = "run", NEW b, NEW n \in Nat, b.off + n <= SEGSIZE,
         \A x : SynUnder(x) => SynUnder(x)',
         Grows(syn.seg, syn.ptr, Len(syn.seg), syn.allp,
               syn'.seg, syn'.ptr, Len(syn'.seg), syn'.allp, b, n)
  PROVE  SynKeeps /\ SynGives(b, n)
<1>1. Running /\ Running' /\ ~Dropping /\ ~Dropping'
  BY DEF Running, Dropping
<1>2. \A p : \A k \in Nat :
        HeldSyn(p, k) <=> Below(syn.seg, syn.ptr, Len(syn.seg), syn.allp, p, k)
  BY <1>1, HeldFacts DEF HeldAsBelow
<1>3. \A p : \A k \in Nat :
        HeldSyn(p, k)' <=> Below(syn'.seg, syn'.ptr, Len(syn'.seg), syn'.allp, p, k)
  BY <1>1, HeldFactsNext DEF HeldAsBelow
<1> QED BY <1>2, <1>3 DEF Grows, SynKeeps, SynGives

LEMMA BindGrown ==
  ASSUME IInv, IInv', pc = "run", pc' = "run", NEW b, NEW n \in Nat,
         \A x : BindUnder(x) => BindUnder(x)',
         Grows(pool.bindseg, bnd.ptr, pool.bindsegcur, bnd.allp,
               pool'.bindseg, bnd'.ptr, pool'.bindsegcur, bnd'.allp, b, n)
  PROVE  BindKeeps /\ BindGives(b, n)
<1>1. Running /\ Running'
  BY DEF Running
<1>2. \A p : \A k \in Nat :
        HeldBind(p, k) <=> Below(pool.bindseg, bnd.ptr, pool.bindsegcur, bnd.allp, p, k)
  BY <1>1, HeldFacts DEF HeldAsBelow
<1>3. \A p : \A k \in Nat :
        HeldBind(p, k)' <=> Below(pool'.bindseg, bnd'.ptr, pool'.bindsegcur, bnd'.allp, p, k)
  BY <1>1, HeldFactsNext DEF HeldAsBelow
<1> QED BY <1>2, <1>3 DEF Grows, BindKeeps, BindGives

\* What the proofs about the stacks start from.
LEMMA StackFacts ==
  ASSUME IInv, Hunky, Running
  PROVE  /\ Single(syn.seg, Len(syn.seg)) /\ Single(pool.bindseg, pool.bindsegcur)
         /\ syn.seg \in Seq(Hunk) /\ syn.ptr \in Seq(Nat) /\ syn.allp \in Pointer
         /\ Len(syn.ptr) = Len(syn.seg) /\ Len(syn.seg) \in Nat
         /\ pool.bindseg \in Seq(Hunk) /\ bnd.ptr \in Seq(Nat) /\ bnd.allp \in Pointer
         /\ Len(bnd.ptr) = pool.bindsegcur /\ pool.bindsegcur \in Nat
         /\ pool.bindsegcur <= Len(pool.bindseg) /\ Len(pool.bindseg) \in Nat
         /\ Tidy(pool, syn.seg, glob)
         /\ Low(syn.seg, syn.ptr, syn.seg, syn.ptr, Len(syn.seg))
         /\ Low(pool.bindseg, bnd.ptr, pool.bindseg, bnd.ptr, pool.bindsegcur)
         /\ \A i \in 1 .. Len(marklist) : /\ marklist[i].synno <= Len(syn.seg)
                                          /\ marklist[i].bindno <= pool.bindsegcur
<1>1. /\ syn \in SynType /\ bnd \in BndType /\ Tidy(pool, syn.seg, glob)
      /\ pool.bindsegcur <= Len(pool.bindseg) /\ Len(pool.bindseg) \in Nat
      /\ pool.bindseg \in Seq(Hunk) /\ pool.bindsegcur \in Nat
  BY HunkyFields DEF Hunky, IInv, TypeOK
<1>2. /\ syn.seg \in Seq(Hunk) /\ syn.ptr \in Seq(Nat) /\ syn.allp \in Pointer
      /\ bnd.ptr \in Seq(Nat) /\ bnd.allp \in Pointer /\ Len(syn.seg) \in Nat
  BY <1>1, SynFields, BndFields
<1>3. IsInjective(syn.seg) /\ IsInjective(pool.bindseg)
  BY <1>1 DEF Tidy, GlobApart, Apart
<1>4. Len(syn.seg) <= Len(syn.seg)
  BY <1>2
<1>5. Single(syn.seg, Len(syn.seg)) /\ Single(pool.bindseg, pool.bindsegcur)
  BY <1>1, <1>2, <1>3, <1>4, InjectiveSingle
<1>6. /\ Low(syn.seg, syn.ptr, syn.seg, syn.ptr, Len(syn.seg))
      /\ Low(pool.bindseg, bnd.ptr, pool.bindseg, bnd.ptr, pool.bindsegcur)
  BY <1>1, <1>4, LowSame
<1> QED BY <1>1, <1>2, <1>5, <1>6 DEF IInv, Shape

LEMMA SynAllocGives ==
  ASSUME IInv, IInv', Hunky, MarksRestore, pc = "run", NEW n \in Nat, SynAlloc(n)
  PROVE  \/ \E e : Fail(e)
         \/ /\ \E b \in Pointer : Note("syn", b, n) /\ SynGives(b, n)
            /\ SynKeeps /\ BindKeeps /\ PermKeeps
            /\ syn'.free = syn.free /\ UNCHANGED <<glob, bnd, marklist, pc>>
<1>0. /\ Running /\ ~Dropping /\ syn \in SynType /\ At(syn.allp, syn.seg, Len(syn.seg))
      /\ Top.synno \in Nat /\ \A i \in 1 .. Len(marklist) : marklist[i].synno <= Top.synno
  BY NotDropping, MarksRestoreParts, HunkyFields, TopFacts
<1>1. CASE \E e : Fail(e)
  BY <1>1
<1>2. CASE SynBump(n) /\ n <= SEGSIZE /\ UNCHANGED <<glob, bnd, marklist>>
  <2>1. PICK b : b = syn.allp
    OBVIOUS
  <2>2. /\ UNCHANGED <<pool, pc>> /\ Fits(b, n, SEGSIZE) /\ Note("syn", b, n)
        /\ syn' = [syn EXCEPT !.allp = Advance(b, n)]
    BY <1>2, <2>1 DEF SynBump
  <2>3. /\ syn'.seg = syn.seg /\ syn'.ptr = syn.ptr /\ syn'.allp = Advance(b, n)
        /\ syn'.free = syn.free
    BY <1>0, <2>2 DEF SynType
  <2>4. b \in Pointer /\ b.off \in Nat /\ b.off + n <= SEGSIZE
    BY <1>0, <2>1, <2>2, StackFacts DEF Fits, Pointer
  <2>5. Grows(syn.seg, syn.ptr, Len(syn.seg), b, syn.seg, syn.ptr, Len(syn.seg),
              Advance(b, n), b, n)
    BY <1>0, <2>1, <2>2, <2>4, StackFacts, GrowBump
  <2>6. \A x : (SynUnder(x) => SynUnder(x)') /\ (BindUnder(x) => BindUnder(x)')
    BY <1>0, <1>2, <2>2, <2>3, StackFacts, UnderKept, SameList
  <2>7. SynKeeps /\ SynGives(b, n)
    BY <1>2, <2>1, <2>2, <2>3, <2>4, <2>5, <2>6, SynGrown
  <2>8. BindKeeps
    BY <1>2, <2>2, <2>6 DEF BindKeeps, HeldBind, BindTop
  <2> QED BY <1>2, <2>2, <2>3, <2>4, <2>7, <2>8 DEF PermKeeps
<1>3. CASE SynScavenge(n) /\ n <= SEGSIZE /\ UNCHANGED <<glob, bnd, marklist>>
  <2>1. PICK i \in Scraps(syn, Top.synno, n) :
          /\ i \in Top.synno + 1 .. Len(syn.seg) /\ i \in 1 .. Len(syn.seg)
          /\ Len(syn.seg) \in 1 .. Len(syn.seg)
          /\ syn'.seg = Swap(syn.seg, i, Len(syn.seg))
          /\ syn'.ptr = [Stash(syn) EXCEPT ![i] = Stash(syn)[Len(syn.seg)],
                                           ![Len(syn.seg)] = 0]
          /\ syn'.allp = [hunk |-> syn.seg[i], off |-> Stash(syn)[i] + n]
          /\ syn'.free = syn.free
          /\ Note("syn", [hunk |-> syn.seg[i], off |-> Stash(syn)[i]], n)
    BY <1>3, SynScavengeEffect
  <2>2. PICK b : b = [hunk |-> syn.seg[i], off |-> Stash(syn)[i]]
    OBVIOUS
  <2>3. UNCHANGED <<pool, pc>>
    BY <1>3 DEF SynScavenge
  <2>4. /\ b \in Pointer /\ b.off \in Nat /\ b.off + n <= SEGSIZE
    <3>1. Stash(syn)[i] \in Nat /\ Stash(syn)[i] + n <= SEGSIZE
      BY <1>0, <2>1, StackFacts, ScrapFits
    <3>2. syn.seg[i] \in Hunk
      BY <1>0, <2>1, StackFacts, ElementOfSeq
    <3> QED BY <2>2, <3>1, <3>2, PointerType
  <2>5. /\ Grows(syn.seg, syn.ptr, Len(syn.seg), syn.allp,
                 syn'.seg, syn'.ptr, Len(syn.seg), syn'.allp, b, n)
        /\ \A k \in 1 .. i - 1 : syn'.ptr[k] = syn.ptr[k]
    <3>1. PICK c, t, u, p :
            /\ c = Len(syn.seg) /\ t = Swap(syn.seg, i, c)
            /\ u = [Stash(syn) EXCEPT ![i] = Stash(syn)[c], ![c] = 0]
            /\ p = [hunk |-> syn.seg[i], off |-> Stash(syn)[i] + n]
      OBVIOUS
    <3>2. /\ c = Len(syn.ptr) /\ c <= Len(syn.seg) /\ i \in 1 .. c /\ Single(syn.seg, c)
          /\ syn.ptr \in Seq(Nat) /\ syn.allp \in Pointer /\ syn.seg \in Seq(Hunk)
      BY <1>0, <2>1, <3>1, StackFacts
    <3>3. Scavenges(syn, syn.seg, c, i, n, t, u, p, b)
      BY <2>2, <3>1, <3>2 DEF Scavenges
    <3>4. /\ Grows(syn.seg, syn.ptr, c, syn.allp, t, u, c, p, b, n)
          /\ \A k \in 1 .. i - 1 : u[k] = syn.ptr[k]
      BY <3>2, <3>3, GrowScavenge
    <3> QED BY <2>1, <3>1, <3>4
  <2>6. Len(syn'.seg) = Len(syn.seg) /\ Low(syn.seg, syn.ptr, syn'.seg, syn'.ptr, Top.synno)
    <3>1. SameUpTo(syn.seg, syn'.seg, Top.synno) /\ Len(syn'.seg) = Len(syn.seg)
      <4>1. PICK c, t : c = Len(syn.seg) /\ t = Swap(syn.seg, i, c)
        OBVIOUS
      <4>2. c \in 1 .. Len(syn.seg) /\ i \in Top.synno + 1 .. c /\ syn.seg \in Seq(Hunk)
        BY <1>0, <2>1, <4>1, StackFacts
      <4>3. SameUpTo(syn.seg, t, Top.synno) /\ Len(t) = Len(syn.seg)
        BY <1>0, <4>1, <4>2, AtSwap
      <4> QED BY <2>1, <4>1, <4>3
    <3>2. \A k \in 1 .. Top.synno - 1 : k \in 1 .. i - 1
      BY <1>0, <2>1
    <3> QED BY <2>5, <3>1, <3>2 DEF Low
  <2>7. \A x : (SynUnder(x) => SynUnder(x)') /\ (BindUnder(x) => BindUnder(x)')
    BY <1>0, <1>3, <2>3, <2>6, StackFacts, UnderKept, SameList
  <2>8. SynKeeps /\ SynGives(b, n)
    BY <1>3, <2>3, <2>4, <2>5, <2>6, <2>7, SynGrown
  <2>9. BindKeeps
    BY <1>3, <2>3, <2>7 DEF BindKeeps, HeldBind, BindTop
  <2> QED BY <1>3, <2>1, <2>2, <2>3, <2>4, <2>8, <2>9 DEF PermKeeps
<1>4. CASE SynNewHunk(n) /\ n <= SEGSIZE /\ UNCHANGED <<glob, bnd, marklist>>
  <2>1. PICK h \in Hunk :
          /\ h \notin ToSet(syn.seg)
          /\ syn'.seg = Append(syn.seg, h) /\ syn'.ptr = Append(Stash(syn), 0)
          /\ syn'.allp = [hunk |-> h, off |-> n] /\ syn'.free = syn.free
          /\ Passes(pool, pool') /\ BindKept(pool, pool')
          /\ Note("syn", [hunk |-> h, off |-> 0], n)
    BY <1>4, SynNewHunkEffect
  <2>2. UNCHANGED pc
    BY <1>4 DEF SynNewHunk
  <2>a. PICK b, c, t, u, p :
          /\ b = [hunk |-> h, off |-> 0] /\ c = Len(syn.seg) /\ t = Append(syn.seg, h)
          /\ u = Append(Stash(syn), 0) /\ p = [hunk |-> h, off |-> n]
    OBVIOUS
  <2>3. b \in Pointer /\ b.off \in Nat /\ b.off + n <= SEGSIZE
    BY <1>4, <2>a, PointerType
  <2>4. SameUpTo(syn.seg, t, c) /\ t[c + 1] = h /\ Len(t) = c + 1 /\ c \in Nat
    BY <1>0, <2>a, StackFacts, AtAppend
  <2>5. \A i \in 1 .. c : syn.seg[i] # h
    BY <2>1, <2>a, <1>0, StackFacts, SetOfSeq
  <2>6. c = Len(syn.ptr) /\ syn.ptr \in Seq(Nat) /\ syn.allp \in Pointer
    BY <1>0, <2>a, StackFacts
  <2>7. /\ Grows(syn.seg, syn.ptr, c, syn.allp, t, u, c + 1, p, b, n)
        /\ \A k \in 1 .. c - 1 : u[k] = syn.ptr[k]
    <3>1. PICK d : d = c + 1
      OBVIOUS
    <3>3. Extends(syn, syn.seg, c, d, h, n, t, u, p, b)
      BY <2>a, <2>4, <2>5, <2>6, <3>1 DEF Extends
    <3> QED BY <2>6, <3>1, <3>3, GrowHunk
  <2>8. syn'.seg = t /\ syn'.ptr = u /\ syn'.allp = p
    BY <2>1, <2>a
  <2>9. Low(syn.seg, syn.ptr, syn'.seg, syn'.ptr, c)
    BY <2>4, <2>7, <2>8 DEF Low
  <2>10. Low(pool.bindseg, bnd.ptr, pool'.bindseg, bnd'.ptr, pool.bindsegcur)
    BY <1>4, <2>1 DEF Low, BindKept
  <2>11. \A x : (SynUnder(x) => SynUnder(x)') /\ (BindUnder(x) => BindUnder(x)')
    BY <1>0, <1>4, <2>a, <2>9, <2>10, StackFacts, UnderKept, SameList
  <2>12. SynKeeps /\ SynGives(b, n)
    BY <1>4, <2>a, <2>2, <2>3, <2>4, <2>7, <2>8, <2>11, SynGrown
  <2>13. BindKeeps
    BY <1>0, <1>4, <2>1, <2>2, <2>11, HeldBindKept DEF Running, BindKeeps
  <2>14. PermKeeps
    BY <1>0, <2>1, StackFacts, ApartLess DEF Passes, Tidy, GlobApart, PermKeeps
  <2> QED BY <1>4, <2>a, <2>1, <2>2, <2>3, <2>12, <2>13, <2>14
<1> QED BY <1>1, <1>2, <1>3, <1>4 DEF SynAlloc, SynFails

LEMMA BindSingle == IInv /\ Hunky /\ Running => Single(pool.bindseg, pool.bindsegcur)
BY StackFacts

LEMMA BindSingleNext ==
  IInv' /\ Hunky' /\ Running' => Single(pool.bindseg, pool.bindsegcur)'
BY BindSingle, PTL

\* Syn does not move while Bind gives.
LEMMA SynStill ==
  ASSUME UNCHANGED <<syn, pc>>, \A x : SynUnder(x) => SynUnder(x)' PROVE SynKeeps
<1>1. \A p : \A k \in Nat : HeldSyn(p, k) => HeldSyn(p, k)'
  BY DEF HeldSyn, SynTop, Dropping
<1> QED BY <1>1 DEF SynKeeps

LEMMA BindAllocGives ==
  ASSUME IInv, IInv', Hunky, Hunky', MarksRestore, pc = "run", NEW n \in Nat, BindAlloc(n)
  PROVE  \/ \E e : Fail(e)
         \/ /\ \E b \in Pointer : Note("bind", b, n) /\ BindGives(b, n)
            /\ SynKeeps /\ BindKeeps /\ PermKeeps
            /\ bnd'.free = bnd.free /\ UNCHANGED <<glob, syn, marklist, pc>>
<1>0. /\ Running /\ ~Dropping /\ bnd \in BndType
      /\ At(bnd.allp, pool.bindseg, pool.bindsegcur)
      /\ Top.bindno \in Nat /\ \A i \in 1 .. Len(marklist) : marklist[i].bindno <= Top.bindno
  BY NotDropping, MarksRestoreParts, HunkyFields, TopFacts DEF IInv, TypeOK
<1>1. CASE \E e : Fail(e)
  BY <1>1
<1>2. CASE BindBump(n) /\ n <= SEGSIZE /\ UNCHANGED <<glob, syn, marklist>>
  <2>1. PICK b : b = bnd.allp
    OBVIOUS
  <2>2. /\ UNCHANGED <<pool, pc>> /\ Fits(b, n, SEGSIZE) /\ Note("bind", b, n)
        /\ bnd' = [bnd EXCEPT !.allp = Advance(b, n)]
    BY <1>2, <2>1 DEF BindBump
  <2>3. bnd'.ptr = bnd.ptr /\ bnd'.allp = Advance(b, n) /\ bnd'.free = bnd.free
    BY <1>0, <2>2 DEF BndType
  <2>4. b \in Pointer
    BY <1>0, <2>1, StackFacts
  <2>5. Grows(pool.bindseg, bnd.ptr, pool.bindsegcur, b,
              pool.bindseg, bnd.ptr, pool.bindsegcur, Advance(b, n), b, n)
    BY <1>0, <2>1, <2>2, <2>4, StackFacts, GrowBump
  <2>6. \A x : (SynUnder(x) => SynUnder(x)') /\ (BindUnder(x) => BindUnder(x)')
    BY <1>0, <1>2, <2>2, <2>3, StackFacts, UnderKept, SameList
  <2>7. BindKeeps /\ BindGives(b, n)
    BY <1>2, <2>1, <2>2, <2>3, <2>5, <2>6, BindGrown
  <2>8. SynKeeps
    BY <1>2, <2>2, <2>6, SynStill
  <2> QED BY <1>2, <2>2, <2>3, <2>4, <2>7, <2>8 DEF PermKeeps
<1>3. CASE BindScavenge(n) /\ n <= SEGSIZE /\ UNCHANGED <<glob, syn, marklist>>
  <2>1. PICK i \in Scraps(bnd, Top.bindno, n) :
          LET c == pool.bindsegcur
          IN  /\ i \in Top.bindno + 1 .. c /\ i \in 1 .. c /\ c \in 1 .. Len(pool.bindseg)
              /\ pool' = [pool EXCEPT !.bindseg = Swap(pool.bindseg, i, c)]
              /\ pool'.bindseg = Swap(pool.bindseg, i, c) /\ pool'.bindsegcur = c
              /\ bnd'.ptr = [Stash(bnd) EXCEPT ![i] = Stash(bnd)[c], ![c] = 0]
              /\ bnd'.allp = [hunk |-> pool.bindseg[i], off |-> Stash(bnd)[i] + n]
              /\ bnd'.free = bnd.free
              /\ Note("bind", [hunk |-> pool.bindseg[i], off |-> Stash(bnd)[i]], n)
    BY <1>3, BindScavengeEffect
  <2>2. PICK c, b, t, u, p :
          /\ c = pool.bindsegcur /\ b = [hunk |-> pool.bindseg[i], off |-> Stash(bnd)[i]]
          /\ t = Swap(pool.bindseg, i, c)
          /\ u = [Stash(bnd) EXCEPT ![i] = Stash(bnd)[c], ![c] = 0]
          /\ p = [hunk |-> pool.bindseg[i], off |-> Stash(bnd)[i] + n]
    OBVIOUS
  <2>3. /\ i \in Top.bindno + 1 .. c /\ i \in 1 .. c /\ c \in 1 .. Len(pool.bindseg)
        /\ pool' = [pool EXCEPT !.bindseg = t] /\ pool'.bindseg = t /\ pool'.bindsegcur = c
        /\ bnd'.ptr = u /\ bnd'.allp = p /\ bnd'.free = bnd.free /\ Note("bind", b, n)
    BY <2>1, <2>2
  <2>4. UNCHANGED pc
    BY <1>3 DEF BindScavenge
  <2>5. /\ c = Len(bnd.ptr) /\ c <= Len(pool.bindseg) /\ Single(pool.bindseg, c)
        /\ bnd.ptr \in Seq(Nat) /\ bnd.allp \in Pointer /\ pool.bindseg \in Seq(Hunk)
        /\ Len(pool.bindseg) \in Nat /\ c \in Nat
    BY <1>0, <2>2, StackFacts
  <2>6. b \in Pointer
    <3>1. Stash(bnd)[i] \in Nat
      BY <1>0, <2>1, <2>5, ScrapFits
    <3>2. pool.bindseg[i] \in Hunk
      <4>1. i \in 1 .. Len(pool.bindseg)
        BY <2>3, <2>5
      <4> QED BY <4>1, <2>5, ElementOfSeq
    <3> QED BY <2>2, <3>1, <3>2, PointerType
  <2>7. /\ Grows(pool.bindseg, bnd.ptr, c, bnd.allp, t, u, c, p, b, n)
        /\ \A k \in 1 .. i - 1 : u[k] = bnd.ptr[k]
    <3>1. Scavenges(bnd, pool.bindseg, c, i, n, t, u, p, b)
      BY <2>2, <2>3, <2>5 DEF Scavenges
    <3> QED BY <2>5, <3>1, GrowScavenge
  <2>8. Low(pool.bindseg, bnd.ptr, pool'.bindseg, bnd'.ptr, Top.bindno)
    <3>1. SameUpTo(pool.bindseg, t, Top.bindno)
      BY <1>0, <2>2, <2>3, <2>5, AtSwap
    <3>2. \A k \in 1 .. Top.bindno - 1 : k \in 1 .. i - 1
      BY <1>0, <2>3, <2>5
    <3> QED BY <2>3, <2>7, <3>1, <3>2 DEF Low
  <2>9. \A x : (SynUnder(x) => SynUnder(x)') /\ (BindUnder(x) => BindUnder(x)')
    BY <1>0, <1>3, <2>8, StackFacts, UnderKept, SameList
  <2>10. BindKeeps /\ BindGives(b, n)
    <3>1. Grows(pool.bindseg, bnd.ptr, pool.bindsegcur, bnd.allp,
                pool'.bindseg, bnd'.ptr, pool'.bindsegcur, bnd'.allp, b, n)
      BY <2>2, <2>3, <2>7
    <3>2. pc' = "run"
      BY <2>4
    <3> QED BY <2>9, <3>1, <3>2, BindGrown
  <2>11. SynKeeps
    BY <1>3, <2>4, <2>9, SynStill
  <2>12. PermKeeps
    <3>1. pool'.perm = pool.perm /\ pool'.permallp = pool.permallp
      BY <2>3, HunkyFields DEF PoolType
    <3> QED BY <3>1 DEF PermKeeps, PermUpTo
  <2> QED BY <1>3, <2>3, <2>4, <2>6, <2>10, <2>11, <2>12
<1>4. CASE BindNewHunk(n) /\ n <= SEGSIZE /\ UNCHANGED <<glob, syn, marklist>>
  <2>1. PICK h \in Hunk :
          LET d == pool.bindsegcur + 1
          IN  /\ d <= Len(pool'.bindseg) /\ pool'.bindseg[d] = h /\ pool'.bindsegcur = d
              /\ SameUpTo(pool.bindseg, pool'.bindseg, pool.bindsegcur)
              /\ bnd'.ptr = Append(Stash(bnd), 0)
              /\ bnd'.allp = [hunk |-> h, off |-> n] /\ bnd'.free = bnd.free
              /\ \A x : \A e \in Nat : PermUpTo(pool, x, e) => PermUpTo(pool', x, e)
              /\ Note("bind", [hunk |-> h, off |-> 0], n)
    BY <1>4, BindNewHunkEffect
  <2>2. PICK c, d, b, t, u, p :
          /\ c = pool.bindsegcur /\ d = c + 1 /\ b = [hunk |-> h, off |-> 0]
          /\ t = pool'.bindseg /\ u = Append(Stash(bnd), 0) /\ p = [hunk |-> h, off |-> n]
    OBVIOUS
  <2>3. UNCHANGED pc /\ Running'
    BY <1>4 DEF BindNewHunk, Running
  <2>4. /\ c = Len(bnd.ptr) /\ bnd.ptr \in Seq(Nat) /\ bnd.allp \in Pointer /\ c \in Nat
    BY <1>0, <2>2, StackFacts
  <2>5. SameUpTo(pool.bindseg, t, c) /\ t[d] = h /\ pool'.bindsegcur = d
    BY <2>1, <2>2
  <2>6. \A i \in 1 .. c : pool.bindseg[i] # h
    <3>1. Single(t, d)
      BY <2>2, <2>3, <2>5, BindSingleNext
    <3>2. \A i \in 1 .. c : i \in 1 .. d /\ d \in 1 .. d /\ i # d
      BY <2>2, <2>4
    <3> QED BY <2>5, <3>1, <3>2 DEF Single, SameUpTo
  <2>7. /\ Grows(pool.bindseg, bnd.ptr, c, bnd.allp, t, u, d, p, b, n)
        /\ \A k \in 1 .. c - 1 : u[k] = bnd.ptr[k]
    <3>1. Extends(bnd, pool.bindseg, c, d, h, n, t, u, p, b)
      BY <2>2, <2>4, <2>5, <2>6 DEF Extends
    <3> QED BY <2>4, <3>1, GrowHunk
  <2>8. Low(pool.bindseg, bnd.ptr, pool'.bindseg, bnd'.ptr, c)
    BY <2>1, <2>2, <2>5, <2>7 DEF Low
  <2>9. \A x : (SynUnder(x) => SynUnder(x)') /\ (BindUnder(x) => BindUnder(x)')
    BY <1>0, <1>4, <2>2, <2>8, StackFacts, UnderKept, SameList
  <2>10. BindKeeps /\ BindGives(b, n)
    BY <1>4, <2>1, <2>2, <2>3, <2>5, <2>7, <2>9, BindGrown
  <2>11. SynKeeps
    BY <1>4, <2>3, <2>9, SynStill
  <2>12. b \in Pointer
    BY <2>2, PointerType
  <2> QED BY <1>4, <2>1, <2>2, <2>3, <2>10, <2>11, <2>12 DEF PermKeeps
<1> QED BY <1>1, <1>2, <1>3, <1>4 DEF BindAlloc, BindFails

----------------------------------------------------------------------------
(* Classes keep to hunks of their own.                                     *)

Zone(class) == CASE class = "perm" -> pool.perm
                 [] class = "glob" -> ToSet(PageHunks(glob.seg))
                 [] class = "syn"  -> ToSet(SynSeg)
                 [] class = "bind" -> ToSet(pool.bindseg)

ZoneFacts ==
  Sound =>
    /\ \A c, d \in Classes : c # d => Zone(c) \cap Zone(d) = {}
    /\ \A x \in LiveType : ObjOK(x) => x.hunk \in Zone(x.class)
    /\ Running => \A p : \A k \in Nat : /\ HeldSyn(p, k) => p.hunk \in Zone("syn")
                                        /\ HeldBind(p, k) => p.hunk \in Zone("bind")

LEMMA Zoned == IInv /\ Hunky => ZoneFacts
<1> SUFFICES ASSUME IInv, Hunky, Sound PROVE ZoneFacts
  BY DEF ZoneFacts
<1>1. /\ Tidy(pool, SynSeg, glob) /\ SynSeg \in Seq(Hunk) /\ pool.bindseg \in Seq(Hunk)
      /\ Running => SynSeg = syn.seg
  BY HunkyFields DEF Hunky
<1>2. glob.seg \in Seq(Page)
  BY HunkyFields, GlobFields
<1>3. \A c, d \in Classes : c # d => Zone(c) \cap Zone(d) = {}
  <2>1. Zone("perm") = pool.perm /\ Zone("glob") = ToSet(PageHunks(glob.seg))
    BY DEF Zone
  <2>2. Zone("syn") = ToSet(SynSeg) /\ Zone("bind") = ToSet(pool.bindseg)
    BY DEF Zone
  <2>3. PICK P, G, Y, B : /\ P = Zone("perm") /\ G = Zone("glob")
                          /\ Y = Zone("syn") /\ B = Zone("bind")
    OBVIOUS
  <2>4. /\ P \cap G = {} /\ P \cap Y = {} /\ P \cap B = {}
        /\ G \cap Y = {} /\ G \cap B = {} /\ Y \cap B = {}
    BY <1>1, <2>1, <2>2, <2>3 DEF Tidy, GlobApart, Apart, HunksOf
  <2> QED BY <2>3, <2>4 DEF Classes
<1>4. Running => \A p : \A k \in Nat : /\ HeldSyn(p, k) => p.hunk \in Zone("syn")
                                       /\ HeldBind(p, k) => p.hunk \in Zone("bind")
  <2> SUFFICES ASSUME Running, NEW p, NEW k \in Nat
               PROVE  /\ HeldSyn(p, k) => p.hunk \in Zone("syn")
                      /\ HeldBind(p, k) => p.hunk \in Zone("bind")
    OBVIOUS
  <2>1. /\ ToSet(syn.seg) = {syn.seg[i] : i \in 1 .. Len(syn.seg)}
        /\ ToSet(pool.bindseg) = {pool.bindseg[i] : i \in 1 .. Len(pool.bindseg)}
    BY <1>1, SetOfSeq
  <2> QED BY <1>1, <2>1 DEF HeldSyn, HeldBind, Zone
<1>5. ASSUME NEW x \in LiveType, ObjOK(x) PROVE x.hunk \in Zone(x.class)
  <2>1. x.class \in Classes /\ x.size \in Nat
    BY DEF LiveType
  <2>2. x.class # "perm" => Running
    BY <1>5 DEF ObjOK, Running
  <2>3. CASE x.class = "perm"
    BY <1>5, <2>3 DEF ObjOK, PermOK, PermUpTo, Zone
  <2>4. CASE x.class = "glob"
    <3>1. PICK i \in 1 .. Len(glob.seg) : glob.seg[i].hunk = x.hunk
      BY <1>5, <2>4 DEF ObjOK, GlobOK, GlobUpTo
    <3>2. /\ PageHunks(glob.seg) \in Seq(Hunk) /\ Len(PageHunks(glob.seg)) = Len(glob.seg)
          /\ PageHunks(glob.seg)[i] = x.hunk
      BY <1>2, <3>1, PageSeq
    <3>3. PICK G : G = PageHunks(glob.seg)
      OBVIOUS
    <3>4. ToSet(G) = {G[j] : j \in 1 .. Len(G)}
      BY <3>2, <3>3, SetOfSeq
    <3> QED BY <2>4, <3>2, <3>3, <3>4 DEF Zone
  <2>5. CASE x.class = "syn"
    BY <1>4, <1>5, <2>1, <2>2, <2>5 DEF ObjOK, SynOK
  <2>6. CASE x.class = "bind"
    BY <1>4, <1>5, <2>1, <2>2, <2>6 DEF ObjOK, BindOK
  <2> QED BY <2>1, <2>3, <2>4, <2>5, <2>6 DEF Classes
<1> QED BY <1>3, <1>4, <1>5 DEF ZoneFacts

LEMMA ZonedNext == IInv' /\ Hunky' => ZoneFacts'
BY Zoned, PTL

----------------------------------------------------------------------------
(* The cells of the free lists.                                            *)

CellsHeld ==
  Running => \A k \in CellSizes :
    /\ \A a \in 1 .. Len(syn.free[k]) : /\ syn.free[k][a].off + k <= SEGSIZE
                                        /\ ~Dropping => HeldSyn(syn.free[k][a], k)
    /\ \A a \in 1 .. Len(bnd.free[k]) : HeldBind(bnd.free[k][a], k)

CellsApart(f) ==
  \A j, k \in CellSizes : \A a \in 1 .. Len(f[k]), b \in 1 .. Len(f[j]) :
    (j # k \/ a # b) => Disjoint(f[k][a], k, f[j][b], j)

CellsOff ==
  Running => \A k \in CellSizes : \A p \in ToSet(syn.free[k]) \cup ToSet(bnd.free[k]) :
               \A o \in Live : Disjoint(p, k, live[o], live[o].size)

CellPart ==
  CellsHeld /\ CellsOff /\ (Running => CellsApart(syn.free) /\ CellsApart(bnd.free))

LEMMA CellParts == CellInv <=> CellPart
BY DEF CellPart, CellInv, FreeCellsDead, CellsHeld, CellsOff, CellsApart

LEMMA CellPartsNext == CellInv' <=> CellPart'
BY CellParts, PTL

\* The cells of a list, as members and by position.
LEMMA CellMembers ==
  ASSUME NEW f \in Cells, NEW k \in CellSizes
  PROVE  /\ f[k] \in Seq(Pointer) /\ Len(f[k]) \in Nat
         /\ ToSet(f[k]) = {f[k][a] : a \in 1 .. Len(f[k])} /\ ToSet(f[k]) \subseteq Pointer
<1>1. f[k] \in Seq(Pointer)
  BY DEF Cells
<1> QED BY <1>1, SetOfSeq

LEMMA NoCellsApart ==
  /\ CellsApart(NoCells)
  /\ \A k \in CellSizes : NoCells[k] = <<>> /\ Len(NoCells[k]) = 0 /\ ToSet(NoCells[k]) = {}
<1>1. \A k \in CellSizes : NoCells[k] = <<>>
  BY DEF NoCells
<1>2. \A k \in CellSizes : Len(NoCells[k]) = 0 /\ ToSet(NoCells[k]) = {}
  BY <1>1, EmptySet
<1> QED BY <1>1, <1>2 DEF CellsApart

LEMMA DisjointSymmetric ==
  \A x, m, y, n : Disjoint(x, m, y, n) => Disjoint(y, n, x, m)
BY DEF Disjoint

LEMMA FreeTypes ==
  IInv => /\ syn.free \in Cells /\ bnd.free \in Cells
          /\ \A k \in CellSizes : k \in Nat
BY StoreAssumption DEF IInv, TypeOK, SynType, BndType

LEMMA FreeTypesNext ==
  IInv' => syn'.free \in Cells /\ bnd'.free \in Cells
BY DEF IInv, TypeOK, SynType, BndType

\* Cells that stay in the lists stay held, when the stacks keep what they held.
LEMMA CellsHeldKept ==
  ASSUME IInv, IInv', CellsHeld, Running, Running', Dropping <=> Dropping',
         \A k \in CellSizes : /\ ToSet(syn'.free[k]) \subseteq ToSet(syn.free[k])
                              /\ ToSet(bnd'.free[k]) \subseteq ToSet(bnd.free[k]),
         \A p \in Pointer : \A k \in Nat : /\ ~Dropping /\ HeldSyn(p, k) => HeldSyn(p, k)'
                                           /\ HeldBind(p, k) => HeldBind(p, k)'
  PROVE  CellsHeld'
<1> SUFFICES ASSUME NEW k \in CellSizes
             PROVE  /\ \A a \in 1 .. Len(syn'.free[k]) :
                         /\ syn'.free[k][a].off + k <= SEGSIZE
                         /\ ~Dropping' => HeldSyn(syn.free[k][a], k)'
                    /\ \A a \in 1 .. Len(bnd'.free[k]) : HeldBind(bnd.free[k][a], k)'
  BY DEF CellsHeld
<1>1. /\ syn.free \in Cells /\ bnd.free \in Cells /\ syn'.free \in Cells /\ bnd'.free \in Cells
      /\ k \in Nat
  BY FreeTypes, FreeTypesNext
<1>2. PICK f, g, h, e : f = syn.free /\ g = bnd.free /\ h = syn'.free /\ e = bnd'.free
  OBVIOUS
<1>3. /\ ToSet(f[k]) = {f[k][a] : a \in 1 .. Len(f[k])} /\ ToSet(f[k]) \subseteq Pointer
      /\ ToSet(g[k]) = {g[k][a] : a \in 1 .. Len(g[k])} /\ ToSet(g[k]) \subseteq Pointer
      /\ ToSet(h[k]) = {h[k][a] : a \in 1 .. Len(h[k])}
      /\ ToSet(e[k]) = {e[k][a] : a \in 1 .. Len(e[k])}
  <2>1. f \in Cells /\ g \in Cells /\ h \in Cells /\ e \in Cells
    BY <1>1, <1>2
  <2> QED BY <2>1, CellMembers
<1>4. ToSet(h[k]) \subseteq ToSet(f[k]) /\ ToSet(e[k]) \subseteq ToSet(g[k])
  BY <1>2
<1>5. /\ \A q \in ToSet(f[k]) : q.off + k <= SEGSIZE /\ (~Dropping => HeldSyn(q, k))
      /\ \A q \in ToSet(g[k]) : HeldBind(q, k)
  <2>1. /\ \A a \in 1 .. Len(f[k]) : /\ f[k][a].off + k <= SEGSIZE
                                     /\ ~Dropping => HeldSyn(f[k][a], k)
        /\ \A a \in 1 .. Len(g[k]) : HeldBind(g[k][a], k)
    BY <1>2 DEF CellsHeld
  <2> QED BY <1>3, <2>1
<1>6. /\ \A q \in ToSet(h[k]) : q.off + k <= SEGSIZE /\ (~Dropping' => HeldSyn(q, k)')
      /\ \A q \in ToSet(e[k]) : HeldBind(q, k)'
  BY <1>1, <1>3, <1>4, <1>5
<1>7. /\ \A a \in 1 .. Len(h[k]) : h[k][a] \in ToSet(h[k])
      /\ \A a \in 1 .. Len(e[k]) : e[k][a] \in ToSet(e[k])
  BY <1>3
<1> QED BY <1>2, <1>6, <1>7

----------------------------------------------------------------------------
(* A block is handed out.                                                  *)

\* No class lets go of what it holds.
AllKeep == /\ PermKeeps
           /\ pc = "run" => GlobKeeps /\ SynKeeps /\ BindKeeps

LEMMA ObjKept ==
  ASSUME AllKeep, pc \in {"idle", "run"}, pc' = pc
  PROVE  \A x \in LiveType : ObjOK(x) => ObjOK(x)'
<1> SUFFICES ASSUME NEW x \in LiveType, ObjOK(x) PROVE ObjOK(x)'
  OBVIOUS
<1>1. x.off \in Nat /\ x.size \in Nat /\ x.off + x.size \in Nat
  BY DEF LiveType
<1>2. PermOK(x)'
  BY <1>1 DEF ObjOK, PermOK, AllKeep, PermKeeps
<1>3. x.class # "perm" => pc = "run" /\ ~Dropping /\ ~Dropping'
  BY DEF ObjOK, Dropping
<1>4. GlobOK(x)'
  BY <1>1, <1>3 DEF ObjOK, GlobOK, AllKeep, GlobKeeps
<1>5. SynOK(x)'
  BY <1>1, <1>3 DEF ObjOK, SynOK, AllKeep, SynKeeps
<1>6. BindOK(x)'
  BY <1>1, <1>3 DEF ObjOK, BindOK, AllKeep, BindKeeps
<1> QED BY <1>2, <1>4, <1>5, <1>6 DEF ObjOK

\* Cells lie in the hunks of the class that took them back.
CellZones ==
  CellsHeld /\ Running /\ ~Dropping => \A k \in CellSizes :
    /\ \A q \in ToSet(syn.free[k]) : q.hunk \in Zone("syn") /\ HeldSyn(q, k)
    /\ \A q \in ToSet(bnd.free[k]) : q.hunk \in Zone("bind") /\ HeldBind(q, k)

LEMMA CellZoned == IInv /\ Hunky => CellZones
<1> SUFFICES ASSUME IInv, Hunky, CellsHeld, Running, ~Dropping, NEW k \in CellSizes
             PROVE  /\ \A q \in ToSet(syn.free[k]) : q.hunk \in Zone("syn") /\ HeldSyn(q, k)
                    /\ \A q \in ToSet(bnd.free[k]) : q.hunk \in Zone("bind") /\ HeldBind(q, k)
  BY DEF CellZones
<1>1. /\ ToSet(syn.free[k]) = {syn.free[k][a] : a \in 1 .. Len(syn.free[k])}
      /\ ToSet(bnd.free[k]) = {bnd.free[k][a] : a \in 1 .. Len(bnd.free[k])} /\ k \in Nat
  BY FreeTypes, CellMembers
<1>2. /\ \A q \in ToSet(syn.free[k]) : HeldSyn(q, k)
      /\ \A q \in ToSet(bnd.free[k]) : HeldBind(q, k)
  BY <1>1 DEF CellsHeld
<1> QED BY <1>1, <1>2, Zoned, HunkyFields DEF ZoneFacts

LEMMA CellZonesNext == IInv' /\ Hunky' => CellZones'
BY CellZoned, PTL

\* A new object of a level that every mark is below lies where it must when
\* its class holds the block.
LEMMA NewSynOK ==
  ASSUME pc' = "run", NEW x, x.class = "syn", x.level = Len(marklist'),
         x.off + x.size <= SEGSIZE, HeldSyn(x, x.size)', Len(marklist') \in Nat
  PROVE  ObjOK(x)'
<1>1. SynUnder(x)'
  BY DEF SynUnder
<1> QED BY <1>1 DEF ObjOK, PermOK, GlobOK, SynOK, BindOK, Dropping

LEMMA NewBindOK ==
  ASSUME pc' = "run", NEW x, x.class = "bind", x.level = Len(marklist'),
         HeldBind(x, x.size)', Len(marklist') \in Nat
  PROVE  ObjOK(x)'
<1>1. BindUnder(x)'
  BY DEF BindUnder
<1> QED BY <1>1 DEF ObjOK, PermOK, GlobOK, SynOK, BindOK

\* The block at p is apart from the objects and the cells of its own class.
Apiece(class, p, n) ==
  /\ \A o \in Live : live[o].class = class => Disjoint(p, n, live[o], live[o].size)
  /\ Running' => \A k \in CellSizes :
       /\ class = "syn" => \A q \in ToSet(syn'.free[k]) : Disjoint(p, n, q, k)
       /\ class = "bind" => \A q \in ToSet(bnd'.free[k]) : Disjoint(p, n, q, k)

LEMMA NotedBlock ==
  ASSUME NEW class \in Classes, NEW p \in Pointer, NEW n \in Nat, NEW w,
         w = Object(class, p, n), IInv, IInv', Hunky', ObjInv, LiveDisjoint, CellsOff,
         AllKeep, pc \in {"idle", "run"}, pc' = pc, marklist' = marklist,
         Note(class, p, n), ObjOK(w)', CellsHeld', Apiece(class, p, n),
         \A k \in CellSizes : /\ ToSet(syn'.free[k]) \subseteq ToSet(syn.free[k])
                              /\ ToSet(bnd'.free[k]) \subseteq ToSet(bnd.free[k])
  PROVE  ObjInv' /\ LiveDisjoint' /\ CellsOff'
<1>1. /\ w \in LiveType /\ w # None /\ w.class = class /\ w.hunk = p.hunk /\ w.off = p.off
      /\ w.size = n
  <2>1. Len(marklist) \in Nat
    BY DEF IInv, TypeOK
  <2>2. /\ w.class = class /\ w.hunk = p.hunk /\ w.off = p.off /\ w.size = n
        /\ w \in [class : Classes, hunk : 0 .. MaxHunks, off : Nat, size : Nat, level : Nat]
    BY <2>1 DEF Object, Pointer
  <2>3. w \in [class : {"perm", "glob", "syn", "bind"}, hunk : Nat, off : Nat,
               size : Nat, level : Nat]
    BY <2>2 DEF Classes
  <2> QED BY <2>2, <2>3, StoreAssumption DEF LiveType
<1>2. \A x \in LiveType : ObjOK(x) => ObjOK(x)'
  BY ObjKept
<1>3. Sound /\ Sound' /\ ZoneFacts'
  BY ZonedNext DEF Sound, Running
<1>4. \A o \in Live : live[o] \in LiveType /\ ObjOK(live[o])
  BY <1>3 DEF ObjInv, Live, IInv, TypeOK
<1>5. \A o \in Live : Disjoint(w, n, live[o], live[o].size)
  <2> SUFFICES ASSUME NEW o \in Live PROVE Disjoint(w, n, live[o], live[o].size)
    OBVIOUS
  <2>1. PICK x : x = live[o]
    OBVIOUS
  <2>2. x \in LiveType /\ ObjOK(x)' /\ x.class \in Classes
    BY <1>2, <1>4, <2>1 DEF LiveType
  <2>3. CASE x.class = class
    BY <1>1, <2>1, <2>3 DEF Apiece, Disjoint
  <2>4. CASE x.class # class
    <3>1. x.hunk \in Zone(x.class)' /\ w.hunk \in Zone(class)'
      BY <1>1, <1>3, <2>2 DEF ZoneFacts
    <3>2. x.hunk # w.hunk
      BY <1>3, <2>2, <2>4, <3>1 DEF ZoneFacts
    <3> QED BY <2>1, <3>2 DEF Disjoint
  <2> QED BY <2>3, <2>4
<1>6. CASE UNCHANGED live
  <2>1. Live' = Live /\ live' = live
    BY <1>6 DEF Live
  <2>2. ObjInv'
    <3> SUFFICES ASSUME NEW o \in Live, NEW x, x = live[o] PROVE ObjOK(x)'
      BY <1>3, <2>1 DEF ObjInv, Sound
    <3> QED BY <1>2, <1>4
  <2>3. LiveDisjoint'
    BY <2>1 DEF LiveDisjoint
  <2>4. CellsOff'
    BY <2>1 DEF CellsOff, Running
  <2> QED BY <2>2, <2>3, <2>4
<1>7. ASSUME NEW o \in Obs, live[o] = None, live' = [live EXCEPT ![o] = w]
      PROVE  ObjInv' /\ LiveDisjoint' /\ CellsOff'
  <2>1. /\ Live' = Live \cup {o} /\ o \notin Live /\ live'[o] = w
        /\ \A q \in Live : live'[q] = live[q]
    <3>1. DOMAIN live = Obs
      BY DEF IInv, TypeOK
    <3>2. live'[o] = w /\ \A q \in Obs : q # o => live'[q] = live[q]
      BY <1>7, <3>1
    <3> QED BY <1>1, <1>7, <3>2 DEF Live
  <2>2. ObjInv'
    <3>1. ASSUME NEW q \in Live', NEW x, x = live'[q] PROVE ObjOK(x)'
      BY <1>2, <1>4, <2>1, <3>1
    <3>2. \A q \in Live' : ObjOK(live[q])'
      BY <3>1
    <3> QED BY <1>3, <3>2 DEF ObjInv, Sound
  <2>3. LiveDisjoint'
    <3>1. \A q \in Live : Disjoint(w, w.size, live[q], live[q].size)
                          /\ Disjoint(live[q], live[q].size, w, w.size)
      BY <1>1, <1>5, DisjointSymmetric
    <3>2. \A q, r \in Live' : q # r =>
            Disjoint(live'[q], live'[q].size, live'[r], live'[r].size)
      BY <2>1, <3>1 DEF LiveDisjoint
    <3> QED BY <3>2 DEF LiveDisjoint
  <2>4. CellsOff'
    <3> SUFFICES ASSUME Running', NEW k \in CellSizes,
                        NEW q \in ToSet(syn'.free[k]) \cup ToSet(bnd'.free[k])
                 PROVE  \A r \in Live' : Disjoint(q, k, live'[r], live'[r].size)
      BY DEF CellsOff
    <3>1. \A r \in Live : Disjoint(q, k, live[r], live[r].size)
      BY DEF CellsOff, Running
    <3>2. Disjoint(w, w.size, q, k)
      <4>1. w.hunk \in Zone(class)' /\ ~Dropping'
        BY <1>1, <1>3 DEF ZoneFacts, Dropping
      <4>2. CASE q \in ToSet(syn'.free[k]) /\ class # "syn"
        <5>1. q.hunk \in Zone("syn")' /\ "syn" \in Classes
          BY <4>1, <4>2, CellZonesNext DEF CellZones, Classes
        <5>2. q.hunk # w.hunk
          BY <1>3, <4>1, <4>2, <5>1 DEF ZoneFacts
        <5> QED BY <5>2 DEF Disjoint
      <4>3. CASE q \in ToSet(bnd'.free[k]) /\ class # "bind"
        <5>1. q.hunk \in Zone("bind")' /\ "bind" \in Classes
          BY <4>1, <4>3, CellZonesNext DEF CellZones, Classes
        <5>2. q.hunk # w.hunk
          BY <1>3, <4>1, <4>3, <5>1 DEF ZoneFacts
        <5> QED BY <5>2 DEF Disjoint
      <4>4. CASE \/ q \in ToSet(syn'.free[k]) /\ class = "syn"
                 \/ q \in ToSet(bnd'.free[k]) /\ class = "bind"
        <5>1. Disjoint(p, n, q, k)
          BY <4>4 DEF Apiece
        <5> QED BY <1>1, <5>1 DEF Disjoint
      <4> QED BY <4>2, <4>3, <4>4
    <3>3. Disjoint(q, k, w, w.size)
      BY <3>2, DisjointSymmetric
    <3> QED BY <2>1, <3>1, <3>3
  <2> QED BY <2>2, <2>3, <2>4
<1> QED BY <1>6, <1>7 DEF Note

----------------------------------------------------------------------------
(* What PermAlloc and GlobAlloc hand out.                                  *)

\* A block of n words at b is handed out of Glob: it was free.
GlobGives(g, g2, b, n) ==
  /\ \A h : \A e \in Nat : GlobUpTo(g, h, e) =>
       GlobUpTo(g2, h, e) /\ (h = b.hunk => e <= b.off)
  /\ GlobUpTo(g2, b.hunk, b.off + n)
  /\ GlobSound(g2) /\ PagesWhole(g2)

\* No two pages in use share a hunk.
LEMMA PagesSingle ==
  ASSUME NEW p \in Seq(Page), IsInjective(PageHunks(p))
  PROVE  /\ \A i, j \in 1 .. Len(p) : p[i].hunk = p[j].hunk => i = j
         /\ \A i \in 1 .. Len(p) : p[i] \in Page /\ p[i].hunk \in ToSet(PageHunks(p))
<1>1. PICK q : q = PageHunks(p)
  OBVIOUS
<1>2. /\ q \in Seq(Hunk) /\ Len(q) = Len(p) /\ IsInjective(q)
      /\ \A i \in 1 .. Len(p) : q[i] = p[i].hunk
  BY <1>1, PageSeq
<1>3. /\ ToSet(q) = {q[i] : i \in 1 .. Len(q)}
      /\ \A i, j \in 1 .. Len(q) : q[i] = q[j] => i = j
  BY <1>2, SetOfSeq
<1>4. \A i \in 1 .. Len(p) : p[i] \in Page
  BY ElementOfSeq
<1> QED BY <1>1, <1>2, <1>3, <1>4

\* A page with a hunk from elsewhere, for a block of its own or to go on with.
PageFor(g, page, g2, b, n) ==
  /\ g2.seg = Append(g.seg, page)
  /\ page.hunk \notin ToSet(PageHunks(g.seg)) /\ page.size >= SEGSIZE
  /\ b.hunk = page.hunk /\ b.off = 0
  /\ \/ g2.allp = g.allp /\ g2.size = g.size /\ n = page.size
     \/ /\ g2.allp.hunk = page.hunk /\ g2.allp.off = n /\ g2.allp # Duff
        /\ g2.size = page.size /\ n <= page.size
  /\ \A i \in 1 .. Len(g2.os) : g2.os[i].size >= SEGSIZE

LEMMA PageGiven ==
  ASSUME NEW g \in GlobType, NEW page \in Page, NEW g2 \in GlobType, NEW b, NEW n \in Nat,
         PageFor(g, page, g2, b, n), GlobSound(g), PagesWhole(g),
         IsInjective(PageHunks(g.seg))
  PROVE  GlobGives(g, g2, b, n)
<1>1. /\ g.seg \in Seq(Page) /\ Len(g.seg) \in Nat /\ g.allp \in Pointer
      /\ page.hunk \in Hunk /\ page.size \in Nat
  BY GlobFields DEF Page
<1>2. PICK c : c = Len(g.seg)
  OBVIOUS
<1>3. /\ Len(g2.seg) = c + 1 /\ g2.seg[c + 1] = page /\ c + 1 \in 1 .. c + 1
      /\ \A i \in 1 .. c : g2.seg[i] = g.seg[i] /\ i \in 1 .. c + 1
  BY <1>1, <1>2, AppendProperties DEF PageFor
<1>4. /\ \A i, j \in 1 .. c : g.seg[i].hunk = g.seg[j].hunk => i = j
      /\ \A i \in 1 .. c : g.seg[i].hunk # page.hunk /\ g.seg[i] \in Page
  BY <1>1, <1>2, PagesSingle DEF PageFor
<1>5. g.allp.hunk # page.hunk
  <2>1. CASE g.allp = Duff
    BY <1>1, <2>1 DEF Duff, Hunk
  <2>2. CASE g.allp # Duff
    BY <1>2, <1>4, <2>2 DEF GlobSound
  <2> QED BY <2>1, <2>2
<1>6. PagesWhole(g2)
  <2>1. \A i \in 1 .. c + 1 : i \in 1 .. c \/ i = c + 1
    BY <1>1, <1>2
  <2>2. \A i \in 1 .. c : g.seg[i].size >= SEGSIZE
    BY <1>2 DEF PagesWhole
  <2> QED BY <1>3, <2>1, <2>2 DEF PagesWhole, PageFor
<1>7. GlobSound(g2)
  <2>1. CASE g2.allp = g.allp /\ g2.size = g.size
    BY <1>2, <1>3, <2>1 DEF GlobSound
  <2>2. CASE g2.allp.hunk = page.hunk /\ g2.allp.off = n /\ g2.size = page.size /\ n <= page.size
    BY <1>3, <2>2 DEF GlobSound
  <2> QED BY <2>1, <2>2 DEF PageFor
<1>8. GlobUpTo(g2, b.hunk, b.off + n)
  <2>1. n <= IF page.hunk = g2.allp.hunk THEN g2.allp.off ELSE page.size
    BY <1>1, <1>5 DEF PageFor
  <2>2. b.hunk = page.hunk /\ b.off + n = n
    BY DEF PageFor
  <2> QED BY <1>3, <2>1, <2>2 DEF GlobUpTo
<1>9. ASSUME NEW h, NEW e \in Nat, GlobUpTo(g, h, e)
      PROVE  GlobUpTo(g2, h, e) /\ (h = b.hunk => e <= b.off)
  <2>1. PICK i \in 1 .. c : /\ g.seg[i].hunk = h
                            /\ e <= IF h = g.allp.hunk THEN g.allp.off ELSE g.seg[i].size
    BY <1>2, <1>9 DEF GlobUpTo
  <2>2. h # page.hunk /\ h # b.hunk
    BY <1>4, <2>1 DEF PageFor
  <2>3. h = g.allp.hunk => g.allp.off <= g.seg[i].size /\ g.allp.off \in Nat
    <3> SUFFICES ASSUME h = g.allp.hunk PROVE g.allp.off <= g.seg[i].size
      BY <1>1 DEF Pointer
    <3>1. g.allp # Duff
      BY <1>4, <2>1 DEF Duff, Page, Hunk
    <3>2. PICK j \in 1 .. c : /\ g.seg[j].hunk = g.allp.hunk /\ g.seg[j].size = g.size
                              /\ g.allp.off <= g.size
      BY <1>2, <3>1 DEF GlobSound
    <3>3. j = i
      BY <1>4, <2>1, <3>2
    <3> QED BY <3>2, <3>3
  <2>4. g.seg[i].size \in Nat
    BY <1>4 DEF Page
  <2>5. e <= IF h = g2.allp.hunk THEN g2.allp.off ELSE g.seg[i].size
    BY <2>1, <2>2, <2>3, <2>4 DEF PageFor
  <2>6. GlobUpTo(g2, h, e)
    BY <1>3, <2>1, <2>5 DEF GlobUpTo
  <2> QED BY <2>2, <2>6
<1> QED BY <1>6, <1>7, <1>8, <1>9 DEF GlobGives

\* n words more of the page in use.
LEMMA PageBump ==
  ASSUME NEW g \in GlobType, NEW g2, NEW n \in Nat, GlobSound(g), PagesWhole(g),
         IsInjective(PageHunks(g.seg)), Fits(g.allp, n, g.size),
         g2.seg = g.seg, g2.os = g.os, g2.size = g.size, g2.allp = Advance(g.allp, n)
  PROVE  GlobGives(g, g2, g.allp, n)
<1>1. /\ g.allp # Duff /\ g.allp.off \in Nat /\ g2.allp.off = g.allp.off + n
      /\ g2.allp.hunk = g.allp.hunk /\ g2.allp.off <= g.size /\ g2.allp.off \in Nat
  BY GlobFields DEF Fits, Advance, Pointer
<1>2. PICK j \in 1 .. Len(g.seg) : g.seg[j].hunk = g.allp.hunk /\ g.seg[j].size = g.size
  BY <1>1 DEF GlobSound
<1>3. PagesWhole(g2) /\ GlobSound(g2)
  BY <1>1, <1>2 DEF PagesWhole, GlobSound
<1>4. GlobUpTo(g2, g.allp.hunk, g.allp.off + n)
  <2>1. g.allp.off + n <= IF g.allp.hunk = g2.allp.hunk THEN g2.allp.off ELSE g2.seg[j].size
    BY <1>1
  <2> QED BY <1>2, <2>1 DEF GlobUpTo
<1>5. ASSUME NEW h, NEW e \in Nat, GlobUpTo(g, h, e)
      PROVE  GlobUpTo(g2, h, e) /\ (h = g.allp.hunk => e <= g.allp.off)
  <2>1. PICK i \in 1 .. Len(g.seg) :
          /\ g.seg[i].hunk = h
          /\ e <= IF h = g.allp.hunk THEN g.allp.off ELSE g.seg[i].size
    BY <1>5 DEF GlobUpTo
  <2>2. e <= IF h = g2.allp.hunk THEN g2.allp.off ELSE g2.seg[i].size
    BY <1>1, <2>1
  <2> QED BY <2>1, <2>2 DEF GlobUpTo
<1> QED BY <1>3, <1>4, <1>5 DEF GlobGives

LEMMA GlobAllocGives ==
  ASSUME NEW s \in PoolType, NEW g \in GlobType, NEW n \in Nat, NEW X,
         GlobSound(g), PagesWhole(g), GlobApart(s, X, g),
         GlobAlloc(s, g, n).pool.err = "none"
  PROVE  GlobGives(g, GlobAlloc(s, g, n).glob, GlobAlloc(s, g, n).at, n)
<1> DEFINE r == GlobAlloc(s, g, n)
           u == Room(s, Len(g.seg))
           A == ToSet(PageHunks(g.seg))
<1>1. /\ r.glob \in GlobType /\ r.at \in Pointer /\ IsInjective(PageHunks(g.seg))
      /\ g.seg \in Seq(Page) /\ g.os \in Seq(Page)
  BY GlobAllocType, GlobFields DEF GlobApart, PagesApart
<1>2. u \in PoolType /\ Apart(u, X \cup HunksOf(g))
  BY RoomPasses, GlobFields DEF Passes, Keeps, GlobApart
<1>3. CASE n > SEGSIZE
  <2> DEFINE p == [hunk |-> u.chain + 1, size |-> n]
  <2>1. /\ r.pool = CcAlloc(u) /\ r.glob = [g EXCEPT !.seg = Append(g.seg, p)]
        /\ r.at = [hunk |-> u.chain + 1, off |-> 0]
    BY <1>3 DEF GlobAlloc, OverlargePage
  <2>2. /\ r.glob.seg = Append(g.seg, p) /\ r.glob.os = g.os
        /\ r.glob.allp = g.allp /\ r.glob.size = g.size
    BY <2>1 DEF GlobType
  <2> HIDE DEF u, r
  <2>3. u.chain + 1 \in Hunk /\ u.chain + 1 \notin HunksOf(g)
    <3>1. CcAlloc(u).err = "none"
      BY <2>1 DEF r
    <3> QED BY <1>2, <3>1, CcAllocPasses
  <2>4. p \in Page /\ p.hunk \notin A /\ p.hunk = u.chain + 1 /\ p.size = n
    BY <2>3 DEF Page, HunksOf
  <2> HIDE DEF p
  <2>5. r.at.hunk = p.hunk /\ r.at.off = 0 /\ p.size >= SEGSIZE
    BY <1>3, <2>1, <2>4, SizesNat
  <2>6. PageFor(g, p, r.glob, r.at, n)
    BY <2>2, <2>4, <2>5 DEF PageFor, PagesWhole
  <2>7. PICK t, b : t = r.glob /\ b = r.at
    OBVIOUS
  <2>8. GlobGives(g, t, b, n)
    BY <1>1, <2>4, <2>6, <2>7, PageGiven
  <2> QED BY <2>7, <2>8 DEF r
<1>4. CASE ~(n > SEGSIZE) /\ Fits(g.allp, n, g.size)
  <2>1. r.glob = [g EXCEPT !.allp = Advance(g.allp, n)] /\ r.at = g.allp
    BY <1>4 DEF GlobAlloc
  <2>2. PICK t : t = r.glob
    OBVIOUS
  <2>3. /\ t.seg = g.seg /\ t.os = g.os /\ t.size = g.size
        /\ t.allp = Advance(g.allp, n)
    BY <2>1, <2>2 DEF GlobType
  <2>4. GlobGives(g, t, g.allp, n)
    BY <1>1, <1>4, <2>3, PageBump
  <2> QED BY <2>1, <2>2, <2>4
<1>5. CASE ~(n > SEGSIZE) /\ ~Fits(g.allp, n, g.size)
  <2> DEFINE page == IF g.os # <<>> THEN Head(g.os) ELSE [hunk |-> HunkFor(u), size |-> SEGSIZE]
             os   == IF g.os # <<>> THEN Tail(g.os) ELSE <<>>
             t    == IF g.os # <<>> THEN u ELSE TakeHunk(u)
  <2>1. /\ r.pool = t
        /\ r.glob = [seg |-> Append(g.seg, page), os |-> os,
                     allp |-> [hunk |-> page.hunk, off |-> n], size |-> page.size]
        /\ r.at = [hunk |-> page.hunk, off |-> 0]
    BY <1>5 DEF GlobAlloc, NewGlobalSegment
  <2> HIDE DEF u, r
  <2>2. page \in Page /\ page.hunk \notin A /\ page.size >= SEGSIZE
    <3>1. CASE g.os # <<>>
      <4>1. page = Head(g.os) /\ Head(g.os) = g.os[1] /\ 1 \in 1 .. Len(g.os)
        BY <1>1, <3>1, HeadTailProperties, EmptySeq, LenProperties
      <4> HIDE DEF page
      <4>2. g.os[1] \in Page /\ g.os[1].size >= SEGSIZE /\ g.os[1].hunk \in ToSet(PageHunks(g.os))
        <5>1. IsInjective(PageHunks(g.os))
          BY DEF GlobApart, PagesApart
        <5> QED BY <1>1, <4>1, <5>1, PagesSingle DEF PagesWhole
      <4> QED BY <4>1, <4>2 DEF GlobApart, PagesApart
    <3>2. CASE ~(g.os # <<>>)
      <4>1. /\ page = [hunk |-> HunkFor(u), size |-> SEGSIZE]
            /\ HunkFor(u) \in Hunk /\ HunkFor(u) \notin HunksOf(g)
        <5>1. TakeHunk(u).err = "none"
          BY <2>1, <3>2 DEF r
        <5> QED BY ZenonT(60), <1>2, <3>2, <5>1, TakeHunkPasses
      <4> HIDE DEF page
      <4> QED BY <4>1, SizesNat DEF Page, HunksOf
    <3> QED BY <3>1, <3>2
  <2>3. \A i \in 1 .. Len(os) : os[i].size >= SEGSIZE
    <3>1. CASE g.os # <<>>
      <4>1. /\ os = Tail(g.os) /\ Len(os) = Len(g.os) - 1 /\ Len(g.os) \in Nat
            /\ \A i \in 1 .. Len(os) : os[i] = g.os[i + 1]
        BY <1>1, <3>1, HeadTailProperties, LenProperties
      <4> HIDE DEF os
      <4>2. \A i \in 1 .. Len(os) : i + 1 \in 1 .. Len(g.os)
        BY <4>1
      <4> QED BY <4>1, <4>2 DEF PagesWhole
    <3>2. CASE ~(g.os # <<>>)
      BY <3>2
    <3> QED BY <3>1, <3>2
  <2> HIDE DEF page, os, t
  <2>4. PICK h, b : h = r.glob /\ b = r.at
    OBVIOUS
  <2>5. /\ h.seg = Append(g.seg, page) /\ h.os = os /\ h.allp.hunk = page.hunk
        /\ h.allp.off = n /\ h.size = page.size /\ b.hunk = page.hunk /\ b.off = 0
    BY <2>1, <2>4
  <2>6. n <= page.size /\ h.allp # Duff
    BY <1>5, <2>2, <2>5, SizesNat DEF Page, Duff, Hunk
  <2>7. PageFor(g, page, h, b, n)
    BY <2>2, <2>3, <2>5, <2>6 DEF PageFor
  <2>8. GlobGives(g, h, b, n)
    BY <1>1, <2>2, <2>4, <2>7, PageGiven
  <2> QED BY <2>4, <2>8 DEF r
<1> QED BY <1>3, <1>4, <1>5

LEMMA PermAllocGives ==
  ASSUME NEW s \in PoolType, NEW n \in Nat, Apart(s, {}), PermSound(s),
         PermAlloc(s, n).err = "none"
  PROVE  \E b \in Pointer :
           LET t == PermAlloc(s, n)
           IN  /\ b = [t.permallp EXCEPT !.off = t.permallp.off - n]
               /\ PermUpTo(t, b.hunk, b.off + n)
               /\ \A h : \A e \in Nat : PermUpTo(s, h, e) =>
                    PermUpTo(t, h, e) /\ (h = b.hunk => e <= b.off)
<1>1. PICK t : t = PermAlloc(s, n)
  OBVIOUS
<1>2. /\ Passes(s, t) /\ t.permallp.hunk \in t.perm /\ t.permallp.off <= SEGSIZE
      /\ \A h : \A e \in Nat :
           PermUpTo(s, h, e) /\ h = t.permallp.hunk => e <= t.permallp.off - n
  BY <1>1, PermAllocPasses
<1>3. t.permallp \in Pointer /\ t.permallp.off >= n
  BY <1>1, PermAllocKeeps, PoolFields DEF Keeps
<1>4. PICK b : b = [t.permallp EXCEPT !.off = t.permallp.off - n]
  OBVIOUS
<1>5. b \in Pointer /\ b.hunk = t.permallp.hunk /\ b.off = t.permallp.off - n
  BY <1>3, <1>4 DEF Pointer
<1>6. PermUpTo(t, b.hunk, b.off + n)
  <2>1. b.off + n <= t.permallp.off
    BY <1>3, <1>5 DEF Pointer
  <2> QED BY <1>2, <1>5, <2>1 DEF PermUpTo
<1>7. \A h : \A e \in Nat : PermUpTo(s, h, e) => PermUpTo(t, h, e)
  BY <1>2 DEF Passes
<1> QED BY ZenonT(60), <1>1, <1>2, <1>4, <1>5, <1>6, <1>7

----------------------------------------------------------------------------
(* Each way to hand out a block.                                           *)

Placed == GlobInv /\ ObjInv /\ CellInv /\ LiveDisjoint

LEMMA FailPlaced == ASSUME Placed, NEW e, Fail(e) PROVE Placed'
<1>1. ~Sound' /\ ~Running' /\ pc' = "failed" /\ live' = live
  BY DEF Fail, Sound, Running
<1> QED BY <1>1 DEF Placed, GlobInv, ObjInv, CellInv, FreeCellsDead, LiveDisjoint, Live

LEMMA BlockPlaced ==
  ASSUME NEW class \in Classes, NEW p \in Pointer, NEW n \in Nat, NEW w,
         w = Object(class, p, n), IInv, IInv', Hunky', Placed,
         AllKeep, pc \in {"idle", "run"}, pc' = pc, marklist' = marklist,
         Note(class, p, n), ObjOK(w)', Apiece(class, p, n), GlobInv',
         \A k \in CellSizes : /\ ToSet(syn'.free[k]) \subseteq ToSet(syn.free[k])
                              /\ ToSet(bnd'.free[k]) \subseteq ToSet(bnd.free[k]),
         Running => CellsApart(syn'.free) /\ CellsApart(bnd'.free)
  PROVE  Placed'
<1>1. CellsHeld /\ CellsOff
  BY CellParts DEF Placed, CellPart
<1>2. CellsHeld'
  <2>1. CASE pc = "idle"
    BY <2>1 DEF CellsHeld, Running
  <2>2. CASE pc = "run"
    <3>1. Running /\ Running' /\ ~Dropping /\ ~Dropping'
      BY <2>2 DEF Running, Dropping
    <3>2. \A q \in Pointer : \A k \in Nat : /\ ~Dropping /\ HeldSyn(q, k) => HeldSyn(q, k)'
                                            /\ HeldBind(q, k) => HeldBind(q, k)'
      BY <2>2 DEF AllKeep, SynKeeps, BindKeeps, Pointer
    <3> QED BY <1>1, <3>1, <3>2, CellsHeldKept
  <2> QED BY <2>1, <2>2
<1>3. ObjInv' /\ LiveDisjoint' /\ CellsOff'
  BY <1>1, <1>2, NotedBlock DEF Placed
<1>4. CellInv'
  BY <1>2, <1>3, CellPartsNext DEF CellPart, Running
<1> QED BY <1>3, <1>4 DEF Placed

\* The lists of cells do not change.
LEMMA SameCells ==
  ASSUME Placed, syn'.free = syn.free, bnd'.free = bnd.free
  PROVE  /\ \A k \in CellSizes : /\ ToSet(syn'.free[k]) \subseteq ToSet(syn.free[k])
                                 /\ ToSet(bnd'.free[k]) \subseteq ToSet(bnd.free[k])
         /\ Running => CellsApart(syn'.free) /\ CellsApart(bnd'.free)
BY CellParts DEF Placed, CellPart

\* Objects and cells of a class are held by it.
LEMMA HeldAll ==
  ASSUME IInv, Hunky, Placed, pc \in {"idle", "run"}
  PROVE  /\ \A o \in Live : /\ live[o] \in LiveType /\ ObjOK(live[o])
                            /\ live[o].off \in Nat /\ live[o].size \in Nat
                            /\ live[o].off + live[o].size \in Nat
         /\ pc = "run" => \A k \in CellSizes :
              /\ k \in Nat
              /\ \A q \in ToSet(syn.free[k]) : q \in Pointer /\ q.off \in Nat /\ HeldSyn(q, k)
              /\ \A q \in ToSet(bnd.free[k]) : q \in Pointer /\ q.off \in Nat /\ HeldBind(q, k)
<1>1. \A o \in Live : live[o] \in LiveType /\ ObjOK(live[o])
  BY DEF Sound, Running, Placed, ObjInv, Live, IInv, TypeOK
<1>2. pc = "run" => Running /\ ~Dropping
  BY DEF Running, Dropping
<1>3. \A k \in CellSizes : /\ k \in Nat /\ ToSet(syn.free[k]) \subseteq Pointer
                           /\ ToSet(bnd.free[k]) \subseteq Pointer
  BY FreeTypes, CellMembers
<1>4. CellsHeld
  BY CellParts DEF Placed, CellPart
<1> QED BY <1>1, <1>2, <1>3, <1>4, CellZoned DEF CellZones, LiveType, Pointer

LEMMA PermAllocPlaced ==
  ASSUME IInv, IInv', Hunky, Hunky', Placed, pc \in {"idle", "run"},
         NEW n \in Sizes, PermAllocCall(n)
  PROVE  Placed'
<1> DEFINE t == PermAlloc(pool, n)
<1>1. n \in Nat /\ pool \in PoolType
  BY SizesNat, HunkyFields
<1>2. CASE t.err # "none"
  BY <1>2, FailPlaced DEF PermAllocCall
<1>3. CASE t.err = "none"
  <2>1. /\ pool' = t /\ Note("perm", [t.permallp EXCEPT !.off = t.permallp.off - n], n)
        /\ UNCHANGED <<glob, syn, bnd, marklist, pc>>
    BY <1>3 DEF PermAllocCall
  <2>2. Sound /\ Apart(pool, {}) /\ PermSound(pool)
    <3>1. Sound /\ Tidy(pool, SynSeg, glob)
      BY DEF Sound, Running, Hunky
    <3> QED BY <3>1, ApartLess DEF Tidy, GlobApart
  <2>3. PICK p \in Pointer :
          /\ p = [t.permallp EXCEPT !.off = t.permallp.off - n]
          /\ PermUpTo(t, p.hunk, p.off + n)
          /\ \A h : \A e \in Nat : PermUpTo(pool, h, e) =>
               PermUpTo(t, h, e) /\ (h = p.hunk => e <= p.off)
    BY <1>1, <1>3, <2>2, PermAllocGives
  <2> HIDE DEF t
  <2>4. PICK w : w = Object("perm", p, n)
    OBVIOUS
  <2>5. /\ w.class = "perm" /\ w.hunk = p.hunk /\ w.off = p.off /\ w.size = n /\ w.level = 0
        /\ "perm" \in Classes
    BY <2>4 DEF Object, Classes
  <2>6. ObjOK(w)'
    BY <2>1, <2>3, <2>5 DEF ObjOK, PermOK, GlobOK, SynOK, BindOK
  <2>7. AllKeep
    <3>1. PermKeeps /\ GlobKeeps
      BY <2>1, <2>3 DEF PermKeeps, GlobKeeps
    <3>2. ASSUME pc = "run" PROVE SynKeeps /\ BindKeeps
      <4>1. Running /\ Running' /\ (Dropping <=> Dropping') /\ SamePlaces(marklist, marklist')
        BY <2>1, <3>2, SameList DEF Running, Dropping
      <4>2. BindKept(pool, pool')
        BY <1>1, <2>1, <4>1, HunkyFields, PermAllocPasses, PassesBind DEF t
      <4> QED BY <2>1, <4>1, <4>2, StacksSame
    <3> QED BY <3>1, <3>2 DEF AllKeep
  <2>8. Apiece("perm", p, n)
    <3>1. ASSUME NEW o \in Live, live[o].class = "perm"
          PROVE  Disjoint(p, n, live[o], live[o].size)
      <4>1. /\ PermUpTo(pool, live[o].hunk, live[o].off + live[o].size)
            /\ live[o].off + live[o].size \in Nat
        BY <3>1, HeldAll DEF ObjOK, PermOK
      <4> QED BY <2>3, <4>1 DEF Disjoint
    <3> QED BY <3>1 DEF Apiece
  <2>9. GlobInv'
    BY <2>1 DEF Placed, GlobInv, Sound, Running
  <2>10. syn'.free = syn.free /\ bnd'.free = bnd.free /\ Note("perm", p, n)
    BY <2>1, <2>3
  <2> QED BY <1>1, <2>1, <2>4, <2>5, <2>6, <2>7, <2>8, <2>9, <2>10, SameCells, BlockPlaced
<1> QED BY <1>2, <1>3

LEMMA GlobEffect ==
  ASSUME IInv, Hunky, Placed, pc = "run", pc' = pc, NEW n \in Nat,
         GlobAlloc(pool, glob, n).pool.err = "none",
         pool' = GlobAlloc(pool, glob, n).pool, glob' = GlobAlloc(pool, glob, n).glob
  PROVE  /\ GlobGives(glob, glob', GlobAlloc(pool, glob, n).at, n)
         /\ GlobAlloc(pool, glob, n).at \in Pointer
         /\ PermKeeps /\ GlobKeeps /\ BindKept(pool, pool') /\ GlobInv'
<1>1. /\ pool \in PoolType /\ glob \in GlobType /\ Running /\ Sound
      /\ pool.bindsegcur <= Len(pool.bindseg)
  BY HunkyFields
<1>2. Tidy(pool, SynSeg, glob) /\ GlobSound(glob) /\ PagesWhole(glob)
  BY <1>1 DEF Hunky, Placed, GlobInv
<1>3. GlobGives(glob, glob', GlobAlloc(pool, glob, n).at, n)
  <2>1. GlobApart(pool, ToSet(SynSeg), glob)
    BY <1>2 DEF Tidy
  <2> QED BY <1>1, <1>2, <2>1, GlobAllocGives
<1>4. Passes(pool, pool')
  BY <1>1, GlobAllocPasses
<1>5. PermKeeps
  BY <1>2, <1>4, ApartLess DEF Passes, Tidy, GlobApart, PermKeeps
<1>6. GlobKeeps /\ GlobInv'
  BY <1>3 DEF GlobGives, GlobKeeps, GlobInv
<1> QED BY <1>1, <1>3, <1>4, <1>5, <1>6, PassesBind, GlobAllocType

LEMMA GlobAllocPlaced ==
  ASSUME IInv, IInv', Hunky, Hunky', Placed, pc = "run", NEW n \in Sizes, GlobAllocCall(n)
  PROVE  Placed'
<1> DEFINE r == GlobAlloc(pool, glob, n)
<1>1. n \in Nat
  BY SizesNat
<1>2. CASE r.pool.err # "none"
  BY <1>2, FailPlaced DEF GlobAllocCall
<1>3. CASE r.pool.err = "none"
  <2>1. /\ pool' = r.pool /\ glob' = r.glob /\ Note("glob", r.at, n)
        /\ UNCHANGED <<syn, bnd, marklist, pc>>
    BY <1>3 DEF GlobAllocCall
  <2>2. PICK p : p = r.at
    OBVIOUS
  <2>3. /\ GlobGives(glob, glob', p, n) /\ p \in Pointer
        /\ PermKeeps /\ GlobKeeps /\ BindKept(pool, pool') /\ GlobInv'
    BY <1>1, <1>3, <2>1, <2>2, GlobEffect
  <2> HIDE DEF r
  <2>4. PICK w : w = Object("glob", p, n)
    OBVIOUS
  <2>5. /\ w.class = "glob" /\ w.hunk = p.hunk /\ w.off = p.off /\ w.size = n /\ w.level = 0
        /\ "glob" \in Classes
    BY <2>4 DEF Object, Classes
  <2>6. ObjOK(w)'
    BY <2>1, <2>3, <2>5 DEF ObjOK, PermOK, GlobOK, SynOK, BindOK, GlobGives
  <2>7. AllKeep
    <3>1. Running /\ Running' /\ (Dropping <=> Dropping') /\ SamePlaces(marklist, marklist')
      BY <2>1, SameList DEF Running, Dropping
    <3>2. SynKeeps /\ BindKeeps
      BY <2>1, <2>3, <3>1, StacksSame
    <3> QED BY <2>3, <3>2 DEF AllKeep
  <2>8. Apiece("glob", p, n)
    <3>1. ASSUME NEW o \in Live, live[o].class = "glob"
          PROVE  Disjoint(p, n, live[o], live[o].size)
      <4>1. /\ GlobUpTo(glob, live[o].hunk, live[o].off + live[o].size)
            /\ live[o].off + live[o].size \in Nat
        BY <3>1, HeldAll DEF ObjOK, GlobOK
      <4> QED BY <2>3, <4>1 DEF Disjoint, GlobGives
    <3> QED BY <3>1 DEF Apiece
  <2>9. syn'.free = syn.free /\ bnd'.free = bnd.free /\ Note("glob", p, n)
    BY <2>1, <2>2
  <2> QED BY <1>1, <2>1, <2>3, <2>4, <2>5, <2>6, <2>7, <2>8, <2>9, SameCells, BlockPlaced
<1> QED BY <1>2, <1>3

LEMMA SameGlob == ASSUME UNCHANGED glob PROVE GlobKeeps
BY DEF GlobKeeps

LEMMA SynAllocPlaced ==
  ASSUME IInv, IInv', Hunky, Hunky', MarksRestore, Placed, pc = "run",
         NEW n \in Nat, SynAlloc(n)
  PROVE  Placed'
<1>1. CASE \E e : Fail(e)
  BY <1>1, FailPlaced
<1>2. ASSUME NEW p \in Pointer, Note("syn", p, n), SynGives(p, n),
             SynKeeps, BindKeeps, PermKeeps, syn'.free = syn.free,
             UNCHANGED <<glob, bnd, marklist, pc>>
      PROVE  Placed'
  <2>1. PICK w : w = Object("syn", p, n)
    OBVIOUS
  <2>2. /\ w.class = "syn" /\ w.hunk = p.hunk /\ w.off = p.off /\ w.size = n
        /\ w.level = Len(marklist) /\ "syn" \in Classes /\ Len(marklist) \in Nat
    BY <2>1 DEF Object, Classes, IInv, TypeOK
  <2>3. HeldSyn(w, w.size)'
    BY <1>2, <2>2 DEF SynGives, HeldSyn, SynTop, Dropping
  <2>4. ObjOK(w)'
    BY <1>2, <2>2, <2>3, NewSynOK DEF SynGives
  <2>5. AllKeep
    BY <1>2, SameGlob DEF AllKeep
  <2>6. Apiece("syn", p, n)
    <3>1. ASSUME NEW o \in Live, live[o].class = "syn"
          PROVE  Disjoint(p, n, live[o], live[o].size)
      <4>1. /\ HeldSyn(live[o], live[o].size) /\ live[o].off \in Nat /\ live[o].size \in Nat
        BY <3>1, HeldAll DEF ObjOK, SynOK
      <4> QED BY <1>2, <4>1 DEF SynGives
    <3>2. ASSUME NEW k \in CellSizes, NEW q \in ToSet(syn'.free[k])
          PROVE  Disjoint(p, n, q, k)
      <4>1. q \in ToSet(syn.free[k])
        BY <1>2, <3>2
      <4>2. HeldSyn(q, k) /\ q.off \in Nat /\ k \in Nat
        BY <4>1, HeldAll
      <4> QED BY <1>2, <4>2 DEF SynGives
    <3> QED BY <3>1, <3>2 DEF Apiece
  <2>7. GlobInv'
    BY <1>2 DEF Placed, GlobInv, Sound, Running
  <2> QED BY <1>2, <2>1, <2>2, <2>4, <2>5, <2>6, <2>7, SameCells, BlockPlaced
<1> QED BY <1>1, <1>2, SynAllocGives

LEMMA BindAllocPlaced ==
  ASSUME IInv, IInv', Hunky, Hunky', MarksRestore, Placed, pc = "run",
         NEW n \in Nat, BindAlloc(n)
  PROVE  Placed'
<1>1. CASE \E e : Fail(e)
  BY <1>1, FailPlaced
<1>2. ASSUME NEW p \in Pointer, Note("bind", p, n), BindGives(p, n),
             SynKeeps, BindKeeps, PermKeeps, bnd'.free = bnd.free,
             UNCHANGED <<glob, syn, marklist, pc>>
      PROVE  Placed'
  <2>1. PICK w : w = Object("bind", p, n)
    OBVIOUS
  <2>2. /\ w.class = "bind" /\ w.hunk = p.hunk /\ w.off = p.off /\ w.size = n
        /\ w.level = Len(marklist) /\ "bind" \in Classes /\ Len(marklist) \in Nat
    BY <2>1 DEF Object, Classes, IInv, TypeOK
  <2>3. HeldBind(w, w.size)'
    BY <1>2, <2>2 DEF BindGives, HeldBind, BindTop
  <2>4. ObjOK(w)'
    BY <1>2, <2>2, <2>3, NewBindOK
  <2>5. AllKeep
    BY <1>2, SameGlob DEF AllKeep
  <2>6. Apiece("bind", p, n)
    <3>1. ASSUME NEW o \in Live, live[o].class = "bind"
          PROVE  Disjoint(p, n, live[o], live[o].size)
      <4>1. /\ HeldBind(live[o], live[o].size) /\ live[o].off \in Nat /\ live[o].size \in Nat
        BY <3>1, HeldAll DEF ObjOK, BindOK
      <4> QED BY <1>2, <4>1 DEF BindGives
    <3>2. ASSUME NEW k \in CellSizes, NEW q \in ToSet(bnd'.free[k])
          PROVE  Disjoint(p, n, q, k)
      <4>1. q \in ToSet(bnd.free[k])
        BY <1>2, <3>2
      <4>2. HeldBind(q, k) /\ q.off \in Nat /\ k \in Nat
        BY <4>1, HeldAll
      <4> QED BY <1>2, <4>2 DEF BindGives
    <3> QED BY <3>1, <3>2 DEF Apiece
  <2>7. GlobInv'
    BY <1>2 DEF Placed, GlobInv, Sound, Running
  <2> QED BY <1>2, <2>1, <2>2, <2>4, <2>5, <2>6, <2>7, SameCells, BlockPlaced
<1> QED BY <1>1, <1>2, BindAllocGives

----------------------------------------------------------------------------
(* Cells taken from the lists and given back.                              *)

LEMMA ConsAt ==
  ASSUME NEW S, NEW s \in Seq(S), NEW e \in S
  PROVE  LET t == <<e>> \o s
         IN  /\ Len(t) = Len(s) + 1 /\ Len(s) \in Nat /\ t[1] = e
             /\ \A i \in 1 .. Len(t) : i # 1 => i - 1 \in 1 .. Len(s) /\ t[i] = s[i - 1]
<1> DEFINE t == <<e>> \o s
<1>1. <<e>> \in Seq(S) /\ Len(<<e>>) = 1 /\ <<e>>[1] = e
  OBVIOUS
<1>2. /\ Len(t) = 1 + Len(s) /\ Len(s) \in Nat
      /\ \A i \in 1 .. 1 + Len(s) : t[i] = IF i <= 1 THEN e ELSE s[i - 1]
  <2>1. \A i \in 1 .. 1 + Len(s) : i <= 1 => <<e>>[i] = e
    BY LenProperties
  <2> QED BY <1>1, <2>1, ConcatProperties, LenProperties
<1> HIDE DEF t
<1> QED BY <1>2 DEF t

LEMMA CellsAt ==
  ASSUME NEW f \in Cells
  PROVE  \A j \in CellSizes :
           /\ \A a \in 1 .. Len(f[j]) : f[j][a] \in ToSet(f[j])
           /\ \A q \in ToSet(f[j]) : \E a \in 1 .. Len(f[j]) : q = f[j][a]
<1> SUFFICES ASSUME NEW j \in CellSizes
             PROVE  /\ \A a \in 1 .. Len(f[j]) : f[j][a] \in ToSet(f[j])
                    /\ \A q \in ToSet(f[j]) : \E a \in 1 .. Len(f[j]) : q = f[j][a]
  OBVIOUS
<1>1. ToSet(f[j]) = {f[j][a] : a \in 1 .. Len(f[j])}
  BY CellMembers
<1> QED BY <1>1

\* The list of k-word cells loses its first cell.
LEMMA CellTaken ==
  ASSUME NEW f \in Cells, NEW g \in Cells, NEW k \in CellSizes, f[k] # <<>>,
         g = [f EXCEPT ![k] = Tail(f[k])], CellsApart(f)
  PROVE  /\ Head(f[k]) \in ToSet(f[k]) /\ CellsApart(g)
         /\ \A j \in CellSizes : ToSet(g[j]) \subseteq ToSet(f[j])
         /\ \A j \in CellSizes : \A q \in ToSet(g[j]) : Disjoint(Head(f[k]), k, q, j)
<1>1. PICK t : t = Tail(f[k])
  OBVIOUS
<1>2. /\ f[k] \in Seq(Pointer) /\ Len(f[k]) \in Nat /\ Head(f[k]) = f[k][1]
      /\ 1 \in 1 .. Len(f[k]) /\ Len(t) = Len(f[k]) - 1
      /\ \A a \in 1 .. Len(t) : t[a] = f[k][a + 1]
  <2>1. f[k] \in Seq(Pointer) /\ Len(f[k]) \in Nat
    BY CellMembers
  <2>2. Len(f[k]) # 0
    BY <2>1, EmptySeq
  <2> QED BY <1>1, <2>1, <2>2, HeadTailProperties
<1>3. g[k] = t /\ \A j \in CellSizes : j # k => g[j] = f[j]
  BY <1>1 DEF Cells
<1>4. \A j \in CellSizes : \A a \in 1 .. Len(g[j]) :
        \E b \in 1 .. Len(f[j]) : /\ g[j][a] = f[j][b]
                                  /\ b = IF j = k THEN a + 1 ELSE a
  <2>1. \A a \in 1 .. Len(t) : a + 1 \in 1 .. Len(f[k])
    BY <1>2
  <2> QED BY <1>2, <1>3, <2>1
<1>5. \A j \in CellSizes :
        /\ \A a \in 1 .. Len(f[j]) : f[j][a] \in ToSet(f[j])
        /\ \A q \in ToSet(g[j]) : \E a \in 1 .. Len(g[j]) : q = g[j][a]
  BY CellsAt
<1>6. CellsApart(g)
  <2> SUFFICES ASSUME NEW i \in CellSizes, NEW j \in CellSizes,
                      NEW a \in 1 .. Len(g[i]), NEW b \in 1 .. Len(g[j]), j # i \/ a # b
               PROVE  Disjoint(g[i][a], i, g[j][b], j)
    BY DEF CellsApart
  <2>1. PICK c \in 1 .. Len(f[i]) : g[i][a] = f[i][c] /\ c = IF i = k THEN a + 1 ELSE a
    BY <1>4
  <2>2. PICK d \in 1 .. Len(f[j]) : g[j][b] = f[j][d] /\ d = IF j = k THEN b + 1 ELSE b
    BY <1>4
  <2>3. j # i \/ c # d
    BY <2>1, <2>2
  <2> QED BY <2>1, <2>2, <2>3 DEF CellsApart
<1>7. ASSUME NEW j \in CellSizes, NEW q \in ToSet(g[j]) PROVE q \in ToSet(f[j])
  <2>1. PICK a \in 1 .. Len(g[j]) : q = g[j][a]
    BY <1>5
  <2>2. PICK b \in 1 .. Len(f[j]) : g[j][a] = f[j][b]
    BY <1>4
  <2> QED BY <1>5, <2>1, <2>2
<1>8. Head(f[k]) \in ToSet(f[k])
  BY <1>2, <1>5
<1>9. ASSUME NEW j \in CellSizes, NEW q \in ToSet(g[j]) PROVE Disjoint(Head(f[k]), k, q, j)
  <2>1. PICK a \in 1 .. Len(g[j]) : q = g[j][a]
    BY <1>5
  <2>2. PICK b \in 1 .. Len(f[j]) : g[j][a] = f[j][b] /\ b = IF j = k THEN a + 1 ELSE a
    BY <1>4
  <2>3. j # k \/ 1 # b
    BY <2>2
  <2> QED BY <1>2, <2>1, <2>2, <2>3 DEF CellsApart
<1> QED BY <1>6, <1>7, <1>8, <1>9

\* The list of k-word cells gains the cell at p.
CellPut(f, g, k, p) ==
  /\ g = [f EXCEPT ![k] = <<p>> \o f[k]] /\ CellsApart(f)
  /\ \A j \in CellSizes : \A q \in ToSet(f[j]) : Disjoint(p, k, q, j)

LEMMA CellAdded ==
  ASSUME NEW f \in Cells, NEW g \in Cells, NEW k \in CellSizes, NEW p \in Pointer,
         CellPut(f, g, k, p)
  PROVE  /\ CellsApart(g) /\ ToSet(g[k]) = ToSet(f[k]) \cup {p}
         /\ \A j \in CellSizes : j # k => g[j] = f[j]
<1>0. /\ g = [f EXCEPT ![k] = <<p>> \o f[k]] /\ CellsApart(f)
      /\ \A j \in CellSizes : \A q \in ToSet(f[j]) : Disjoint(p, k, q, j)
  BY DEF CellPut
<1>1. PICK t : t = <<p>> \o f[k]
  OBVIOUS
<1>2. f[k] \in Seq(Pointer) /\ Len(f[k]) \in Nat
  BY CellMembers
<1>3. /\ Len(t) = Len(f[k]) + 1 /\ t[1] = p
      /\ \A a \in 1 .. Len(t) : a # 1 => a - 1 \in 1 .. Len(f[k]) /\ t[a] = f[k][a - 1]
  BY <1>1, <1>2, ConsAt
<1>4. g[k] = t /\ \A j \in CellSizes : j # k => g[j] = f[j]
  BY <1>0, <1>1 DEF Cells
<1>5. \A j \in CellSizes : \A a \in 1 .. Len(f[j]) : f[j][a] \in ToSet(f[j])
  BY CellsAt
<1>6. ToSet(g[k]) = ToSet(f[k]) \cup {p}
  BY <1>1, <1>2, <1>4, ConsSet
<1>7. CellsApart(g)
  <2> SUFFICES ASSUME NEW i \in CellSizes, NEW j \in CellSizes,
                      NEW a \in 1 .. Len(g[i]), NEW b \in 1 .. Len(g[j]), j # i \/ a # b
               PROVE  Disjoint(g[i][a], i, g[j][b], j)
    BY DEF CellsApart
  <2>1. \/ i = k /\ a = 1 /\ g[i][a] = p
        \/ \E c \in 1 .. Len(f[i]) : g[i][a] = f[i][c] /\ c = IF i = k THEN a - 1 ELSE a
    BY <1>2, <1>3, <1>4
  <2>2. \/ j = k /\ b = 1 /\ g[j][b] = p
        \/ \E d \in 1 .. Len(f[j]) : g[j][b] = f[j][d] /\ d = IF j = k THEN b - 1 ELSE b
    BY <1>2, <1>3, <1>4
  <2>3. CASE i = k /\ a = 1 /\ g[i][a] = p
    <3>1. PICK d \in 1 .. Len(f[j]) : g[j][b] = f[j][d]
      BY <2>2, <2>3
    <3> QED BY <1>0, <1>5, <2>3, <3>1
  <2>4. CASE j = k /\ b = 1 /\ g[j][b] = p
    <3>1. PICK c \in 1 .. Len(f[i]) : g[i][a] = f[i][c]
      BY <2>1, <2>4
    <3>2. Disjoint(p, k, f[i][c], i)
      BY <1>0, <1>5
    <3> QED BY <2>4, <3>1, <3>2, DisjointSymmetric
  <2>5. ASSUME NEW c \in 1 .. Len(f[i]), g[i][a] = f[i][c], c = IF i = k THEN a - 1 ELSE a,
               NEW d \in 1 .. Len(f[j]), g[j][b] = f[j][d], d = IF j = k THEN b - 1 ELSE b
        PROVE  Disjoint(g[i][a], i, g[j][b], j)
    <3>1. j # i \/ c # d
      BY <2>5
    <3> QED BY <1>0, <2>5, <3>1 DEF CellsApart
  <2> QED BY <2>1, <2>2, <2>3, <2>4, <2>5
<1> QED BY <1>4, <1>6, <1>7

\* Every member of the lists is held: what CellsHeld says, by members.
LEMMA CellsHeldMembers ==
  ASSUME IInv', \A k \in CellSizes :
           /\ \A q \in ToSet(syn'.free[k]) : /\ q.off + k <= SEGSIZE
                                             /\ ~Dropping' => HeldSyn(q, k)'
           /\ \A q \in ToSet(bnd'.free[k]) : HeldBind(q, k)'
  PROVE  CellsHeld'
<1> SUFFICES ASSUME NEW k \in CellSizes
             PROVE  /\ \A a \in 1 .. Len(syn'.free[k]) :
                         /\ syn'.free[k][a].off + k <= SEGSIZE
                         /\ ~Dropping' => HeldSyn(syn.free[k][a], k)'
                    /\ \A a \in 1 .. Len(bnd'.free[k]) : HeldBind(bnd.free[k][a], k)'
  BY DEF CellsHeld
<1>1. PICK h, e : h = syn'.free /\ e = bnd'.free
  OBVIOUS
<1>2. h \in Cells /\ e \in Cells
  BY <1>1, FreeTypesNext
<1>3. /\ \A a \in 1 .. Len(h[k]) : h[k][a] \in ToSet(h[k])
      /\ \A a \in 1 .. Len(e[k]) : e[k][a] \in ToSet(e[k])
  BY <1>2, CellsAt
<1>4. /\ \A q \in ToSet(h[k]) : q.off + k <= SEGSIZE /\ (~Dropping' => HeldSyn(q, k)')
      /\ \A q \in ToSet(e[k]) : HeldBind(q, k)'
  BY <1>1
<1> QED BY <1>1, <1>3, <1>4

LEMMA SynConsPlaced ==
  ASSUME IInv, IInv', Hunky, Hunky', MarksRestore, Placed, pc = "run",
         NEW k \in CellSizes, SynCons(k)
  PROVE  Placed'
<1>0. k \in Nat
  BY SizesNat
<1>1. CASE syn.free[k] = <<>>
  BY <1>0, <1>1, SynAllocPlaced DEF SynCons
<1>2. CASE syn.free[k] # <<>>
  <2>1. PICK f, g, p : f = syn.free /\ g = syn'.free /\ p = Head(syn.free[k])
    OBVIOUS
  <2>2. /\ g = [f EXCEPT ![k] = Tail(f[k])] /\ f \in Cells /\ g \in Cells
        /\ syn'.seg = syn.seg /\ syn'.ptr = syn.ptr /\ syn'.allp = syn.allp
        /\ Note("syn", p, k) /\ UNCHANGED <<pool, glob, bnd, marklist, pc>>
    BY <1>2, <2>1, FreeTypes, FreeTypesNext DEF SynCons, IInv, TypeOK, SynType
  <2>3. CellsApart(f) /\ CellsApart(bnd.free) /\ CellsHeld /\ CellsOff
    BY <2>1, CellParts DEF Placed, CellPart, Running
  <2>4. /\ p \in ToSet(f[k]) /\ CellsApart(g)
        /\ \A j \in CellSizes : ToSet(g[j]) \subseteq ToSet(f[j])
        /\ \A j \in CellSizes : \A q \in ToSet(g[j]) : Disjoint(p, k, q, j)
    BY <1>2, <2>1, <2>2, <2>3, CellTaken
  <2>5. /\ p \in Pointer /\ HeldSyn(p, k) /\ p.off + k <= SEGSIZE
    <3>1. p \in Pointer /\ HeldSyn(p, k)
      BY <2>1, <2>4, HeldAll
    <3>2. PICK a \in 1 .. Len(f[k]) : p = f[k][a]
      BY <2>2, <2>4, CellsAt
    <3> QED BY <2>1, <2>3, <3>1, <3>2 DEF CellsHeld, Running
  <2>6. PICK w : w = Object("syn", p, k)
    OBVIOUS
  <2>7. /\ w.class = "syn" /\ w.hunk = p.hunk /\ w.off = p.off /\ w.size = k
        /\ w.level = Len(marklist) /\ "syn" \in Classes /\ Len(marklist) \in Nat
    BY <2>6 DEF Object, Classes, IInv, TypeOK
  <2>8. Running /\ Running' /\ (Dropping <=> Dropping') /\ SamePlaces(marklist, marklist')
    BY <2>2, SameList DEF Running, Dropping
  <2>9. SynKeeps /\ BindKeeps
    <3>1. BindKept(pool, pool')
      BY <2>2, <2>8, BindSame
    <3> QED BY <2>2, <2>8, <3>1, StacksSame
  <2>10. AllKeep
    BY <2>2, <2>9, SameGlob DEF AllKeep, PermKeeps
  <2>11. ObjOK(w)'
    <3>1. HeldSyn(p, k)'
      BY <1>0, <2>5, <2>9 DEF SynKeeps, Pointer
    <3>2. HeldSyn(w, w.size)'
      BY <2>7, <3>1 DEF HeldSyn, SynTop, Dropping
    <3> QED BY <2>2, <2>5, <2>7, <3>2, NewSynOK
  <2>12. Apiece("syn", p, k)
    <3>1. \A o \in Live : Disjoint(p, k, live[o], live[o].size)
      BY <2>1, <2>3, <2>4, <2>8 DEF CellsOff
    <3> QED BY <2>1, <2>4, <3>1 DEF Apiece
  <2>13. GlobInv'
    BY <2>2 DEF Placed, GlobInv, Sound, Running
  <2>14. /\ \A j \in CellSizes : /\ ToSet(syn'.free[j]) \subseteq ToSet(syn.free[j])
                                 /\ ToSet(bnd'.free[j]) \subseteq ToSet(bnd.free[j])
         /\ CellsApart(syn'.free) /\ CellsApart(bnd'.free)
    BY <2>1, <2>2, <2>3, <2>4
  <2> QED BY <1>0, <2>2, <2>5, <2>6, <2>7, <2>10, <2>11, <2>12, <2>13, <2>14, BlockPlaced
<1> QED BY <1>1, <1>2

LEMMA BindConsPlaced ==
  ASSUME IInv, IInv', Hunky, Hunky', MarksRestore, Placed, pc = "run",
         NEW k \in CellSizes, BindCons(k)
  PROVE  Placed'
<1>0. k \in Nat
  BY SizesNat
<1>1. CASE bnd.free[k] = <<>>
  BY <1>0, <1>1, BindAllocPlaced DEF BindCons
<1>2. CASE bnd.free[k] # <<>>
  <2>1. PICK f, g, p : f = bnd.free /\ g = bnd'.free /\ p = Head(bnd.free[k])
    OBVIOUS
  <2>2. /\ g = [f EXCEPT ![k] = Tail(f[k])] /\ f \in Cells /\ g \in Cells
        /\ bnd'.ptr = bnd.ptr /\ bnd'.allp = bnd.allp
        /\ Note("bind", p, k) /\ UNCHANGED <<pool, glob, syn, marklist, pc>>
    BY <1>2, <2>1, FreeTypes, FreeTypesNext DEF BindCons, IInv, TypeOK, BndType
  <2>3. CellsApart(f) /\ CellsApart(syn.free) /\ CellsHeld /\ CellsOff
    BY <2>1, CellParts DEF Placed, CellPart, Running
  <2>4. /\ p \in ToSet(f[k]) /\ CellsApart(g)
        /\ \A j \in CellSizes : ToSet(g[j]) \subseteq ToSet(f[j])
        /\ \A j \in CellSizes : \A q \in ToSet(g[j]) : Disjoint(p, k, q, j)
    BY <1>2, <2>1, <2>2, <2>3, CellTaken
  <2>5. p \in Pointer /\ HeldBind(p, k)
    BY <2>1, <2>4, HeldAll
  <2>6. PICK w : w = Object("bind", p, k)
    OBVIOUS
  <2>7. /\ w.class = "bind" /\ w.hunk = p.hunk /\ w.off = p.off /\ w.size = k
        /\ w.level = Len(marklist) /\ "bind" \in Classes /\ Len(marklist) \in Nat
    BY <2>6 DEF Object, Classes, IInv, TypeOK
  <2>8. Running /\ Running' /\ (Dropping <=> Dropping') /\ SamePlaces(marklist, marklist')
    BY <2>2, SameList DEF Running, Dropping
  <2>9. SynKeeps /\ BindKeeps
    <3>1. BindKept(pool, pool')
      BY <2>2, <2>8, BindSame
    <3> QED BY <2>2, <2>8, <3>1, StacksSame
  <2>10. AllKeep
    BY <2>2, <2>9, SameGlob DEF AllKeep, PermKeeps
  <2>11. ObjOK(w)'
    <3>1. HeldBind(p, k)'
      BY <1>0, <2>5, <2>9 DEF BindKeeps, Pointer
    <3>2. HeldBind(w, w.size)'
      BY <2>7, <3>1 DEF HeldBind, BindTop
    <3> QED BY <2>2, <2>7, <3>2, NewBindOK
  <2>12. Apiece("bind", p, k)
    <3>1. \A o \in Live : Disjoint(p, k, live[o], live[o].size)
      BY <2>1, <2>3, <2>4, <2>8 DEF CellsOff
    <3> QED BY <2>1, <2>4, <3>1 DEF Apiece
  <2>13. GlobInv'
    BY <2>2 DEF Placed, GlobInv, Sound, Running
  <2>14. /\ \A j \in CellSizes : /\ ToSet(syn'.free[j]) \subseteq ToSet(syn.free[j])
                                 /\ ToSet(bnd'.free[j]) \subseteq ToSet(bnd.free[j])
         /\ CellsApart(syn'.free) /\ CellsApart(bnd'.free)
    BY <2>1, <2>2, <2>3, <2>4
  <2> QED BY <1>0, <2>2, <2>5, <2>6, <2>7, <2>10, <2>11, <2>12, <2>13, <2>14, BlockPlaced
<1> QED BY <1>1, <1>2

----------------------------------------------------------------------------
(* Steps that hand nothing out.                                            *)

\* The objects that live after a step lived before it where they do now.
Fewer == \A o \in Live' : o \in Live /\ live'[o] = live[o]

LEMMA FewerApart ==
  ASSUME LiveDisjoint, CellsOff, Fewer,
         Running' => /\ Running
                     /\ \A k \in CellSizes :
                          /\ ToSet(syn'.free[k]) \subseteq ToSet(syn.free[k])
                          /\ ToSet(bnd'.free[k]) \subseteq ToSet(bnd.free[k])
  PROVE  LiveDisjoint' /\ CellsOff'
<1>1. LiveDisjoint'
  BY DEF LiveDisjoint, Fewer
<1>2. CellsOff'
  <2> SUFFICES ASSUME Running', NEW k \in CellSizes,
                      NEW q \in ToSet(syn'.free[k]) \cup ToSet(bnd'.free[k]), NEW o \in Live'
               PROVE  Disjoint(q, k, live'[o], live'[o].size)
    BY DEF CellsOff
  <2>1. Disjoint(q, k, live[o], live[o].size)
    BY DEF CellsOff, Fewer
  <2> QED BY <2>1 DEF Fewer
<1> QED BY <1>1, <1>2

\* What is left to show of a step that keeps the free lists or empties them.
LEMMA LessPlaced ==
  ASSUME IInv', Placed, Fewer, ObjInv', GlobInv',
         Running' => /\ Running /\ CellsHeld'
                     /\ syn'.free \in {syn.free, NoCells} /\ bnd'.free \in {bnd.free, NoCells}
  PROVE  Placed'
<1>1. CellsHeld /\ CellsOff /\ (Running => CellsApart(syn.free) /\ CellsApart(bnd.free))
  BY CellParts DEF Placed, CellPart
<1>2. Running' => \A k \in CellSizes : /\ ToSet(syn'.free[k]) \subseteq ToSet(syn.free[k])
                                       /\ ToSet(bnd'.free[k]) \subseteq ToSet(bnd.free[k])
  BY NoCellsApart
<1>3. LiveDisjoint' /\ CellsOff'
  BY <1>1, <1>2, FewerApart DEF Placed
<1>4. Running' => CellsApart(syn'.free) /\ CellsApart(bnd'.free)
  BY <1>1, NoCellsApart
<1>5. CellsHeld'
  BY DEF CellsHeld
<1>6. CellInv'
  BY <1>3, <1>4, <1>5, CellPartsNext DEF CellPart
<1> QED BY <1>3, <1>6 DEF Placed

\* An object that lives on after a step.
Survivors == \A o \in Live' : /\ o \in Live /\ live'[o] = live[o]
                              /\ live[o] \in LiveType /\ ObjOK(live[o])

LEMMA Survive ==
  ASSUME IInv, ObjInv, Sound, Fewer
  PROVE  Survivors
BY DEF Survivors, Fewer, ObjInv, Live, IInv, TypeOK

LEMMA SameFewer == ASSUME UNCHANGED live PROVE Fewer
BY DEF Fewer, Live

\* Objects that live on, with the phase, stay where they must be.
LEMMA SurviveKept ==
  ASSUME Survivors, \A x \in LiveType : ObjOK(x) => ObjOK(x)', pc' # "exit"
  PROVE  ObjInv'
<1>1. ASSUME NEW o \in Live', NEW x, x = live'[o] PROVE ObjOK(x)'
  BY <1>1 DEF Survivors
<1>2. \A o \in Live' : ObjOK(live[o])'
  BY <1>1
<1> QED BY <1>2 DEF ObjInv

LEMMA DiscardPlaced ==
  ASSUME IInv, IInv', Hunky, Hunky', Placed, pc = "run", NEW o \in Obs, Discard(o)
  PROVE  Placed'
<1>1. PICK c, p : c = live[o] /\ p = [hunk |-> c.hunk, off |-> c.off]
  OBVIOUS
<1>2. /\ c # None /\ c.class \in {"syn", "bind"} /\ c.size \in CellSizes
      /\ live' = [live EXCEPT ![o] = None]
      /\ UNCHANGED <<pool, glob, marklist, pc>>
  BY <1>1 DEF Discard
<1>3. /\ o \in Live /\ c \in LiveType /\ ObjOK(c) /\ p \in Pointer /\ p.hunk = c.hunk
      /\ p.off = c.off /\ c.size \in Nat /\ p.off \in Nat
  <2>1. o \in Live
    BY <1>1, <1>2 DEF Live
  <2>2. c \in LiveType /\ ObjOK(c)
    BY <1>1, <2>1, HeldAll
  <2> QED BY <1>1, <2>1, <2>2 DEF LiveType, Pointer
<1>4. Live' = Live \ {o} /\ Fewer
  <2>1. \A q \in Obs : live'[q] = IF q = o THEN None ELSE live[q]
    BY <1>2 DEF IInv, TypeOK
  <2> QED BY <2>1 DEF Live, Fewer
<1>5. /\ CellsHeld /\ CellsOff /\ CellsApart(syn.free) /\ CellsApart(bnd.free)
      /\ Running /\ Running' /\ ~Dropping /\ ~Dropping' /\ Sound
  <2>1. Running /\ Running' /\ ~Dropping /\ ~Dropping' /\ Sound
    BY <1>2 DEF Running, Dropping, Sound
  <2> QED BY <2>1, CellParts DEF Placed, CellPart
<1>6. \A j \in CellSizes : \A q \in ToSet(syn.free[j]) \cup ToSet(bnd.free[j]) :
        Disjoint(p, c.size, q, j)
  <2>1. \A j \in CellSizes : \A q \in ToSet(syn.free[j]) \cup ToSet(bnd.free[j]) :
          Disjoint(q, j, c, c.size)
    BY <1>1, <1>3, <1>5 DEF CellsOff
  <2> QED BY <1>3, <2>1 DEF Disjoint
<1>7. \A q \in Live' : Disjoint(p, c.size, live'[q], live'[q].size)
  <2>1. \A q \in Live : q # o => Disjoint(c, c.size, live[q], live[q].size)
    BY <1>1, <1>3 DEF Placed, LiveDisjoint
  <2> QED BY <1>3, <1>4, <2>1 DEF Disjoint, Fewer
<1>8. LiveDisjoint'
  BY <1>4 DEF LiveDisjoint, Fewer, Placed
<1>9. /\ syn'.seg = syn.seg /\ syn'.ptr = syn.ptr /\ syn'.allp = syn.allp
      /\ bnd'.ptr = bnd.ptr /\ bnd'.allp = bnd.allp
      /\ \/ /\ syn'.free = [syn.free EXCEPT ![c.size] = <<p>> \o syn.free[c.size]]
            /\ bnd'.free = bnd.free /\ c.hunk \in ToSet(syn.seg)
         \/ /\ bnd'.free = [bnd.free EXCEPT ![c.size] = <<p>> \o bnd.free[c.size]]
            /\ syn'.free = syn.free /\ c.hunk \notin ToSet(syn.seg)
            /\ c.hunk \in ToSet(SubSeq(pool.bindseg, 1, pool.bindsegcur))
  BY <1>1 DEF Discard, IInv, TypeOK, SynType, BndType
<1>10. SynKeeps /\ BindKeeps
  <2>1. BindKept(pool, pool') /\ SamePlaces(marklist, marklist')
    BY <1>2, <1>5, BindSame, SameList
  <2> QED BY <1>5, <1>9, <2>1, StacksSame
<1>11. ObjInv'
  <2>1. AllKeep
    BY <1>2, <1>10, SameGlob DEF AllKeep, PermKeeps
  <2>2. \A x \in LiveType : ObjOK(x) => ObjOK(x)'
    BY <1>2, <2>1, ObjKept
  <2> QED BY <1>2, <1>4, <1>5, <2>2, Survive, SurviveKept DEF Placed
<1>12. GlobInv'
  BY <1>2 DEF Placed, GlobInv, Sound, Running
<1>13. CASE syn'.free = [syn.free EXCEPT ![c.size] = <<p>> \o syn.free[c.size]]
            /\ bnd'.free = bnd.free /\ c.hunk \in ToSet(syn.seg)
  <2>1. PICK f, g, k : f = syn.free /\ g = syn'.free /\ k = c.size
    OBVIOUS
  <2>2. /\ f \in Cells /\ g \in Cells /\ k \in CellSizes /\ k \in Nat
        /\ g = [f EXCEPT ![k] = <<p>> \o f[k]]
    BY <1>2, <1>3, <1>13, <2>1, FreeTypes, FreeTypesNext
  <2>3. /\ CellsApart(g) /\ ToSet(g[k]) = ToSet(f[k]) \cup {p}
        /\ \A j \in CellSizes : j # k => g[j] = f[j]
    <3>1. CellPut(f, g, k, p)
      BY <1>5, <1>6, <2>1, <2>2 DEF CellPut
    <3> QED BY ZenonT(60), <1>3, <2>2, <3>1, CellAdded
  <2>4. HeldSyn(p, k) /\ p.off + k <= SEGSIZE
    <3>1. c.class = "syn"
      <4>1. c.hunk \in Zone("syn") /\ c.hunk \in Zone(c.class) /\ ZoneFacts
        BY <1>3, <1>5, <1>13, Zoned, HunkyFields DEF Zone, ZoneFacts
      <4>2. "syn" \in Classes /\ c.class \in Classes
        BY <1>3 DEF Classes, LiveType
      <4> QED BY <1>5, <4>1, <4>2 DEF ZoneFacts
    <3>2. HeldSyn(c, k) /\ c.off + k <= SEGSIZE
      BY <1>3, <2>1, <3>1 DEF ObjOK, SynOK
    <3> QED BY <1>3, <3>2 DEF HeldSyn
  <2>5. \A j \in CellSizes : \A q \in ToSet(g[j]) : q \in ToSet(f[j]) \/ (j = k /\ q = p)
    BY <2>3
  <2>6. CellsHeld'
    <3>1. ASSUME NEW j \in CellSizes, NEW q \in ToSet(syn'.free[j])
          PROVE  q.off + j <= SEGSIZE /\ HeldSyn(q, j)'
      <4>1. q.off + j <= SEGSIZE /\ HeldSyn(q, j) /\ q.off \in Nat /\ j \in Nat
        <5>1. CASE q = p /\ j = k
          BY <1>3, <2>2, <2>4, <5>1
        <5>2. CASE q \in ToSet(f[j])
          <6>1. PICK a \in 1 .. Len(f[j]) : q = f[j][a]
            BY <2>2, <5>2, CellsAt
          <6> QED BY <1>2, <1>5, <2>1, <5>2, <6>1, HeldAll DEF CellsHeld
        <5> QED BY <2>1, <2>5, <3>1, <5>1, <5>2
      <4> QED BY <1>10, <4>1 DEF SynKeeps
    <3>2. ASSUME NEW j \in CellSizes, NEW q \in ToSet(bnd'.free[j]) PROVE HeldBind(q, j)'
      <4>1. HeldBind(q, j) /\ q.off \in Nat /\ j \in Nat
        BY <1>13, <3>2, HeldAll
      <4> QED BY <1>10, <4>1 DEF BindKeeps
    <3> QED BY <3>1, <3>2, CellsHeldMembers
  <2>7. CellsOff'
    <3> SUFFICES ASSUME NEW j \in CellSizes,
                        NEW q \in ToSet(syn'.free[j]) \cup ToSet(bnd'.free[j]), NEW r \in Live'
                 PROVE  Disjoint(q, j, live'[r], live'[r].size)
      BY DEF CellsOff
    <3>1. q \in ToSet(syn.free[j]) \cup ToSet(bnd.free[j]) \/ (j = k /\ q = p)
      BY <1>13, <2>1, <2>5
    <3>2. r \in Live /\ live'[r] = live[r]
      BY <1>4 DEF Fewer
    <3> QED BY <1>5, <1>7, <2>1, <3>1, <3>2 DEF CellsOff
  <2>8. CellsApart(syn'.free) /\ CellsApart(bnd'.free)
    BY <1>5, <1>13, <2>1, <2>3
  <2>9. CellInv'
    BY <2>6, <2>7, <2>8, CellPartsNext DEF CellPart
  <2> QED BY <1>8, <1>11, <1>12, <2>9 DEF Placed
<1>14. CASE /\ bnd'.free = [bnd.free EXCEPT ![c.size] = <<p>> \o bnd.free[c.size]]
            /\ syn'.free = syn.free /\ c.hunk \notin ToSet(syn.seg)
            /\ c.hunk \in ToSet(SubSeq(pool.bindseg, 1, pool.bindsegcur))
  <2>1. PICK f, g, k : f = bnd.free /\ g = bnd'.free /\ k = c.size
    OBVIOUS
  <2>2. /\ f \in Cells /\ g \in Cells /\ k \in CellSizes /\ k \in Nat
        /\ g = [f EXCEPT ![k] = <<p>> \o f[k]]
    BY <1>2, <1>3, <1>14, <2>1, FreeTypes, FreeTypesNext
  <2>3. /\ CellsApart(g) /\ ToSet(g[k]) = ToSet(f[k]) \cup {p}
        /\ \A j \in CellSizes : j # k => g[j] = f[j]
    <3>1. CellPut(f, g, k, p)
      BY <1>5, <1>6, <2>1, <2>2 DEF CellPut
    <3> QED BY ZenonT(60), <1>3, <2>2, <3>1, CellAdded
  <2>4. HeldBind(p, k)
    <3>1. c.class = "bind"
      <4>1. c.class = "syn" => c.hunk \in ToSet(syn.seg)
        BY <1>3, <1>5, Zoned, HunkyFields DEF Zone, ZoneFacts
      <4> QED BY <1>2, <1>14, <4>1
    <3>2. HeldBind(c, k)
      BY <1>3, <2>1, <3>1 DEF ObjOK, BindOK
    <3> QED BY <1>3, <3>2 DEF HeldBind
  <2>5. \A j \in CellSizes : \A q \in ToSet(g[j]) : q \in ToSet(f[j]) \/ (j = k /\ q = p)
    BY <2>3
  <2>6. CellsHeld'
    <3>1. ASSUME NEW j \in CellSizes, NEW q \in ToSet(syn'.free[j])
          PROVE  q.off + j <= SEGSIZE /\ HeldSyn(q, j)'
      <4>a. PICK e : e = syn.free
        OBVIOUS
      <4>1. e \in Cells /\ q \in ToSet(e[j])
        BY <1>14, <3>1, <4>a, FreeTypes
      <4>b. PICK a \in 1 .. Len(e[j]) : q = e[j][a]
        BY <4>1, CellsAt
      <4>2. q.off + j <= SEGSIZE /\ HeldSyn(q, j) /\ q.off \in Nat /\ j \in Nat
        BY <1>5, <1>14, <3>1, <4>a, <4>b, HeldAll DEF CellsHeld
      <4> QED BY <1>10, <4>2 DEF SynKeeps
    <3>2. ASSUME NEW j \in CellSizes, NEW q \in ToSet(bnd'.free[j]) PROVE HeldBind(q, j)'
      <4>1. HeldBind(q, j) /\ q.off \in Nat /\ j \in Nat
        BY <1>3, <2>1, <2>2, <2>4, <2>5, <3>2, HeldAll
      <4> QED BY <1>10, <4>1 DEF BindKeeps
    <3> QED BY <3>1, <3>2, CellsHeldMembers
  <2>7. CellsOff'
    <3> SUFFICES ASSUME NEW j \in CellSizes,
                        NEW q \in ToSet(syn'.free[j]) \cup ToSet(bnd'.free[j]), NEW r \in Live'
                 PROVE  Disjoint(q, j, live'[r], live'[r].size)
      BY DEF CellsOff
    <3>1. q \in ToSet(syn.free[j]) \cup ToSet(bnd.free[j]) \/ (j = k /\ q = p)
      BY <1>14, <2>1, <2>5
    <3>2. r \in Live /\ live'[r] = live[r]
      BY <1>4 DEF Fewer
    <3> QED BY <1>5, <1>7, <2>1, <3>1, <3>2 DEF CellsOff
  <2>8. CellsApart(syn'.free) /\ CellsApart(bnd'.free)
    BY <1>5, <1>14, <2>1, <2>3
  <2>9. CellInv'
    BY <2>6, <2>7, <2>8, CellPartsNext DEF CellPart
  <2> QED BY <1>8, <1>11, <1>12, <2>9 DEF Placed
<1> QED BY <1>9, <1>13, <1>14

LEMMA UnmarkPendingPlaced ==
  ASSUME IInv, IInv', Placed, pc = "run", NEW i \in 1 .. Len(marklist), UnmarkPending(i)
  PROVE  Placed'
<1>1. UNCHANGED <<pool, glob, syn, bnd, pc, live>>
  BY DEF UnmarkPending
<1>2. SamePlaces(marklist, marklist')
  <2>1. marklist' = [marklist EXCEPT ![i].unmarked = TRUE] /\ marklist \in Seq(MarkType)
    BY DEF UnmarkPending, IInv, TypeOK
  <2>2. DOMAIN marklist = 1 .. Len(marklist) /\ Len(marklist) \in Nat
    BY <2>1, LenProperties
  <2>3. marklist' = [marklist EXCEPT ![i] = [marklist[i] EXCEPT !.unmarked = TRUE]]
    BY <2>1
  <2>4. Len(marklist') = Len(marklist)
    BY <2>1, <2>3, ExceptSeq
  <2>5. \A j \in 1 .. Len(marklist) :
          marklist'[j] = IF j = i THEN [marklist[i] EXCEPT !.unmarked = TRUE] ELSE marklist[j]
    BY <2>2, <2>3
  <2>6. marklist[i] \in MarkType
    BY <2>1, ElementOfSeq
  <2> QED BY <2>4, <2>5, <2>6 DEF SamePlaces, MarkType
<1>3. Running /\ Running' /\ Sound /\ (Dropping <=> Dropping') /\ Fewer
  BY <1>1, SameFewer DEF Running, Sound, Dropping
<1>4. SynKeeps /\ BindKeeps
  <2>1. BindKept(pool, pool')
    BY <1>1, <1>3, BindSame
  <2> QED BY <1>1, <1>2, <1>3, <2>1, StacksSame
<1>5. ObjInv'
  <2>1. AllKeep
    BY <1>1, <1>4, SameGlob DEF AllKeep, PermKeeps
  <2>2. \A x \in LiveType : ObjOK(x) => ObjOK(x)'
    BY <1>1, <2>1, ObjKept
  <2> QED BY <1>1, <1>3, <2>2, Survive, SurviveKept DEF Placed
<1>6. GlobInv'
  BY <1>1 DEF Placed, GlobInv, Sound, Running
<1>7. CellsHeld'
  <2>1. CellsHeld
    BY CellParts DEF Placed, CellPart
  <2> QED BY <1>1, <2>1 DEF CellsHeld, HeldSyn, SynTop, HeldBind, BindTop, Dropping, Running
<1> QED BY <1>1, <1>3, <1>5, <1>6, <1>7, LessPlaced

\* A block that is held lies below a mark set now.
LEMMA AllocMarkPlaced ==
  ASSUME IInv, IInv', Hunky, Hunky', Placed, pc = "run", AllocMark
  PROVE  Placed'
<1>1. CASE \E e : Fail(e)
  BY <1>1, FailPlaced
<1>2. CASE /\ marklist' = Append(marklist, NewMark) /\ UNCHANGED <<syn, bnd, pc, live>>
           /\ \/ UNCHANGED <<pool, glob>>
              \/ /\ GlobAlloc(pool, glob, MarkSize).pool.err = "none"
                 /\ pool' = GlobAlloc(pool, glob, MarkSize).pool
                 /\ glob' = GlobAlloc(pool, glob, MarkSize).glob
  <2>1. Running /\ Running' /\ Sound /\ ~Dropping /\ ~Dropping' /\ Fewer
    BY <1>2, SameFewer DEF Running, Sound, Dropping
  <2>2. PermKeeps /\ GlobKeeps /\ BindKept(pool, pool') /\ GlobInv'
    <3>1. CASE UNCHANGED <<pool, glob>>
      BY <1>2, <2>1, <3>1, SameGlob, BindSame DEF PermKeeps, GlobInv, Placed, Sound, Running
    <3>2. CASE /\ GlobAlloc(pool, glob, MarkSize).pool.err = "none"
               /\ pool' = GlobAlloc(pool, glob, MarkSize).pool
               /\ glob' = GlobAlloc(pool, glob, MarkSize).glob
      BY <1>2, <3>2, SizesNat, GlobEffect
    <3> QED BY <1>2, <3>1, <3>2
  <2>3. /\ marklist \in Seq(MarkType) /\ Len(marklist) \in Nat
        /\ Len(marklist') = Len(marklist) + 1
        /\ \A i \in 1 .. Len(marklist) : marklist'[i] = marklist[i]
        /\ marklist'[Len(marklist) + 1] = NewMark
    <3>1. marklist \in Seq(MarkType) /\ NewMark \in MarkType
      <4>1. marklist' \in Seq(MarkType) /\ marklist \in Seq(MarkType)
        BY DEF IInv, TypeOK
      <4> QED BY <4>1, HunkyFields, StackFacts, <2>1 DEF NewMark, MarkType
    <3> QED BY <1>2, <3>1, AppendProperties, LenProperties
  <2>4. NewMark.synno = Len(syn.seg) /\ NewMark.synp = syn.allp
        /\ NewMark.bindno = pool.bindsegcur /\ NewMark.bindp = bnd.allp
    BY DEF NewMark
  <2>5. /\ \A p : \A k \in Nat : HeldBind(p, k) => HeldBind(p, k)'
        /\ \A p : \A k \in Nat : HeldSyn(p, k) => HeldSyn(p, k)'
    <3>1. \A p : \A k \in Nat : HeldSyn(p, k) => HeldSyn(p, k)'
      BY <1>2 DEF HeldSyn, SynTop, Dropping
    <3> QED BY <1>2, <2>1, <2>2, <3>1, HeldBindKept
  <2>6. ASSUME NEW x \in LiveType, ObjOK(x) PROVE ObjOK(x)'
    <3>1. x.off \in Nat /\ x.size \in Nat /\ x.off + x.size \in Nat
      BY DEF LiveType
    <3>2. PermOK(x)' /\ GlobOK(x)'
      BY <2>2, <2>6, <3>1 DEF ObjOK, PermOK, GlobOK, PermKeeps, GlobKeeps
    <3>3. ASSUME x.class = "syn" PROVE SynUnder(x)'
      <4>1. HeldSyn(x, x.size) /\ SynUnder(x)
        BY <2>6, <3>3 DEF ObjOK, SynOK
      <4>2. Below(syn.seg, syn.ptr, Len(syn.seg), syn.allp, x, x.size)
        BY <2>1, <3>1, <4>1, HeldFacts DEF HeldAsBelow
      <4> SUFFICES ASSUME NEW i \in 1 .. Len(marklist'), x.level < i
                   PROVE  Below(syn'.seg, syn'.ptr, marklist'[i].synno,
                                marklist'[i].synp, x, x.size)
        BY DEF SynUnder
      <4>3. CASE i = Len(marklist) + 1
        BY <1>2, <2>3, <2>4, <4>2, <4>3
      <4>4. CASE i \in 1 .. Len(marklist)
        BY <1>2, <2>3, <4>1, <4>4 DEF SynUnder
      <4> QED BY <2>3, <4>3, <4>4
    <3>4. ASSUME x.class = "bind" PROVE BindUnder(x)'
      <4>1. HeldBind(x, x.size) /\ BindUnder(x)
        BY <2>6, <3>4 DEF ObjOK, BindOK
      <4>2. Below(pool.bindseg, bnd.ptr, pool.bindsegcur, bnd.allp, x, x.size)
        BY <2>1, <3>1, <4>1, HeldFacts DEF HeldAsBelow
      <4> SUFFICES ASSUME NEW i \in 1 .. Len(marklist'), x.level < i
                   PROVE  Below(pool'.bindseg, bnd'.ptr, marklist'[i].bindno,
                                marklist'[i].bindp, x, x.size)
        BY DEF BindUnder
      <4>3. PICK m : m = marklist'[i]
        OBVIOUS
      <4>4. m.bindno \in Nat /\ m.bindno <= pool.bindsegcur /\ pool.bindsegcur \in Nat
        <5>1. /\ pool.bindsegcur \in Nat /\ pool.bindsegcur <= pool.bindsegcur
              /\ \A j \in 1 .. Len(marklist) : marklist[j].bindno <= pool.bindsegcur
          BY <2>1, StackFacts
        <5>2. CASE i = Len(marklist) + 1
          BY <2>3, <2>4, <4>3, <5>1, <5>2
        <5>3. CASE i \in 1 .. Len(marklist)
          <6>1. marklist[i] \in MarkType /\ m = marklist[i]
            BY <2>3, <4>3, <5>3, ElementOfSeq
          <6> QED BY <5>1, <5>3, <6>1 DEF MarkType
        <5> QED BY <2>3, <5>2, <5>3
      <4>5. Below(pool.bindseg, bnd.ptr, m.bindno, m.bindp, x, x.size)
        <5>1. CASE i = Len(marklist) + 1
          BY <2>3, <2>4, <4>2, <4>3, <5>1
        <5>2. CASE i \in 1 .. Len(marklist)
          BY <2>3, <4>1, <4>3, <5>2 DEF BindUnder
        <5> QED BY <2>3, <5>1, <5>2
      <4>6. Low(pool.bindseg, bnd.ptr, pool'.bindseg, bnd'.ptr, pool.bindsegcur)
        BY <1>2, <2>2 DEF Low, BindKept
      <4>7. Below(pool'.bindseg, bnd'.ptr, m.bindno, m.bindp, x, x.size)
        BY <4>4, <4>5, <4>6, BelowKept
      <4> QED BY <4>3, <4>7
    <3>5. SynOK(x)' /\ BindOK(x)'
      BY <2>1, <2>5, <2>6, <3>1, <3>3, <3>4 DEF ObjOK, SynOK, BindOK
    <3> QED BY <1>2, <2>6, <3>2, <3>5 DEF ObjOK
  <2>7. ObjInv'
    BY <1>2, <2>1, <2>6, Survive, SurviveKept DEF Placed
  <2>8. CellsHeld'
    <3>1. CellsHeld
      BY CellParts DEF Placed, CellPart
    <3>2. \A k \in CellSizes : /\ ToSet(syn'.free[k]) \subseteq ToSet(syn.free[k])
                               /\ ToSet(bnd'.free[k]) \subseteq ToSet(bnd.free[k])
      BY <1>2
    <3> QED BY <2>1, <2>5, <3>1, <3>2, CellsHeldKept
  <2> QED BY <1>2, <2>1, <2>2, <2>7, <2>8, LessPlaced
<1> QED BY <1>1, <1>2 DEF AllocMark

\* Going back to mark i, of which x is below: what Syn and Bind then hold.
SynCutTo(m) ==
  /\ Len(syn'.seg) = m.synno /\ syn'.allp = m.synp
  /\ Low(syn.seg, syn.ptr, syn'.seg, syn'.ptr, m.synno)
BindCutTo(m) ==
  /\ pool'.bindsegcur = m.bindno /\ bnd'.allp = m.bindp
  /\ Low(pool.bindseg, bnd.ptr, pool'.bindseg, bnd'.ptr, m.bindno)

LEMMA SynCut ==
  ASSUME IInv, IInv', Running', ~Dropping', NEW m, m.synno \in Nat, SynCutTo(m), NEW x,
         x.size \in Nat, Below(syn.seg, syn.ptr, m.synno, m.synp, x, x.size)
  PROVE  HeldSyn(x, x.size)'
<1>1. m.synno <= m.synno
  OBVIOUS
<1>2. Below(syn'.seg, syn'.ptr, m.synno, m.synp, x, x.size)
  BY <1>1, BelowKept DEF SynCutTo
<1>3. \A p : \A k \in Nat :
        HeldSyn(p, k)' <=> Below(syn'.seg, syn'.ptr, Len(syn'.seg), syn'.allp, p, k)
  BY HeldFactsNext DEF HeldAsBelow
<1> QED BY <1>2, <1>3 DEF SynCutTo

LEMMA BindCut ==
  ASSUME IInv, IInv', Running', NEW m, m.bindno \in Nat, BindCutTo(m), NEW x,
         x.size \in Nat, Below(pool.bindseg, bnd.ptr, m.bindno, m.bindp, x, x.size)
  PROVE  HeldBind(x, x.size)'
<1>1. m.bindno <= m.bindno
  OBVIOUS
<1>2. Below(pool'.bindseg, bnd'.ptr, m.bindno, m.bindp, x, x.size)
  BY <1>1, BelowKept DEF BindCutTo
<1>3. \A p : \A k \in Nat : HeldBind(p, k)' <=>
        Below(pool'.bindseg, bnd'.ptr, pool'.bindsegcur, bnd'.allp, p, k)
  BY HeldFactsNext DEF HeldAsBelow
<1> QED BY <1>2, <1>3 DEF BindCutTo

LEMMA CutPtrLow ==
  ASSUME NEW seg, NEW ptr, NEW seg2, NEW n \in Nat, SameUpTo(seg, seg2, n)
  PROVE  Low(seg, ptr, seg2, CutPtr(ptr, n), n)
<1>1. \A i \in 1 .. n - 1 : CutPtr(ptr, n)[i] = ptr[i]
  BY DEF CutPtr
<1> QED BY <1>1 DEF Low

LEMMA UnmarkTopPlaced ==
  ASSUME IInv, IInv', Hunky, Hunky', Placed, pc = "run", UnmarkTop
  PROVE  Placed'
<1>1. PICK k \in 1 .. Len(marklist) - 1 :
        LET m == marklist[k + 1]
        IN  /\ StillSet(k) /\ Kill(LAMBDA x : x.level > k)
            /\ k \in Nat /\ k \in 1 .. Len(marklist) /\ k + 1 \in 1 .. Len(marklist)
            /\ m \in MarkType /\ m.synno \in Nat /\ m.bindno \in Nat
            /\ m.synno <= Len(syn.seg) /\ m.bindno <= pool.bindsegcur
            /\ \A i \in 1 .. k : /\ marklist[i].synno <= m.synno
                                 /\ marklist[i].bindno <= m.bindno
            /\ Len(marklist') = k /\ \A i \in 1 .. k : marklist'[i] = marklist[i]
            /\ syn'.seg = SubSeq(syn.seg, 1, m.synno) /\ syn'.ptr = CutPtr(syn.ptr, m.synno)
            /\ syn'.allp = m.synp /\ syn'.free = NoCells
            /\ bnd'.ptr = CutPtr(bnd.ptr, m.bindno)
            /\ bnd'.allp = m.bindp /\ bnd'.free = NoCells
            /\ pool' = [pool EXCEPT !.bindsegcur = m.bindno]
            /\ pool'.bindseg = pool.bindseg /\ pool'.bindsegcur = m.bindno
  BY UnmarkTopEffect
<1>2. PICK m : m = marklist[k + 1]
  OBVIOUS
<1>3. /\ m.synno \in Nat /\ m.bindno \in Nat
      /\ \A i \in 1 .. k : marklist[i].synno <= m.synno /\ marklist[i].bindno <= m.bindno
      /\ UNCHANGED <<glob, pc>> /\ Running /\ Running' /\ ~Dropping' /\ Sound
  BY <1>1, <1>2 DEF UnmarkTop, Running, Dropping, Sound
<1>4. /\ syn'.seg = SubSeq(syn.seg, 1, m.synno) /\ syn'.ptr = CutPtr(syn.ptr, m.synno)
      /\ bnd'.ptr = CutPtr(bnd.ptr, m.bindno) /\ pool'.bindseg = pool.bindseg
      /\ syn'.allp = m.synp /\ bnd'.allp = m.bindp /\ pool'.bindsegcur = m.bindno
      /\ m.synno <= Len(syn.seg) /\ m.bindno <= pool.bindsegcur
  BY <1>1, <1>2
<1>5. SynCutTo(m)
  <2>1. SameUpTo(syn.seg, syn'.seg, m.synno)
    BY <1>3, <1>4, HunkyFields, SameFront
  <2>2. Len(syn'.seg) = m.synno
    BY <1>3, <1>4, HunkyFields, SubSeqFacts
  <2> QED BY <1>3, <1>4, <2>1, <2>2, CutPtrLow DEF SynCutTo
<1>6. BindCutTo(m)
  <2>1. SameUpTo(pool.bindseg, pool'.bindseg, m.bindno)
    BY <1>3, <1>4, HunkyFields DEF SameUpTo
  <2> QED BY <1>3, <1>4, <2>1, CutPtrLow DEF BindCutTo
<1>7. Fewer /\ \A o \in Live' : ~(live[o].level > k)
  <2>1. \A o \in Obs : live'[o] = IF live[o] # None /\ live[o].level > k THEN None ELSE live[o]
    BY <1>1 DEF Kill
  <2> QED BY <2>1 DEF Fewer, Live
<1>8. ASSUME NEW x \in LiveType, ObjOK(x), ~(x.level > k) PROVE ObjOK(x)'
  <2>1. x.size \in Nat /\ x.level \in Nat /\ x.level < k + 1 /\ k + 1 \in 1 .. Len(marklist)
    BY <1>1, <1>8 DEF LiveType
  <2>2. PermOK(x)' /\ GlobOK(x)'
    <3>1. pool'.perm = pool.perm /\ pool'.permallp = pool.permallp /\ glob' = glob
      BY <1>1, <1>3, HunkyFields DEF PoolType
    <3> QED BY <1>8, <3>1 DEF ObjOK, PermOK, GlobOK, PermUpTo
  <2>3. SynOK(x)'
    <3> SUFFICES ASSUME x.class = "syn"
                 PROVE  x.off + x.size <= SEGSIZE /\ HeldSyn(x, x.size)' /\ SynUnder(x)'
      BY <1>3 DEF SynOK
    <3>1. SynUnder(x) /\ x.off + x.size <= SEGSIZE
      BY <1>8 DEF ObjOK, SynOK
    <3>2. Below(syn.seg, syn.ptr, m.synno, m.synp, x, x.size)
      BY <1>2, <2>1, <3>1 DEF SynUnder
    <3>3. HeldSyn(x, x.size)'
      BY <1>3, <1>5, <2>1, <3>2, SynCut
    <3>4. ASSUME NEW i \in 1 .. Len(marklist'), x.level < i
          PROVE  Below(syn'.seg, syn'.ptr, marklist'[i].synno, marklist'[i].synp, x, x.size)
      <4>1. /\ i \in 1 .. k /\ i \in 1 .. Len(marklist) /\ marklist'[i] = marklist[i]
        BY <1>1
      <4>2. PICK d : d = marklist[i]
        OBVIOUS
      <4>3. d.synno \in Nat /\ d.synno <= m.synno
        BY <1>3, <4>1, <4>2, MarkFields DEF IInv
      <4>4. Below(syn.seg, syn.ptr, d.synno, d.synp, x, x.size)
        BY <3>1, <3>4, <4>1, <4>2 DEF SynUnder
      <4>5. Below(syn'.seg, syn'.ptr, d.synno, d.synp, x, x.size)
        BY <1>3, <1>5, <4>3, <4>4, BelowKept DEF SynCutTo
      <4> QED BY <4>1, <4>2, <4>5
    <3> QED BY <3>1, <3>3, <3>4 DEF SynUnder
  <2>4. BindOK(x)'
    <3> SUFFICES ASSUME x.class = "bind" PROVE HeldBind(x, x.size)' /\ BindUnder(x)'
      BY DEF BindOK
    <3>1. BindUnder(x)
      BY <1>8 DEF ObjOK, BindOK
    <3>2. Below(pool.bindseg, bnd.ptr, m.bindno, m.bindp, x, x.size)
      BY <1>2, <2>1, <3>1 DEF BindUnder
    <3>3. HeldBind(x, x.size)'
      BY <1>3, <1>6, <2>1, <3>2, BindCut
    <3>4. ASSUME NEW i \in 1 .. Len(marklist'), x.level < i
          PROVE  Below(pool'.bindseg, bnd'.ptr, marklist'[i].bindno, marklist'[i].bindp,
                       x, x.size)
      <4>1. /\ i \in 1 .. k /\ i \in 1 .. Len(marklist) /\ marklist'[i] = marklist[i]
        BY <1>1
      <4>2. PICK d : d = marklist[i]
        OBVIOUS
      <4>3. d.bindno \in Nat /\ d.bindno <= m.bindno
        BY <1>3, <4>1, <4>2, MarkFields DEF IInv
      <4>4. Below(pool.bindseg, bnd.ptr, d.bindno, d.bindp, x, x.size)
        BY <3>1, <3>4, <4>1, <4>2 DEF BindUnder
      <4>5. Below(pool'.bindseg, bnd'.ptr, d.bindno, d.bindp, x, x.size)
        BY <1>3, <1>6, <4>3, <4>4, BelowKept DEF BindCutTo
      <4> QED BY <4>1, <4>2, <4>5
    <3> QED BY <3>3, <3>4 DEF BindUnder
  <2> QED BY <1>3, <1>8, <2>2, <2>3, <2>4 DEF ObjOK
<1>9. ObjInv'
  <2>1. Survivors
    BY <1>3, <1>7, Survive DEF Placed
  <2>2. ASSUME NEW o \in Live', NEW x, x = live'[o] PROVE ObjOK(x)'
    BY <1>7, <1>8, <2>1, <2>2 DEF Survivors
  <2>3. \A o \in Live' : ObjOK(live[o])'
    BY <2>2
  <2> QED BY <1>3, <2>3 DEF ObjInv, Running
<1>10. GlobInv'
  BY <1>3 DEF Placed, GlobInv, Sound, Running
<1>11. CellsHeld'
  BY <1>1, NoCellsApart DEF CellsHeld
<1> QED BY <1>1, <1>3, <1>7, <1>9, <1>10, <1>11, LessPlaced

LEMMA AllocReinitPlaced ==
  ASSUME IInv, IInv', Hunky, Hunky', Placed, pc = "run", AllocReinit
  PROVE  Placed'
<1>1. CASE \E e : Fail(e)
  BY <1>1, FailPlaced
<1>2. CASE /\ Dropped /\ pool' = [pool EXCEPT !.bindsegcur = Top.bindno]
           /\ bnd' = BindBackTo(Top)
           /\ Kill(LAMBDA x : x.class = "bind" /\ x.level >= Len(marklist))
           /\ UNCHANGED <<glob, syn, marklist, freemarks, pc, tool, files>>
  <2>1. PICK m : m = Top
    OBVIOUS
  <2>2. /\ Running /\ Running' /\ ~Dropping /\ ~Dropping' /\ Sound /\ Sound'
        /\ UNCHANGED <<glob, syn, marklist, pc>>
    BY <1>2 DEF Running, Dropping, Sound
  <2>3. /\ m.bindno \in Nat /\ m.bindno <= pool.bindsegcur /\ pool.bindsegcur \in Nat
        /\ pool.bindsegcur <= Len(pool.bindseg) /\ Len(pool.bindseg) \in Nat
        /\ \A i \in 1 .. Len(marklist) : marklist[i].bindno <= m.bindno
    BY <2>1, <2>2, TopFacts, HunkyFields
  <2>4. /\ bnd'.ptr = CutPtr(bnd.ptr, m.bindno) /\ bnd'.allp = m.bindp
        /\ bnd'.free = NoCells /\ syn.free = NoCells
        /\ pool'.bindseg = pool.bindseg /\ pool'.bindsegcur = m.bindno
        /\ pool'.perm = pool.perm /\ pool'.permallp = pool.permallp
    BY <1>2, <2>1, HunkyFields DEF PoolType, BindBackTo, Dropped
  <2>5. BindCutTo(m)
    <3>1. SameUpTo(pool.bindseg, pool'.bindseg, m.bindno)
      BY <2>3, <2>4 DEF SameUpTo
    <3> QED BY <2>3, <2>4, <3>1, CutPtrLow DEF BindCutTo
  <2>6. /\ Fewer
        /\ \A o \in Live' : ~(live[o].class = "bind" /\ live[o].level >= Len(marklist))
    <3>1. \A o \in Obs : live'[o] =
            IF live[o] # None /\ live[o].class = "bind" /\ live[o].level >= Len(marklist)
            THEN None ELSE live[o]
      BY <1>2 DEF Kill
    <3> QED BY <3>1 DEF Fewer, Live
  <2>7. \A x : (SynUnder(x) => SynUnder(x)') /\ (BindUnder(x) => BindUnder(x)')
    <3>1. /\ Len(syn.seg) \in Nat /\ Low(syn.seg, syn.ptr, syn'.seg, syn'.ptr, Len(syn.seg))
          /\ \A i \in 1 .. Len(marklist) : marklist[i].synno <= Len(syn.seg)
      BY <2>2, StackFacts
    <3>2. SamePlaces(marklist, marklist')
      BY <2>2 DEF SamePlaces
    <3> QED BY <2>3, <2>5, <3>1, <3>2, UnderKept DEF BindCutTo
  <2>8. ASSUME NEW x \in LiveType, ObjOK(x), ~(x.class = "bind" /\ x.level >= Len(marklist))
        PROVE  ObjOK(x)'
    <3>1. PermOK(x)' /\ GlobOK(x)'
      BY <2>2, <2>4, <2>8 DEF ObjOK, PermOK, GlobOK, PermUpTo
    <3>2. SynOK(x)'
      <4>1. HeldSyn(x, x.size) => HeldSyn(x, x.size)'
        BY <2>2 DEF HeldSyn, SynTop
      <4> QED BY <2>2, <2>7, <2>8, <4>1 DEF ObjOK, SynOK
    <3>3. ASSUME x.class = "bind" PROVE HeldBind(x, x.size)' /\ BindUnder(x)'
      <4>1. BindUnder(x)
        BY <2>8, <3>3 DEF ObjOK, BindOK
      <4>2. Len(marklist) \in 1 .. Len(marklist) /\ m = marklist[Len(marklist)]
        BY <2>1, <2>2, MarkFields DEF IInv, Shape, Last, Top
      <4>3. x.level < Len(marklist) /\ x.size \in Nat
        BY <2>8, <3>3, <4>2 DEF LiveType
      <4>4. Below(pool.bindseg, bnd.ptr, m.bindno, m.bindp, x, x.size)
        BY <4>1, <4>2, <4>3 DEF BindUnder
      <4>5. HeldBind(x, x.size)'
        BY <2>2, <2>3, <2>5, <4>3, <4>4, BindCut
      <4> QED BY <2>7, <4>1, <4>5
    <3>4. BindOK(x)'
      BY <3>3 DEF BindOK
    <3> QED BY <2>2, <2>8, <3>1, <3>2, <3>4 DEF ObjOK
  <2>9. ObjInv'
    <3>1. Survivors
      BY <2>2, <2>6, Survive DEF Placed
    <3>2. ASSUME NEW o \in Live', NEW x, x = live'[o] PROVE ObjOK(x)'
      BY <2>6, <2>8, <3>1, <3>2 DEF Survivors
    <3>3. \A o \in Live' : ObjOK(live[o])'
      BY <3>2
    <3> QED BY <2>2, <3>3 DEF ObjInv, Running
  <2>10. GlobInv'
    BY <2>2 DEF Placed, GlobInv
  <2>11. CellsHeld'
    BY <2>2, <2>4, NoCellsApart DEF CellsHeld
  <2> QED BY <2>2, <2>4, <2>6, <2>9, <2>10, <2>11, LessPlaced
<1> QED BY <1>1, <1>2 DEF AllocReinit

\* drop_local_store starts: what Syn holds is no longer known above the mark.
LEMMA DropPlaced ==
  ASSUME IInv, IInv', Hunky, Hunky', Placed, pc = "run", Drop("drop")
  PROVE  Placed'
<1>1. /\ UNCHANGED <<pool, glob, syn, bnd, marklist>> /\ pc' = "drop"
      /\ Running /\ Running' /\ Sound /\ ~Dropping /\ Dropping'
      /\ Kill(LAMBDA x : x.class = "syn" /\ x.level >= Len(marklist))
  BY DEF Drop, Running, Dropping, Sound
<1>2. /\ Fewer
      /\ \A o \in Live' : ~(live[o].class = "syn" /\ live[o].level >= Len(marklist))
  <2>1. \A o \in Obs : live'[o] =
          IF live[o] # None /\ live[o].class = "syn" /\ live[o].level >= Len(marklist)
          THEN None ELSE live[o]
    BY <1>1 DEF Kill
  <2> QED BY <2>1 DEF Fewer, Live
<1>3. ASSUME NEW x \in LiveType, ObjOK(x), ~(x.class = "syn" /\ x.level >= Len(marklist))
      PROVE  ObjOK(x)'
  <2>1. PermOK(x)' /\ GlobOK(x)'
    BY <1>1, <1>3 DEF ObjOK, PermOK, GlobOK
  <2>2. BindOK(x)'
    BY <1>1, <1>3 DEF ObjOK, BindOK, HeldBind, BindTop, BindUnder
  <2>3. ASSUME x.class = "syn"
        PROVE  /\ x.off + x.size <= SEGSIZE /\ x.level < Len(marklist')
               /\ HeldSyn(x, x.size)' /\ SynUnder(x)'
    <3>1. x.off + x.size <= SEGSIZE /\ HeldSyn(x, x.size) /\ SynUnder(x)
      BY <1>3, <2>3 DEF ObjOK, SynOK
    <3>2. x.level < Len(marklist)
      <4>1. x.level \in Nat /\ Len(marklist) \in Nat
        BY MarkFields DEF LiveType, IInv
      <4> QED BY <1>3, <2>3, <4>1
    <3>3. HeldSyn(x, x.size)'
      <4>1. PICK i \in 1 .. Len(syn.seg) : syn.seg[i] = x.hunk /\ x.off + x.size <= SynTop(i)
        BY <3>1 DEF HeldSyn
      <4>2. x.off + x.size <= SynTop(i)'
        BY <1>1, <3>1, <4>1 DEF SynTop
      <4> QED BY <1>1, <4>1, <4>2 DEF HeldSyn
    <3>4. SynUnder(x)'
      BY <1>1, <3>1 DEF SynUnder
    <3> QED BY <1>1, <3>1, <3>2, <3>3, <3>4
  <2>4. SynOK(x)'
    BY <2>3 DEF SynOK
  <2> QED BY <1>1, <1>3, <2>1, <2>2, <2>4 DEF ObjOK
<1>4. ObjInv'
  <2>1. Survivors
    BY <1>1, <1>2, Survive DEF Placed
  <2>2. ASSUME NEW o \in Live', NEW x, x = live'[o] PROVE ObjOK(x)'
    BY <1>2, <1>3, <2>1, <2>2 DEF Survivors
  <2>3. \A o \in Live' : ObjOK(live[o])'
    BY <2>2
  <2> QED BY <1>1, <2>3 DEF ObjInv
<1>5. GlobInv'
  BY <1>1 DEF Placed, GlobInv, Sound
<1>6. CellsHeld'
  <2>1. CellsHeld
    BY CellParts DEF Placed, CellPart
  <2> QED BY <1>1, <2>1 DEF CellsHeld, HeldBind, BindTop
<1> QED BY <1>1, <1>2, <1>4, <1>5, <1>6, LessPlaced

\* Only what PermAlloc gave lives on, and it stays.
LEMMA PermSurvive ==
  ASSUME IInv, ObjInv, Sound, PermKeeps, pc' # "exit",
         Kill(LAMBDA x : x.class # "perm")
  PROVE  Fewer /\ ObjInv'
<1>1. \A o \in Obs : live'[o] = IF live[o] # None /\ live[o].class # "perm" THEN None ELSE live[o]
  BY DEF Kill
<1>2. Fewer /\ \A o \in Live' : live[o].class = "perm"
  BY <1>1 DEF Fewer, Live
<1>3. Survivors
  BY <1>2, Survive
<1>4. ASSUME NEW o \in Live', NEW x, x = live'[o] PROVE ObjOK(x)'
  <2>1. x \in LiveType /\ ObjOK(x) /\ x.class = "perm"
    BY <1>2, <1>3, <1>4 DEF Survivors
  <2>2. x.off + x.size \in Nat
    BY <2>1 DEF LiveType
  <2>3. PermOK(x)'
    BY <2>1, <2>2 DEF ObjOK, PermOK, PermKeeps
  <2> QED BY <2>1, <2>3 DEF ObjOK, GlobOK, SynOK, BindOK
<1>5. \A o \in Live' : ObjOK(live[o])'
  BY <1>4
<1> QED BY <1>2, <1>5 DEF ObjInv

LEMMA PerFileFinalisePlaced ==
  ASSUME IInv, IInv', Hunky, Hunky', Placed, pc = "run", PerFileFinalise
  PROVE  Placed'
<1>1. CASE \E e : Fail(e)
  BY <1>1, FailPlaced
<1>2. CASE /\ pc' = "finaldrop" /\ Kill(LAMBDA x : x.class # "perm")
           /\ UNCHANGED <<pool, glob, syn, bnd, marklist, freemarks, tool, files>>
  <2>1. /\ UNCHANGED <<pool, glob, syn, bnd, marklist>>
        /\ Running /\ Running' /\ Sound /\ ~Dropping /\ Dropping'
    BY <1>2 DEF Running, Dropping, Sound
  <2>2. Fewer /\ ObjInv'
    BY <1>2, <2>1, PermSurvive DEF Placed, PermKeeps
  <2>3. GlobInv'
    BY <1>2, <2>1 DEF Placed, GlobInv, Sound
  <2>4. CellsHeld'
    <3>1. CellsHeld
      BY CellParts DEF Placed, CellPart
    <3> QED BY <2>1, <3>1 DEF CellsHeld, HeldBind, BindTop
  <2> QED BY <2>1, <2>2, <2>3, <2>4, LessPlaced
<1> QED BY <1>1, <1>2 DEF PerFileFinalise

\* A hunk of Syn above the mark leaves: what is left lies in the others.
LEMMA DropHunkPlaced ==
  ASSUME IInv, IInv', Hunky, Hunky', Placed, DropHunk
  PROVE  Placed'
<1>1. CASE \E e : Fail(e)
  BY <1>1, FailPlaced
<1>2. CASE /\ Running /\ Dropping /\ Len(syn.seg) > Top.synno
           /\ Len(syn'.seg) = Len(syn.seg) - 1 /\ SameUpTo(syn.seg, syn'.seg, Len(syn'.seg))
           /\ \A i \in 1 .. Len(syn'.seg) : syn'.ptr[i] = syn.ptr[i]
           /\ syn'.allp = syn.allp /\ syn'.free = syn.free
           /\ BindKept(pool, pool')
           /\ \A x : \A e \in Nat : PermUpTo(pool, x, e) => PermUpTo(pool', x, e)
           /\ UNCHANGED <<glob, bnd, marklist, freemarks, pc, tool, files, live>>
  <2>1. /\ Running' /\ Dropping' /\ Sound /\ Sound' /\ Fewer /\ PermKeeps
        /\ UNCHANGED <<glob, bnd, marklist, pc, live>>
    BY <1>2, SameFewer DEF Running, Dropping, Sound, PermKeeps
  <2>2. PICK a : a = Len(syn'.seg)
    OBVIOUS
  <2>3. PICK m : m = Top
    OBVIOUS
  <2>4. /\ Len(syn.seg) \in Nat /\ m.synno \in Nat /\ m.synno < Len(syn.seg)
        /\ a = Len(syn.seg) - 1 /\ a \in Nat /\ m.synno <= a
        /\ \A i \in 1 .. Len(marklist) : marklist[i].synno <= m.synno /\ marklist[i].synno \in Nat
    <3>1. m.synno \in Nat /\ \A i \in 1 .. Len(marklist) : marklist[i].synno <= m.synno
      BY <1>2, <2>3, TopFacts
    <3>2. Len(syn.seg) \in Nat /\ \A i \in 1 .. Len(marklist) : marklist[i].synno \in Nat
      BY HunkyFields, MarkFields DEF IInv
    <3>3. m.synno < Len(syn.seg) /\ a = Len(syn.seg) - 1
      BY <1>2, <2>2, <2>3
    <3> QED BY <3>1, <3>2, <3>3
  <2>5. Low(syn.seg, syn.ptr, syn'.seg, syn'.ptr, a)
    <3>1. \A i \in 1 .. a - 1 : i \in 1 .. Len(syn'.seg)
      BY <2>2, <2>4
    <3> QED BY <1>2, <2>2, <3>1 DEF Low
  <2>6. \A x : (SynUnder(x) => SynUnder(x)') /\ (BindUnder(x) => BindUnder(x)')
    <3>1. /\ pool.bindsegcur \in Nat
          /\ Low(pool.bindseg, bnd.ptr, pool'.bindseg, bnd'.ptr, pool.bindsegcur)
      BY <1>2, HunkyFields DEF Low, BindKept
    <3>2. \A i \in 1 .. Len(marklist) : marklist[i].bindno <= pool.bindsegcur
      BY <1>2, StackFacts
    <3>3. \A i \in 1 .. Len(marklist) : marklist[i].synno <= a
      BY <2>4
    <3>4. SamePlaces(marklist, marklist')
      BY <2>1 DEF SamePlaces
    <3> QED BY <2>4, <2>5, <3>1, <3>2, <3>3, <3>4, UnderKept
  <2>7. \A p : \A k \in Nat : HeldBind(p, k) => HeldBind(p, k)'
    BY <1>2, <2>1, HeldBindKept
  <2>8. ASSUME NEW x \in LiveType, ObjOK(x) PROVE ObjOK(x)'
    <3>1. x.off \in Nat /\ x.size \in Nat /\ x.off + x.size \in Nat
      BY DEF LiveType
    <3>2. PermOK(x)' /\ GlobOK(x)' /\ BindOK(x)'
      BY <2>1, <2>6, <2>7, <2>8, <3>1 DEF ObjOK, PermOK, GlobOK, BindOK, PermKeeps
    <3>3. ASSUME x.class = "syn" PROVE HeldSyn(x, x.size)'
      <4>1. /\ SynUnder(x) /\ HeldSyn(x, x.size) /\ x.level < Len(marklist)
            /\ x.off + x.size <= SEGSIZE
        BY <1>2, <2>8, <3>3 DEF ObjOK, SynOK
      <4>2. Len(marklist) \in 1 .. Len(marklist) /\ m = marklist[Len(marklist)]
        BY <1>2, <2>3, MarkFields DEF IInv, Shape, Last, Top
      <4>3. Below(syn.seg, syn.ptr, m.synno, m.synp, x, x.size)
        BY <4>1, <4>2 DEF SynUnder
      <4>4. PICK i \in 1 .. m.synno : syn.seg[i] = x.hunk
        BY <4>3 DEF Below
      <4>5. PICK j \in 1 .. Len(syn.seg) : syn.seg[j] = x.hunk /\ x.off + x.size <= SynTop(j)
        BY <4>1 DEF HeldSyn
      <4>6. i = j
        <5>1. Single(syn.seg, Len(syn.seg))
          BY <1>2, StackFacts
        <5>2. i \in 1 .. Len(syn.seg)
          BY <2>4
        <5> QED BY <4>4, <4>5, <5>1, <5>2 DEF Single
      <4>7. j \in 1 .. a /\ j < Len(syn.seg)
        BY <2>4, <4>6
      <4>8. x.off + x.size <= syn.ptr[j] /\ syn'.ptr[j] = syn.ptr[j] /\ syn'.seg[j] = syn.seg[j]
        BY <1>2, <2>2, <4>5, <4>7 DEF SynTop, SameUpTo
      <4>9. x.off + x.size <= SynTop(j)'
        BY <2>1, <4>1, <4>8 DEF SynTop
      <4> QED BY <2>2, <4>5, <4>7, <4>8, <4>9 DEF HeldSyn
    <3>4. SynOK(x)'
      BY <1>2, <2>1, <2>6, <2>8, <3>3 DEF ObjOK, SynOK
    <3> QED BY <2>1, <2>8, <3>2, <3>4 DEF ObjOK
  <2>9. ObjInv'
    <3>1. \A x \in LiveType : ObjOK(x) => ObjOK(x)'
      BY <2>8
    <3> QED BY <2>1, <3>1, Survive, SurviveKept DEF Placed, Running
  <2>10. GlobInv'
    BY <2>1 DEF Placed, GlobInv
  <2>11. CellsHeld'
    <3>1. CellsHeld
      BY CellParts DEF Placed, CellPart
    <3>2. \A k \in CellSizes : /\ ToSet(syn'.free[k]) \subseteq ToSet(syn.free[k])
                               /\ ToSet(bnd'.free[k]) \subseteq ToSet(bnd.free[k])
      BY <1>2, <2>1
    <3> QED BY <1>2, <2>1, <2>7, <3>1, <3>2, CellsHeldKept
  <2> QED BY <1>2, <2>1, <2>9, <2>10, <2>11, LessPlaced
<1> QED BY <1>1, <1>2, DropHunkEffect

\* Syn goes back to where it was when the top mark was set.
LEMMA DropEndPlaced ==
  ASSUME IInv, IInv', Hunky, Hunky', Placed, DropEnd
  PROVE  Placed'
<1>1. /\ Running /\ Running' /\ Sound /\ Sound' /\ Dropping /\ ~Dropping'
      /\ UNCHANGED <<pool, glob, bnd, marklist, live>>
      /\ (pc = "drop" /\ pc' = "run") \/ (pc = "finaldrop" /\ pc' = "final")
  <2>1. /\ pc \in {"drop", "finaldrop"} /\ pc' = (IF pc = "drop" THEN "run" ELSE "final")
        /\ UNCHANGED <<pool, glob, bnd, marklist, live>>
    BY DEF DropEnd
  <2> QED BY <2>1 DEF Running, Sound, Dropping
<1>2. PICK m : m = Top
  OBVIOUS
<1>3. /\ m.synno \in Nat /\ m.synno = Len(syn.seg) /\ Len(syn.seg) \in Nat
      /\ Len(syn.seg) <= Len(syn.seg)
      /\ \A i \in 1 .. Len(marklist) : marklist[i].synno <= m.synno
      /\ \A i \in 1 .. Len(marklist) : marklist[i].bindno <= pool.bindsegcur
  <2>1. /\ m.synno \in Nat /\ m.synno <= Len(syn.seg)
        /\ \A i \in 1 .. Len(marklist) : marklist[i].synno <= m.synno
    BY <1>1, <1>2, TopFacts
  <2>2. Len(syn.seg) <= m.synno /\ Len(syn.seg) \in Nat
    BY <1>2, HunkyFields DEF DropEnd
  <2>3. \A i \in 1 .. Len(marklist) : marklist[i].bindno <= pool.bindsegcur
    BY <1>1, StackFacts
  <2> QED BY <2>1, <2>2, <2>3
<1>4. /\ syn'.seg = syn.seg /\ syn'.ptr = CutPtr(syn.ptr, m.synno)
      /\ syn'.allp = m.synp /\ syn'.free = NoCells
  <2>1. syn \in SynType
    BY HunkyFields
  <2>2. syn' = [syn EXCEPT !.ptr = CutPtr(syn.ptr, Len(syn.seg)), !.allp = m.synp,
                           !.free = NoCells]
    BY <1>2 DEF DropEnd
  <2> QED BY <1>3, <2>1, <2>2 DEF SynType
<1>5. SynCutTo(m)
  <2>1. SameUpTo(syn.seg, syn'.seg, m.synno)
    BY <1>3, <1>4 DEF SameUpTo
  <2> QED BY <1>3, <1>4, <2>1, CutPtrLow DEF SynCutTo
<1>6. \A x : (SynUnder(x) => SynUnder(x)') /\ (BindUnder(x) => BindUnder(x)')
  <2>1. /\ pool.bindsegcur \in Nat
        /\ Low(pool.bindseg, bnd.ptr, pool'.bindseg, bnd'.ptr, pool.bindsegcur)
    BY <1>1, StackFacts
  <2>2. SamePlaces(marklist, marklist')
    BY <1>1 DEF SamePlaces
  <2> QED BY <1>3, <1>5, <2>1, <2>2, UnderKept DEF SynCutTo
<1>7. ASSUME NEW x \in LiveType, ObjOK(x) PROVE ObjOK(x)'
  <2>1. PermOK(x)' /\ GlobOK(x)' /\ BindOK(x)'
    BY <1>1, <1>6, <1>7 DEF ObjOK, PermOK, GlobOK, BindOK, HeldBind, BindTop
  <2>2. ASSUME x.class = "syn" PROVE HeldSyn(x, x.size)'
    <3>1. SynUnder(x) /\ x.level < Len(marklist) /\ x.size \in Nat
      BY <1>1, <1>7, <2>2 DEF ObjOK, SynOK, LiveType
    <3>2. Len(marklist) \in 1 .. Len(marklist) /\ m = marklist[Len(marklist)]
      BY <1>1, <1>2, MarkFields DEF IInv, Shape, Last, Top
    <3>3. Below(syn.seg, syn.ptr, m.synno, m.synp, x, x.size)
      BY <3>1, <3>2 DEF SynUnder
    <3> QED BY <1>1, <1>3, <1>5, <3>1, <3>3, SynCut
  <2>3. SynOK(x)'
    BY <1>1, <1>6, <1>7, <2>2 DEF ObjOK, SynOK
  <2>4. x.class # "perm" => pc' \in {"run", "drop"}
    BY <1>1, <1>7 DEF ObjOK
  <2> QED BY <2>1, <2>3, <2>4 DEF ObjOK
<1>8. Fewer /\ ObjInv'
  <2>1. \A x \in LiveType : ObjOK(x) => ObjOK(x)'
    BY <1>7
  <2> QED BY <1>1, <2>1, SameFewer, Survive, SurviveKept DEF Placed
<1>9. GlobInv'
  BY <1>1 DEF Placed, GlobInv
<1>10. CellsHeld'
  <2>1. CellsHeld
    BY CellParts DEF Placed, CellPart
  <2> QED BY <1>1, <1>4, <2>1, NoCellsApart DEF CellsHeld, HeldBind, BindTop
<1> QED BY <1>1, <1>4, <1>8, <1>9, <1>10, LessPlaced

\* Between files only what PermAlloc gave lives, and it stays.
LEMMA PermStays ==
  ASSUME IInv, ObjInv, Sound, PermKeeps, pc \notin {"run", "drop"}, UNCHANGED live,
         pc' # "exit"
  PROVE  Fewer /\ ObjInv'
<1>1. ASSUME NEW x \in LiveType, ObjOK(x) PROVE ObjOK(x)'
  <2>1. x.class = "perm" /\ x.off + x.size \in Nat
    BY <1>1 DEF ObjOK, LiveType
  <2>2. PermOK(x)'
    BY <1>1, <2>1 DEF ObjOK, PermOK, PermKeeps
  <2> QED BY <2>1, <2>2 DEF ObjOK, GlobOK, SynOK, BindOK
<1>2. \A x \in LiveType : ObjOK(x) => ObjOK(x)'
  BY <1>1
<1> QED BY <1>2, SameFewer, Survive, SurviveKept

\* alloc_perfilefinalise keeps pages no smaller than a hunk.
LEMMA RecyclePlaced ==
  ASSUME IInv, IInv', Hunky, Hunky', Placed, RecycleGlobPage
  PROVE  Placed'
<1>1. CASE \E e : Fail(e)
  BY <1>1, FailPlaced
<1>2. CASE /\ Running /\ BindKept(pool, pool')
           /\ \A x : \A e \in Nat : PermUpTo(pool, x, e) => PermUpTo(pool', x, e)
           /\ UNCHANGED <<syn, bnd, marklist, freemarks, pc, tool, files, live>>
  <2>1. /\ pc = "final" /\ pc' = "final" /\ Sound /\ Sound' /\ Running' /\ PermKeeps
        /\ ~Dropping /\ ~Dropping' /\ UNCHANGED <<syn, bnd, live>>
    BY <1>2 DEF RecycleGlobPage, Sound, Running, Dropping, PermKeeps
  <2>2. Fewer /\ ObjInv'
    BY <2>1, PermStays DEF Placed
  <2>3. GlobInv'
    <3>1. glob.seg # <<>> /\ PagesWhole(glob) /\ glob.seg \in Seq(Page) /\ glob.os \in Seq(Page)
      BY <2>1, GlobFields, HunkyFields DEF RecycleGlobPage, Placed, GlobInv
    <3>2. /\ Len(glob.seg) \in 1 .. Len(glob.seg) /\ Last(glob.seg) = glob.seg[Len(glob.seg)]
          /\ Last(glob.seg) \in Page /\ Len(Front(glob.seg)) = Len(glob.seg) - 1
          /\ \A i \in 1 .. Len(glob.seg) - 1 : Front(glob.seg)[i] = glob.seg[i]
      <4>1. Len(glob.seg) \in 1 .. Len(glob.seg) /\ Last(glob.seg) = glob.seg[Len(glob.seg)]
        BY <3>1, LenProperties, EmptySeq DEF Last
      <4> QED BY <3>1, <4>1, FrontFacts
    <3>3. PICK page : page = Last(glob.seg)
      OBVIOUS
    <3>4. page \in Page /\ page.size >= SEGSIZE
      BY <3>1, <3>2, <3>3 DEF PagesWhole
    <3>5. glob \in GlobType
      BY HunkyFields
    <3>6. glob'.seg = Front(glob.seg) /\ glob'.os \in {glob.os, <<page>> \o glob.os}
      BY <1>1, <2>1, <3>3, <3>5 DEF RecycleGlobPage, KeepOversize, GlobType, Fail
    <3>7. \A i \in 1 .. Len(glob'.seg) : glob'.seg[i].size >= SEGSIZE
      BY SMTT(30), <3>1, <3>2, <3>6 DEF PagesWhole
    <3>8. \A i \in 1 .. Len(glob'.os) : glob'.os[i].size >= SEGSIZE
      <4>1. CASE glob'.os = glob.os
        BY <3>1, <4>1 DEF PagesWhole
      <4>2. CASE glob'.os = <<page>> \o glob.os
        <5>1. /\ glob'.os[1] = page
              /\ \A i \in 1 .. Len(glob'.os) : i # 1 =>
                   i - 1 \in 1 .. Len(glob.os) /\ glob'.os[i] = glob.os[i - 1]
          BY <3>1, <3>4, <4>2, ConsAt
        <5> QED BY <3>1, <3>4, <5>1 DEF PagesWhole
      <4> QED BY <3>6, <4>1, <4>2
    <3>9. PagesWhole(glob)'
      BY <3>7, <3>8 DEF PagesWhole
    <3> QED BY <2>1, <3>9 DEF GlobInv
  <2>4. CellsHeld'
    <3>1. CellsHeld
      BY CellParts DEF Placed, CellPart
    <3>2. \A p : \A k \in Nat : HeldBind(p, k) => HeldBind(p, k)'
      BY <1>2, <2>1, HeldBindKept
    <3>3. \A p : \A k \in Nat : HeldSyn(p, k) => HeldSyn(p, k)'
      BY <2>1 DEF HeldSyn, SynTop
    <3>4. \A k \in CellSizes : /\ ToSet(syn'.free[k]) \subseteq ToSet(syn.free[k])
                               /\ ToSet(bnd'.free[k]) \subseteq ToSet(bnd.free[k])
      BY <2>1
    <3> QED BY <1>2, <2>1, <3>1, <3>2, <3>3, <3>4, CellsHeldKept
  <2> QED BY <1>2, <2>1, <2>2, <2>3, <2>4, LessPlaced
<1> QED BY <1>1, <1>2, RecycleEffect

LEMMA FinaliseEndPlaced ==
  ASSUME IInv, IInv', Hunky, Hunky', Placed, FinaliseEnd
  PROVE  Placed'
<1>1. /\ pc = "final" /\ pc' = "idle" /\ UNCHANGED <<pool, glob, live>>
      /\ Sound /\ Sound' /\ ~Running'
  BY DEF FinaliseEnd, Sound, Running
<1>2. Fewer /\ ObjInv'
  BY <1>1, PermStays DEF Placed, PermKeeps
<1>3. GlobInv'
  BY <1>1 DEF Placed, GlobInv
<1> QED BY <1>1, <1>2, <1>3, LessPlaced

LEMMA PerFileInitPlaced ==
  ASSUME IInv, IInv', Hunky, Hunky', Placed, NEW command \in BOOLEAN, PerFileInit(command)
  PROVE  Placed'
<1> DEFINE g == [seg |-> <<>>, os |-> glob.os, allp |-> Duff, size |-> 0]
           s == [pool EXCEPT !.bindsegcur = 0]
           r == GlobAlloc(s, g, MarkSize)
<1>1. Sound /\ SynSeg = <<>>
  BY DEF PerFileInit, Sound, SynSeg, Running
<1>2. s \in PoolType /\ g \in GlobType /\ Tidy(s, <<>>, g)
  BY <1>1, ForgottenGlob
<1>3. GlobSound(g) /\ PagesWhole(g)
  <2>1. \A i \in 1 .. Len(glob.os) : glob.os[i].size >= SEGSIZE
    BY <1>1 DEF Placed, GlobInv, PagesWhole
  <2> QED BY <2>1 DEF GlobSound, PagesWhole
<1>4. \A h : \A e \in Nat : PermUpTo(pool, h, e) => PermUpTo(s, h, e)
  BY HunkyFields DEF PermUpTo, PoolType
<1> HIDE DEF s, g
<1>5. CASE Fail(r.pool.err)
  BY <1>5, FailPlaced
<1>6. CASE /\ r.pool.err = "none" /\ pool' = r.pool /\ glob' = r.glob
           /\ pc' = "run" /\ syn'.free = NoCells /\ bnd'.free = NoCells
           /\ Kill(LAMBDA x : x.class # "perm")
  <2>1. GlobSound(glob') /\ PagesWhole(glob')
    <3>1. GlobApart(s, ToSet(<<>>), g)
      BY <1>2 DEF Tidy
    <3>2. GlobGives(g, r.glob, r.at, MarkSize)
      BY <1>2, <1>3, <1>6, <3>1, SizesNat, GlobAllocGives
    <3> QED BY <1>6, <3>2 DEF GlobGives
  <2>2. PermKeeps
    <3>1. Passes(s, r.pool)
      BY <1>2, SizesNat, GlobAllocPasses
    <3>2. \A h : \A e \in Nat : PermUpTo(s, h, e) => PermUpTo(r.pool, h, e)
      BY <1>2, <3>1, ApartLess DEF Passes, Tidy, GlobApart
    <3> QED BY <1>4, <1>6, <3>2 DEF PermKeeps
  <2>3. Fewer /\ ObjInv'
    BY <1>1, <1>6, <2>2, PermSurvive DEF Placed
  <2>4. GlobInv'
    BY <2>1 DEF GlobInv
  <2>5. CellsHeld'
    BY <1>6, NoCellsApart DEF CellsHeld
  <2>6. CellsOff' /\ CellsApart(syn'.free) /\ CellsApart(bnd'.free)
    BY <1>6, NoCellsApart DEF CellsOff
  <2>7. LiveDisjoint'
    BY <2>3 DEF Placed, LiveDisjoint, Fewer
  <2> QED BY <2>3, <2>4, <2>5, <2>6, <2>7, CellPartsNext DEF CellPart, Placed
<1>7. /\ r.pool.err # "none" => Fail(r.pool.err)
      /\ r.pool.err = "none" =>
           /\ pool' = r.pool /\ glob' = r.glob
           /\ syn' = [seg |-> <<>>, ptr |-> <<>>, allp |-> Duff, free |-> NoCells]
           /\ bnd' = [ptr |-> <<>>, allp |-> Duff, free |-> NoCells]
           /\ pc' = "run" /\ Kill(LAMBDA x : x.class # "perm")
  BY DEF PerFileInit, s, g
<1>8. r.pool.err = "none" => syn'.free = NoCells /\ bnd'.free = NoCells
  BY <1>7
<1> HIDE DEF r
<1> QED BY <1>5, <1>6, <1>7, <1>8 DEF r

LEMMA AllocFinalisePlaced ==
  ASSUME IInv, IInv', Placed, AllocFinalise
  PROVE  Placed'
<1>1. pc' = "exit" /\ ~Running' /\ ~Sound'
  BY DEF AllocFinalise, Running, Sound
<1>2. Live' = {}
  <2>1. \A o \in Obs : live'[o] = None
    BY DEF AllocFinalise, Kill
  <2> QED BY <2>1 DEF Live
<1>3. Fewer /\ ObjInv' /\ GlobInv'
  BY <1>1, <1>2 DEF Fewer, ObjInv, GlobInv
<1> QED BY <1>1, <1>3, LessPlaced

LEMMA AllocInitialisePlaced ==
  ASSUME IInv, IInv', Placed, AllocInitialise
  PROVE  Placed'
<1>1. pc' \in {"idle", "failed"} /\ ~Running' /\ live' = live
  BY DEF AllocInitialise, Running
<1>2. Live' = {}
  BY <1>1 DEF AllocInitialise, Placed, ObjInv, Live
<1>3. Fewer /\ ObjInv'
  BY <1>1, <1>2 DEF Fewer, ObjInv
<1>4. GlobInv'
  <2>1. glob'.seg = <<>> /\ glob'.os = <<>>
    BY HunkyFields DEF AllocInitialise, GlobType
  <2> QED BY <1>1, <2>1 DEF GlobInv, PagesWhole
<1> QED BY <1>1, <1>3, <1>4, LessPlaced

LEMMA AllocUnmarkPlaced ==
  ASSUME IInv, IInv', Hunky, Hunky', Placed, pc = "run",
         NEW i \in 2 .. Len(marklist), AllocUnmark(i)
  PROVE  Placed'
<1>1. CASE UnmarkPending(i)
  <2>1. i \in 1 .. Len(marklist)
    BY MarkFields DEF IInv
  <2> QED BY <1>1, <2>1, UnmarkPendingPlaced
<1>2. CASE UnmarkTop
  BY <1>2, UnmarkTopPlaced
<1>3. CASE Fail("unmark1")
  BY <1>3, FailPlaced
<1> QED BY <1>1, <1>2, <1>3 DEF AllocUnmark

LEMMA InitPlaced == Init => Placed
<1> SUFFICES ASSUME Init PROVE Placed
  OBVIOUS
<1>1. pc \in {"idle", "failed"} /\ ~Running /\ Live = {} /\ glob.seg = <<>> /\ glob.os = <<>>
  BY DEF Init, Running, Live
<1>2. GlobInv
  BY <1>1 DEF GlobInv, PagesWhole
<1>3. ObjInv /\ LiveDisjoint
  BY <1>1 DEF ObjInv, LiveDisjoint
<1>4. CellInv
  BY <1>1 DEF CellInv, FreeCellsDead
<1> QED BY <1>2, <1>3, <1>4 DEF Placed

LEMMA StutterPlaced ==
  ASSUME Placed, UNCHANGED vars
  PROVE  Placed'
<1>1. UNCHANGED <<pool, glob, syn, bnd, marklist, pc, live>>
  BY DEF vars
<1>2. Running' <=> Running
  BY <1>1 DEF Running
<1>3. Sound' <=> Sound
  BY <1>1, <1>2 DEF Sound
<1>4. Dropping' <=> Dropping
  BY <1>1 DEF Dropping
<1>5. \A p, k : (HeldSyn(p, k) <=> HeldSyn(p, k)') /\ (HeldBind(p, k) <=> HeldBind(p, k)')
  BY <1>1, <1>4 DEF HeldSyn, SynTop, HeldBind, BindTop
<1>6. GlobInv' /\ LiveDisjoint'
  BY <1>1, <1>3 DEF Placed, GlobInv, LiveDisjoint, Live
<1>7. CellInv'
  <2>1. FreeCellsDead /\ Live' = Live
    BY <1>1 DEF Placed, CellInv, Live
  <2>2. ASSUME Running', NEW j \in CellSizes, NEW k \in CellSizes
        PROVE  /\ \A a \in 1 .. Len(syn'.free[k]) : ~Dropping' => HeldSyn(syn.free[k][a], k)'
               /\ \A a \in 1 .. Len(bnd'.free[k]) : HeldBind(bnd.free[k][a], k)'
    <3>1. /\ \A a \in 1 .. Len(syn.free[k]) : ~Dropping => HeldSyn(syn.free[k][a], k)
          /\ \A a \in 1 .. Len(bnd.free[k]) : HeldBind(bnd.free[k][a], k)
      BY <1>2, <2>1, <2>2 DEF FreeCellsDead
    <3>2. syn' = syn /\ bnd' = bnd
      BY <1>1
    <3> QED BY <1>4, <1>5, <3>1, <3>2
  <2>3. FreeCellsDead'
    BY <1>1, <1>2, <2>1, <2>2 DEF FreeCellsDead
  <2> QED BY <1>1, <1>2, <2>3 DEF Placed, CellInv
<1>8. \A x : ObjOK(x) => ObjOK(x)'
  BY <1>1, <1>4, <1>5 DEF ObjOK, PermOK, GlobOK, SynOK, BindOK, SynUnder, BindUnder
<1>9. ObjInv'
  <2>1. \A o \in Live' : o \in Live /\ live'[o] = live[o]
    BY <1>1 DEF Live
  <2>2. ASSUME Sound', NEW o \in Live', NEW x, x = live'[o] PROVE ObjOK(x)'
    <3>1. ObjOK(x)
      BY <1>3, <2>1, <2>2 DEF Placed, ObjInv
    <3> QED BY <1>8, <3>1
  <2>3. Sound' => \A o \in Live' : ObjOK(live[o])'
    BY <2>2
  <2>4. pc' = "exit" => Live' = {}
    BY <1>1 DEF Placed, ObjInv, Live
  <2> QED BY <2>3, <2>4 DEF ObjInv
<1> QED BY <1>6, <1>7, <1>9 DEF Placed

\* Every step leaves blocks where they must be.
LEMMA NextPlaced ==
  IInv /\ IInv' /\ Hunky /\ Hunky' /\ MarksRestore /\ Placed /\ [Next]_vars => Placed'
<1> SUFFICES ASSUME IInv, IInv', Hunky, Hunky', MarksRestore, Placed, [Next]_vars
             PROVE  Placed'
  OBVIOUS
<1>1. ASSUME pc = "run", Common PROVE Placed'
  BY <1>1, SizesNat, SynAllocPlaced, SynConsPlaced, DropPlaced DEF Common
<1>2. ASSUME pc = "run", Compile PROVE Placed'
  <2>1. ASSUME NEW n \in Sizes, GlobAllocCall(n) \/ BindAlloc(n) PROVE Placed'
    BY <1>2, <2>1, SizesNat, GlobAllocPlaced, BindAllocPlaced
  <2>2. ASSUME NEW o \in Obs, Discard(o) \/ DiscardFails(o) PROVE Placed'
    BY <1>2, <2>2, DiscardPlaced, FailPlaced DEF DiscardFails
  <2> QED BY <1>2, <2>1, <2>2, BindConsPlaced, AllocMarkPlaced, AllocUnmarkPlaced,
      AllocReinitPlaced, PerFileFinalisePlaced DEF Compile
<1>3. ASSUME Loops PROVE Placed'
  BY <1>3, DropHunkPlaced, DropEndPlaced, RecyclePlaced, FinaliseEndPlaced DEF Loops
<1> QED BY <1>1, <1>2, <1>3, PermAllocPlaced, PerFileInitPlaced, AllocFinalisePlaced,
    AllocInitialisePlaced, StutterPlaced DEF Next

----------------------------------------------------------------------------
(* The syserr of discard2 and discard3.                                    *)

LEMMA FailSays == ASSUME IInv, NEW e, Fail(e) PROVE pool'.err = e
BY HunkyFields DEF Fail, PoolType

\* No taker of hunks reports "discard" unless it was reported before.
LEMMA TakersFind ==
  ASSUME NEW s \in PoolType, s.err # "discard"
  PROVE  /\ \A n \in Nat : PermAlloc(s, n).err # "discard"
         /\ \A cnt \in Nat : Room(s, cnt).err # "discard"
         /\ \A g \in GlobType : \A n \in Nat : GlobAlloc(s, g, n).pool.err # "discard"
         /\ \A cnt \in Nat : TakeHunk(Room(s, cnt)).err # "discard"
         /\ NextBindHunk(s).err # "discard"
<1>1. \A n \in Nat : PermAlloc(s, n).err # "discard"
  BY PermAllocPasses DEF Passes
<1>2. \A cnt \in Nat : Room(s, cnt).err # "discard" /\ Room(s, cnt) \in PoolType
  BY RoomPasses DEF Passes, Keeps
<1>3. \A g \in GlobType : \A n \in Nat : GlobAlloc(s, g, n).pool.err # "discard"
  BY GlobAllocPasses DEF Passes
<1>4. \A cnt \in Nat : TakeHunk(Room(s, cnt)).err # "discard"
  BY <1>2, TakeHunkPasses DEF Passes
<1>5. NextBindHunk(s).err # "discard"
  <2>1. CASE Spare(s)
    BY <2>1 DEF NextBindHunk
  <2>2. CASE ~Spare(s)
    <3> DEFINE c == CcAlloc(s)
               r == Room(c, Len(s.bindseg))
    <3>1. c \in PoolType /\ c.err # "discard" /\ Len(s.bindseg) \in Nat
      BY CcAllocPasses, PoolFields DEF Passes, Keeps
    <3> HIDE DEF c
    <3>2. r \in PoolType /\ r.err # "discard"
      BY <3>1, RoomPasses DEF Passes, Keeps
    <3>3. NextBindHunk(s) = [r EXCEPT !.bindseg = Append(r.bindseg, s.chain + 1)]
      BY <2>2 DEF NextBindHunk, c
    <3> HIDE DEF r
    <3> QED BY <3>2, <3>3 DEF PoolType
  <2> QED BY <2>1, <2>2
<1> QED BY <1>1, <1>2, <1>3, <1>4, <1>5

LEMMA SynAllocFinds ==
  ASSUME IInv, pool.err # "discard", NEW n \in Nat, SynAlloc(n)
  PROVE  pool'.err # "discard"
<1>1. pool \in PoolType /\ Len(syn.seg) \in Nat
  BY HunkyFields
<1>2. TakeHunk(Room(pool, Len(syn.seg))).err # "discard"
  BY <1>1, TakersFind
<1>3. CASE SynNewHunk(n)
  BY <1>2, <1>3 DEF SynNewHunk
<1>4. CASE SynFails(n)
  BY <1>2, <1>4, FailSays DEF SynFails
<1>5. CASE SynBump(n) \/ SynScavenge(n)
  BY <1>5 DEF SynBump, SynScavenge
<1>6. CASE Fail("overlarge")
  BY <1>6, FailSays
<1> QED BY <1>3, <1>4, <1>5, <1>6 DEF SynAlloc

LEMMA BindAllocFinds ==
  ASSUME IInv, pool.err # "discard", NEW n \in Nat, BindAlloc(n), pc = "run"
  PROVE  pool'.err # "discard"
<1>1. pool \in PoolType /\ pool.bindsegcur <= Len(pool.bindseg)
  BY HunkyFields
<1>2. NextBindHunk(pool).err # "discard"
  BY <1>1, TakersFind
<1>3. CASE BindNewHunk(n)
  <2>1. /\ NextBindHunk(pool).err = "none"
        /\ pool' = [NextBindHunk(pool) EXCEPT !.bindsegcur = NextBindHunk(pool).bindsegcur + 1]
    BY <1>3 DEF BindNewHunk
  <2>2. NextBindHunk(pool) \in PoolType
    BY <1>1, <2>1, NextBindHunkFacts
  <2> QED BY <1>2, <2>1, <2>2 DEF PoolType
<1>4. CASE BindFails(n)
  BY <1>2, <1>4, FailSays DEF BindFails
<1>5. CASE BindBump(n) \/ BindScavenge(n)
  BY <1>1, <1>5 DEF BindBump, BindScavenge, PoolType
<1>6. CASE Fail("overlarge")
  BY <1>6, FailSays
<1> QED BY <1>3, <1>4, <1>5, <1>6 DEF BindAlloc

\* The hunk of a block that lives is in use by its class, so one of the two
\* searches finds it.
LEMMA NoDiscardFails ==
  ASSUME IInv, Hunky, Placed, pc = "run", NEW o \in Obs
  PROVE  ~DiscardFails(o)
<1> SUFFICES ASSUME DiscardFails(o) PROVE FALSE
  OBVIOUS
<1>1. PICK c : c = live[o]
  OBVIOUS
<1>2. /\ c.class \in {"syn", "bind"} /\ o \in Live
      /\ c.hunk \notin ToSet(syn.seg)
      /\ c.hunk \notin ToSet(SubSeq(pool.bindseg, 1, pool.bindsegcur))
  BY <1>1 DEF DiscardFails, Live
<1>3. ObjOK(c)
  BY <1>1, <1>2, HeldAll
<1>4. CASE c.class = "syn"
  <2>1. PICK i \in 1 .. Len(syn.seg) : syn.seg[i] = c.hunk
    BY <1>3, <1>4 DEF ObjOK, SynOK, HeldSyn
  <2> QED BY <1>2, <2>1, HunkyFields, SetOfSeq
<1>5. CASE c.class = "bind"
  <2>1. PICK i \in 1 .. Len(pool.bindseg) : i <= pool.bindsegcur /\ pool.bindseg[i] = c.hunk
    BY <1>3, <1>5 DEF ObjOK, BindOK, HeldBind
  <2> DEFINE u == SubSeq(pool.bindseg, 1, pool.bindsegcur)
  <2>2. /\ u \in Seq(Hunk) /\ Len(u) = pool.bindsegcur
        /\ \A j \in 1 .. pool.bindsegcur : u[j] = pool.bindseg[j]
    BY HunkyFields, SubSeqFacts
  <2> HIDE DEF u
  <2>3. i \in 1 .. Len(u) /\ u[i] = c.hunk
    BY <2>1, <2>2
  <2>4. c.hunk \in ToSet(u)
    BY <2>2, <2>3, SetOfSeq
  <2> QED BY <1>2, <2>4 DEF u
<1> QED BY <1>2, <1>4, <1>5

LEMMA InitialFinds == ASSUME NEW c \in Nat PROVE InitialPool(c).err # "discard"
<1> DEFINE s == [segmax |-> 0, chain |-> 0, perm |-> {}, permallp |-> Duff,
                 bindseg |-> <<>>, bindsegcur |-> c, err |-> "none"]
<1>1. s \in PoolType /\ s.err = "none" /\ s.segmax = 0
  <2>1. Duff \in Pointer /\ <<>> \in Seq(Hunk) /\ 0 \in 0 .. MaxHunks
    BY EmptySeq, SizesNat DEF Duff, Pointer
  <2> QED BY <2>1 DEF PoolType, Errors
<1> HIDE DEF s
<1>2. s.segmax <= SEGMAX_INIT
  BY <1>1, SizesNat
<1>3. Passes(s, ExpandSegmax(s, SEGMAX_INIT))
  BY <1>1, <1>2, SizesNat, ExpandSegmaxPasses
<1> QED BY <1>1, <1>3 DEF InitialPool, Passes, s

LEMMA NextFinds == IInv /\ Hunky /\ Placed /\ DiscardFinds /\ [Next]_vars => DiscardFinds'
<1> SUFFICES ASSUME IInv, Hunky, Placed, pool.err # "discard", [Next]_vars
             PROVE  pool'.err # "discard"
  BY DEF DiscardFinds
<1>1. pool \in PoolType /\ glob \in GlobType
  BY HunkyFields
<1>2. ASSUME NEW n \in Nat, PermAllocCall(n) \/ GlobAllocCall(n) PROVE pool'.err # "discard"
  BY <1>1, <1>2, TakersFind, FailSays DEF PermAllocCall, GlobAllocCall
<1>3. ASSUME pc = "run", NEW k \in CellSizes, SynCons(k) \/ BindCons(k)
      PROVE  pool'.err # "discard"
  BY <1>3, SizesNat, SynAllocFinds, BindAllocFinds DEF SynCons, BindCons
<1>4. ASSUME pc = "run", Common PROVE pool'.err # "discard"
  BY <1>3, <1>4, SizesNat, SynAllocFinds DEF Common, Drop
<1>5. ASSUME pc = "run", Compile PROVE pool'.err # "discard"
  <2>1. ASSUME NEW n \in Sizes, GlobAllocCall(n) \/ BindAlloc(n) PROVE pool'.err # "discard"
    BY <1>2, <1>5, <2>1, SizesNat, BindAllocFinds
  <2>2. ASSUME NEW o \in Obs, Discard(o) \/ DiscardFails(o) PROVE pool'.err # "discard"
    BY <1>5, <2>2, NoDiscardFails DEF Discard
  <2>3. ASSUME AllocMark PROVE pool'.err # "discard"
    BY <1>1, <2>3, SizesNat, TakersFind, FailSays DEF AllocMark
  <2>4. ASSUME NEW i \in 2 .. Len(marklist), AllocUnmark(i) PROVE pool'.err # "discard"
    <3>1. UnmarkTop => pool'.err = pool.err
      BY <1>1 DEF UnmarkTop, PoolType
    <3> QED BY <2>4, <3>1, FailSays DEF AllocUnmark, UnmarkPending
  <2>5. ASSUME AllocReinit \/ PerFileFinalise PROVE pool'.err # "discard"
    BY <1>1, <2>5, FailSays DEF AllocReinit, PerFileFinalise, PoolType
  <2> QED BY <1>3, <1>5, <2>1, <2>2, <2>3, <2>4, <2>5 DEF Compile
<1>6. ASSUME Loops PROVE pool'.err # "discard"
  <2> DEFINE r == Room(pool, Len(pool.bindseg))
  <2>1. r \in PoolType /\ r.err # "discard"
    BY <1>1, PoolFields, TakersFind, RoomPasses DEF Passes, Keeps
  <2>2. \A h : [r EXCEPT !.bindseg = Append(r.bindseg, h)].err = r.err
    BY <2>1 DEF PoolType
  <2>3. ASSUME DropHunk \/ RecycleGlobPage PROVE pool'.err # "discard"
    <3>1. \/ \E h : pool' = [r EXCEPT !.bindseg = Append(r.bindseg, h)]
          \/ UNCHANGED pool
          \/ Fail(r.err)
      BY <2>3 DEF DropHunk, RecycleGlobPage
    <3> HIDE DEF r
    <3> QED BY <2>1, <2>2, <3>1, FailSays
  <2> QED BY <1>6, <2>3 DEF Loops, DropEnd, FinaliseEnd
<1>7. ASSUME NEW command \in BOOLEAN, PerFileInit(command) PROVE pool'.err # "discard"
  <2> DEFINE g == [seg |-> <<>>, os |-> glob.os, allp |-> Duff, size |-> 0]
             s == [pool EXCEPT !.bindsegcur = 0]
             r == GlobAlloc(s, g, MarkSize)
  <2>1. Sound /\ SynSeg = <<>>
    BY <1>7 DEF PerFileInit, Sound, SynSeg, Running
  <2>2. s \in PoolType /\ g \in GlobType /\ s.err = pool.err
    BY <1>1, <2>1, ForgottenGlob DEF PoolType
  <2>3. r.pool.err # "discard"
    BY <2>2, SizesNat, TakersFind
  <2>4. pool' = r.pool \/ Fail(r.pool.err)
    BY <1>7 DEF PerFileInit
  <2> HIDE DEF r
  <2> QED BY <2>3, <2>4, FailSays
<1>8. ASSUME AllocFinalise PROVE pool'.err # "discard"
  BY <1>1, <1>8 DEF AllocFinalise, PoolType
<1>9. ASSUME AllocInitialise PROVE pool'.err # "discard"
  BY <1>9, HunkyFields, InitialFinds DEF AllocInitialise
<1>10. ASSUME UNCHANGED vars PROVE pool'.err # "discard"
  BY <1>10 DEF vars
<1> QED BY <1>2, <1>4, <1>5, <1>6, <1>7, <1>8, <1>9, <1>10, SizesNat DEF Next

----------------------------------------------------------------------------
(* The theorems.                                                           *)

LEMMA InitBlocks == Init => Placed /\ DiscardFinds
<1> SUFFICES ASSUME Init PROVE Placed /\ DiscardFinds
  OBVIOUS
<1>1. pool = InitialPool(0)
  BY DEF Init
<1> QED BY <1>1, InitPlaced, InitialFinds DEF DiscardFinds

\* All that the proofs of this file maintain, with what they rest on.
BlockInv == IInv /\ Hunky /\ MarksRestore /\ Placed /\ DiscardFinds

LEMMA BlocksAlways == Spec => []BlockInv
<1>1. Init => BlockInv
  BY InitIInv, InitHunky, InitMarks, InitBlocks DEF BlockInv
<1>2. BlockInv /\ [Next]_vars => BlockInv'
  <2> SUFFICES ASSUME BlockInv, [Next]_vars PROVE BlockInv'
    OBVIOUS
  <2>1. IInv' /\ Hunky'
    BY NextIInv, NextHunky DEF BlockInv
  <2>2. MarksRestore' /\ DiscardFinds'
    BY <2>1, NextMarks, NextFinds DEF BlockInv
  <2>3. Placed'
    BY <2>1, NextPlaced DEF BlockInv
  <2> QED BY <2>1, <2>2, <2>3 DEF BlockInv
<1> QED BY <1>1, <1>2, PTL DEF Spec

LEMMA PlacedHeld == IInv /\ Placed => LiveHeld
<1> SUFFICES ASSUME IInv, Placed, Sound, NEW o \in Live, NEW x, x = live[o]
             PROVE  /\ x.class \in Classes
                    /\ x.class = "perm" => HeldPerm(x, x.size)
                    /\ x.class = "glob" => HeldGlob(x, x.size)
                    /\ x.class = "syn" => HeldSyn(x, x.size)
                    /\ x.class = "bind" => HeldBind(x, x.size)
  BY DEF LiveHeld, Classes
<1>1. ObjOK(x) /\ x \in LiveType
  BY DEF Placed, ObjInv, IInv, TypeOK, Live
<1>2. x.class = "perm" => HeldPerm(x, x.size)
  BY <1>1 DEF ObjOK, PermOK, PermUpTo, HeldPerm
<1>3. x.class = "glob" => HeldGlob(x, x.size)
  BY <1>1 DEF ObjOK, GlobOK, GlobUpTo, HeldGlob
<1> QED BY <1>1, <1>2, <1>3 DEF ObjOK, SynOK, BindOK, LiveType

\* Store handed out stays with its class for the lifetime that store.h lists:
\* whatever the scavenging, unmarking and recycling, no call puts a free pointer
\* back below a block in use or lets its hunk go.
THEOREM LiveHeldCorrect == Spec => []LiveHeld
<1>1. BlockInv => LiveHeld
  BY PlacedHeld DEF BlockInv
<1> QED BY <1>1, BlocksAlways, PTL

\* No two blocks in use overlap, whichever of the bump pointers, scraps, free
\* lists of cons cells and recycled hunks they came from.
THEOREM LiveDisjointCorrect == Spec => []LiveDisjoint
<1>1. BlockInv => LiveDisjoint
  BY DEF BlockInv, Placed
<1> QED BY <1>1, BlocksAlways, PTL

\* discard2, discard3 and the list constructors: the cells on the free lists are
\* dead, distinct, and in store that their allocator holds.
THEOREM FreeCellsDeadCorrect == Spec => []FreeCellsDead
<1>1. BlockInv => FreeCellsDead
  BY DEF BlockInv, Placed, CellInv
<1> QED BY <1>1, BlocksAlways, PTL

\* discard2 and discard3 never reach their syserr for a cell that is alive.
THEOREM DiscardFindsCorrect == Spec => []DiscardFinds
<1>1. BlockInv => DiscardFinds
  BY DEF BlockInv
<1> QED BY <1>1, BlocksAlways, PTL

=============================================================================
