------------------------- MODULE Store_refine_proofs -------------------------
(***************************************************************************)
(* The store allocator keeps the promise of StoreContract, for every value *)
(* of the constants: each of its steps is one of the contract or changes   *)
(* nothing that the contract speaks of.                                    *)
(***************************************************************************)
EXTENDS Store_block_proofs

----------------------------------------------------------------------------
(* The mapping.                                                            *)

\* An object that lives owns words, and its class and level are its own.
LEMMA OwnFacts ==
  ASSUME NEW x \in LiveType
  PROVE  /\ Own(x) # None /\ Own(x).class = x.class /\ Own(x).level = x.level
         /\ Own(x).words = {x.hunk} \X (x.off .. x.off + x.size - 1)
<1>1. x # None
  BY StoreAssumption DEF LiveType, Classes
<1>2. Own(x) = [class |-> x.class, level |-> x.level,
                words |-> {x.hunk} \X (x.off .. x.off + x.size - 1)]
  BY <1>1 DEF Own
<1>3. {x.hunk} \X (x.off .. x.off + x.size - 1) \in SUBSET (Nat \X Nat)
  <2>1. x.hunk \in Nat /\ x.off \in Nat /\ x.size \in Nat
    BY SizesNat DEF LiveType
  <2>2. (x.off .. x.off + x.size - 1) \subseteq Nat
    BY <2>1
  <2> QED BY <2>1, <2>2
<1>4. Own(x) # None
  BY <1>2, <1>3, StoreAssumption DEF LiveType, Classes
<1> QED BY <1>2, <1>4

OwnedOK ==
  \A o \in Obs : /\ live[o] = None => Owned[o] = None
                 /\ live[o] # None => live[o] \in LiveType /\ Owned[o] # None
                 /\ Owned[o] = Own(live[o])

LEMMA OwnedFacts == TypeOK => OwnedOK
BY OwnFacts DEF TypeOK, Owned, Own, OwnedOK

LEMMA OwnedFactsNext == TypeOK' => OwnedOK'
BY OwnedFacts, PTL

PendingOK ==
  /\ Pending \in Seq(BOOLEAN) /\ Len(Pending) = Len(marklist) /\ Len(marklist) \in Nat
  /\ \A i \in 1 .. Len(marklist) : Pending[i] = marklist[i].unmarked

LEMMA PendingFacts == TypeOK => PendingOK
<1> SUFFICES ASSUME TypeOK PROVE PendingOK
  OBVIOUS
<1>1. Len(marklist) \in Nat /\ \A i \in 1 .. Len(marklist) : marklist[i].unmarked \in BOOLEAN
  BY MarkFields DEF MarkType
<1> QED BY <1>1 DEF Pending, PendingOK

LEMMA PendingFactsNext == TypeOK' => PendingOK'
BY PendingFacts, PTL

\* All store lies in hunks.
ZonesHunks == Sound => \A c \in Classes : Zone(c) \subseteq Hunk

LEMMA Zones == IInv => ZonesHunks
<1> SUFFICES ASSUME IInv, NEW c \in Classes PROVE Zone(c) \subseteq Hunk
  BY DEF ZonesHunks
<1>1. pool.perm \subseteq Hunk /\ ToSet(pool.bindseg) \subseteq Hunk
  BY HunkyFields, PoolFields, SetOfSeq
<1>2. ToSet(SynSeg) \subseteq Hunk
  BY HunkyFields, SetOfSeq
<1>3. ToSet(PageHunks(glob.seg)) \subseteq Hunk
  BY HunkyFields, GlobFields, PageSeq, SetOfSeq
<1> QED BY <1>1, <1>2, <1>3 DEF Zone, Classes

LEMMA ZonesNext == IInv' => ZonesHunks'
BY Zones, PTL

\* Blocks that do not overlap share no word.
LEMMA DisjointWords ==
  ASSUME NEW x \in LiveType, NEW y \in LiveType, Disjoint(x, x.size, y, y.size)
  PROVE  Own(x).words \cap Own(y).words = {}
<1>1. /\ Own(x).words = {x.hunk} \X (x.off .. x.off + x.size - 1)
      /\ Own(y).words = {y.hunk} \X (y.off .. y.off + y.size - 1)
  BY OwnFacts
<1>2. x.off \in Nat /\ x.size \in Nat /\ y.off \in Nat /\ y.size \in Nat
  BY DEF LiveType
<1>3. CASE x.hunk # y.hunk
  BY <1>1, <1>3
<1>4. CASE x.hunk = y.hunk
  <2>1. (x.off .. x.off + x.size - 1) \cap (y.off .. y.off + y.size - 1) = {}
    BY <1>2, <1>4 DEF Disjoint
  <2> QED BY <1>1, <2>1
<1> QED BY <1>3, <1>4

----------------------------------------------------------------------------
(* Steps.                                                                  *)

LEMMA FailKept == ASSUME NEW e, Fail(e) PROVE Promise!Stop
<1>1. Phase' = "over" /\ Owned' = Owned /\ Pending' = Pending
  BY DEF Fail, Phase, Running, Owned, Pending
<1> QED BY <1>1 DEF Promise!Stop

LEMMA SameKept ==
  ASSUME UNCHANGED <<live, marklist>>, Running' <=> Running, (pc' = "idle") <=> (pc = "idle")
  PROVE  UNCHANGED Promise!vars
<1>1. Phase' = Phase /\ Owned' = Owned /\ Pending' = Pending
  BY DEF Phase, Owned, Pending
<1> QED BY <1>1 DEF Promise!vars

\* What Syn, Bind, Perm or Glob hands out is given to nobody else.
LEMMA NoteKept ==
  ASSUME BlockInv, BlockInv', NEW class \in Classes, NEW p \in Pointer, NEW n \in Nat,
         Note(class, p, n), UNCHANGED <<marklist, pc>>,
         pc = "run" \/ (pc = "idle" /\ class = "perm")
  PROVE  [Promise!Next]_Promise!vars
<1>1. /\ TypeOK /\ TypeOK' /\ LiveDisjoint' /\ Hunky' /\ IInv' /\ Placed'
      /\ Phase \in {"file", "idle"} /\ Phase' = Phase /\ Pending' = Pending
      /\ pc = "run" => Phase = "file"
  BY DEF BlockInv, IInv, Placed, Phase, Running, Pending
<1>2. CASE UNCHANGED live
  <2>1. Owned' = Owned
    BY <1>2 DEF Owned
  <2> QED BY <1>1, <2>1 DEF Promise!vars
<1>3. ASSUME NEW o \in Obs, live[o] = None, live' = [live EXCEPT ![o] = Object(class, p, n)]
      PROVE  Promise!Allocate(o)
  <2>1. PICK w : w = Object(class, p, n)
    OBVIOUS
  <2>2. live'[o] = w /\ \A q \in Obs \ {o} : live'[q] = live[q]
    BY <1>1, <1>3, <2>1 DEF TypeOK
  <2>3. /\ w.class = class /\ w.hunk = p.hunk /\ w.off = p.off /\ w.size = n
        /\ w.level = IF class \in {"syn", "bind"} THEN Len(marklist) ELSE 0
        /\ w # None /\ w \in LiveType /\ o \in Live'
    <3>1. /\ w.class = class /\ w.hunk = p.hunk /\ w.off = p.off /\ w.size = n
          /\ w.level = IF class \in {"syn", "bind"} THEN Len(marklist) ELSE 0
      BY <2>1 DEF Object
    <3>2. w \in LiveType
      <4>1. Len(marklist) \in Nat
        BY <1>1, PendingFacts DEF PendingOK
      <4> QED BY <2>1, <4>1 DEF Object, LiveType, Pointer
    <3>3. w # None
      BY <3>2, StoreAssumption DEF LiveType, Classes
    <3> QED BY <2>2, <3>1, <3>2, <3>3 DEF Live
  <2>4. /\ Owned[o] = None /\ Owned'[o] = Own(w) /\ Own(w) # None
        /\ \A q \in Obs \ {o} : Owned'[q] = Owned[q]
    <3>1. \A q \in Obs : Owned[q] = Own(live[q]) /\ Owned'[q] = Own(live'[q])
      <4>1. OwnedOK /\ OwnedOK'
        BY <1>1, OwnedFacts, OwnedFactsNext
      <4> QED BY <4>1 DEF OwnedOK, Own
    <3>2. Own(None) = None /\ Own(w) # None
      BY <2>3, OwnFacts DEF Own
    <3> QED BY <1>3, <2>2, <3>1, <3>2
  <2>5. Own(w).words \subseteq Hunk \X Nat
    <3>1. w.hunk \in Hunk
      <4>1. ObjOK(w)' /\ Sound'
        <5>1. Sound'
          BY DEF Sound, Running
        <5> QED BY <1>1, <2>2, <2>3, <5>1 DEF Placed, ObjInv
      <4>2. w.hunk \in Zone(w.class)'
        BY <1>1, <2>3, <4>1, ZonedNext DEF ZoneFacts
      <4> QED BY <1>1, <2>3, <4>1, <4>2, ZonesNext DEF ZonesHunks
    <3>2. (w.off .. w.off + w.size - 1) \subseteq Nat
      BY <2>3 DEF LiveType
    <3> QED BY <2>3, <3>1, <3>2, OwnFacts
  <2>6. \A q \in Obs \ {o} : Owned[q] # None => Owned[q].words \cap Owned'[o].words = {}
    <3> SUFFICES ASSUME NEW q \in Obs \ {o}, Owned[q] # None
                 PROVE  Owned[q].words \cap Owned'[o].words = {}
      OBVIOUS
    <3>1. PICK y : y = live[q]
      OBVIOUS
    <3>2. y # None /\ y \in LiveType /\ Owned[q] = Own(y)
      <4>1. OwnedOK
        BY <1>1, OwnedFacts
      <4> QED BY <3>1, <4>1 DEF OwnedOK
    <3>3. q \in Live' /\ live'[q] = y
      BY <2>2, <3>1, <3>2 DEF Live
    <3>4. Disjoint(y, y.size, w, w.size)
      BY <1>1, <2>2, <2>3, <3>3 DEF LiveDisjoint
    <3> QED BY <2>3, <2>4, <3>2, <3>4, DisjointWords
  <2>7. /\ Owned'[o].class = class
        /\ Owned'[o].level = IF class \in {"syn", "bind"} THEN Len(Pending) ELSE 0
    BY <1>1, <2>3, <2>4, OwnFacts, PendingFacts DEF PendingOK
  <2> QED BY <1>1, <2>4, <2>5, <2>6, <2>7 DEF Promise!Allocate
<1> QED BY <1>2, <1>3 DEF Note, Promise!Next

LEMMA PermAllocKept ==
  ASSUME BlockInv, BlockInv', NEW n \in Sizes, PermAllocCall(n), pc \in {"idle", "run"}
  PROVE  [Promise!Next]_Promise!vars
<1> DEFINE s == PermAlloc(pool, n)
           b == [s.permallp EXCEPT !.off = s.permallp.off - n]
<1>1. CASE Fail(s.err)
  BY <1>1, FailKept DEF Promise!Next
<1>2. CASE s.err = "none" /\ Note("perm", b, n) /\ UNCHANGED <<marklist, pc>>
  <2>1. n \in Nat /\ pool \in PoolType
    BY SizesNat, HunkyFields DEF BlockInv
  <2>2. s \in PoolType /\ s.permallp.off >= n
    BY <1>2, <2>1, PermAllocKeeps DEF Keeps
  <2> HIDE DEF s
  <2>3. b \in Pointer
    <3>1. s.permallp \in Pointer /\ s.permallp.off - n \in Nat
      BY <2>1, <2>2, PoolFields DEF Pointer
    <3> QED BY <3>1 DEF Pointer
  <2> HIDE DEF b
  <2>4. "perm" \in Classes
    BY DEF Classes
  <2> QED BY <1>2, <2>1, <2>3, <2>4, NoteKept
<1> QED BY <1>1, <1>2 DEF PermAllocCall

LEMMA GlobAllocKept ==
  ASSUME BlockInv, BlockInv', NEW n \in Sizes, GlobAllocCall(n), pc = "run"
  PROVE  [Promise!Next]_Promise!vars
<1> DEFINE r == GlobAlloc(pool, glob, n)
<1>1. CASE Fail(r.pool.err)
  BY <1>1, FailKept DEF Promise!Next
<1>2. CASE r.pool.err = "none" /\ Note("glob", r.at, n) /\ UNCHANGED <<marklist, pc>>
  <2>1. n \in Nat /\ pool \in PoolType /\ glob \in GlobType
    BY SizesNat, HunkyFields DEF BlockInv
  <2>2. r.at \in Pointer /\ "glob" \in Classes
    BY <1>2, <2>1, GlobAllocType DEF Classes
  <2> HIDE DEF r
  <2> QED BY <1>2, <2>1, <2>2, NoteKept
<1> QED BY <1>1, <1>2 DEF GlobAllocCall

LEMMA SynAllocKept ==
  ASSUME BlockInv, BlockInv', NEW n \in Nat, SynAlloc(n), pc = "run"
  PROVE  [Promise!Next]_Promise!vars
<1>1. CASE \E e : Fail(e)
  BY <1>1, FailKept DEF Promise!Next
<1>2. CASE (\E b \in Pointer : Note("syn", b, n)) /\ UNCHANGED <<marklist, pc>>
  BY <1>2, NoteKept DEF Classes
<1> QED BY <1>1, <1>2, SynAllocGives DEF BlockInv

LEMMA BindAllocKept ==
  ASSUME BlockInv, BlockInv', NEW n \in Nat, BindAlloc(n), pc = "run"
  PROVE  [Promise!Next]_Promise!vars
<1>1. CASE \E e : Fail(e)
  BY <1>1, FailKept DEF Promise!Next
<1>2. CASE (\E b \in Pointer : Note("bind", b, n)) /\ UNCHANGED <<marklist, pc>>
  BY <1>2, NoteKept DEF Classes
<1> QED BY <1>1, <1>2, BindAllocGives DEF BlockInv

LEMMA ConsKept ==
  ASSUME BlockInv, BlockInv', NEW k \in CellSizes, SynCons(k) \/ BindCons(k), pc = "run"
  PROVE  [Promise!Next]_Promise!vars
<1>1. k \in Nat /\ syn.free \in Cells /\ bnd.free \in Cells
  BY SizesNat, FreeTypes DEF BlockInv
<1>2. CASE SynAlloc(k) \/ BindAlloc(k)
  BY <1>1, <1>2, SynAllocKept, BindAllocKept
<1>3. CASE /\ syn.free[k] # <<>> /\ Note("syn", Head(syn.free[k]), k)
           /\ UNCHANGED <<marklist, pc>>
  <2>1. Head(syn.free[k]) \in Pointer /\ "syn" \in Classes
    BY <1>1, <1>3, CellsType DEF Classes
  <2> QED BY <1>1, <1>3, <2>1, NoteKept
<1>4. CASE /\ bnd.free[k] # <<>> /\ Note("bind", Head(bnd.free[k]), k)
           /\ UNCHANGED <<marklist, pc>>
  <2>1. Head(bnd.free[k]) \in Pointer /\ "bind" \in Classes
    BY <1>1, <1>4, CellsType DEF Classes
  <2> QED BY <1>1, <1>4, <2>1, NoteKept
<1> QED BY <1>2, <1>3, <1>4 DEF SynCons, BindCons

LEMMA DiscardKept ==
  ASSUME BlockInv, BlockInv', NEW o \in Obs, Discard(o), pc = "run"
  PROVE  Promise!Release(o)
<1>1. /\ live[o] # None /\ live[o].class \in {"syn", "bind"}
      /\ live' = [live EXCEPT ![o] = None] /\ UNCHANGED <<marklist, pc>>
  BY DEF Discard
<1>2. Phase = "file" /\ Phase' = Phase /\ Pending' = Pending
  BY <1>1 DEF Phase, Running, Pending
<1>3. OwnedOK /\ live \in [Obs -> LiveType \cup {None}]
  BY OwnedFacts DEF BlockInv, IInv, TypeOK
<1>4. Owned[o] # None /\ Owned[o].class \in {"syn", "bind"}
  BY <1>1, <1>3, OwnFacts DEF OwnedOK
<1>5. Owned' = [Owned EXCEPT ![o] = None]
  BY <1>1, <1>3 DEF Owned, Own
<1> QED BY <1>2, <1>4, <1>5 DEF Promise!Release

LEMMA AllocMarkKept ==
  ASSUME BlockInv, BlockInv', AllocMark, pc = "run"
  PROVE  [Promise!Next]_Promise!vars
<1>1. CASE \E e : Fail(e)
  BY <1>1, FailKept DEF Promise!Next
<1>2. CASE marklist' = Append(marklist, NewMark) /\ UNCHANGED <<pc, live>>
  <2>1. Phase = "file" /\ Phase' = Phase /\ Owned' = Owned
    BY <1>2 DEF Phase, Running, Owned
  <2>2. Pending' = Append(Pending, FALSE)
    <3>1. PendingOK /\ PendingOK' /\ marklist \in Seq(MarkType)
      BY PendingFacts, PendingFactsNext DEF BlockInv, IInv, TypeOK
    <3>2. NewMark \in MarkType /\ NewMark.unmarked = FALSE
      <4>1. /\ Len(syn.seg) \in Nat /\ syn.allp \in Pointer /\ pool.bindsegcur \in Nat
            /\ bnd.allp \in Pointer
        BY HunkyFields, SynFields, BndFields DEF BlockInv, IInv, TypeOK
      <4> QED BY <4>1 DEF NewMark, MarkType
    <3>3. /\ Len(marklist') = Len(marklist) + 1
          /\ \A i \in 1 .. Len(marklist) : marklist'[i] = marklist[i]
          /\ marklist'[Len(marklist) + 1] = NewMark
      BY <1>2, <3>1, <3>2, AppendProperties
    <3> DEFINE u == Append(Pending, FALSE)
    <3>4. /\ u \in Seq(BOOLEAN) /\ Len(u) = Len(marklist) + 1 /\ u[Len(marklist) + 1] = FALSE
          /\ \A i \in 1 .. Len(marklist) : u[i] = marklist[i].unmarked
      <4>1. FALSE \in BOOLEAN /\ Pending \in Seq(BOOLEAN)
        BY <3>1 DEF PendingOK
      <4>2. /\ u \in Seq(BOOLEAN) /\ Len(u) = Len(Pending) + 1 /\ u[Len(Pending) + 1] = FALSE
            /\ \A i \in 1 .. Len(Pending) : u[i] = Pending[i]
        BY <4>1, AppendProperties
      <4> HIDE DEF u
      <4> QED BY <3>1, <4>2 DEF PendingOK
    <3> HIDE DEF u
    <3>5. /\ Pending' \in Seq(BOOLEAN) /\ Len(Pending') = Len(u)
          /\ \A i \in 1 .. Len(marklist') : Pending'[i] = marklist'[i].unmarked
      BY <3>1, <3>3, <3>4 DEF PendingOK
    <3>6. \A i \in 1 .. Len(Pending') : Pending'[i] = u[i]
      <4> TAKE i \in 1 .. Len(Pending')
      <4>1. i \in 1 .. Len(marklist) \/ i = Len(marklist) + 1
        BY <3>1, <3>3, <3>4, <3>5 DEF PendingOK
      <4> QED BY <3>2, <3>3, <3>4, <3>5, <4>1
    <3>7. Pending' = u
      BY <3>4, <3>5, <3>6, SeqEqual
    <3> QED BY <3>7 DEF u
  <2> QED BY <2>1, <2>2 DEF Promise!Mark, Promise!Next
<1> QED BY <1>1, <1>2 DEF AllocMark

\* What alloc_unmark, drop_local_store, alloc_reinit and the passage from file
\* to file end is what the contract says.

LEMMA EndsKept ==
  ASSUME BlockInv, NEW C, NEW n,
         \A o \in Obs : live'[o] = IF live[o] # None /\ live[o].class \in C /\ live[o].level >= n
                                  THEN None ELSE live[o]
  PROVE  Promise!End(C, n)
<1>1. OwnedOK
  BY OwnedFacts DEF BlockInv, IInv
<1>2. ASSUME NEW o \in Obs, NEW x, x = live[o], x # None
      PROVE  /\ Owned[o] # None /\ Owned[o].class = x.class /\ Owned[o].level = x.level
             /\ Owned[o] = Own(x)
  BY <1>1, <1>2, OwnFacts DEF OwnedOK
<1>3. ASSUME NEW o \in Obs
      PROVE  Own(live'[o]) = IF Owned[o] = None THEN None
                             ELSE IF Owned[o].class \in C /\ Owned[o].level >= n
                                  THEN None ELSE Owned[o]
  <2>1. PICK x : x = live[o]
    OBVIOUS
  <2>2. Own(None) = None
    BY DEF Own
  <2>3. CASE x = None
    BY <1>1, <2>1, <2>2, <2>3 DEF OwnedOK
  <2>4. CASE x # None
    <3>1. live'[o] = IF x.class \in C /\ x.level >= n THEN None ELSE x
      BY <2>1, <2>4
    <3> QED BY <1>2, <2>1, <2>2, <2>4, <3>1
  <2> QED BY <2>3, <2>4
<1>4. Owned' = [o \in Obs |-> Own(live'[o])]
  BY DEF Owned, Own
<1>5. Owned' = [o \in Obs |-> IF Owned[o] = None THEN None
                              ELSE IF Owned[o].class \in C /\ Owned[o].level >= n
                                   THEN None ELSE Owned[o]]
  BY <1>3, <1>4
<1> QED BY <1>5 DEF Promise!End

LEMMA Levels ==
  ASSUME BlockInv, Sound
  PROVE  \A o \in Live : /\ live[o].class \in Classes /\ live[o].level \in Nat
                         /\ live[o].class \in {"perm", "glob"} => live[o].level = 0
<1> SUFFICES ASSUME NEW o \in Live, NEW x, x = live[o]
             PROVE  /\ x.class \in Classes /\ x.level \in Nat
                    /\ x.class \in {"perm", "glob"} => x.level = 0
  OBVIOUS
<1>1. ObjOK(x) /\ x \in LiveType
  BY DEF BlockInv, Placed, ObjInv, IInv, TypeOK, Live
<1> QED BY <1>1 DEF ObjOK, PermOK, GlobOK, LiveType

\* At the end of a file, and when the next begins, all but Perm store ends.
LEMMA FileEndKept ==
  ASSUME BlockInv, Sound, Kill(LAMBDA x : x.class # "perm")
  PROVE  Promise!End({"glob", "syn", "bind"}, 0)
<1>1. \A o \in Obs : live'[o] = IF live[o] # None /\ live[o].class # "perm" THEN None ELSE live[o]
  BY DEF Kill
<1>2. \A o \in Obs : live[o] # None =>
        (live[o].class # "perm" <=> live[o].class \in {"glob", "syn", "bind"} /\ live[o].level >= 0)
  <2> SUFFICES ASSUME NEW o \in Obs, NEW x, x = live[o], x # None
               PROVE  x.class # "perm" <=> x.class \in {"glob", "syn", "bind"} /\ x.level >= 0
    OBVIOUS
  <2>1. x.class \in Classes /\ x.level \in Nat
    BY Levels DEF Live
  <2> QED BY <2>1 DEF Classes
<1>3. \A o \in Obs : live'[o] = IF /\ live[o] # None /\ live[o].class \in {"glob", "syn", "bind"}
                                   /\ live[o].level >= 0
                                THEN None ELSE live[o]
  BY <1>1, <1>2
<1> QED BY <1>3, EndsKept

LEMMA UnmarkPendingKept ==
  ASSUME BlockInv, BlockInv', pc = "run", NEW i \in 2 .. Len(marklist), i < Len(marklist),
         ~marklist[i].unmarked, UnmarkPending(i)
  PROVE  Promise!Unmark
<1>1. PendingOK /\ marklist \in Seq(MarkType)
  BY PendingFacts DEF BlockInv, IInv, TypeOK
<1>2. i \in 1 .. Len(marklist) /\ i \in 2 .. Len(Pending) - 1 /\ ~Pending[i]
  BY <1>1 DEF PendingOK
<1>3. Phase = "file" /\ Phase' = Phase /\ Owned' = Owned
  BY DEF UnmarkPending, Phase, Running, Owned
<1>4. Pending' = [Pending EXCEPT ![i] = TRUE]
  <2>1. marklist' = [marklist EXCEPT ![i] = [marklist[i] EXCEPT !.unmarked = TRUE]]
    BY DEF UnmarkPending
  <2>2. /\ marklist[i] \in MarkType /\ Len(marklist') = Len(marklist)
        /\ DOMAIN marklist = 1 .. Len(marklist)
    <3>1. marklist[i] \in MarkType
      BY <1>1, <1>2, ElementOfSeq
    <3>2. [marklist[i] EXCEPT !.unmarked = TRUE] \in MarkType
      BY <3>1 DEF MarkType
    <3> QED BY <1>1, <1>2, <2>1, <3>1, <3>2, ExceptSeq, LenProperties
  <2>3. \A j \in 1 .. Len(marklist) :
          marklist'[j].unmarked = IF j = i THEN TRUE ELSE marklist[j].unmarked
    BY <1>2, <2>1, <2>2 DEF MarkType
  <2>4. Pending' = [j \in 1 .. Len(marklist) |-> marklist'[j].unmarked]
    BY <2>2 DEF Pending
  <2> QED BY <2>3, <2>4 DEF Pending
<1> QED BY <1>2, <1>3, <1>4 DEF Promise!Unmark

LEMMA UnmarkTopKept ==
  ASSUME BlockInv, BlockInv', pc = "run", UnmarkTop
  PROVE  Promise!Unmark
<1>1. IInv /\ TypeOK /\ TypeOK' /\ Sound /\ Phase = "file" /\ Phase' = Phase
  BY DEF BlockInv, IInv, Sound, Running, Phase, UnmarkTop
<1>2. PICK k \in 1 .. Len(marklist) - 1 :
        /\ StillSet(k) /\ Kill(LAMBDA x : x.level > k)
        /\ k \in Nat /\ k \in 1 .. Len(marklist)
        /\ Len(marklist') = k /\ \A i \in 1 .. k : marklist'[i] = marklist[i]
  BY <1>1, UnmarkTopEffect
<1>3. PendingOK /\ PendingOK' /\ Len(marklist) \in Nat
  BY <1>1, PendingFacts, PendingFactsNext DEF PendingOK
<1>4. ~Pending[k] /\ \A i \in k + 1 .. Len(Pending) - 1 : Pending[i]
  <2>1. ~marklist[k].unmarked
    BY <1>2 DEF StillSet, Newest
  <2>2. ASSUME NEW i \in k + 1 .. Len(marklist) - 1 PROVE marklist[i].unmarked
    <3>1. i \in 1 .. Len(marklist) - 1 /\ ~(i <= k)
      BY <1>2, <1>3
    <3> QED BY <1>2, <3>1 DEF StillSet, Newest
  <2>3. \A i \in k + 1 .. Len(marklist) - 1 : i \in 1 .. Len(marklist)
    BY <1>2, <1>3
  <2> QED BY <1>2, <1>3, <2>1, <2>2, <2>3 DEF PendingOK
<1>5. Pending' = SubSeq(Pending, 1, k)
  <2> DEFINE u == SubSeq(Pending, 1, k)
  <2>1. /\ u \in Seq(BOOLEAN) /\ Len(u) = k
        /\ \A i \in 1 .. k : u[i] = Pending[i]
    <3>1. Pending \in Seq(BOOLEAN) /\ k <= Len(Pending)
      BY <1>2, <1>3 DEF PendingOK
    <3> QED BY <1>2, <3>1, SubSeqFacts
  <2> HIDE DEF u
  <2>2. \A i \in 1 .. k : Pending'[i] = marklist'[i].unmarked /\ Pending[i] = marklist[i].unmarked
    BY <1>2, <1>3 DEF PendingOK
  <2>3. Pending' \in Seq(BOOLEAN) /\ Len(Pending') = Len(u) /\ \A i \in 1 .. k : Pending'[i] = u[i]
    BY <1>2, <1>3, <2>1, <2>2 DEF PendingOK
  <2>4. Pending' = u
    BY <2>1, <2>3, SeqEqual
  <2> QED BY <2>4 DEF u
<1>6. Promise!End({"syn", "bind"}, k + 1)
  <2>1. \A o \in Obs : live'[o] = IF live[o] # None /\ live[o].level > k THEN None ELSE live[o]
    BY <1>2 DEF Kill
  <2>2. \A o \in Obs : live[o] # None =>
          (live[o].level > k <=> live[o].class \in {"syn", "bind"} /\ live[o].level >= k + 1)
    <3> SUFFICES ASSUME NEW o \in Obs, NEW x, x = live[o], x # None
                 PROVE  x.level > k <=> x.class \in {"syn", "bind"} /\ x.level >= k + 1
      OBVIOUS
    <3>1. /\ x.class \in Classes /\ x.level \in Nat
          /\ x.class \in {"perm", "glob"} => x.level = 0
      BY <1>1, Levels DEF Live
    <3> QED BY <1>2, <3>1 DEF Classes
  <2>3. \A o \in Obs : live'[o] = IF /\ live[o] # None /\ live[o].class \in {"syn", "bind"}
                                     /\ live[o].level >= k + 1
                                  THEN None ELSE live[o]
    BY <2>1, <2>2
  <2> QED BY <2>3, EndsKept
<1>7. k \in 1 .. Len(Pending) - 1
  BY <1>3 DEF PendingOK
<1> QED BY <1>1, <1>4, <1>5, <1>6, <1>7 DEF Promise!Unmark

LEMMA DropKept ==
  ASSUME BlockInv, BlockInv', pc = "run", Drop("drop")
  PROVE  Promise!DropLocal
<1>1. PendingOK
  BY PendingFacts DEF BlockInv, IInv
<1>2. Phase = "file" /\ Phase' = Phase /\ Pending' = Pending
  BY DEF Drop, Phase, Running, Pending
<1>3. \A o \in Obs : live'[o] = IF /\ live[o] # None /\ live[o].class \in {"syn"}
                                   /\ live[o].level >= Len(marklist)
                                THEN None ELSE live[o]
  BY DEF Drop, Kill
<1>4. Promise!End({"syn"}, Len(marklist))
  BY <1>3, EndsKept
<1> QED BY <1>1, <1>2, <1>4 DEF Promise!DropLocal, PendingOK

LEMMA ReinitKept ==
  ASSUME BlockInv, BlockInv', pc = "run", AllocReinit
  PROVE  [Promise!Next]_Promise!vars
<1>1. CASE \E e : Fail(e)
  BY <1>1, FailKept DEF Promise!Next
<1>2. CASE /\ Kill(LAMBDA x : x.class = "bind" /\ x.level >= Len(marklist))
           /\ UNCHANGED <<marklist, pc>>
  <2>1. PendingOK
    BY PendingFacts DEF BlockInv, IInv
  <2>2. Phase = "file" /\ Phase' = Phase /\ Pending' = Pending
    BY <1>2 DEF Phase, Running, Pending
  <2>3. \A o \in Obs : live'[o] = IF /\ live[o] # None /\ live[o].class \in {"bind"}
                                     /\ live[o].level >= Len(marklist)
                                  THEN None ELSE live[o]
    BY <1>2 DEF Kill
  <2>4. Promise!End({"bind"}, Len(marklist))
    BY <2>3, EndsKept
  <2> QED BY <2>1, <2>2, <2>4 DEF Promise!Reinit, PendingOK, Promise!Next
<1> QED BY <1>1, <1>2 DEF AllocReinit

LEMMA FinaliseKept ==
  ASSUME BlockInv, BlockInv', pc = "run", PerFileFinalise
  PROVE  [Promise!Next]_Promise!vars
<1>1. CASE \E e : Fail(e)
  BY <1>1, FailKept DEF Promise!Next
<1>2. CASE /\ Len(marklist) = 1 /\ pc' = "finaldrop" /\ UNCHANGED marklist
           /\ Kill(LAMBDA x : x.class # "perm")
  <2>1. PendingOK
    BY PendingFacts DEF BlockInv, IInv
  <2>2. Phase = "file" /\ Phase' = "file" /\ Pending' = Pending /\ Sound
    BY <1>2 DEF Phase, Running, Pending, Sound
  <2>3. Promise!End({"glob", "syn", "bind"}, 0)
    BY <1>2, <2>2, FileEndKept
  <2> QED BY <1>2, <2>1, <2>2, <2>3 DEF Promise!EndFile, PendingOK, Promise!Next
<1> QED BY <1>1, <1>2 DEF PerFileFinalise

LEMMA FileBeginKept ==
  ASSUME BlockInv, BlockInv', NEW command \in BOOLEAN, PerFileInit(command)
  PROVE  [Promise!Next]_Promise!vars
<1>1. CASE \E e : Fail(e)
  BY <1>1, FailKept DEF Promise!Next
<1>2. CASE /\ pc' = "run" /\ marklist' = <<BaseMark>> /\ Kill(LAMBDA x : x.class # "perm")
  <2>1. Phase # "over" /\ Phase' = "file" /\ Sound
    BY <1>2 DEF PerFileInit, Phase, Running, Sound
  <2>2. Promise!End({"glob", "syn", "bind"}, 0)
    BY <1>2, <2>1, FileEndKept
  <2>3. Pending' = <<FALSE>>
    <3>1. /\ Len(marklist') = 1 /\ marklist'[1] = BaseMark /\ BaseMark.unmarked = FALSE
      BY <1>2 DEF BaseMark
    <3>2. PendingOK'
      BY PendingFactsNext DEF BlockInv, IInv
    <3>3. /\ Pending' \in Seq(BOOLEAN) /\ Len(Pending') = 1
          /\ \A i \in 1 .. 1 : Pending'[i] = marklist'[i].unmarked
      BY <3>1, <3>2 DEF PendingOK
    <3> DEFINE u == <<FALSE>>
    <3>4. u \in Seq(BOOLEAN) /\ Len(u) = 1 /\ u[1] = FALSE
      OBVIOUS
    <3> HIDE DEF u
    <3>5. marklist'[1].unmarked = FALSE
      BY <3>1
    <3>6. \A i \in 1 .. 1 : i = 1
      OBVIOUS
    <3>7. \A i \in 1 .. 1 : Pending'[i] = u[i]
      BY <3>3, <3>4, <3>5, <3>6
    <3>8. Pending' = u
      BY <3>3, <3>4, <3>7, SeqEqual
    <3> QED BY <3>8 DEF u
  <2> QED BY <2>1, <2>2, <2>3 DEF Promise!NewFile, Promise!Next
<1> QED BY <1>1, <1>2 DEF PerFileInit

LEMMA LoopsKept ==
  ASSUME BlockInv, BlockInv', Loops
  PROVE  [Promise!Next]_Promise!vars
<1>1. ASSUME DropHunk \/ RecycleGlobPage PROVE [Promise!Next]_Promise!vars
  <2>1. CASE \E e : Fail(e)
    BY <2>1, FailKept DEF Promise!Next
  <2>2. CASE UNCHANGED <<live, marklist, pc>>
    BY <2>2, SameKept DEF Running
  <2> QED BY <1>1, <2>1, <2>2 DEF DropHunk, RecycleGlobPage
<1>2. ASSUME DropEnd PROVE [Promise!Next]_Promise!vars
  <2>1. /\ pc \in {"drop", "finaldrop"} /\ pc' \in {"run", "final"}
        /\ UNCHANGED <<live, marklist>>
    BY <1>2 DEF DropEnd
  <2> QED BY <2>1, SameKept DEF Running
<1>3. ASSUME FinaliseEnd PROVE Promise!Idle
  <2>1. Phase = "file" /\ Phase' = "idle" /\ Owned' = Owned /\ Pending' = Pending
    BY <1>3 DEF FinaliseEnd, Phase, Running, Owned, Pending
  <2> QED BY <2>1 DEF Promise!Idle
<1> QED BY <1>1, <1>2, <1>3 DEF Loops, Promise!Next

LEMMA FreedKept ==
  ASSUME BlockInv, BlockInv', AllocFinalise
  PROVE  Promise!Stop
<1>1. Phase' = "over" /\ Pending' = Pending
  BY DEF AllocFinalise, Phase, Running, Pending
<1>2. Owned' = [o \in Obs |-> None]
  <2>1. \A o \in Obs : live'[o] = None
    BY DEF AllocFinalise, Kill
  <2> QED BY <2>1 DEF Owned, Own
<1> QED BY <1>1, <1>2 DEF Promise!Stop

LEMMA AgainKept ==
  ASSUME BlockInv, BlockInv', AllocInitialise
  PROVE  [Promise!Next]_Promise!vars
<1>1. Phase = "over" /\ Owned' = Owned /\ Pending' = Pending
  BY DEF AllocInitialise, Phase, Running, Owned, Pending
<1>2. \A o \in Obs : Owned[o] = None
  <2>1. \A o \in Obs : live[o] = None
    BY DEF AllocInitialise, BlockInv, Placed, ObjInv, Live
  <2> QED BY <2>1 DEF Owned, Own
<1>3. Phase' \in {"idle", "over"}
  <2>1. pc' \in {"idle", "failed"}
    BY DEF AllocInitialise
  <2> QED BY <2>1 DEF Phase, Running
<1> QED BY <1>1, <1>2, <1>3 DEF Promise!Again, Promise!Stop, Promise!Next

----------------------------------------------------------------------------
(* The refinement.                                                         *)

LEMMA NextKept == BlockInv /\ BlockInv' /\ [Next]_vars => [Promise!Next]_Promise!vars
<1> SUFFICES ASSUME BlockInv, BlockInv', [Next]_vars PROVE [Promise!Next]_Promise!vars
  OBVIOUS
<1>1. ASSUME pc = "run", Common PROVE [Promise!Next]_Promise!vars
  <2>1. ASSUME NEW n \in Sizes, SynAlloc(n) PROVE [Promise!Next]_Promise!vars
    BY <1>1, <2>1, SizesNat, SynAllocKept
  <2>2. ASSUME Drop("drop") PROVE [Promise!Next]_Promise!vars
    BY <1>1, <2>2, DropKept DEF Promise!Next
  <2> QED BY <1>1, <2>1, <2>2, ConsKept DEF Common
<1>2. ASSUME pc = "run", Compile PROVE [Promise!Next]_Promise!vars
  <2>1. ASSUME NEW n \in Sizes, GlobAllocCall(n) \/ BindAlloc(n)
        PROVE  [Promise!Next]_Promise!vars
    BY <1>2, <2>1, SizesNat, GlobAllocKept, BindAllocKept
  <2>2. ASSUME NEW o \in Obs, Discard(o) \/ DiscardFails(o) PROVE [Promise!Next]_Promise!vars
    BY <1>2, <2>2, DiscardKept, FailKept DEF DiscardFails, Promise!Next
  <2>3. ASSUME NEW i \in 2 .. Len(marklist), AllocUnmark(i) PROVE [Promise!Next]_Promise!vars
    <3>1. ASSUME i < Len(marklist), ~marklist[i].unmarked, UnmarkPending(i)
          PROVE  [Promise!Next]_Promise!vars
      BY <1>2, <3>1, UnmarkPendingKept DEF Promise!Next
    <3>2. ASSUME UnmarkTop PROVE [Promise!Next]_Promise!vars
      BY <1>2, <3>2, UnmarkTopKept DEF Promise!Next
    <3>3. ASSUME Fail("unmark1") PROVE [Promise!Next]_Promise!vars
      BY <3>3, FailKept DEF Promise!Next
    <3> QED BY <2>3, <3>1, <3>2, <3>3 DEF AllocUnmark
  <2> QED BY <1>2, <2>1, <2>2, <2>3, ConsKept, AllocMarkKept, ReinitKept, FinaliseKept
      DEF Compile
<1>3. ASSUME AllocFinalise PROVE [Promise!Next]_Promise!vars
  BY <1>3, FreedKept DEF Promise!Next
<1>4. ASSUME UNCHANGED vars PROVE [Promise!Next]_Promise!vars
  BY <1>4, SameKept DEF vars, Running
<1> QED BY <1>1, <1>2, <1>3, <1>4, PermAllocKept, LoopsKept, FileBeginKept, AgainKept DEF Next

LEMMA InitKept == Init => Promise!Init
<1> SUFFICES ASSUME Init PROVE Promise!Init
  OBVIOUS
<1>1. pc \in {"idle", "failed"} /\ live = [o \in Obs |-> None] /\ marklist = <<>>
  BY DEF Init
<1>2. Phase \in {"idle", "over"}
  BY <1>1 DEF Phase, Running
<1>3. Owned = [o \in Obs |-> None] /\ Pending = <<>>
  BY <1>1 DEF Owned, Own, Pending
<1> QED BY <1>2, <1>3 DEF Promise!Init

\* The allocator implements the contract of store.h: a block is given words
\* that no living block owns and keeps them until its lifetime ends, through
\* bump pointers, scraps, free lists, marks and hunks that change pool.
THEOREM KeepsPromiseCorrect == Spec => KeepsPromise
BY InitKept, NextKept, BlocksAlways, PTL DEF Spec, KeepsPromise, Promise!Spec

=============================================================================
