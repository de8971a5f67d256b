------------------------------- MODULE Store -------------------------------
(***************************************************************************)
(* The store allocator of the compiler (mip/store.c).                      *)
(*                                                                         *)
(* All store comes from malloc in hunks of SEGSIZE words that go round     *)
(* between four pools and never return to malloc before the program ends:  *)
(*                                                                         *)
(*   Perm  for the whole invocation;                                       *)
(*   Glob  for one translation unit (alloc_perfilefinalise recycles it);   *)
(*   Bind  until alloc_reinit, once per top-level declaration;             *)
(*   Syn   until drop_local_store, several times per declaration.          *)
(*                                                                         *)
(* alloc_mark protects what the last two hold; alloc_unmark undoes it, in  *)
(* any order.  A hunk is a number, a pointer a hunk and a word offset.     *)
(***************************************************************************)
EXTENDS Integers, SequencesExt

CONSTANTS
  SEGSIZE,         \* words in a hunk
  Sizes,           \* the sizes, in words, that the compiler asks for
  CellSizes,       \* sizes of the cons cells that discard2/discard3 take back
  ScavengeAbove,   \* requests of at most this size never search for scraps
  MarkSize,        \* words of a Mark, which lives in Glob store
  SEGMAX_INIT, SEGMAX_FACTOR,
  EntriesPerWord,  \* array elements that fit in a word: scales expand_array
  MaxHunks,        \* malloc returns NULL after this many hunks
  MaxMarks,        \* bound on the marks set at a time
  MaxFiles,        \* bound on calls of alloc_perfileinit in an invocation
  Obs,             \* names for the objects whose lifetime is followed
  None

ASSUME StoreAssumption ==
  /\ SEGSIZE \in Nat \ {0} /\ MarkSize \in 1 .. SEGSIZE
  /\ Sizes \subseteq Nat \ {0} /\ CellSizes \subseteq 1 .. SEGSIZE
  /\ ScavengeAbove \in Nat
  /\ SEGMAX_INIT \in Nat \ {0} /\ SEGMAX_FACTOR \in Nat \ {0, 1}
  /\ EntriesPerWord \in Nat \ {0}
  /\ MaxHunks \in Nat /\ MaxMarks \in Nat /\ MaxFiles \in Nat
  /\ None \notin [class : {"perm", "glob", "syn", "bind"}, hunk : Nat,
                  off : Nat, size : Nat, level : Nat]
  /\ None \notin [class : {"perm", "glob", "syn", "bind"}, level : Nat,
                  words : SUBSET (Nat \X Nat)]

VARIABLES
  pool,       \* what expand_segmax and the hunk takers update, a record:
              \*   segmax, chain (hunks malloc'ed so far), perm (hunks of
              \*   Perm), permallp, bindseg, bindsegcur, err
  glob,       \* [seg, os : sequences of pages [hunk, size], allp, size]:
              \*   globsegbase/globsegsize, globoschain, globallp/globalltop
  syn,        \* [seg, ptr, allp, free]: synsegbase/synsegptr as sequences
  bnd,        \* [ptr, allp, free]; bindsegbase is pool.bindseg
  marklist,   \* the marks, bottom first
  freemarks,  \* number of Mark blocks on freemarks
  pc,         \* the loop or call in progress
  tool,       \* TRUE while the driver prepares an assembler or link command
  files,      \* calls of alloc_perfileinit so far
  live        \* history: Obs -> None, or the object it names and its place

vars == <<pool, glob, syn, bnd, marklist, freemarks, pc, tool, files, live>>

Classes == {"perm", "glob", "syn", "bind"}
Duff    == [hunk |-> 0, off |-> 0]
NoCells == [k \in CellSizes |-> <<>>]
Top      == Last(marklist)

----------------------------------------------------------------------------
(* Hunks: malloc, recycling, and the arrays that list them.                *)

\* A request the bump pointer p can serve in its hunk (of the given size).
Fits(p, n, size) == p # Duff /\ p.off + n <= size

Advance(p, n) == [p EXCEPT !.off = @ + n]

\* A hunk the binder pool has set aside: above bindsegcur, below bindsegcnt.
Spare(s) == s.bindsegcur < Len(s.bindseg)

CcAllocUnchecked(s) == [s EXCEPT !.chain = @ + 1]   \* mutant: NULL is not seen
CcAlloc(s) == IF s.chain < MaxHunks THEN [s EXCEPT !.chain = @ + 1]
                                    ELSE [s EXCEPT !.err = "space"]

\* Every taker of a hunk but Bind's recycles a spare before it calls malloc.
HunkForFirst(s) ==     \* mutant: the first spare is taken, the last forgotten
  IF Spare(s) THEN s.bindseg[s.bindsegcur + 1] ELSE s.chain + 1
HunkFor(s) == IF Spare(s) THEN Last(s.bindseg) ELSE s.chain + 1
TakeHunk(s) == IF Spare(s) THEN [s EXCEPT !.bindseg = Front(@)] ELSE CcAlloc(s)

NewPermSegment(s, n) ==
  IF TakeHunk(s).err # "none" THEN TakeHunk(s)
  ELSE [TakeHunk(s) EXCEPT !.perm = @ \cup {HunkFor(s)},
                           !.permallp = [hunk |-> HunkFor(s), off |-> n]]

PermAlloc(s, n) ==
  IF n > SEGSIZE THEN [s EXCEPT !.err = "overlarge"]
  ELSE IF Fits(s.permallp, n, SEGSIZE)
       THEN [s EXCEPT !.permallp = Advance(@, n)]
       ELSE NewPermSegment(s, n)

\* expand_segmax: six arrays are copied to permanent store, one by one.
ArrayWords(m) == (m + EntriesPerWord - 1) \div EntriesPerWord
ExpandSegmax(s, m) ==
  LET P(t) == PermAlloc(t, ArrayWords(m))
  IN  [P(P(P(P(P(P(s)))))) EXCEPT !.segmax = m]

RoomLate(s, cnt) ==    \* mutant: > for >=
  IF cnt > s.segmax THEN ExpandSegmax(s, s.segmax * SEGMAX_FACTOR) ELSE s

\* The test made before an element is added to an array with cnt in use.
Room(s, cnt) == IF cnt >= s.segmax THEN ExpandSegmax(s, s.segmax * SEGMAX_FACTOR)
                                   ELSE s

----------------------------------------------------------------------------
(* Outcomes.                                                               *)

\* syserr and cc_fatalerr do not return: the driver frees everything.
Fail(e) ==
  /\ pool' = [pool EXCEPT !.err = e]
  /\ pc' = "failed"
  /\ UNCHANGED <<glob, syn, bnd, marklist, freemarks, tool, files, live>>

Object(class, p, n) ==
  [class |-> class, hunk |-> p.hunk, off |-> p.off, size |-> n,
   level |-> IF class \in {"syn", "bind"} THEN Len(marklist) ELSE 0]

\* The block at p may be one of the followed objects, or not.
Note(class, p, n) ==
  \/ UNCHANGED live
  \/ \E o \in Obs : /\ live[o] = None
                    /\ live' = [live EXCEPT ![o] = Object(class, p, n)]

Kill(Dead(_)) ==
  live' = [o \in Obs |-> IF live[o] # None /\ Dead(live[o]) THEN None ELSE live[o]]

----------------------------------------------------------------------------
(* Perm and Glob.                                                          *)

PermAllocCall(n) ==
  LET s == PermAlloc(pool, n) IN
  IF s.err # "none" THEN Fail(s.err)
  ELSE /\ pool' = s
       /\ Note("perm", [s.permallp EXCEPT !.off = @ - n], n)
       /\ UNCHANGED <<glob, syn, bnd, marklist, freemarks, pc, tool, files>>

\* new_global_segment: an oversize page of an earlier file, a spare, or malloc.
NewGlobalSegment(s, g, n) ==
  LET r    == Room(s, Len(g.seg))
      page == IF g.os # <<>> THEN Head(g.os)
              ELSE [hunk |-> HunkFor(r), size |-> SEGSIZE]
  IN  [pool |-> IF g.os # <<>> THEN r ELSE TakeHunk(r),
       glob |-> [seg  |-> Append(g.seg, page),
                 os   |-> IF g.os # <<>> THEN Tail(g.os) ELSE <<>>,
                 allp |-> [hunk |-> page.hunk, off |-> n],
                 size |-> page.size],
       at   |-> [hunk |-> page.hunk, off |-> 0]]

\* A request above SEGSIZE gets a page of its own; globallp stays where it is.
OverlargePage(s, g, n) ==
  LET r == Room(s, Len(g.seg))
  IN  [pool |-> CcAlloc(r),
       glob |-> [g EXCEPT !.seg = Append(@, [hunk |-> r.chain + 1, size |-> n])],
       at   |-> [hunk |-> r.chain + 1, off |-> 0]]

GlobAlloc(s, g, n) ==
  IF n > SEGSIZE THEN OverlargePage(s, g, n)
  ELSE IF Fits(g.allp, n, g.size)
       THEN [pool |-> s, glob |-> [g EXCEPT !.allp = Advance(@, n)], at |-> g.allp]
       ELSE NewGlobalSegment(s, g, n)

GlobAllocCall(n) ==
  LET r == GlobAlloc(pool, glob, n) IN
  IF r.pool.err # "none" THEN Fail(r.pool.err)
  ELSE /\ pool' = r.pool /\ glob' = r.glob
       /\ Note("glob", r.at, n)
       /\ UNCHANGED <<syn, bnd, marklist, freemarks, pc, tool, files>>

----------------------------------------------------------------------------
(* Syn and Bind: bump in the current hunk, else the newest older hunk with *)
(* room, else a new hunk.  ptr[i] is the free offset of the i-th hunk; the *)
(* entry of the current hunk is dead (DUFF_ADDR) until it is stashed.      *)

StashForgotten(r) == r.ptr    \* mutant: "stash highest used" left out
Stash(r) == IF r.ptr = <<>> THEN r.ptr ELSE [r.ptr EXCEPT ![Len(r.ptr)] = r.allp.off]

ScrapsBelow(r, lo, n) ==      \* mutant: the search runs through the mark
  {i \in 1 .. Len(r.ptr) : n > ScavengeAbove /\ Stash(r)[i] + n <= SEGSIZE}

\* Hunks above the top mark (lo) that the search for scraps can use.
Scraps(r, lo, n) ==
  {i \in lo + 1 .. Len(r.ptr) : n > ScavengeAbove /\ Stash(r)[i] + n <= SEGSIZE}

Swap(s, i, j) == [s EXCEPT ![i] = s[j], ![j] = s[i]]

ScavengedNoSwap(r, i, hunk, n) ==   \* mutant: segptr is not swapped with segbase
  [r EXCEPT !.ptr  = [Stash(r) EXCEPT ![Len(r.ptr)] = 0],
            !.allp = [hunk |-> hunk, off |-> Stash(r)[i] + n]]

\* The newest of the hunks in S, as the search runs downwards.
Newest(S, i) == i \in S /\ \A j \in S : j <= i

\* The i-th hunk becomes the current one and the old one takes its place.
Scavenged(r, i, hunk, n) ==
  LET c == Len(r.ptr)
  IN  [r EXCEPT !.ptr  = [Stash(r) EXCEPT ![i] = Stash(r)[c], ![c] = 0],
                !.allp = [hunk |-> hunk, off |-> Stash(r)[i] + n]]

NewCurrent(r, hunk, n) ==
  [r EXCEPT !.ptr = Append(Stash(r), 0), !.allp = [hunk |-> hunk, off |-> n]]

SynBump(n) ==
  /\ Fits(syn.allp, n, SEGSIZE)
  /\ syn' = [syn EXCEPT !.allp = Advance(@, n)]
  /\ Note("syn", syn.allp, n)
  /\ UNCHANGED <<pool, pc>>

SynScavenge(n) ==
  /\ ~Fits(syn.allp, n, SEGSIZE)
  /\ \E i \in 1 .. Len(syn.seg) :
       /\ Newest(Scraps(syn, Top.synno, n), i)
       /\ syn' = [Scavenged(syn, i, syn.seg[i], n)
                    EXCEPT !.seg = Swap(@, i, Len(@))]
       /\ Note("syn", [hunk |-> syn.seg[i], off |-> Stash(syn)[i]], n)
  /\ UNCHANGED <<pool, pc>>

SynNewHunk(n) ==
  LET r == Room(pool, Len(syn.seg))
      s == TakeHunk(r)
      h == HunkFor(r)
  IN  /\ ~Fits(syn.allp, n, SEGSIZE) /\ Scraps(syn, Top.synno, n) = {}
      /\ s.err = "none"
      /\ pool' = s
      /\ syn' = [NewCurrent(syn, h, n) EXCEPT !.seg = Append(@, h)]
      /\ Note("syn", [hunk |-> h, off |-> 0], n)
      /\ UNCHANGED pc

SynFails(n) ==
  LET s == TakeHunk(Room(pool, Len(syn.seg))) IN
  /\ ~Fits(syn.allp, n, SEGSIZE) /\ Scraps(syn, Top.synno, n) = {}
  /\ s.err # "none" /\ Fail(s.err)

SynAlloc(n) ==
  \/ n > SEGSIZE /\ Fail("overlarge")
  \/ /\ n <= SEGSIZE
     /\ \/ /\ SynBump(n) \/ SynScavenge(n) \/ SynNewHunk(n)
           /\ UNCHANGED <<glob, bnd, marklist, freemarks, tool, files>>
        \/ SynFails(n)

\* BindAlloc does the same on bindsegbase[0 .. bindsegcur-1].
BindBump(n) ==
  /\ Fits(bnd.allp, n, SEGSIZE)
  /\ bnd' = [bnd EXCEPT !.allp = Advance(@, n)]
  /\ Note("bind", bnd.allp, n)
  /\ UNCHANGED <<pool, pc>>

BindScavenge(n) ==
  /\ ~Fits(bnd.allp, n, SEGSIZE)
  /\ \E i \in 1 .. pool.bindsegcur :
       /\ Newest(Scraps(bnd, Top.bindno, n), i)
       /\ pool' = [pool EXCEPT !.bindseg = Swap(@, i, pool.bindsegcur)]
       /\ bnd' = Scavenged(bnd, i, pool.bindseg[i], n)
       /\ Note("bind", [hunk |-> pool.bindseg[i], off |-> Stash(bnd)[i]], n)
  /\ UNCHANGED pc

\* new_bindalloc_segment: a spare, or malloc, and only then room in the array.
NextBindHunk(s) ==
  IF Spare(s) THEN s
  ELSE LET r == Room(CcAlloc(s), Len(s.bindseg))
       IN  [r EXCEPT !.bindseg = Append(@, s.chain + 1)]

BindNewHunk(n) ==
  LET s == NextBindHunk(pool)
      h == s.bindseg[pool.bindsegcur + 1]
  IN  /\ ~Fits(bnd.allp, n, SEGSIZE) /\ Scraps(bnd, Top.bindno, n) = {}
      /\ s.err = "none"
      /\ pool' = [s EXCEPT !.bindsegcur = @ + 1]
      /\ bnd' = NewCurrent(bnd, h, n)
      /\ Note("bind", [hunk |-> h, off |-> 0], n)
      /\ UNCHANGED pc

BindFails(n) ==
  LET s == NextBindHunk(pool) IN
  /\ ~Fits(bnd.allp, n, SEGSIZE) /\ Scraps(bnd, Top.bindno, n) = {}
  /\ s.err # "none" /\ Fail(s.err)

BindAlloc(n) ==
  \/ n > SEGSIZE /\ Fail("overlarge")
  \/ /\ n <= SEGSIZE
     /\ \/ /\ BindBump(n) \/ BindScavenge(n) \/ BindNewHunk(n)
           /\ UNCHANGED <<glob, syn, marklist, freemarks, tool, files>>
        \/ BindFails(n)

----------------------------------------------------------------------------
(* Cons cells: discard2/discard3 and the list constructors.                *)

\* xsyn_list2, xsyn_list3: the last cell given back, or new store.
SynCons(k) ==
  IF syn.free[k] = <<>> THEN SynAlloc(k)
  ELSE /\ syn' = [syn EXCEPT !.free[k] = Tail(@)]
       /\ Note("syn", Head(syn.free[k]), k)
       /\ UNCHANGED <<pool, glob, bnd, marklist, freemarks, pc, tool, files>>

BindCons(k) ==
  IF bnd.free[k] = <<>> THEN BindAlloc(k)
  ELSE /\ bnd' = [bnd EXCEPT !.free[k] = Tail(@)]
       /\ Note("bind", Head(bnd.free[k]), k)
       /\ UNCHANGED <<pool, glob, syn, marklist, freemarks, pc, tool, files>>

\* The cell goes to the list of the pool whose hunks in use contain it.
Discard(o) ==
  LET c == live[o]
      p == [hunk |-> c.hunk, off |-> c.off]
  IN  /\ c # None /\ c.class \in {"syn", "bind"} /\ c.size \in CellSizes
      /\ \/ /\ c.hunk \in ToSet(syn.seg)
            /\ syn' = [syn EXCEPT !.free[c.size] = <<p>> \o @]
            /\ UNCHANGED bnd
         \/ /\ c.hunk \notin ToSet(syn.seg)
            /\ c.hunk \in ToSet(SubSeq(pool.bindseg, 1, pool.bindsegcur))
            /\ bnd' = [bnd EXCEPT !.free[c.size] = <<p>> \o @]
            /\ UNCHANGED syn
      /\ live' = [live EXCEPT ![o] = None]
      /\ UNCHANGED <<pool, glob, marklist, freemarks, pc, tool, files>>

DiscardFailsEarly(o) ==   \* mutant: the search starts one hunk too low
  /\ live[o] # None /\ live[o].class \in {"syn", "bind"}
  /\ live[o].hunk \notin ToSet(syn.seg)
                     \cup ToSet(SubSeq(pool.bindseg, 1, pool.bindsegcur - 1))
  /\ Fail("discard")

DiscardFails(o) ==
  /\ live[o] # None /\ live[o].class \in {"syn", "bind"}
  /\ live[o].hunk \notin ToSet(syn.seg)
                     \cup ToSet(SubSeq(pool.bindseg, 1, pool.bindsegcur))
  /\ Fail("discard")

----------------------------------------------------------------------------
(* Marks.                                                                  *)

NewMarkSpares ==       \* mutant: bindsegcnt saved for bindsegcur
  [synno |-> Len(syn.seg), synp |-> syn.allp,
   bindno |-> Len(pool.bindseg), bindp |-> bnd.allp, unmarked |-> FALSE]
NewMark ==
  [synno |-> Len(syn.seg), synp |-> syn.allp,
   bindno |-> pool.bindsegcur, bindp |-> bnd.allp, unmarked |-> FALSE]

AllocMark ==
  LET r == GlobAlloc(pool, glob, MarkSize) IN
  /\ Len(marklist) < MaxMarks
  /\ \/ /\ freemarks > 0
        /\ freemarks' = freemarks - 1
        /\ marklist' = Append(marklist, NewMark)
        /\ UNCHANGED <<pool, glob, syn, bnd, pc, tool, files, live>>
     \/ /\ freemarks = 0 /\ r.pool.err = "none"
        /\ pool' = r.pool /\ glob' = r.glob
        /\ marklist' = Append(marklist, NewMark)
        /\ UNCHANGED <<syn, bnd, freemarks, pc, tool, files, live>>
     \/ freemarks = 0 /\ r.pool.err # "none" /\ Fail(r.pool.err)

\* ptr cut back to n hunks, the entry of the new current hunk dead again.
CutPtr(ptr, n) == [i \in 1 .. n |-> IF i = n THEN 0 ELSE ptr[i]]

\* Both allocators go back to where they were when mark m was set.
SynBackToWithCells(m) ==  \* mutant: synall2 and synall3 are kept
  [seg |-> SubSeq(syn.seg, 1, m.synno), ptr |-> CutPtr(syn.ptr, m.synno),
   allp |-> m.synp, free |-> syn.free]
SynBackTo(m) ==
  [seg |-> SubSeq(syn.seg, 1, m.synno), ptr |-> CutPtr(syn.ptr, m.synno),
   allp |-> m.synp, free |-> NoCells]
BindBackToStart(m) ==     \* mutant: the start of the hunk, not the pointer saved
  [ptr |-> CutPtr(bnd.ptr, m.bindno), allp |-> [m.bindp EXCEPT !.off = 0],
   free |-> NoCells]
BindBackTo(m) ==
  [ptr |-> CutPtr(bnd.ptr, m.bindno), allp |-> m.bindp, free |-> NoCells]

\* The highest mark under the top one still set: the base mark always is.
StillSet(k) == Newest({j \in 1 .. Len(marklist) - 1 : ~marklist[j].unmarked}, k)

\* alloc_unmark of the most recent mark pops it and the pending ones under it.
UnmarkTop ==
  /\ Len(syn.seg) = Top.synno
  /\ \E k \in 1 .. Len(marklist) - 1 :
       LET m == marklist[k + 1]
       IN  /\ StillSet(k)
           /\ syn' = SynBackTo(m)
           /\ bnd' = BindBackTo(m)
           /\ pool' = [pool EXCEPT !.bindsegcur = m.bindno]
           /\ freemarks' = freemarks + (Len(marklist) - k)
           /\ marklist' = SubSeq(marklist, 1, k)
           /\ Kill(LAMBDA x : x.level > k)
  /\ UNCHANGED <<glob, pc, tool, files>>

UnmarkPending(i) ==
  /\ marklist' = [marklist EXCEPT ![i].unmarked = TRUE]
  /\ UNCHANGED <<pool, glob, syn, bnd, freemarks, pc, tool, files, live>>

AllocUnmark(i) ==
  /\ ~marklist[i].unmarked
  /\ \/ i < Len(marklist) /\ UnmarkPending(i)
     \/ i = Len(marklist) /\ UnmarkTop
     \/ i = Len(marklist) /\ Len(syn.seg) > Top.synno /\ Fail("unmark1")

----------------------------------------------------------------------------
(* drop_local_store, alloc_reinit and the passage from file to file.       *)

\* drop_local_store starts: the caller gives up all Syn store above the mark.
Drop(then) ==
  /\ pc' = then
  /\ Kill(LAMBDA x : x.class = "syn" /\ x.level >= Len(marklist))
  /\ UNCHANGED <<pool, glob, syn, bnd, marklist, freemarks, tool, files>>

\* One round of its loop: the last Syn hunk becomes a spare of Bind.
DropHunk ==
  LET s == Room(pool, Len(pool.bindseg))
      h == Last(syn.seg)
  IN  /\ pc \in {"drop", "finaldrop"} /\ Len(syn.seg) > Top.synno
      /\ \/ /\ s.err = "none"
            /\ pool' = [s EXCEPT !.bindseg = Append(@, h)]
            /\ syn' = [syn EXCEPT !.seg = Front(@), !.ptr = Front(@)]
            /\ UNCHANGED <<glob, bnd, marklist, freemarks, pc, tool, files, live>>
         \/ s.err # "none" /\ Fail(s.err)

DropEnd ==
  /\ pc \in {"drop", "finaldrop"} /\ Len(syn.seg) <= Top.synno
  /\ syn' = [syn EXCEPT !.ptr = CutPtr(@, Len(syn.seg)), !.allp = Top.synp,
                        !.free = NoCells]
  /\ pc' = IF pc = "drop" THEN "run" ELSE "final"
  /\ UNCHANGED <<pool, glob, bnd, marklist, freemarks, tool, files, live>>

\* What alloc_reinit insists on: drop_local_store was the last user of Syn.
Dropped == /\ Len(syn.seg) <= Top.synno
           /\ syn.allp = Top.synp
           /\ syn.free = NoCells

AllocReinit ==
  \/ ~Dropped /\ Fail("reinit")
  \/ /\ Dropped
     /\ pool' = [pool EXCEPT !.bindsegcur = Top.bindno]
     /\ bnd' = BindBackTo(Top)
     /\ Kill(LAMBDA x : x.class = "bind" /\ x.level >= Len(marklist))
     /\ UNCHANGED <<glob, syn, marklist, freemarks, pc, tool, files>>

\* alloc_perfilefinalise: drop_local_store, then one round per Glob page.
PerFileFinalise ==
  \/ Len(marklist) # 1 /\ Fail("marklist")
  \/ /\ Len(marklist) = 1
     /\ pc' = "finaldrop"
     /\ Kill(LAMBDA x : x.class # "perm")
     /\ UNCHANGED <<pool, glob, syn, bnd, marklist, freemarks, tool, files>>

KeepOversizeNot(os, page) == os   \* mutant: oversize pages are not chained
KeepOversize(os, page) == <<page>> \o os

RecycleGlobPage ==
  LET page == Last(glob.seg)
      s == Room(pool, Len(pool.bindseg))
  IN  /\ pc = "final" /\ glob.seg # <<>>
      /\ \/ /\ page.size = SEGSIZE /\ s.err = "none"
            /\ pool' = [s EXCEPT !.bindseg = Append(@, page.hunk)]
            /\ glob' = [glob EXCEPT !.seg = Front(@)]
            /\ UNCHANGED <<syn, bnd, marklist, freemarks, pc, tool, files, live>>
         \/ /\ page.size # SEGSIZE
            /\ glob' = [glob EXCEPT !.seg = Front(@), !.os = KeepOversize(@, page)]
            /\ UNCHANGED <<pool, syn, bnd, marklist, freemarks, pc, tool, files, live>>
         \/ page.size = SEGSIZE /\ s.err # "none" /\ Fail(s.err)

FinaliseEnd ==
  /\ pc = "final" /\ glob.seg = <<>>
  /\ pc' = "idle"
  /\ UNCHANGED <<pool, glob, syn, bnd, marklist, freemarks, tool, files, live>>

\* alloc_perfileinit forgets the file before it and sets the base mark.
BaseMark == [synno |-> 0, synp |-> Duff, bindno |-> 0, bindp |-> Duff, unmarked |-> FALSE]

PerFileInit(command) ==
  LET g == [seg |-> <<>>, os |-> glob.os, allp |-> Duff, size |-> 0]
      r == GlobAlloc([pool EXCEPT !.bindsegcur = 0], g, MarkSize)
  IN  /\ files < MaxFiles
      /\ \/ pc = "idle"
         \/ pc = "run" /\ tool /\ syn.seg = <<>>
      /\ IF r.pool.err # "none" THEN Fail(r.pool.err)
         ELSE /\ pool' = r.pool /\ glob' = r.glob
              /\ syn' = [seg |-> <<>>, ptr |-> <<>>, allp |-> Duff, free |-> NoCells]
              /\ bnd' = [ptr |-> <<>>, allp |-> Duff, free |-> NoCells]
              /\ marklist' = <<BaseMark>> /\ freemarks' = 0
              /\ pc' = "run" /\ tool' = command /\ files' = files + 1
              /\ Kill(LAMBDA x : x.class # "perm")

\* alloc_finalise, from the driver's exit and from compiler_exit after an
\* error.  Only alloc_chain is reset: the pools keep pointers to freed hunks.
AllocFinalise ==
  /\ pc \in {"idle", "run", "failed"}
  /\ pc' = "exit"
  /\ pool' = [pool EXCEPT !.chain = 0, !.err = "none"]
  /\ Kill(LAMBDA x : TRUE)
  /\ UNCHANGED <<glob, syn, bnd, marklist, freemarks, tool, files>>

----------------------------------------------------------------------------
(* alloc_initialise, the environment and the specification.                *)

\* The statics that alloc_initialise resets; bindsegcur is not one of them.
InitialPool(cur) ==
  ExpandSegmax([segmax |-> 0, chain |-> 0, perm |-> {}, permallp |-> Duff,
                bindseg |-> <<>>, bindsegcur |-> cur, err |-> "none"], SEGMAX_INIT)

Init ==
  /\ pool = InitialPool(0)
  /\ glob = [seg |-> <<>>, os |-> <<>>, allp |-> Duff, size |-> 0]
  /\ syn = [seg |-> <<>>, ptr |-> <<>>, allp |-> Duff, free |-> NoCells]
  /\ bnd = [ptr |-> <<>>, allp |-> Duff, free |-> NoCells]
  /\ marklist = <<>> /\ freemarks = 0
  /\ pc = (IF pool.err = "none" THEN "idle" ELSE "failed")
  /\ tool = FALSE /\ files = 0
  /\ live = [o \in Obs |-> None]

\* The next invocation in the same process: main.c's toolbox_main may be
\* called again, whatever state the last one ended in.
AllocInitialise ==
  /\ pc = "exit"
  /\ pool' = InitialPool(pool.bindsegcur)
  /\ glob' = [glob EXCEPT !.seg = <<>>, !.os = <<>>]
  /\ pc' = IF pool'.err = "none" THEN "idle" ELSE "failed"
  /\ UNCHANGED <<syn, bnd, marklist, freemarks, tool, files, live>>

\* What the compiler may ask for between alloc_perfileinit and the end.
Compile ==
  \/ \E n \in Sizes : GlobAllocCall(n) \/ BindAlloc(n)
  \/ \E k \in CellSizes : BindCons(k)
  \/ \E o \in Obs : Discard(o) \/ DiscardFails(o)
  \/ AllocMark
  \/ \E i \in 2 .. Len(marklist) : AllocUnmark(i)
  \/ AllocReinit
  \/ PerFileFinalise

\* What the driver's assembler() and linker() ask for as well.
Common ==
  \/ \E n \in Sizes : SynAlloc(n)
  \/ \E k \in CellSizes : SynCons(k)
  \/ Drop("drop")

Loops == DropHunk \/ DropEnd \/ RecycleGlobPage \/ FinaliseEnd

Next ==
  \/ pc \in {"idle", "run"} /\ \E n \in Sizes : PermAllocCall(n)
  \/ pc = "run" /\ (Common \/ (~tool /\ Compile))
  \/ Loops
  \/ \E command \in BOOLEAN : PerFileInit(command)
  \/ AllocFinalise
  \/ AllocInitialise

Spec == Init /\ [][Next]_vars

----------------------------------------------------------------------------
(* Properties.                                                             *)

Hunk    == 1 .. MaxHunks
Pointer == [hunk : 0 .. MaxHunks, off : Nat]
Page    == [hunk : Hunk, size : Nat]
Live    == {o \in Obs : live[o] # None}

\* A file is being compiled; outside it the statics of Syn mean nothing, and
\* after alloc_finalise or an error none of them do.
Running == pc \in {"run", "drop", "finaldrop", "final"}
Sound   == pc = "idle" \/ Running
SynSeg  == IF Running THEN syn.seg ELSE <<>>

Errors == {"none", "space", "overlarge", "discard", "unmark1", "reinit", "marklist"}

PoolType == [segmax : Nat, chain : 0 .. MaxHunks, perm : SUBSET Hunk,
             permallp : Pointer, bindseg : Seq(Hunk), bindsegcur : Nat, err : Errors]
GlobType == [seg : Seq(Page), os : Seq(Page), allp : Pointer, size : Nat]
Cells    == [CellSizes -> Seq(Pointer)]
SynType  == [seg : Seq(Hunk), ptr : Seq(Nat), allp : Pointer, free : Cells]
BndType  == [ptr : Seq(Nat), allp : Pointer, free : Cells]
MarkType == [synno : Nat, synp : Pointer, bindno : Nat, bindp : Pointer,
             unmarked : BOOLEAN]
LiveType == [class : Classes, hunk : 0 .. MaxHunks, off : Nat, size : Nat, level : Nat]

\* The statics hold values of their types and malloc stays within its bound.
TypeOK ==
  /\ pool \in PoolType /\ glob \in GlobType /\ syn \in SynType /\ bnd \in BndType
  /\ marklist \in Seq(MarkType)
  /\ freemarks \in Nat /\ files \in 0 .. MaxFiles /\ tool \in BOOLEAN
  /\ pc \in {"idle", "run", "drop", "finaldrop", "final", "failed", "exit"}
  /\ live \in [Obs -> LiveType \cup {None}]

\* The counts that marks remember never exceed the present ones and grow from
\* mark to mark, and each array of free offsets is as long as its pool's hunks
\* in use: alloc_unmark, alloc_reinit and drop_local_store index by the counts.
Shape ==
  Running =>
    /\ marklist # <<>>
    /\ Len(syn.ptr) = Len(syn.seg)
    /\ pool.bindsegcur <= Len(pool.bindseg)
    /\ Len(bnd.ptr) = pool.bindsegcur
    /\ \A i \in 1 .. Len(marklist) : /\ marklist[i].synno <= Len(syn.seg)
                                     /\ marklist[i].bindno <= pool.bindsegcur
    /\ \A i, j \in 1 .. Len(marklist) :
         i <= j => /\ marklist[i].synno <= marklist[j].synno
                   /\ marklist[i].bindno <= marklist[j].bindno

PageHunks(pages) == [i \in 1 .. Len(pages) |-> pages[i].hunk]

\* No hunk is in two pools, or twice in one, whichever way hunks were recycled
\* by drop_local_store, alloc_perfilefinalise and the takers of spares: the
\* hazard is a hunk handed to Glob that Bind or Syn still uses.
HunksDisjoint ==
  Sound =>
    LET G == PageHunks(glob.seg)
        O == PageHunks(glob.os)
    IN  /\ IsInjective(SynSeg) /\ IsInjective(pool.bindseg)
        /\ IsInjective(G) /\ IsInjective(O)
        /\ LET P == <<pool.perm, ToSet(SynSeg), ToSet(pool.bindseg),
                      ToSet(G), ToSet(O)>>
           IN  /\ \A i \in 1 .. 5 : P[i] \subseteq 1 .. pool.chain
               /\ \A i, j \in 1 .. 5 : i # j => P[i] \cap P[j] = {}

\* The free offset of the i-th hunk of Syn and of Bind; while drop_local_store
\* runs, that of Syn's last hunk is not known.
Dropping   == pc \in {"drop", "finaldrop"}
SynTop(i)  == IF i < Len(syn.seg) THEN syn.ptr[i]
              ELSE IF Dropping THEN SEGSIZE ELSE syn.allp.off
BindTop(i) == IF i = pool.bindsegcur THEN bnd.allp.off ELSE bnd.ptr[i]

\* A block of n words at p that a class holds and will not hand out again.
HeldSyn(p, n)  == \E i \in 1 .. Len(syn.seg) :
                    syn.seg[i] = p.hunk /\ p.off + n <= SynTop(i)
HeldBind(p, n) == \E i \in 1 .. Len(pool.bindseg) :
                    /\ i <= pool.bindsegcur
                    /\ pool.bindseg[i] = p.hunk /\ p.off + n <= BindTop(i)
HeldGlob(p, n) == \E i \in 1 .. Len(glob.seg) :
                    /\ glob.seg[i].hunk = p.hunk
                    /\ p.off + n <= IF p.hunk = glob.allp.hunk THEN glob.allp.off
                                                               ELSE glob.seg[i].size
HeldPerm(p, n) == /\ p.hunk \in pool.perm
                  /\ p.off + n <= IF p.hunk = pool.permallp.hunk
                                  THEN pool.permallp.off ELSE SEGSIZE

\* Store handed out stays with its class for the lifetime that store.h lists
\* for it ("GlobAlloc: per translation unit; BindAlloc: until alloc_reinit;
\* SynAlloc: until drop_local_store", longer below a mark): no later call puts
\* a free pointer back below it or lets its hunk go.
LiveHeld ==
  Sound => \A o \in Live :
    LET x == live[o] IN
    CASE x.class = "perm" -> HeldPerm(x, x.size)
      [] x.class = "glob" -> HeldGlob(x, x.size)
      [] x.class = "syn"  -> HeldSyn(x, x.size)
      [] x.class = "bind" -> HeldBind(x, x.size)

Disjoint(x, m, y, n) == x.hunk # y.hunk \/ x.off + m <= y.off \/ y.off + n <= x.off

\* Two blocks in use never overlap, across classes, scavenged scraps, cons
\* cells reused through discard2/discard3 and hunks that changed pool.
LiveDisjoint ==
  \A o, q \in Live : o # q => Disjoint(live[o], live[o].size, live[q], live[q].size)

\* The cells of a free list are dead, distinct and inside the hunks their own
\* allocator holds: alloc_mark leaves the lists alone, so cells from below a
\* mark and above it mix, and unmark, drop and reinit must forget them all.
FreeCellsDead ==
  Running => \A j, k \in CellSizes :
    /\ \A a \in 1 .. Len(syn.free[k]) :
         ~Dropping => HeldSyn(syn.free[k][a], k)
    /\ \A a \in 1 .. Len(bnd.free[k]) : HeldBind(bnd.free[k][a], k)
    /\ \A a \in 1 .. Len(syn.free[k]), b \in 1 .. Len(syn.free[j]) :
         (j # k \/ a # b) => Disjoint(syn.free[k][a], k, syn.free[j][b], j)
    /\ \A a \in 1 .. Len(bnd.free[k]), b \in 1 .. Len(bnd.free[j]) :
         (j # k \/ a # b) => Disjoint(bnd.free[k][a], k, bnd.free[j][b], j)
    /\ \A p \in ToSet(syn.free[k]) \cup ToSet(bnd.free[k]) : \A o \in Live :
         Disjoint(p, k, live[o], live[o].size)

\* A pointer to the free store of the last of a pool's n hunks.
At(p, seg, n) == IF p = Duff THEN n = 0
                 ELSE n \in 1 .. Len(seg) /\ seg[n] = p.hunk /\ p.off <= SEGSIZE

\* The allocators and every mark point into the hunk that their segment count
\* calls the last one.  drop_local_store, alloc_reinit and alloc_unmark compute
\* the end of that hunk as segbase[segno-1] + SEGSIZE, so a swap of hunks by
\* the search for scraps that moved one below a mark would break the bounds.
MarksRestore ==
  Running =>
    /\ ~Dropping => At(syn.allp, syn.seg, Len(syn.seg))
    /\ At(bnd.allp, pool.bindseg, pool.bindsegcur)
    /\ \A i \in 1 .. Len(marklist) :
         /\ marklist[i].synno <= Len(syn.seg)
         /\ marklist[i].bindno <= pool.bindsegcur
         /\ At(marklist[i].synp, syn.seg, marklist[i].synno)
         /\ At(marklist[i].bindp, pool.bindseg, marklist[i].bindno)

\* The segment arrays are never written past segmax, although expand_segmax
\* itself takes hunks from bindsegbase between the test and the write.
ArraysFit ==
  Sound => /\ Len(SynSeg) <= pool.segmax
           /\ Len(glob.seg) <= pool.segmax
           /\ Len(pool.bindseg) <= pool.segmax

\* discard2 and discard3 find the hunk of every cell that is alive, so their
\* syserr is never reached by a caller that keeps to the lifetimes.
DiscardFinds == pool.err # "discard"

Lost == (1 .. pool.chain) \
          (pool.perm \cup ToSet(SynSeg) \cup ToSet(pool.bindseg)
           \cup ToSet(PageHunks(glob.seg)) \cup ToSet(PageHunks(glob.os)))

\* Every hunk from malloc stays in a pool until the program ends, so that the
\* takers of hunks find it: new_perm_segment and new_global_segment say "I will
\* recycle a segment that had been used for local space if there are any such
\* available", alloc_unmark that blocks are lost "until the segment is recycled".
NoHunkLost == Sound => Lost = {}

\* A hunk leaves the pools in two ways only: alloc_unmark drops the pending
\* marks under the top one and forgets the Syn hunks between them, or
\* alloc_perfileinit follows a command's and forgets its Glob pages.
LossIsKnown ==
  [][Sound /\ Sound' /\ ~(Lost' \subseteq Lost) =>
       \/ /\ marklist # <<>> /\ Len(marklist') < Len(marklist) - 1
          /\ Lost' \ Lost \subseteq ToSet(syn.seg)
       \/ /\ files' = files + 1 /\ tool
          /\ Lost' \ Lost \subseteq ToSet(PageHunks(glob.seg))]_vars

----------------------------------------------------------------------------
(* The allocator implements StoreContract.                                 *)

Own(x) == IF x = None THEN None
          ELSE [class |-> x.class, level |-> x.level,
                words |-> {x.hunk} \X (x.off .. x.off + x.size - 1)]
Owned   == [o \in Obs |-> Own(live[o])]
Pending == [i \in 1 .. Len(marklist) |-> marklist[i].unmarked]
Phase   == CASE Running -> "file" [] pc = "idle" -> "idle" [] OTHER -> "over"

Promise == INSTANCE StoreContract
             WITH Words <- Hunk \X Nat, owned <- Owned, marks <- Pending, phase <- Phase

\* Through bump allocation, scraps, free lists, marks undone in any order and
\* hunks that change pool, the allocator keeps the promise of store.h: every
\* block is given words no living block has, and lives as long as it says.
KeepsPromise == Promise!Spec

============================================================================
