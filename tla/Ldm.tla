-------------------------------- MODULE Ldm --------------------------------
(***************************************************************************)
(* Held-back loads and stores of the ARM back end.                         *)
(*                                                                         *)
(* Word loads and stores from one base register are not emitted at once:   *)
(* ldm_outinstr collects them with their offsets from the base, additions  *)
(* to the base are only counted (baseadjust), and ldm_flush_r later emits  *)
(* them in whatever order gives LDMs and STMs with writeback.              *)
(*                                                                         *)
(* The jopcodes of the program run on one machine (want), the instructions *)
(* emitted on another (got): registers and words of memory hold numbers.   *)
(* When nothing is left pending they must agree on what the program can    *)
(* still see; both then start afresh.                                      *)
(***************************************************************************)
EXTENDS Integers, FiniteSets, SequencesExt

CONSTANTS
  NRegs,       \* the registers are 0 .. NRegs - 1
  Bases,       \* those used as base registers
  FixedSets,   \* the sets tried for fixed
  Offsets,     \* offsets in loads and stores
  Adds,        \* constants added to a register
  Spares,      \* sets of registers that may be free when transfers begin
  ldm_regs_max,
  MaxPending   \* bound on the jopcodes between two comparisons

Regs == 0 .. NRegs - 1

ASSUME LdmAssumption ==
  /\ NRegs \in Nat \ {0} /\ Bases \subseteq Regs /\ FixedSets \subseteq SUBSET Regs
  /\ Offsets \subseteq Int /\ Adds \subseteq Int
  /\ Spares \subseteq SUBSET Regs
  /\ ldm_regs_max \in Nat \ {0} /\ MaxPending \in Nat

VARIABLES
  fixed,  \* R_SP, if it is among the registers: not to be altered for a
          \* moment, and never dead (global register variables are alike)
  ldm_state,  \* [state, base, off, deadregs, adjust, basedead]; off is a
              \* function on regbits, the registers to be moved
  spare,  \* spareregs
  live,   \* the registers whose values the program will read
  want,   \* the machine the program runs on
  got,    \* the machine the emitted instructions run on
  hole,   \* known faults met since they were last compared
  n,      \* jopcodes since then
  last    \* the comparison that has just been made: [agree, free, hole]

vars == <<fixed, ldm_state, spare, live, want, got, hole, n, last>>

----------------------------------------------------------------------------
(* The machine: registers, and the words of memory written so far.         *)

Fresh == [reg |-> [r \in Regs |-> 1000 * (r + 1)], mem |-> <<>>]

At(mem, a) == IF a \in DOMAIN mem THEN mem[a] ELSE 50000 + a
Put(mem, a, v) == [x \in DOMAIN mem \cup {a} |-> IF x = a THEN v ELSE mem[x]]

AddTo(m, d, b, k) == [m EXCEPT !.reg[d] = m.reg[b] + k]

\* LDR and STR: [b, #k], [b, #k]! and [b], #k.
Single(m, isload, r, b, form, k) ==
  LET a == m.reg[b] + IF form = "post" THEN 0 ELSE k
      w == IF form = "pre" THEN m ELSE AddTo(m, b, b, k)
  IN  IF isload THEN [w EXCEPT !.reg[r] = At(m.mem, a)]
                ELSE [w EXCEPT !.mem = Put(m.mem, a, m.reg[r])]

\* LDM and STM: the lowest register at the lowest address.
Rank(set, r) == Cardinality({q \in set : q < r})

Lowest(m, set, b, mode) ==
  m.reg[b] + CASE mode = "IA" -> 0
               [] mode = "IB" -> 4
               [] mode = "DA" -> 4 - 4 * Cardinality(set)
               [] mode = "DB" -> -4 * Cardinality(set)

Multiple(m, isload, set, b, mode, wb) ==
  LET a == Lowest(m, set, b, mode)
      k == IF mode \in {"IA", "IB"} THEN 4 * Cardinality(set) ELSE -4 * Cardinality(set)
      w == IF wb THEN AddTo(m, b, b, k) ELSE m
      words == {a + 4 * i : i \in 0 .. Cardinality(set) - 1}
  IN  IF isload
      THEN [w EXCEPT !.reg = [r \in Regs |->
              IF r \in set THEN At(m.mem, a + 4 * Rank(set, r)) ELSE @[r]]]
      ELSE [w EXCEPT !.mem = [x \in DOMAIN @ \cup words |->
              IF x \in words
              THEN m.reg[CHOOSE r \in set : a + 4 * Rank(set, r) = x] ELSE @[x]]]

----------------------------------------------------------------------------
\* step applied for 1, then 2, up to k.
Loop(step(_, _), first, k) ==
  LET f[i \in 0 .. k] ==
        IF i = 0 THEN first ELSE CHOOSE v \in {step(a, i) : a \in {f[i - 1]}} : TRUE
  IN  f[k]

----------------------------------------------------------------------------
(* Emitting.  e is what the code may change while it flushes:               *)
(* [s, m, adjusted, spare, hole, left], with left the transfers to come.    *)

\* The constants that fit an immediate field, of those that occur.
EightBits(k) == k \in 0 .. 255

\* ldm_type: whether a transfer may do k of the adjustment by writeback.
Back(e, k) ==
  \/ k < 0 /\ e.s.adjust < 0 /\ k >= e.s.adjust
  \/ k > 0 /\ e.s.adjust > 0 /\ k <= e.s.adjust

Adjusted(e, k) == [e EXCEPT !.adjusted = @ + k, !.s.adjust = @ - k]

\* One LDM or STM from b = base + addon; the writeback is wb or nothing.
Group(e, p, b, addon, mode, wb) ==
  LET back == Back(e, wb)
      f == [e EXCEPT !.m =
              Multiple(IF addon = 0 THEN @ ELSE AddTo(@, b, e.s.base, addon),
                       e.s.state = "LD", p.set, b, mode, back)]
  IN  IF back THEN Adjusted(f, wb) ELSE f

\* Not near the base: <<mode, addon>>.
Elsewhere(start, end) ==
  IF EightBits(start) THEN <<"IA", start>>
  ELSE IF EightBits(start - 4) THEN <<"IB", start - 4>>
  ELSE IF EightBits(end) THEN <<"DA", end>>
  ELSE IF EightBits(end + 4) THEN <<"DB", end + 4>>
  ELSE <<"IA", start>>

Minimum(S) == CHOOSE x \in S : \A y \in S : x <= y

\* LDR or STR of one register; next is the offset of the next transfer.
One(e, r, off, next) ==
  LET k    == off - e.adjusted
      far  == next - e.adjusted
      post == IF Len(e.left) = 1 THEN e.s.adjust
              ELSE IF Back(e, far) THEN far ELSE 0
      form == IF k = 0 /\ post # 0 THEN "post"
              ELSE IF Back(e, k) THEN "prewb" ELSE "pre"
      by   == IF form = "post" THEN post ELSE k
      f    == [e EXCEPT !.m = Single(@, e.s.state = "LD", r, e.s.base, form, by)]
  IN  IF form = "pre" THEN f ELSE Adjusted(f, by)

Singly(e, p) ==
  LET next == IF Len(e.left) = 1 THEN 0 ELSE e.left[2].start
      step(f, i) ==
        LET r == CHOOSE q \in p.set : Rank(p.set, q) = i - 1
        IN  One(f, r, p.start + 4 * (i - 1), next)
  IN  Loop(step, e, Cardinality(p.set))

\* Near the base, or where the whole adjustment can be done on the way:
\* <<addon, mode, wb>>, or nothing.
Near(start, end, adjust) ==
  IF start = 0 THEN <<0, "IA", end + 4>>
  ELSE IF start = 4 THEN <<0, "IB", end>>
  ELSE IF end = 0 THEN <<0, "DA", start - 4>>
  ELSE IF end = -4 THEN <<0, "DB", start>>
  ELSE IF start > 0 /\ adjust >= end
       THEN IF adjust = end THEN <<start - 4, "IB", end>> ELSE <<start, "IA", end + 4>>
  ELSE IF end < 0 /\ adjust <= end
       THEN IF adjust = start THEN <<end + 4, "DB", start>> ELSE <<end, "DA", start - 4>>
  ELSE <<>>

\* Through another register, or by moving the base for good.
Far(e, p, other) ==
  IF e.s.state = "LD" THEN Group(e, p, p.last, other[2], other[1], 0)
  ELSE IF e.s.base \notin fixed
       THEN Adjusted(Group(e, p, e.s.base, other[2], other[1], 0), other[2])
  ELSE IF e.spare = {} THEN Singly(e, p)
  ELSE Group(e, p, Minimum(e.spare), other[2], other[1], 0)

\* A base that was moved down without writeback is noted.
Watch(e, f, near) ==
  IF near[1] < 0 /\ near[2] = "DA" /\ f.adjusted = e.adjusted
  THEN [f EXCEPT !.hole = @ \cup {"down"}] ELSE f

By(e, p, near) == Watch(e, Group(e, p, e.s.base, near[1], near[2], near[3]), near)

\* ldmstm_generate; start and end are the offsets from the base as it is.
GenerateAt(e, p, start, end) ==
  LET near == Near(start, end, e.s.adjust) IN
  IF start = end THEN Singly(e, p)
  ELSE IF near # <<>> THEN By(e, p, near)
  ELSE Far(e, p, Elsewhere(start, end))

Generate(e, p) == GenerateAt(e, p, p.start - e.adjusted, p.end - e.adjusted)

----------------------------------------------------------------------------
(* ldm_flush_r.                                                            *)

\* The registers that go with r: neighbours whose offsets are adjacent.  At
\* most ldm_regs_max are looked at, those below r first.
Collect(s, left, r) ==
  LET down(p, i) == IF r - i \in left /\ s.off[r - i] = p.start - 4
                    THEN [p EXCEPT !.set = @ \cup {r - i}, !.start = @ - 4] ELSE p
      up(p, i)   == IF r + i \in left /\ s.off[r + i] = p.end + 4
                    THEN [p EXCEPT !.set = @ \cup {r + i}, !.end = @ + 4, !.last = r + i]
                    ELSE p
      below == IF r < ldm_regs_max THEN r ELSE ldm_regs_max - 1
      above == ldm_regs_max - 1 - below
      alone == [set |-> {r}, start |-> s.off[r], end |-> s.off[r], last |-> r]
  IN  Loop(up, Loop(down, alone, below), above)

\* Sorted for the writeback; the transfer that loads the base stays last.
Sooner(s, p, q) ==
  \/ s.adjust > 0 /\ p.start < q.start
  \/ s.adjust < 0 /\ p.start > q.start

Insert(s, groups, p) ==
  LET after == {i \in DOMAIN groups : s.base \in groups[i].set \/ Sooner(s, p, groups[i])}
  IN  IF s.base \in p.set \/ after = {} THEN Append(groups, p)
      ELSE InsertAt(groups, Minimum(after), p)

Transfers(s, which) ==
  LET step(acc, i) ==
        IF i - 1 \notin acc.rest \cap which THEN acc
        ELSE LET p == Collect(s, acc.rest, i - 1)
             IN  [rest |-> acc.rest \ p.set, groups |-> Insert(s, acc.groups, p)]
  IN  Loop(step, [rest |-> DOMAIN s.off, groups |-> <<>>], NRegs)

\* A dead base may be moved freely, if all offsets have one sign; the loop
\* leaves the offset of the last register.
FakeBack(s) ==
  LET step(acc, i) ==
        IF i - 1 \notin DOMAIN s.off THEN acc
        ELSE IF \/ acc.max = 0
                \/ acc.max >= 0 /\ s.off[i - 1] >= 0
                \/ acc.max <= 0 /\ s.off[i - 1] <= 0
             THEN [acc EXCEPT !.max = s.off[i - 1]]
        ELSE [acc EXCEPT !.ok = FALSE]
  IN  Loop(step, [max |-> 0, ok |-> TRUE], NRegs)

SpareEarly(e, p) ==   \* mutant: a register is free although its value is read later
  IF e.s.state = "LD" THEN e.spare \ p.set ELSE e.spare \cup p.set
SpareAfter(e, p) ==
  IF e.s.state = "LD" THEN e.spare \ p.set ELSE e.spare \cup (p.set \cap e.s.deadregs)

EmitNext(e) ==
  LET p == Head(e.left)
      f == IF e.s.basedead /\ Len(e.left) = 1 THEN [e EXCEPT !.s.adjust = 0] ELSE e
      g == Generate(f, p)
  IN  [g EXCEPT !.left  = Tail(@),
                !.spare = SpareAfter(e, p)]

\* What is flushed: [s, regs].  With an adjustment under way it is all.
Begun(s, regs, back) ==
  LET fake == s.adjust = 0 /\ s.basedead /\ s.base \notin DOMAIN s.off /\ back.ok
  IN  [s    |-> IF fake THEN [s EXCEPT !.adjust = back.max] ELSE s,
       regs |-> IF fake \/ s.adjust # 0 THEN Regs ELSE regs]

\* e is [s, m, spare, hole], here and below.
Emit(e, s, groups) ==
  LET step(acc, i) == EmitNext(acc)
  IN  Loop(step, [s |-> s, m |-> e.m, adjusted |-> 0, spare |-> e.spare,
                  hole |-> e.hole, left |-> groups], Len(groups))

\* f has been emitted and rest is still held: what is left of the adjustment
\* is added to the base, unless the base is dead or there is more to come.
Ended(e, f, rest, moreforbase) ==
  LET s   == e.s
      all == rest = {}
      add == all /\ f.s.adjust # 0 /\ ~s.basedead /\ ~moreforbase
      u   == [f.s EXCEPT !.state    = IF all THEN "NONE" ELSE @,
                         !.off      = [r \in rest |-> @[r] - f.adjusted],
                         !.deadregs = @ \cap rest]
  IN  [s     |-> IF add THEN [u EXCEPT !.adjust = 0] ELSE u,
       m     |-> IF add THEN AddTo(f.m, s.base, s.base, f.s.adjust) ELSE f.m,
       spare |-> IF all /\ s.basedead /\ s.base \notin DOMAIN s.off
                 THEN f.spare \cup {s.base} ELSE f.spare,
       hole  |-> f.hole]

FlushGroups(e, s, t, moreforbase) == Ended(e, Emit(e, s, t.groups), t.rest, moreforbase)
FlushBegun(e, b, moreforbase) == FlushGroups(e, b.s, Transfers(b.s, b.regs), moreforbase)

FlushR(e, regs, moreforbase) ==
  IF e.s.state = "NONE" THEN e
  ELSE FlushBegun(e, Begun(e.s, regs, FakeBack(e.s)), moreforbase)

Flush(e) == FlushR(e, Regs, FALSE)

\* ldm_c_flush, for a jopcode that uses regs.
CFlush(e, regs) ==
  IF e.s.state = "NONE" THEN e
  ELSE IF e.s.base \in regs THEN Flush(e)
  ELSE IF DOMAIN e.s.off \cap regs # {} THEN FlushR(e, regs, FALSE)
  ELSE e

----------------------------------------------------------------------------
(* ldm_addregoff and ldm_outinstr.  i is a load or store of the program:   *)
(* [access, rd, base, form, off, dead1, dead2].                            *)

Place(s, i) == s.adjust + IF i.form = "post" THEN 0 ELSE i.off
NewAdjust(s, i) == s.adjust + IF i.form = "pre" THEN 0 ELSE i.off

AcceptsStore(s, i) ==   \* mutant: a store of a register replaces its pending one
  (i.rd = s.base \/ s.base \in DOMAIN s.off) => NewAdjust(s, i) = 0
Accepts(s, i) ==
  /\ (i.rd = s.base \/ s.base \in DOMAIN s.off) => NewAdjust(s, i) = 0
  /\ (s.state = "ST" /\ i.rd \in DOMAIN s.off) => s.off[i.rd] = Place(s, i)

FlushLoaded(e) == Flush(e)

\* A pending store to the same place is discarded.
AddRegOff(e, i) ==
  LET s    == e.s
      same == {r \in DOMAIN s.off : s.off[r] = Place(s, i)}
      drop == IF s.state = "ST" /\ i.rd \notin DOMAIN s.off THEN same ELSE {}
      kept == (DOMAIN s.off \ drop) \cup {i.rd}
      t    == [s EXCEPT !.off = [r \in kept |-> IF r = i.rd THEN Place(s, i) ELSE s.off[r]],
                        !.adjust = NewAdjust(s, i),
                        !.basedead = i.dead2,
                        !.deadregs = @ \cup IF i.dead1 THEN {i.rd} ELSE {}]
      f    == [e EXCEPT !.s = t,
                        !.spare = IF s.state = "LD" /\ s.base # i.rd THEN @ \cup {i.rd} ELSE @]
  IN  IF i.rd = s.base THEN FlushLoaded(f) ELSE f

Start(s, i) == [s EXCEPT !.state = i.access, !.off = <<>>, !.deadregs = {}]

Direct(e, i) ==
  [e EXCEPT !.m = Single(@, i.access = "LD", i.rd, i.base, i.form, i.off)]

\* With nothing pending.
OutFresh(e, i) ==
  IF i.base = i.rd THEN Direct(e, i)
  ELSE AddRegOff([e EXCEPT !.s = [Start(@, i) EXCEPT !.base = i.base, !.adjust = 0]], i)

\* After the flush ldm_addregoff may refuse again, and i is lost.
OutAgain(e, i) ==
  LET f == [e EXCEPT !.s = Start(@, i)] IN
  IF Accepts(f.s, i) THEN AddRegOff(f, i) ELSE [f EXCEPT !.hole = @ \cup {"lost"}]

\* i goes on with what is pending, if ldm_addregoff accepts it.
GoesOn(s, i) ==
  /\ s.state = i.access /\ s.base = i.base
  /\ ~(i.rd = i.base /\ i.access = "ST")

OutFlushed(e, i, again) == IF again THEN OutAgain(e, i) ELSE OutFresh(e, i)

OutInstr(e, i) ==
  IF GoesOn(e.s, i) /\ Accepts(e.s, i) THEN AddRegOff(e, i)
  ELSE OutFlushed(FlushR(e, Regs, GoesOn(e.s, i)), i, GoesOn(e.s, i))

----------------------------------------------------------------------------
(* The jopcodes.                                                           *)

Idle == ldm_state.state = "NONE"
Here == [s |-> ldm_state, m |-> got, spare |-> spare, hole |-> hole]

Empty == [state |-> "NONE", base |-> 0, off |-> <<>>, deadregs |-> {},
          adjust |-> 0, basedead |-> FALSE]

\* What the program can tell apart.
Same(a, b, seen) ==
  /\ \A r \in seen : a.reg[r] = b.reg[r]
  /\ \A x \in DOMAIN a.mem \cup DOMAIN b.mem : At(a.mem, x) = At(b.mem, x)

Good == [agree |-> TRUE, free |-> TRUE, hole |-> {}]

\* Nothing is pending: the rest of ldm_state is never read, and which
\* registers are live and free is the business of the jopcodes in between.
Restart(e, w, seen) ==
  /\ last' = [agree |-> Same(w, e.m, seen), free |-> e.spare \cap seen = {},
              hole |-> e.hole]
  /\ ldm_state' = Empty /\ got' = Fresh /\ want' = Fresh
  /\ spare' \in Spares /\ live' = Regs \ spare'
  /\ hole' = {} /\ n' = 0 /\ UNCHANGED fixed

Continue(e, w, seen) ==
  /\ ldm_state' = e.s /\ got' = e.m /\ want' = w
  /\ spare' = e.spare /\ live' = seen
  /\ hole' = e.hole /\ n' = n + 1
  /\ last' = Good /\ UNCHANGED fixed

\* The compiler is left with e, the program with machine w, and what it
\* will still read is seen.
Step(e, w, seen) ==
  \/ e.s.state = "NONE" /\ Restart(e, w, seen)
  \/ e.s.state # "NONE" /\ Continue(e, w, seen)

Room == n < MaxPending

\* J_LDRK and J_STRK of words, with P_PRE and P_POST.
LoadOrStore ==
  /\ Room
  /\ \E i \in [access : {"LD", "ST"}, rd : Regs, base : Bases \cap live,
               form : {"pre", "prewb", "post"}, off : Offsets,
               dead1 : BOOLEAN, dead2 : BOOLEAN] :
       /\ i.rd = i.base => i.form = "pre" /\ ~i.dead1
       /\ i.dead1 => i.access = "ST" /\ i.rd \notin fixed
       /\ i.dead2 => i.base \notin fixed
       /\ i.access = "ST" => i.rd \in live
       /\ i.access = "LD" => i.rd \notin fixed
       /\ Step(OutInstr(Here, i),
               Single(want, i.access = "LD", i.rd, i.base, i.form, i.off),
               (live \ ((IF i.dead1 THEN {i.rd} ELSE {}) \cup (IF i.dead2 THEN {i.base} ELSE {})))
                 \cup (IF i.access = "LD" THEN {i.rd} ELSE {}))

\* J_ADDK: added to the base of what is pending it only counts.  R_SP is
\* not moved past stores when it goes down, past loads when it goes up.
StackOrder(d, k) ==
  /\ d \in fixed
  /\ \/ k < 0 /\ ldm_state.state = "ST"
     \/ k > 0 /\ ldm_state.state = "LD"

Merges(b, d) == b = d /\ b = ldm_state.base

AddK ==
  /\ Room /\ ~Idle
  /\ \E b \in live, d \in Regs, k \in Adds :
       /\ d \notin fixed \/ d = b
       /\ LET e == IF StackOrder(d, k) THEN Flush(Here) ELSE CFlush(Here, {b, d}) IN
          Step(IF Merges(b, d) THEN [Here EXCEPT !.s.adjust = @ + k, !.spare = @ \ {d}]
               ELSE [e EXCEPT !.m = AddTo(@, d, b, k), !.spare = @ \ {d}],
               AddTo(want, d, b, k), live \cup {d})

\* J_MOVR stands for the jopcodes that use and set registers.
MovR ==
  /\ Room /\ ~Idle
  /\ \E b \in live, d \in Regs \ fixed, dead \in BOOLEAN :
       /\ b # d /\ (dead => b \notin fixed)
       /\ LET e == CFlush(Here, {b, d}) IN
          Step([e EXCEPT !.m = AddTo(@, d, b, 0),
                         !.spare = (@ \ {d}) \cup IF dead THEN {b} ELSE {}],
               AddTo(want, d, b, 0), (live \cup {d}) \ IF dead THEN {b} ELSE {})

\* J_MOVK.
MovK ==
  /\ Room /\ ~Idle
  /\ \E d \in Regs \ fixed :
       /\ LET e == CFlush(Here, {d}) IN
          Step([e EXCEPT !.m.reg[d] = 7, !.spare = @ \ {d}],
               [want EXCEPT !.reg[d] = 7], live \cup {d})

\* Jopcodes that flush everything: labels, branches, calls, byte accesses.
LdmFlush ==
  /\ ~Idle
  /\ Step(Flush(Here), want, live)

Init ==
  /\ fixed \in FixedSets
  /\ ldm_state = Empty
  /\ spare \in Spares /\ live = Regs \ spare /\ hole = {} /\ n = 0
  /\ last = Good
  /\ want = Fresh /\ got = Fresh

Next == LoadOrStore \/ AddK \/ MovR \/ MovK \/ LdmFlush

Spec == Init /\ [][Next]_vars

----------------------------------------------------------------------------
(* Properties.                                                             *)

\* The comment on SavedLDM: "s->baseadjust always holds the amount still to
\* be added to basereg".  With nothing pending the base, the other registers
\* and the memory are what the program made them.
Agree == last.agree

\* Whatever the order in which pending loads and stores are merged, replaced
\* and emitted, with the base moved on the way, the emitted instructions do
\* what the program says, unless the base was moved down by an addition that
\* baseadjust does not know of, or a load of the base was refused again.
AgreeOrKnown == last.agree \/ last.hole # {}

\* A register marked free while transfers were pending holds nothing that
\* the program still reads: GetTempReg may hand it out.
SpareDead == last.free
============================================================================
