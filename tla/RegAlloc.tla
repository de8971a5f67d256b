------------------------------ MODULE RegAlloc ------------------------------
(***************************************************************************)
(* Register allocation (mip/regalloc.c), from the code that cg.c and the   *)
(* optimisers leave to the code that flowgraf.c dumps.                     *)
(*                                                                         *)
(* allocate_registers finds out which registers are live at the head of    *)
(* each block, scans the blocks backwards for registers that clash, gives  *)
(* real registers in an order kept in a heap, the most clashing first, and *)
(* when there is none left sends a variable to the stack and goes back to  *)
(* where that was allocated.  It tries the spilt ones once more at the     *)
(* end, and corrects the marks on operands that die.  Two things make it   *)
(* allow registers to share that are live together: one holds a copy of    *)
(* the other's value (by value numbers, or as a slave of a constant held   *)
(* in a register), and a value of which only the low bits are wanted may   *)
(* replace its extension.                                                  *)
(*                                                                         *)
(* A register is a number: 0 .. Magic-1 are real, Magic is the sentinel of *)
(* the heap, the rest virtual.  A jopcode is a record of its operands and  *)
(* of the operands marked dead.  An action is one round of one loop.       *)
(***************************************************************************)
EXTENDS Integers, Sequences, FiniteSets, SequencesExt, FiniteSetsExt

CONSTANTS
    Programs,       \* the functions to compile
    Magic,          \* NMAGICREGS
    NotPreserved,   \* m_notpreserved: a call may corrupt them
    FP,             \* a register that is live everywhere
    CountSpills,    \* ENABLE_SPILL, which the retry depends on
    Depth           \* bound: blocks followed when behaviours are compared

ASSUME RegAllocAssumption ==
  /\ Magic \in Nat \ {0} /\ FP \in 0 .. Magic - 1 /\ NotPreserved \subseteq 0 .. Magic - 1
  /\ CountSpills \in BOOLEAN /\ Depth \in Nat
  /\ \A p \in Programs : p.intregs \subseteq 0 .. Magic - 1

GAP == -1
A1  == 0            \* argument and result
RetInt  == 98       \* RetIntLab and RetVoidLab
RetVoid == 99

Unscheduled == -1
Scheduled   == -2
Spilt       == -4
Bogus       == -5

VARIABLES
    prog,       \* the function as it was generated
    code,       \* the jopcodes of each block
    use,        \* blkuse_ of each block
    vreg,       \* the VRegisters
    rel,        \* clashmatrix and copymatrix, each a set of pairs
    heap,       \* permregheap_
    bind,       \* bindxx_ of each variable
    mask,       \* regmaskvec
    spillset,   \* registers spilt so far
    ctl         \* [phase, at, changed, err, spills]: where allocate_registers is

vars == <<prog, code, use, vreg, rel, heap, bind, mask, spillset, ctl>>

Blocks  == DOMAIN code
Regs    == DOMAIN vreg
Places  == 1 .. Cardinality(Regs) - Magic - 1       \* of the heap, less the sentinel

-----------------------------------------------------------------------------
(* The loops over a block: step on its elements from the first, or the last *)

The(one) == CHOOSE v \in one : TRUE

Forward(step(_, _), first, seq) ==
  LET f[i \in 0 .. Len(seq)] ==
        IF i = 0 THEN first ELSE The({step(s, seq[i]) : s \in {f[i - 1]}})
  IN  f[Len(seq)]

Backward(step(_, _), seq, last) ==
  LET f[i \in 1 .. Len(seq) + 1] ==
        IF i > Len(seq) THEN last ELSE The({step(seq[i], s) : s \in {f[i + 1]}})
  IN  f[1]

\* For the registers of a set, in ascending order.
Each(step(_, _), first, set) ==
  The({Forward(LAMBDA s, k : IF k - 1 \in rs THEN step(s, k - 1) ELSE s,
               first, [k \in 1 .. Cardinality(Regs) |-> k]) : rs \in {set}})

-----------------------------------------------------------------------------
(* Jopcodes *)

LoadsR1 == {"movr", "movk", "add", "mul", "shr", "ext", "ldrsb", "ldrb", "ldrv", "call"}
ReadsR1 == {"strb", "strv"}
ReadsR2 == {"add", "mul", "shr", "ext", "cmp"}
ReadsR3 == {"movr", "add", "mul", "shr", "cmp"}
UsesStack == {"ldrv", "strv"}

Noop == [op |-> "noop", r1 |-> GAP, r2 |-> GAP, r3 |-> GAP, dead |-> {}]

\* RealRegisterUse.
Def(ic)  == IF ic.op \in {"enter", "call"} THEN {A1} ELSE {}
Use(ic)  == IF ic.op = "call" THEN {A1} ELSE {}
COut(ic) == IF ic.op = "call" THEN NotPreserved \ {A1} ELSE {}

\* The register of the variable a jopcode loads or stores.
Var(ic) == IF ic.op \in UsesStack THEN bind[ic.r3] ELSE GAP

Operand(ic, k) ==
  CASE k = 1 -> ic.r1 [] k = 2 -> ic.r2 [] OTHER -> IF ic.op = "ldrv" THEN Var(ic) ELSE ic.r3

\* <<position, register>> of the registers read, in the order they are seen.
Operands(ic) ==
  (IF ic.op \in ReadsR2 \/ (ic.op = "movk" /\ ic.r2 # GAP) THEN << <<2, ic.r2>> >> ELSE <<>>)
  \o (IF ic.op \in ReadsR3 THEN << <<3, ic.r3>> >>
      ELSE IF ic.op = "ldrv" /\ Var(ic) # GAP THEN << <<3, Var(ic)>> >> ELSE <<>>)
  \o (IF ic.op \in ReadsR1 THEN << <<1, ic.r1>> >> ELSE <<>>)

\* Mutant: a sum keeps no demand from its result.
reg_bitsrefdLow(ic, demand) == IF ic.op \in {"ext", "strb", "shr"} THEN 8 ELSE demand

\* Low bits of an operand that count when so many of the result do.
reg_bitsrefd(ic, demand) ==
  CASE ic.op \in {"ext", "strb"} -> 8
    [] ic.op \in {"movr", "ldrv", "strv", "add", "mul"} -> demand
    [] OTHER -> 32

-----------------------------------------------------------------------------
(* Liveness *)

Successors(b) ==
  LET p == prog.blocks[b] IN {p.next} \cup (IF p.next1 = 0 THEN {} ELSE {p.next1})

exitregset(l) == {FP} \cup (IF l = RetInt THEN {A1} ELSE {})

successor_regs(b) ==
  UNION {IF l \in Blocks THEN use[l] ELSE exitregset(l) : l \in Successors(b)}

\* instruction_ref_info: the operands that die, and the registers now live.
DeadOperands(ic, live) ==
  LET o == Operands(ic)
  IN  {o[k][1] : k \in {j \in DOMAIN o :
         o[j][2] \notin live /\ \A i \in 1 .. j - 1 : o[i][2] # o[j][2]}}

Wanted(ic, live) == live \cup {o[2] : o \in Range(Operands(ic))}

Useless(ic, live, removed) ==
  \/ ic.op \in LoadsR1 \ {"call"} /\ ~removed /\ ic.r1 \notin live
  \/ ic.op = "strv" /\ Var(ic) # GAP /\ Var(ic) \notin live

add_instruction_info(ic, live, removed) ==
  LET rest == live \ ((IF ic.op \in LoadsR1 /\ ~removed THEN {ic.r1} ELSE {})
                      \cup (IF ic.op = "strv" THEN {Var(ic)} ELSE {}))
      in   == (rest \ Def(ic)) \cup Use(ic)
  IN  IF Useless(ic, live, removed) THEN [live |-> rest, dead |-> {}]
      ELSE [live |-> Wanted(ic, in), dead |-> DeadOperands(ic, in)]

\* The block's live registers at its head and its code with dead operands.
BlockInfo(c, live) ==
  Backward(LAMBDA ic, s :
              LET i == add_instruction_info(ic, s.live, FALSE)
              IN  [live |-> i.live, code |-> <<[ic EXCEPT !.dead = i.dead]>> \o s.code],
            c, [live |-> live, code |-> <<>>])

\* The loop over the blocks, from the last up, until nothing changes.
update_block_use_info ==
  /\ ctl.phase = "info" /\ ctl.at > 0
  /\ \E r \in {BlockInfo(code[ctl.at], successor_regs(ctl.at))} :
         /\ use'  = [use EXCEPT ![ctl.at] = r.live]
         /\ code' = [code EXCEPT ![ctl.at] = r.code]
         /\ ctl'  = [ctl EXCEPT !.at = @ - 1, !.changed = @ \/ r.live # use[ctl.at]]
  /\ UNCHANGED <<prog, vreg, rel, heap, bind, mask, spillset>>

InfoAgain ==
  /\ ctl.phase = "info" /\ ctl.at = 0
  /\ ctl' = IF ctl.changed THEN [ctl EXCEPT !.at = Len(code), !.changed = FALSE]
            ELSE [ctl EXCEPT !.phase = "clash", !.at = 1]
  /\ UNCHANGED <<prog, code, use, vreg, rel, heap, bind, mask, spillset>>

-----------------------------------------------------------------------------
(* Value numbers, within a block *)

\* val: 0 is VALN_UNSET; many, slave and dead are the flags; list[n] holds
\* <<register, writes so far>> of the registers with number n.
Unset == [val    |-> [r \in Regs |-> 0], count |-> [r \in Regs |-> 0],
          source |-> [r \in Regs |-> {}], list |-> <<>>,
          many   |-> {}, slave |-> {}, dead |-> {}]

\* Number new goes to dst, and its former one away.
Renumber(n, dst, new) ==
  LET old   == n.val[dst]
      count == n.count[dst] + 1
      list  == IF old = 0 THEN n.list ELSE [n.list EXCEPT ![old] = {p \in @ : p[1] # dst}]
  IN  [n EXCEPT
         !.val[dst]    = new,
         !.count[dst]  = count,
         !.source[dst] = IF old = 0 THEN n.list[new] ELSE {},
         !.list        = [list EXCEPT ![new] = @ \cup {<<dst, count>>}],
         !.many        = IF old = 0 THEN @ ELSE @ \cup {dst},
         !.slave       = @ \ {dst},
         !.dead        = @ \ {dst}]

new_valnr(n) == [n EXCEPT !.list = Append(@, {})]

write_valnr(n, dst, num) ==
  IF num # 0 THEN Renumber(n, dst, num)
  ELSE The({Renumber(m, dst, Len(m.list)) : m \in {new_valnr(n)}})

\* Mutant: a source written since is kept.
StillSourceEver(n, r, p) == n.val[r] = n.val[p[1]] \/ n.count[p[1]] > p[2]
StillSource(n, r, p) ==
  n.val[r] = n.val[p[1]] /\ p[1] \notin n.dead /\ p[2] = n.count[p[1]]

\* The test of is_real_valn_ is of the register's number, which leaves out 0.
check_valnr_slave(n, r) ==
  LET keep == {p \in n.source[r] : StillSource(n, r, p)}
  IN  IF r = 0 THEN n
      ELSE [n EXCEPT !.source[r] = keep, !.dead = @ \cup {r},
                     !.slave = IF keep = {} THEN @ ELSE @ \cup {r}]

copy_valnr(n, dst, src) == write_valnr(n, dst, n.val[src])
set_valnr(n, dst)       == write_valnr(n, dst, 0)
set_valnrs(n, rs)       == Each(set_valnr, n, rs)

instruction_copy_info(n, ic) ==
  LET m == CASE ic.op = "movr" -> copy_valnr(n, ic.r1, ic.r3)
             [] ic.op = "ldrv" /\ Var(ic) # GAP -> copy_valnr(n, ic.r1, Var(ic))
             [] ic.op = "strv" -> IF Var(ic) = GAP THEN n ELSE copy_valnr(n, Var(ic), ic.r1)
             [] ic.op = "movk" /\ ic.r2 # GAP -> copy_valnr(n, ic.r1, ic.r2)
             [] OTHER -> set_valnrs(set_valnrs(set_valnrs(n, Def(ic)), COut(ic)),
                                    IF ic.op \in LoadsR1 THEN {ic.r1} ELSE {})
  IN  Forward(LAMBDA t, k : IF k \in ic.dead THEN check_valnr_slave(t, Operand(ic, k)) ELSE t,
              m, <<1, 2, 3>>)

ValueNumbers(b) == Forward(instruction_copy_info, set_valnrs(Unset, use[b]), code[b])

-----------------------------------------------------------------------------
(* Clashes *)

\* The state s of the scan of a block: clash, copy, vreg, live, demand, mask,
\* err, the value numbers n and the new code.
Real(n, r) == n.val[r] # 0 /\ r \notin n.many
SlaveOf(n, a, b) == Real(n, a) /\ a \in n.slave /\ \E p \in n.source[a] : p[1] = b
Same(n, a, b) ==
  \/ Real(n, a) /\ Real(n, b) /\ n.val[a] = n.val[b]
  \/ SlaveOf(n, a, b) \/ SlaveOf(n, b, a)

Weight(r) == IF r < Magic THEN 65536 ELSE 1

add_copy(s, a, b) ==
  IF a = b \/ {a, b} \in s.copy THEN s
  ELSE [s EXCEPT !.copy = @ \cup {{a, b}},
                 !.vreg[a].ncopies = @ + Weight(b), !.vreg[b].ncopies = @ + Weight(a)]

add_clash(s, a, b) ==
  IF a = b THEN [s EXCEPT !.err = "regalloc_clash"]
  ELSE IF Same(s.n, a, b) THEN add_copy(s, a, b)
  ELSE IF {a, b} \in s.clash THEN s
  ELSE [s EXCEPT !.clash = @ \cup {{a, b}},
                 !.vreg[a].nclashes = @ + 1, !.vreg[b].nclashes = @ + 1]

ClashWith(s, r, rs) == Each(LAMBDA t, x : add_clash(t, x, r), s, rs)

Masked(s, r) == IF r < Magic THEN [s EXCEPT !.mask = @ \cup {r}] ELSE s
live_delete(s, r) == [s EXCEPT !.live = @ \ {r}, !.demand[r] = 0]
reference_register(s, r, bits) ==
  [s EXCEPT !.live = @ \cup {r}, !.demand[r] = IF @ < bits THEN bits ELSE @]

set_register(s, r) ==
  LET t == live_delete(Masked(s, r), r) IN ClashWith(t, r, t.live)

corrupt_physical_register(s, r) ==
  IF r \in s.live THEN [s EXCEPT !.err = "corrupt_register"]
  ELSE ClashWith(Masked(s, r), r, s.live)

set_register_copy(s, r, src) ==
  LET t    == live_delete(s, r)
      like == {x \in Regs : {r, x} \in s.copy /\ x # r /\ s.n.val[x] = s.n.val[r]}
      u    == IF Real(s.n, r) /\ s.n.val[r] = s.n.val[src]
              THEN Each(LAMBDA acc, x : add_copy(acc, src, x), t, like) ELSE t
  IN  add_copy(ClashWith(u, r, t.live \ {r, src}), r, src)

RECURSIVE reg_overlord(_, _, _)
reg_overlord(slave, r1, r2) ==
  /\ slave[r1] # GAP
  /\ slave[r1] = r2 \/ reg_overlord(slave, slave[r1], r2)

set_register_slave(s, r, master) ==
  LET t     == live_delete(s, r)
      slave == [x \in Regs |-> s.vreg[x].slave]
  IN  add_copy(ClashWith(t, r, {x \in t.live : ~reg_overlord(slave, r, x)}), r, master)

\* A load: to a copy, to a plain load of a byte, or to nothing.
Load(s, ic) ==
  LET bits == s.demand[ic.r1]
      t    == [s EXCEPT !.ic = ic, !.want = bits]
  IN  IF ic.r1 \notin s.live
      THEN IF ic.op = "call" THEN set_register([s EXCEPT !.ic = ic], ic.r1)
           ELSE [s EXCEPT !.ic = Noop]
      ELSE CASE ic.op = "movr" -> set_register_copy(t, ic.r1, ic.r3)
             [] ic.op = "ldrv" /\ Var(ic) # GAP -> set_register_copy(t, ic.r1, Var(ic))
             [] ic.op = "movk" /\ ic.r2 # GAP -> set_register_slave(t, ic.r1, ic.r2)
             [] ic.op = "ext" /\ 8 >= bits ->
                  set_register_copy(
                    [t EXCEPT !.ic = [Noop EXCEPT !.op = "movr", !.r1 = ic.r1, !.r3 = ic.r2]],
                    ic.r1, ic.r2)
             [] ic.op = "ldrsb" /\ bits <= 8 -> set_register([t EXCEPT !.ic.op = "ldrb"], ic.r1)
             [] OTHER -> set_register(t, ic.r1)

Store(s, ic) ==
  IF ic.op # "strv" \/ Var(ic) = GAP THEN [s EXCEPT !.ic = ic]
  ELSE IF Var(ic) \in s.live
  THEN set_register_copy([s EXCEPT !.ic = ic, !.want = s.demand[Var(ic)]], Var(ic), ic.r1)
  ELSE [s EXCEPT !.ic = Noop]

increment_refcount(s, r, b) ==
  IF r = GAP THEN s ELSE [s EXCEPT !.vreg[r].refcount = @ + 8 * 2 ^ prog.blocks[b].nest]

Refcounts(s, b) ==
  LET ic == s.ic
      t  == Forward(LAMBDA u, r : increment_refcount(u, r, b), s,
              <<IF ic.op \in LoadsR1 \cup ReadsR1 THEN ic.r1 ELSE GAP,
                IF ic.op \in ReadsR2 THEN ic.r2 ELSE GAP,
                IF ic.op \in ReadsR3 THEN ic.r3 ELSE Var(ic)>>)
  IN  IF Var(ic) = GAP THEN t       \* a use of the variable makes it `real', not a CSE
      ELSE [t EXCEPT !.vreg[Var(ic)].refcount = IF @ % 2 = 0 THEN @ + 1 ELSE @]

\* What is done for the jopcode s.ic, in this order.
Corrupt(s) == Each(corrupt_physical_register, s, COut(s.ic))
Apart(s)   == IF s.ic.op = "mul" THEN add_clash(s, s.ic.r1, s.ic.r3) ELSE s
Define(s)  == Each(set_register, s, Def(s.ic))
Refer(s)   ==
  Forward(LAMBDA t, o : reference_register(t, o[1], o[2]), s,
    [k \in DOMAIN Operands(s.ic) |-> <<Operands(s.ic)[k][2], reg_bitsrefd(s.ic, s.want)>>])
Used(s)    == Each(LAMBDA t, r : reference_register(t, r, 32), s, Use(s.ic))

CollectStep(s, step) ==
  CASE step = "corrupt" -> Corrupt(s)
    [] step = "set"     -> IF s.ic.op \in LoadsR1 THEN Load(s, s.ic) ELSE Store(s, s.ic)
    [] step = "count"   -> Refcounts(s, s.b)
    [] step = "apart"   -> Apart(s)
    [] step = "define"  -> Define(s)
    [] step = "use"     -> Used(s)
    [] step = "refer"   -> Refer(s)

collect_instruction(s0, ic) ==
  LET s == Forward(CollectStep, [s0 EXCEPT !.ic = ic, !.want = 32],
             <<"corrupt", "set", "count", "apart", "define", "use", "refer">>)
  IN  The({[t EXCEPT !.code = <<t.ic>> \o @] : t \in {s}})

collect_register_clashes ==
  /\ ctl.phase = "clash" /\ ctl.at <= Len(code)
  /\ LET b  == ctl.at
         s0 == [clash |-> rel.clash, copy |-> rel.copy, vreg |-> vreg, mask |-> mask,
                live |-> successor_regs(b), err |-> "", n |-> ValueNumbers(b),
                demand |-> [r \in Regs |-> IF r \in successor_regs(b) THEN 32 ELSE 0],
                want |-> 32, ic |-> Noop, b |-> b, code |-> <<>>]
     IN  \E s \in {Backward(LAMBDA ic, t : collect_instruction(t, ic), code[b], s0)} :
         /\ code' = [code EXCEPT ![b] = s.code]
         /\ vreg' = s.vreg
         /\ rel'  = [clash |-> s.clash, copy |-> s.copy]
         /\ mask' = s.mask
         /\ ctl'  = IF s.err = "" THEN [ctl EXCEPT !.at = @ + 1]
                    ELSE [ctl EXCEPT !.phase = "failed", !.err = s.err]
  /\ UNCHANGED <<prog, use, heap, bind, spillset>>

Neighbours(r, pairs) == {x \in Regs : x # r /\ {r, x} \in pairs}

\* The clash lists are flattened before the heap takes the matrix apart.
FlattenClashes ==
  /\ ctl.phase = "clash" /\ ctl.at > Len(code)
  /\ vreg' = [r \in Regs |-> IF r <= Magic THEN vreg[r]
                             ELSE [vreg[r] EXCEPT !.clashes = Neighbours(r, rel.clash)]]
  /\ ctl'  = [ctl EXCEPT !.phase = "heap", !.at = Cardinality(Places) \div 2]
  /\ UNCHANGED <<prog, code, use, rel, heap, bind, mask, spillset>>

-----------------------------------------------------------------------------
(* The heap of registers, the least clashing first *)

has_physical_copy_(v) == v.ncopies >= 65536

reg_cmp(v, w) ==
  LET early(x) == x.nclashes = 0 /\ has_physical_copy_(x)
  IN  CASE early(v) /\ ~early(w) -> 1
        [] early(w) /\ ~early(v) -> 0
        [] OTHER -> IF ~early(v) /\ v.nclashes # w.nclashes THEN v.nclashes - w.nclashes
                    ELSE v.ncopies - w.ncopies

SwapAt(h, i, j) == [h EXCEPT ![i] = h[j], ![j] = h[i]]

RECURSIVE downheap(_, _, _, _), upheap(_, _, _)
downheap(t, h, k, n) ==
  LET j == IF 2 * k < n /\ reg_cmp(t[h[2 * k]], t[h[2 * k + 1]]) > 0 THEN 2 * k + 1 ELSE 2 * k
  IN  IF k > n \div 2 \/ reg_cmp(t[h[k]], t[h[j]]) <= 0 THEN h
      ELSE downheap(t, SwapAt(h, k, j), j, n)

\* The sentinel of -1 clashes stops it at the top.
upheap(t, h, k) ==
  IF k = 1 \/ reg_cmp(t[h[k \div 2]], t[h[k]]) <= 0 THEN h
  ELSE upheap(t, SwapAt(h, k, k \div 2), k \div 2)

BuildHeap ==
  /\ ctl.phase = "heap"
  /\ IF ctl.at >= 1
     THEN /\ heap' = downheap(vreg, heap, ctl.at, Cardinality(Places))
          /\ ctl'  = [ctl EXCEPT !.at = @ - 1]
     ELSE /\ ctl'  = [ctl EXCEPT !.phase = "sort", !.at = Cardinality(Places)]
          /\ UNCHANGED heap
  /\ UNCHANGED <<prog, code, use, vreg, rel, bind, mask, spillset>>

Place(h, r) == CHOOSE k \in Places : h[k] = r

removeclashes_rcb(s, x) ==
  LET t == [s.vreg EXCEPT ![x].nclashes = @ - 1]
  IN  [vreg |-> t,
       heap |-> IF t[x].realreg = Unscheduled THEN upheap(t, s.heap, Place(s.heap, x))
                ELSE s.heap]

\* The register at the top leaves the heap, and its neighbours lose a clash.
ScheduleTop ==
  /\ ctl.phase = "sort"
  /\ IF ctl.at >= 1
     THEN LET r    == heap[1]
              h    == downheap(vreg, SwapAt(heap, 1, ctl.at), 1, ctl.at - 1)
              near == Neighbours(r, rel.clash)
              s    == Each(removeclashes_rcb,
                        [vreg |-> [vreg EXCEPT ![r].realreg = Scheduled], heap |-> h], near)
          IN  /\ heap' = s.heap
              /\ vreg' = [s.vreg EXCEPT ![r].clash2 = near, ![r].clashes = @ \ near,
                                        ![r].nclashes = 0]
              /\ rel'  = [rel EXCEPT !.clash = {p \in @ : r \notin p}]
              /\ ctl'  = [ctl EXCEPT !.at = @ - 1]
     ELSE /\ ctl'  = [ctl EXCEPT !.phase = "choose", !.at = 1]
          /\ UNCHANGED <<heap, vreg, rel>>
  /\ UNCHANGED <<prog, code, use, bind, mask, spillset>>

-----------------------------------------------------------------------------
(* Choice of a real register *)

IsReal(x) == x >= 0
RealsOf(t, rs) == {t[x].realreg : x \in {y \in rs : IsReal(t[y].realreg)}}
Copies(r) == Neighbours(r, rel.copy)

\* The registers that v would like, and does not clash with.
GetPhysicalCopies(t, v) ==
  IF IsReal(t[v].realreg) THEN {t[v].realreg}
  ELSE RealsOf(t, Copies(v)) \ RealsOf(t, t[v].clashes)

\* Those of m that at most one of the registers clashing with r would like.
AvoidTwice(t, r, m) ==
  Each(LAMBDA a, v :
          LET avoid == GetPhysicalCopies(t, v) \cap a.possible
          IN  [possible |-> a.possible \ (avoid \cap a.one), one |-> a.one \cup avoid],
       [possible |-> m, one |-> {}], t[r].clashes).possible

Prefer(t, r, m1) ==
  LET liked == AvoidTwice(t, r, m1 \cap RealsOf(t, Copies(r)))
      free  == m1 \ UNION {GetPhysicalCopies(t, v) : v \in t[r].clashes}
      later == free \cap UNION {RealsOf(t, Copies(v)) :
                                  v \in {c \in Copies(r) : ~IsReal(t[c].realreg)}}
  IN  IF liked # {} THEN liked
      ELSE IF later # {} THEN later
      ELSE IF free # {} THEN free
      ELSE m1

\* Bogus when there is none.  ALLOCATION_ORDER is that of the numbers.
choose_real_register(t, r) ==
  LET m1   == prog.intregs \ RealsOf(t, t[r].clash2)
      best == Prefer(t, r, m1)
      m    == IF best \cap NotPreserved # {} THEN best \cap NotPreserved ELSE best
  IN  IF m1 = {} THEN Bogus ELSE Min(m)

\* The register of a variable to be spilt: the least used of those that clash
\* with rr, or of those allocated.  The list of candidates is in reverse.
spill_binder(t, rr) ==
  LET order == Reverse([i \in DOMAIN prog.binders |-> i])
      cand  == SelectSeq(order, LAMBDA i : bind[i] # GAP /\ t[bind[i]].realreg # Scheduled)
      Near(i) == bind[i] \in {rr} \cup t[rr].clash2
      good  == SelectSeq(cand, Near)
      from  == IF good # <<>> THEN good ELSE cand
      Cost(i) == t[bind[i]].refcount
  IN  IF cand = <<>> THEN GAP
      ELSE Forward(LAMBDA a, i : IF Cost(i) <= Cost(a) THEN i ELSE a, Head(from), from)

\* Mutant: the spilt ones are scheduled again as well.
RestartAll(t, from, to) ==
  [r \in Regs |-> IF \E k \in from .. to : heap[k] = r
                  THEN [t[r] EXCEPT !.realreg = Scheduled] ELSE t[r]]
Restart(t, from, to) ==
  [r \in Regs |-> IF (\E k \in from .. to : heap[k] = r) /\ t[r].realreg # Spilt
                  THEN [t[r] EXCEPT !.realreg = Scheduled] ELSE t[r]]

Give(r, x) ==
  /\ vreg' = [vreg EXCEPT ![r].realreg = x]
  /\ mask' = IF IsReal(x) THEN mask \cup {x} ELSE mask

Spill(rr) ==
  LET t     == [vreg EXCEPT ![rr].realreg = Bogus]
      b     == spill_binder(t, rr)
      r1    == bind[b]
      spilt == [t EXCEPT ![r1].realreg = Spilt, ![r1].binder = b]
  IN  IF b = GAP
      THEN /\ ctl' = [ctl EXCEPT !.phase = "failed", !.err = "fail_to_spill"]
           /\ vreg' = t /\ UNCHANGED <<bind, spillset>>
      ELSE /\ vreg' = Restart(spilt, Place(heap, r1), ctl.at)
           /\ bind' = [bind EXCEPT ![b] = GAP]
           /\ spillset' = spillset \cup {r1}
           /\ ctl' = [ctl EXCEPT !.at = Place(heap, r1),
                                 !.spills = IF CountSpills THEN @ + 1 ELSE @]

\* One round of the loop that allocates.
ChooseOrSpill ==
  /\ ctl.phase = "choose" /\ ctl.at \in Places
  /\ LET rr == heap[ctl.at]
         x  == choose_real_register(vreg, rr)
     IN  IF vreg[rr].realreg = Spilt
         THEN ctl' = [ctl EXCEPT !.at = @ + 1] /\ UNCHANGED <<vreg, mask, bind, spillset>>
         ELSE IF IsReal(x)
         THEN /\ Give(rr, x) /\ ctl' = [ctl EXCEPT !.at = @ + 1]
              /\ UNCHANGED <<bind, spillset>>
         ELSE Spill(rr) /\ UNCHANGED mask
  /\ UNCHANGED <<prog, code, use, rel, heap>>

\* Each of two clashing registers, one of them spilt, is told of the other.
CleanOrNot ==
  /\ ctl.phase = "choose" /\ ctl.at \notin Places
  /\ IF ctl.spills > 1
     THEN /\ vreg' = [r \in Regs |->
                        IF r \notin spillset THEN vreg[r]
                        ELSE [vreg[r] EXCEPT !.clash2 =
                               @ \cup {x \in Range(heap) : r \in vreg[x].clash2}]]
          /\ ctl'  = [ctl EXCEPT !.phase = "clean", !.at = 1]
     ELSE /\ ctl'  = [ctl EXCEPT !.phase = "flags", !.at = 1]
          /\ UNCHANGED vreg
  /\ UNCHANGED <<prog, code, use, rel, heap, bind, mask, spillset>>

\* Another try for what has been spilt.
Unspill ==
  /\ ctl.phase = "clean" /\ ctl.at \in Places
  /\ LET rr == heap[ctl.at]
         x  == choose_real_register(vreg, rr)
     IN  IF vreg[rr].realreg # Spilt THEN UNCHANGED <<vreg, mask, bind>>
         ELSE /\ Give(rr, x)
              /\ bind' = IF IsReal(x) THEN [bind EXCEPT ![vreg[rr].binder] = rr] ELSE bind
  /\ ctl' = [ctl EXCEPT !.at = @ + 1]
  /\ UNCHANGED <<prog, code, use, rel, heap, spillset>>

CleanDone ==
  /\ ctl.phase = "clean" /\ ctl.at \notin Places
  /\ ctl' = [ctl EXCEPT !.phase = "flags", !.at = 1]
  /\ UNCHANGED <<prog, code, use, vreg, rel, heap, bind, mask, spillset>>

-----------------------------------------------------------------------------
(* Marks of death, now that registers share *)

SharedLive(r, live) ==
  IsReal(vreg[r].realreg)
  /\ \E x \in live \ {r} : vreg[x].realreg = vreg[r].realreg

\* Mutant: only the marks of the second operand are looked at.
TrueDeathsOfR2(ic, live) ==
  {k \in ic.dead : k # 2 \/ ~SharedLive(Operand(ic, k), live)}
TrueDeaths(ic, live) ==
  {k \in ic.dead : Operand(ic, k) = GAP \/ ~SharedLive(Operand(ic, k), live)}

FlagsOf(b) ==
  Backward(LAMBDA ic, s :
      LET loads   == ic.op \in LoadsR1
          removed == loads /\ ic.r1 \in s.live
          live    == s.live \ (IF loads THEN {ic.r1} ELSE {})
      IN  [live |-> add_instruction_info(ic, live, removed).live,
           code |-> <<[ic EXCEPT !.dead = TrueDeaths(ic, live)]>> \o s.code],
    code[b], [live |-> successor_regs(b), code |-> <<>>]).code

update_deadflags ==
  /\ ctl.phase = "flags"
  /\ IF ctl.at \in Blocks
     THEN /\ code' = [code EXCEPT ![ctl.at] = FlagsOf(ctl.at)]
          /\ ctl'  = [ctl EXCEPT !.at = @ + 1]
     ELSE /\ ctl'  = [ctl EXCEPT !.phase = "done"]
          /\ UNCHANGED code
  /\ UNCHANGED <<prog, use, vreg, rel, heap, bind, mask, spillset>>

-----------------------------------------------------------------------------

\* regalloc_changephase, the register variables and the slaves.
note_slaveFirst(masters) == IF masters = {} THEN GAP ELSE Min(masters)    \* mutant
note_slave(masters) == IF Cardinality(masters) = 1 THEN Min(masters) ELSE GAP

Masters(p, r) ==
  {ic.r2 : ic \in {i \in UNION {Range(p.blocks[b].code) : b \in DOMAIN p.blocks} :
                     i.op = "movk" /\ i.r1 = r /\ i.r2 # GAP}}

RegisterVariable(p, r) == \E i \in DOMAIN p.binders : p.binders[i] = r /\ i \in p.register

NewVReg(p, r) ==
  [realreg  |-> IF r < Magic THEN r ELSE Unscheduled,
   nclashes |-> IF r = Magic THEN -1 ELSE 0,
   ncopies  |-> 0,
   refcount |-> IF RegisterVariable(p, r) THEN 1000000 ELSE 0,
   slave    |-> note_slave(Masters(p, r)),
   clashes  |-> {}, clash2 |-> {}, binder |-> GAP]

Init ==
  /\ prog \in Programs
  /\ code = [b \in DOMAIN prog.blocks |-> prog.blocks[b].code]
  /\ use  = [b \in DOMAIN prog.blocks |-> {}]
  /\ vreg = [r \in 0 .. Magic + prog.nregs |-> NewVReg(prog, r)]
  /\ rel  = [clash |-> {}, copy |-> {}]
  /\ heap = [k \in 1 .. prog.nregs |-> Magic + k]
  /\ bind = prog.binders
  /\ mask = {} /\ spillset = {}
  /\ ctl  = [phase |-> "info", at |-> Len(code), changed |-> FALSE, err |-> "", spills |-> 0]

Next ==
  \/ update_block_use_info \/ InfoAgain
  \/ collect_register_clashes \/ FlattenClashes
  \/ BuildHeap \/ ScheduleTop
  \/ ChooseOrSpill \/ CleanOrNot \/ Unspill \/ CleanDone
  \/ update_deadflags

\* allocate_registers is one call, which nothing interrupts.
Spec == Init /\ [][Next]_vars /\ WF_vars(Next)

-----------------------------------------------------------------------------
(* The code that is dumped *)

R(r) == IF r = GAP THEN GAP ELSE vreg[r].realreg
Move(d, s, dead) == [Noop EXCEPT !.op = "movr", !.r1 = d, !.r3 = s, !.dead = dead]
Only(dead, k, as) == IF k \in dead THEN {as} ELSE {}

\* remove_noops on one jopcode, its registers made real.
remove_noops(ic) ==
  CASE ic.op \in UsesStack /\ IsReal(R(Var(ic))) ->
         IF R(ic.r1) = R(Var(ic)) THEN Noop
         ELSE IF ic.op = "ldrv" THEN Move(R(ic.r1), R(Var(ic)), ic.dead)
         ELSE Move(R(Var(ic)), R(ic.r1), Only(ic.dead, 1, 3))
    [] ic.op = "movk" ->
         IF ~IsReal(R(ic.r1)) \/ R(ic.r1) = R(ic.r2) THEN Noop
         ELSE IF IsReal(R(ic.r2)) THEN Move(R(ic.r1), R(ic.r2), Only(ic.dead, 2, 3))
         ELSE [ic EXCEPT !.r1 = R(ic.r1), !.r2 = GAP, !.dead = {}]
    [] ic.op = "movr" ->
         IF ~IsReal(R(ic.r1)) \/ R(ic.r1) = R(ic.r3) THEN Noop
         ELSE [ic EXCEPT !.r1 = R(@), !.r3 = R(@)]
    [] OTHER ->
         [ic EXCEPT !.r1 = R(@), !.r2 = R(@), !.r3 = IF ic.op \in ReadsR3 THEN R(@) ELSE @]

Final(b) == [i \in DOMAIN code[b] |-> remove_noops(code[b][i])]

-----------------------------------------------------------------------------
(* What code does: a value is its low byte and the whole of it *)

Whole(x) == [lo |-> x, hi |-> x]

Sets(m, r, v) == [m EXCEPT !.reg[r] = v]

Does(m, ic) ==
  LET a == IF ic.r2 = GAP THEN Whole(<<"none">>) ELSE m.reg[ic.r2]
      c == IF ic.op \in ReadsR3 THEN m.reg[ic.r3] ELSE Whole(<<"none">>)
  IN  CASE ic.op = "enter" -> Sets(m, A1, Whole(<<"arg">>))
        [] ic.op = "movr"  -> Sets(m, ic.r1, c)
        [] ic.op = "movk"  -> Sets(m, ic.r1, Whole(<<"const", ic.r3>>))
        [] ic.op \in {"add", "mul"} ->
             Sets(m, ic.r1, [lo |-> <<ic.op, a.lo, c.lo>>, hi |-> <<ic.op, a, c>>])
        [] ic.op = "shr"   -> Sets(m, ic.r1, Whole(<<"shr", a, c>>))
        [] ic.op = "ext"   -> Sets(m, ic.r1, [lo |-> a.lo, hi |-> <<"sign", a.lo>>])
        [] ic.op = "ldrsb" ->
             Sets(m, ic.r1, [lo |-> <<"byte", ic.r3>>, hi |-> <<"sign", <<"byte", ic.r3>>>>])
        [] ic.op = "ldrb"  -> Sets(m, ic.r1, [lo |-> <<"byte", ic.r3>>, hi |-> <<"zero">>])
        [] ic.op = "ldrv"  -> Sets(m, ic.r1, m.mem[ic.r3])
        [] ic.op = "strv"  -> [m EXCEPT !.mem[ic.r3] = m.reg[ic.r1]]
        [] ic.op = "strb"  -> [m EXCEPT !.seen = Append(@, <<"strb", m.reg[ic.r1].lo>>)]
        [] ic.op = "cmp"   -> [m EXCEPT !.seen = Append(@, <<"cmp", a, c>>)]
        [] ic.op = "call"  ->
             [m EXCEPT !.seen = Append(@, <<"call", m.reg[A1]>>),
                       !.reg = [r \in DOMAIN @ |->
                          IF r = A1 THEN Whole(<<"result", Len(m.seen)>>)
                          ELSE IF r \in COut(ic) THEN Whole(<<"junk", r>>) ELSE @[r]]]
        [] OTHER -> m

RECURSIVE Paths(_, _)
Paths(b, d) ==
  IF b \notin Blocks \/ d = 0 THEN {<<b>>}
  ELSE {<<b>> \o p : p \in UNION {Paths(l, d - 1) : l \in Successors(b)}}

\* What is seen of the blocks c on a path, up to the result.
Seen(c, path, regs) ==
  LET m0 == [reg |-> [r \in regs |-> Whole(<<"unset", r>>)],
             mem |-> [i \in DOMAIN prog.binders |-> Whole(<<"unset", i>>)], seen |-> <<>>]
      m  == Forward(LAMBDA s, b : IF b \in Blocks THEN Forward(Does, s, c[b])
                                   ELSE IF b = RetInt
                                   THEN [s EXCEPT !.seen = Append(@, <<"return", s.reg[A1]>>)]
                                   ELSE s, m0, path)
  IN  m.seen

(* What must be live in the dumped code *)

Reads(ic)  == {o[2] : o \in Range(Operands(ic))} \cup Use(ic)
Writes(ic) == (IF ic.op \in LoadsR1 THEN {ic.r1} ELSE {}) \cup Def(ic) \cup COut(ic)
Before(ic, live) == (live \ Writes(ic)) \cup Reads(ic)
LiveIn(c, live) == Backward(Before, c, live)
LiveOut(heads, b) ==
  UNION {IF l \in Blocks THEN heads[l] ELSE exitregset(l) : l \in Successors(b)}

Heads(c) ==
  Forward(LAMBDA h, i : [b \in Blocks |-> LiveIn(c[b], LiveOut(h, b))],
           [b \in Blocks |-> {}], [i \in 1 .. Len(code) + 1 |-> i])

-----------------------------------------------------------------------------
(* Properties *)

\* The dumped code shows the same comparisons, calls, stores and result as the
\* code that came in, although registers that hold copies or slaves of one
\* value share, and extensions and whole variables have gone; it multiplies
\* into another register than the last operand, and each register that a
\* caller wants preserved and the code writes is in regmaskvec.
SameCode ==
  ctl.phase = "done" =>
    LET c == [b \in Blocks |-> Final(b)]
        all == UNION {Range(c[b]) : b \in Blocks}
    IN  /\ \A p \in Paths(1, Depth) :
             Seen(c, p, 0 .. Magic - 1) = Seen([b \in Blocks |-> prog.blocks[b].code], p, Regs)
        /\ \A ic \in all : ic.op = "mul" => ic.r1 # ic.r3
        /\ UNION {Writes(ic) : ic \in all} \ NotPreserved \subseteq mask

\* An operand that the dumped code marks dead is in a register whose value is
\* not read again (the peepholer takes such a register for its own use).
DeadBitsTrue ==
  ctl.phase = "done" =>
    LET c == [b \in Blocks |-> Final(b)]
        h == Heads(c)
    IN  \A b \in Blocks : \A i \in DOMAIN c[b] : \A k \in c[b][i].dead :
          LET after == LiveIn(SubSeq(c[b], i + 1, Len(c[b])), LiveOut(h, b))
          IN  Operand(c[b][i], k) \notin after \ Writes(c[b][i])

\* Spilling and starting again from the register spilt comes to an end, with
\* every register placed and none of the compiler's own checks failed.
SpillsEnd == <>(ctl.phase = "done")

=============================================================================
