------------------------------ MODULE FlowDump ------------------------------
(***************************************************************************)
(* The dump of a flow graph as code (mip/flowgraf.c): dump_flowgraph lays  *)
(* the blocks out one after the other, use_cond_field executes short ones  *)
(* conditionally instead of branching around them.                         *)
(*                                                                         *)
(* For functions in which try_shrinkwrap lifts nothing above the save of   *)
(* registers, compiled for no debugger.                                    *)
(***************************************************************************)
EXTENDS FlowGraph

CONSTANTS
  CondMax_Ordinary, CondMax_Loop,  \* longest blocks executed conditionally
  Nests                            \* sets of blocks in an inner loop to try

ASSUME DumpAssumption == CondMax_Ordinary \in Nat /\ CondMax_Loop \in Nat

VARIABLE dump  \* <<>> before the dump

RETLAB  == -1
NOTALAB == -2
Bpcc_No == 255

Item(op, cond, arg) == [op |-> op, cond |-> cond, arg |-> arg]

Q_NEGATE(c) ==
  [EQ |-> "NE", NE |-> "EQ", HS |-> "LO", LO |-> "HS", HI |-> "LS", LS |-> "HI", AL |-> "NV"][c]

\* One condition holds whenever the other does.
Q_implies(c1, c2) ==
  \/ c1 = c2
  \/ c1 = "EQ" /\ c2 \in {"HS", "LS"}
  \/ <<c1, c2>> \in {<<"HI", "HS">>, <<"LO", "LS">>, <<"HI", "NE">>, <<"LO", "NE">>}

----------------------------------------------------------------------------
(* The dump under way, d: the blocks, those coded, out the code so far (a  *)
(* sequence of [op, cond, arg]), prevblock and pending_branch.             *)

BlkCond(d, b) == d.blk[b].cond
Flagged(d, b, flag) == flag \in d.blk[b].flags

Emit(d, items) == [d EXCEPT !.out = @ \o items]
show_branch(d, cond, l) == Emit(d, <<Item("branch", cond, l)>>)
set_cond_execution(d, cond) == Emit(d, <<Item("when", cond, 0)>>)
Insts(code, n) == [i \in DOMAIN code |-> Item(code[i], "AL", n)]
Returned(d, l) == IF l = way_out THEN RETLAB ELSE l
Pending(d, l) == [d EXCEPT !.pending = l]

\* A block without a label is one that only the block before it leads to.
show_basic_block(d, p) ==
  LET bare == /\ d.prev # NULL /\ Len(used[p]) = 1 /\ Head(used[p]) = d.prev
              /\ ~Flagged(d, d.prev, "SWITCH")
      label == IF bare THEN <<>> ELSE <<Item("label", "AL", p)>>
      e == Emit(d, label \o Insts(d.blk[p].code, Len(d.blk[p].table)))
  IN  [e EXCEPT !.coded = @ \cup {p}, !.prev = p]

show_conditional_block(d, cond, p, showbranch) ==
  LET e == show_basic_block(set_cond_execution(d, cond), p)
      f == IF ~Flagged(d, p, "0EXIT") /\ showbranch
           THEN show_branch(e, "AL", Returned(d, d.blk[p].next)) ELSE e
  IN  set_cond_execution([f EXCEPT !.prev = NULL], "AL")

----------------------------------------------------------------------------
(* What may be executed conditionally.                                     *)

block_single_entry(b) == Len(used[b]) <= 1
block_single_exit(d, b) == d.blk[b].flags \cap {"2EXIT", "SWITCH"} = {}
Uncoded(d, l) == l # way_out /\ l \notin d.coded

alterscc(c) == c \in {"cmp", "case", "call", "tailcall"}

\* The number of instructions of a block that leaves the condition codes
\* alone, but for its last one if last allows that; Bpcc_No if it is not one.
block_preserves_cc(d, b, ignorecmp, last, maxl) ==
  LET code  == d.blk[b].code
      plain == IF ignorecmp THEN Len(code) - 1 ELSE Len(code)
      kept  == IF last THEN plain - 1 ELSE plain
  IN  IF Len(code) > maxl \/ \E i \in 1 .. kept : alterscc(code[i])
      THEN Bpcc_No ELSE Len(code)

successor_inline(d, b) ==
  LET b1 == d.blk[b].next
      after == SelectSeq(SubSeq(order, 1 + CHOOSE i \in DOMAIN order : order[i] = b, Len(order)),
                         LAMBDA x : ~Flagged(d, x, "EMPTY"))
  IN  /\ Uncoded(d, b1)
      /\ \/ Range(used[b1]) \subseteq d.coded \cup {b, b1}
         \/ after = <<>> \/ Head(after) = b1

\* The instructions two blocks begin with alike.
RECURSIVE Prefix(_, _)
Prefix(c1, c2) ==
  IF c1 = <<>> \/ c2 = <<>> THEN 0
  ELSE IF Head(c1) # Head(c2) \/ alterscc(Head(c1)) THEN 0
  ELSE 1 + Prefix(Tail(c1), Tail(c2))

\* The pairs of places at which the codes c1 and c2 have the same instruction,
\* found from the front on.
RECURSIVE common_insts(_, _, _, _)
common_insts(c1, c2, n1, n2) ==
  IF n1 > Len(c1) THEN <<>>
  ELSE LET at == {p \in n2 .. Len(c2) : c2[p] = c1[n1] /\ ~alterscc(c1[n1])}
       IN  IF at = {} THEN common_insts(c1, c2, n1 + 1, n2)
           ELSE <<<<n1, Min(at)>>>> \o common_insts(c1, c2, n1 + 1, Min(at) + 1)

\* Two blocks, c1 under cond and c2 under its negation; what they have in
\* common is executed in any case.
RECURSIVE show_block_pair(_, _, _, _, _)
show_block_pair(cond, c1, c2, p, common) ==
  LET to == IF common = <<>> THEN <<Len(c1) + 1, Len(c2) + 1>> ELSE Head(common)
      When(c, code, i) ==
        LET part == SubSeq(code, p[i], to[i] - 1)
        IN  IF part = <<>> THEN <<>> ELSE <<Item("when", c, 0)>> \o Insts(part, 0)
      parts == When(cond, c1, 1) \o When(Q_NEGATE(cond), c2, 2)
  IN  IF common = <<>> THEN parts
      ELSE parts \o <<Item("when", "AL", 0), Item(c1[to[1]], "AL", 0)>>
           \o show_block_pair(cond, c1, c2, <<to[1] + 1, to[2] + 1>>, Tail(common))

----------------------------------------------------------------------------
(* use_cond_field: a block p with a test.  u holds the dump and what is    *)
(* decided meanwhile: the condition for next1, the exits, the number of    *)
(* blocks of the chain that lead to next1, and the common instructions.    *)

\* From bh on, the blocks with a test that have an exit to common.
RECURSIVE Chain(_, _, _, _, _)
Chain(d, bh, common, cond2, total) ==
  LET n == IF Uncoded(d, bh) /\ block_single_entry(bh) /\ Flagged(d, bh, "2EXIT")
           THEN block_preserves_cc(d, bh, TRUE, FALSE, CondMax_Ordinary) ELSE Bpcc_No
      c == BlkCond(d, bh)
      turned == [d EXCEPT !.blk[bh].next = d.blk[bh].next1, !.blk[bh].next1 = d.blk[bh].next,
                          !.blk[bh].cond = Q_NEGATE(c)]
      stop == [d |-> d, blocks |-> <<>>, next |-> bh, cond2 |-> cond2]
      On(e, next, cond) ==
        LET r == IF next = way_out THEN [d |-> e, blocks |-> <<>>, next |-> next, cond2 |-> cond]
                 ELSE Chain(e, next, common, cond, total + n)
        IN  [r EXCEPT !.blocks = <<bh>> \o @]
  IN  IF total + n > CondMax_Ordinary THEN stop
      ELSE IF d.blk[bh].next1 = common /\ Q_implies(Q_NEGATE(c), cond2)
      THEN On(d, d.blk[bh].next, Q_NEGATE(c))
      ELSE IF d.blk[bh].next = common /\ Q_implies(c, cond2)
      THEN On(turned, d.blk[bh].next1, c)
      ELSE stop

\* Mutant: the implication the wrong way round.
BeginsConversely(d, bh, common, cond) ==
  /\ Uncoded(d, bh) /\ block_single_entry(bh) /\ Flagged(d, bh, "2EXIT")
  /\ block_preserves_cc(d, bh, TRUE, FALSE, CondMax_Ordinary) # Bpcc_No
  /\ \/ d.blk[bh].next = common /\ Q_implies(cond, BlkCond(d, bh))
     \/ d.blk[bh].next1 = common /\ Q_implies(cond, Q_NEGATE(BlkCond(d, bh)))

\* The block bh begins a chain of blocks that lead to common if p leads there.
Begins(d, bh, common, cond) ==
  /\ Uncoded(d, bh) /\ block_single_entry(bh) /\ Flagged(d, bh, "2EXIT")
  /\ block_preserves_cc(d, bh, TRUE, FALSE, CondMax_Ordinary) # Bpcc_No
  /\ \/ d.blk[bh].next = common /\ Q_implies(BlkCond(d, bh), cond)
     \/ d.blk[bh].next1 = common /\ Q_implies(Q_NEGATE(BlkCond(d, bh)), cond)

\* p and the blocks of a chain, each executed if none before it went to the
\* exit they have in common.
show_blockchain(d, p, blocks, cond) ==
  LET Next1(e, i) ==
        LET f == show_basic_block(e, blocks[i])
        IN  IF i = Len(blocks) THEN f
            ELSE set_cond_execution(f, Q_NEGATE(BlkCond(e, blocks[i])))
      Shown[i \in 0 .. Len(blocks)] ==
        IF i = 0 THEN set_cond_execution(show_basic_block(d, p), cond) ELSE Next1(Shown[i - 1], i)
  IN  set_cond_execution(Shown[Len(blocks)], "AL")

\* What is decided first: [d, cond, next, next1, arcs]; arcs is 1 if p has
\* not been shown yet.
FindChain(d, p) ==
  LET next  == d.blk[p].next
      next1 == d.blk[p].next1
      cond  == BlkCond(d, p)
      Found(bh, common, c) ==
        LET here == IF d.blk[bh].next = common THEN BlkCond(d, bh) ELSE Q_NEGATE(BlkCond(d, bh))
            r == Chain(d, bh, common, here, 0)
        IN  [d |-> show_blockchain(r.d, p, r.blocks, c), cond |-> Q_NEGATE(r.cond2),
             next |-> r.next, next1 |-> common, arcs |-> Len(r.blocks) + 1]
  IN  IF Begins(d, next, next1, Q_NEGATE(cond)) THEN Found(next, next1, Q_NEGATE(cond))
      ELSE IF Begins(d, next1, next, cond) THEN Found(next1, next, cond)
      ELSE [d |-> d, cond |-> cond, next |-> next, next1 |-> next1, arcs |-> 1]

\* The common beginning of both exits, which is executed before the choice.
TakePrefix(u) ==
  LET b == u.next  b1 == u.next1
      c == u.d.blk[b].code  c1 == u.d.blk[b1].code
      n == IF /\ Uncoded(u.d, b) /\ Uncoded(u.d, b1)
              /\ block_single_entry(b) /\ Len(used[b1]) = u.arcs
           THEN Prefix(c, c1) ELSE 0
  IN  [d |-> [u.d EXCEPT !.blk[b].code = SubSeq(c, n + 1, Len(c)),
                         !.blk[b1].code = SubSeq(c1, n + 1, Len(c1))],
       cond |-> u.cond, next |-> b, next1 |-> b1, arcs |-> u.arcs, common |-> SubSeq(c, 1, n)]

Conditional(u, cond, q, other, branch) ==
  Pending(show_conditional_block(u, cond, q, branch), Returned(u, other))

\* How the test of a block goes on, when what is common to its exits has been
\* taken out of them: t is the outcome of TakePrefix for the block p.
Decided(t, p, nest) ==
  LET b == t.next  b1 == t.next1  e == t.d
      Head1 == Emit(IF t.arcs = 1 THEN show_basic_block(e, p) ELSE e, Insts(t.common, 0))
      Short(x, single, last) ==
        IF Uncoded(e, x) /\ block_single_exit(e, x) /\ single
        THEN block_preserves_cc(e, x, FALSE, last, CondMax_Loop) ELSE Bpcc_No
      \* with a last instruction that may alter the codes, and without
      condb   == Short(b, block_single_entry(b), FALSE)
      condb1  == Short(b1, Len(used[b1]) = t.arcs, FALSE)
      lcondb  == Short(b, block_single_entry(b), TRUE)
      lcondb1 == Short(b1, Len(used[b1]) = t.arcs, TRUE)
      Deep(x) == IF x \in nest THEN 1 ELSE 0
      Show(x, branch) ==
        IF x = b THEN Conditional(Head1, Q_NEGATE(t.cond), b, b1, branch)
                 ELSE Conditional(Head1, t.cond, b1, b, branch)
      ToNext1 == Pending(show_branch(Head1, Q_NEGATE(t.cond), Returned(e, b)), Returned(e, b1))
      ToNext  == Pending(show_branch(Head1, t.cond, Returned(e, b1)), Returned(e, b))
      Pair ==
        LET c  == e.blk[b].code
            c1 == e.blk[b1].code
            on == e.blk[b].next
        IN  Pending([Emit(Head1, show_block_pair(t.cond, c1, c, <<1, 1>>, common_insts(c1, c, 1, 1))
                                 \o <<Item("when", "AL", 0)>>)
                       EXCEPT !.coded = @ \cup {b, b1}],
                    IF on = way_out /\ Flagged(e, b, "0EXIT") /\ Flagged(e, b1, "0EXIT")
                    THEN NOTALAB ELSE Returned(e, on))
      Before(x, y) == \E i, j \in DOMAIN order : i < j /\ order[i] = x /\ order[j] = y
  IN  IF b = b1 THEN Pending(e, b)
      ELSE IF b \in e.coded \ {way_out}
              /\ (b1 \notin e.coded \ {way_out} \/ Deep(b) > Deep(b1)) THEN ToNext1
      ELSE IF b1 \in e.coded \ {way_out} THEN ToNext
      ELSE IF /\ condb <= CondMax_Ordinary /\ condb1 <= CondMax_Ordinary
              /\ e.blk[b].next = e.blk[b1].next THEN Pair
      ELSE IF lcondb <= CondMax_Ordinary /\ e.blk[b].next = b1 THEN Show(b, FALSE)
      ELSE IF lcondb1 <= CondMax_Ordinary /\ e.blk[b1].next = b THEN Show(b1, FALSE)
      ELSE IF condb <= CondMax_Loop /\ condb1 <= CondMax_Loop /\ Deep(b) # Deep(b1)
           THEN Show(IF Deep(b) > Deep(b1) THEN b ELSE b1, TRUE)
      ELSE IF condb <= CondMax_Ordinary /\ ~successor_inline(e, b) THEN Show(b, TRUE)
      ELSE IF condb1 <= CondMax_Ordinary /\ ~successor_inline(e, b1) THEN Show(b1, TRUE)
      ELSE IF b = way_out THEN ToNext1
      ELSE IF b1 = way_out THEN ToNext
      ELSE IF ~Before(b, b1) \/ (e.blk[b1].next = b /\ t.common = <<>>) THEN ToNext1
      ELSE ToNext

----------------------------------------------------------------------------
(* dump_flowgraph: dump.p is the block to be shown next, NULL when the     *)
(* blocks from place dump.p1 of their order on are to be looked through.   *)

DumpStarts ==
  /\ phase = "done"
  /\ \E nest \in Nests :
       dump' = [blk |-> blk, coded |-> {way_out}, out |-> <<>>, prev |-> NULL,
                pending |-> NOTALAB, p |-> NULL, p1 |-> 1, nest |-> nest]
  /\ phase' = "dump"
  /\ UNCHANGED <<prog, blk, order, used, stage, walk, scan, left>>

\* Mutant: blocks shown out of their order are shown again.
ToShowAll == {i \in dump.p1 .. Len(order) :
                Flagged(dump, order[i], "ALIVE") /\ order[i] # way_out}

ToShow == {i \in dump.p1 .. Len(order) :
             Flagged(dump, order[i], "ALIVE") /\ order[i] \notin dump.coded}

DumpAdvances ==
  /\ phase = "dump" /\ dump.p = NULL /\ ToShow # {}
  /\ dump' = [dump EXCEPT !.p = order[Min(ToShow)], !.p1 = Min(ToShow) + 1]
  /\ UNCHANGED vars

\* The block after p is the one to come, if all that lead there are coded.
Follows(d, p) ==
  LET q == d.pending
  IN  /\ q \notin {NOTALAB, RETLAB} \cup d.coded /\ ~Flagged(d, p, "LOOP")
      /\ \/ Range(used[q]) \subseteq d.coded \cup {q}
         \/ \E i \in 2 .. Len(order) : order[i - 1] = p /\ order[i] = q

Shows(d) ==
  /\ dump' = [d EXCEPT !.p = IF Follows(d, dump.p) THEN d.pending ELSE NULL]
  /\ UNCHANGED vars

Showing == phase = "dump" /\ dump.p # NULL /\ ~Flagged(dump, dump.p, "EMPTY")

\* There is no branch to a block that comes next.
Arrived == IF dump.pending \in {NOTALAB, dump.p} THEN dump ELSE show_branch(dump, "AL", dump.pending)

\* All entries of a switch but the last are branches in a table.
ShowSwitch ==
  /\ Showing /\ Flagged(dump, dump.p, "SWITCH")
  /\ LET v == [i \in DOMAIN dump.blk[dump.p].table |-> Returned(dump, dump.blk[dump.p].table[i])]
     IN  \E d \in {Pending(Emit(show_basic_block(Arrived, dump.p),
                                [i \in 1 .. Len(v) - 1 |-> Item("branch", "AL", v[i])]), Last(v))} :
           Shows(d)

Tests == /\ Flagged(dump, dump.p, "2EXIT")
         /\ dump.blk[dump.p].next # dump.blk[dump.p].next1

ShowPlain ==
  /\ Showing /\ ~Flagged(dump, dump.p, "SWITCH") /\ ~Tests
  /\ \E d \in {Pending(show_basic_block(Arrived, dump.p),
                        IF Flagged(dump, dump.p, "0EXIT") THEN NOTALAB
                        ELSE Returned(dump, dump.blk[dump.p].next))} : Shows(d)

use_cond_field ==
  /\ Showing /\ ~Flagged(dump, dump.p, "SWITCH") /\ Tests
  /\ \E d \in {FindChain([Arrived EXCEPT !.coded = @ \cup {dump.p}], dump.p)} :
       \E t \in {TakePrefix(d)} :
         \E e \in {Decided(t, dump.p, dump.nest)} : Shows(e)

\* "live empty block" is an internal error of the compiler.
DumpFails ==
  /\ phase = "dump" /\ dump.p # NULL /\ Flagged(dump, dump.p, "EMPTY")
  /\ phase' = "syserr"
  /\ UNCHANGED <<prog, blk, order, used, stage, walk, scan, left, dump>>

DumpEnds ==
  /\ phase = "dump" /\ dump.p = NULL /\ ToShow = {}
  /\ dump' = IF dump.pending = NOTALAB THEN dump ELSE show_branch(dump, "AL", dump.pending)
  /\ phase' = "dumped"
  /\ UNCHANGED <<prog, blk, order, used, stage, walk, scan, left>>

allvars == <<vars, dump>>

DumpInit == Init /\ dump = <<>>
DumpNext == (Next /\ UNCHANGED dump) \/ DumpStarts \/ DumpAdvances \/ ShowSwitch \/ ShowPlain
            \/ use_cond_field \/ DumpFails \/ DumpEnds

\* linearize_code is one call: it goes on as long as it has something to do.
DumpSpec == DumpInit /\ [][DumpNext]_allvars /\ WF_allvars(DumpNext)

----------------------------------------------------------------------------
(* Properties.                                                             *)

flat == dump.out

Labels(l) == {i \in DOMAIN flat : flat[i].op = "label" /\ flat[i].arg = l}

\* The condition the code at pc is executed under.
When(pc) ==
  LET before == {j \in 1 .. pc - 1 : flat[j].op = "when"}
  IN  IF flat[pc].op \in {"label", "when"} THEN "AL"
      ELSE IF flat[pc].cond # "AL" \/ before = {} THEN flat[pc].cond ELSE flat[Max(before)].cond

\* What the code at pc does, as a tree: x is the outcome of the last compare,
\* n and idle are as for Tree.
RECURSIVE Run(_, _, _, _)
Run(pc, x, n, idle) ==
  IF pc > Len(flat) THEN <<"end">>
  ELSE IF n = 0 THEN <<>>
  ELSE
  LET i  == flat[pc]
      On == Run(pc + 1, x, n, IF i.op = "label" THEN idle \cup {i.arg} ELSE idle)
      Branch(l) == IF l = RETLAB THEN <<"return">>
                   ELSE IF Labels(l) = {} THEN <<"nowhere">>
                   ELSE Run(CHOOSE j \in Labels(l) : TRUE, x, n, idle)
  IN  IF When(pc) # "AL" /\ x = "unknown" THEN <<"garbage">>
      ELSE IF i.op = "label" /\ i.arg \in idle THEN <<"spin">>
      ELSE IF ~Holds(When(pc), x) \/ i.op \in {"label", "when", "move"} THEN On
      ELSE CASE i.op = "branch" -> Branch(i.arg)
             [] i.op = "cmp" -> Choice(Run(pc + 1, "lower", n, idle), Run(pc + 1, "same", n, idle),
                                       Run(pc + 1, "higher", n, idle))
             [] i.op = "case" ->
                  <<"case">> \o [k \in 1 .. i.arg |-> Run(pc + k, "unknown", n, idle)]
             [] i.op = "tailcall" -> IF n = 1 THEN <<"call">> ELSE <<"call", "return">>
             [] OTHER -> <<i.op>> \o Run(pc + 1, IF i.op = "call" THEN "unknown" ELSE x, n - 1, {})

\* Blocks dumped with a predecessor that is not in their list: branch_chain
\* redirects branches after the lists were made.
Stale == {l \in AliveBlocks \ {way_out} : \E b \in AliveBlocks \ {way_out} :
            Contains(Successors(blk, b), l) /\ ~Contains(used[l], b)}

\* The code does what the function did as it was generated, whatever is
\* executed conditionally, in pairs or before the test, and in whatever order
\* the blocks are laid out.
FlatSame ==
  phase = "dumped" /\ left = {} /\ Stale = {} =>
    Run(1, "unknown", Depth, {}) = Tree(prog, DOMAIN prog, top_block, Depth, {})

\* No label is set twice: blocks are dumped out of their order, and some inside
\* others, but none again.
LabelsOnce ==
  phase = "dumped" => \A i, j \in DOMAIN flat :
    flat[i].op = "label" /\ flat[j].op = "label" /\ flat[i].arg = flat[j].arg => i = j

\* Blocks executed conditionally "are not reached from elsewhere": where code
\* branches to, code is executed in any case.
NotReachedFromElsewhere ==
  phase = "dumped" => \A i \in DOMAIN flat : flat[i].op = "branch" =>
    \A j \in Labels(flat[i].arg) : j < Len(flat) => When(j + 1) = "AL"

\* The compiler comes to an end on every graph: branch_chain with its loops of
\* empty blocks, cross jumping, which starts a block or a pass again after each
\* merge, and the dump, which follows blocks out of their order.
Finishes == <>(phase \in {"dumped", "syserr", "astray"})
=============================================================================
