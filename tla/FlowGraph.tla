------------------------------ MODULE FlowGraph ------------------------------
(***************************************************************************)
(* The flow graph of a function, from dead code removal to the graph that  *)
(* is dumped as code (mip/flowgraf.c): branches to branches are chained,   *)
(* vacuous tests dropped, unreachable blocks lost, tail calls made, and    *)
(* common tails of blocks shared.                                          *)
(*                                                                         *)
(* A block is known by its label, a positive number.  What a function does *)
(* is the tree of the instructions and tests met from its top block; that  *)
(* tree must not change.                                                   *)
(***************************************************************************)
EXTENDS Integers, FiniteSets, SequencesExt

CONSTANTS
  Programs,   \* sets of flow graphs to try: blocks numbered from top_block
  Exits,      \* the labels that stand for a return, such as RetIntLab
  Depth       \* bound on the instructions of a path that are compared

ASSUME FlowAssumption ==
  /\ Depth \in Nat
  /\ \A f \in Programs : \A g \in f : DOMAIN g \cap Exits = {}

VARIABLES
  prog,   \* the function as it was generated; it does not change
  blk,    \* blocks by label: [code, flags, cond, next, next1, table]
  order,  \* blkdown_: the blocks from top_block to bottom_block
  used,   \* blkusedfrom_, the first of a list being the one added last
  phase,
  stage,  \* the argument of branch_chain
  walk,   \* branch_chain's lab and back_pointer, whether it descends, and
          \* the calls suspended at a switch
  scan,   \* cross_jump_optimize's p, another_pass_needed and
          \* maybenewemptyblocks
  left    \* blocks made empty while an entry of a switch table led to them

vars == <<prog, blk, order, used, phase, stage, walk, scan, left>>

top_block == 1
NULL == 0
way_out == Len(prog) + 1

\* succ1 is shared by blknext_ and blkbackp_, succ2 by blknext1_ and
\* blkbackp1_: a pointer to a block is kept as minus its number.
Back(b) == -b

Has(b, flag) == flag \in blk[b].flags

----------------------------------------------------------------------------
(* What a function does.                                                   *)

\* A register move that the allocation of registers may turn into a no-op
\* and the tests themselves are not seen; a tail call is a call.
Seen(code) ==
  SelectSeq([i \in DOMAIN code |-> IF code[i] = "tailcall" THEN "call" ELSE code[i]],
            LAMBDA c : c \notin {"move", "cmp", "case"})

\* The outcomes of a compare for which a condition holds.
Holds(cond, x) ==
  CASE cond = "EQ" -> x = "same"     [] cond = "NE" -> x # "same"
    [] cond = "HS" -> x # "lower"    [] cond = "LO" -> x = "lower"
    [] cond = "LS" -> x # "higher"   [] cond = "HI" -> x = "higher"
    [] OTHER -> TRUE

\* What is done after a compare, by outcome.
Choice(t1, t2, t3) == IF t1 = t2 /\ t2 = t3 THEN t1 ELSE <<"if", t1, t2, t3>>

\* A test goes to next1 if its condition holds.  The tree below label l of
\* graph g for n more instructions: only the labels in alive have been emitted,
\* and no instruction was met since those in idle.
RECURSIVE Tree(_, _, _, _, _)
Tree(g, alive, l, n, idle) ==
  IF l \notin DOMAIN g THEN <<"return">>
  ELSE IF l \notin alive THEN <<"nowhere">>
  ELSE IF n = 0 THEN <<>>
  ELSE IF l \in idle THEN <<"spin">>
  ELSE LET here == Seen(g[l].code)
           m    == n - Len(here)
           Below(x) == Tree(g, alive, x, m, IF here = <<>> THEN idle \cup {l} ELSE {})
           rest == IF "SWITCH" \in g[l].flags
                   THEN <<"case">> \o [i \in DOMAIN g[l].table |-> Below(g[l].table[i])]
                   ELSE LET x == Below(g[l].next)
                            y == Below(g[l].next1)
                            To(o) == IF Holds(g[l].cond, o) THEN y ELSE x
                        IN  IF "2EXIT" \notin g[l].flags THEN x
                            ELSE Choice(To("lower"), To("same"), To("higher"))
       IN  IF m <= 0 THEN SubSeq(here, 1, n) ELSE here \o rest

----------------------------------------------------------------------------
(* branch_chain: a depth-first walk that keeps its way back in the fields  *)
(* of the blocks it has come through.                                      *)

is_exit_label(l) == l \in Exits
branch_chain_exit_label(l) == is_exit_label(l) \/ (stage = 2 /\ l = way_out)

\* The empty blocks branch_emptychain goes through from lab, in order.
RECURSIVE Skipped(_, _)
Skipped(lab, busy) ==
  IF \/ branch_chain_exit_label(lab)
     \/ blk[lab].flags \cap {"2EXIT", "BUSY", "ALIVE", "EMPTY"} # {}
     \/ blk[lab].code # <<>>
     \/ lab \in busy
  THEN <<>>
  ELSE <<lab>> \o Skipped(blk[lab].next, busy \cup {lab})

\* Mutant: the blocks of a cycle are made empty as well.
branch_emptychainCycles(lab) ==
  LET chain == Skipped(lab, {})
      lab2  == IF chain = <<>> THEN lab ELSE blk[Last(chain)].next
      lab3  == IF ~branch_chain_exit_label(lab2) /\ Has(lab2, "EMPTY")
               THEN blk[lab2].next ELSE lab2
  IN  [blk |-> [b \in DOMAIN blk |->
                  IF Contains(chain, b)
                  THEN [blk[b] EXCEPT !.flags = @ \cup {"EMPTY"}, !.next = lab3]
                  ELSE blk[b]],
       lab |-> lab3]

\* [blk, lab]: the blocks it leaves and the label it returns.  Those of a
\* cycle stay BUSY and do not become EMPTY.
branch_emptychain(lab) ==
  LET chain == Skipped(lab, {})
      lab2  == IF chain = <<>> THEN lab ELSE blk[Last(chain)].next
      lab3  == IF ~branch_chain_exit_label(lab2) /\ Has(lab2, "EMPTY")
               THEN blk[lab2].next ELSE lab2
      cycle == IF Contains(chain, lab2)
               THEN Range(SubSeq(chain, CHOOSE i \in DOMAIN chain : chain[i] = lab2, Len(chain)))
               ELSE {}
  IN  [blk |-> [b \in DOMAIN blk |->
                  IF b \in cycle
                  THEN [blk[b] EXCEPT !.flags = @ \cup {"BUSY"}]
                  ELSE IF Contains(chain, b)
                  THEN [blk[b] EXCEPT !.flags = @ \cup {"EMPTY"}, !.next = lab3]
                  ELSE blk[b]],
       lab |-> lab3]

BranchChain(st) ==
  /\ stage' = st
  /\ walk' = [down |-> TRUE, lab |-> top_block, back |-> NULL, calls |-> <<>>]

Going(down) == phase = "chain" /\ walk.down = down

\* One turn of the loop that descends, up to a label it does not go beyond.
DescendEnds ==
  /\ Going(TRUE)
  /\ \E e \in {branch_emptychain(walk.lab)} :
         /\ ~branch_chain_exit_label(e.lab) => "ALIVE" \in e.blk[e.lab].flags
         /\ blk' = e.blk
         /\ walk' = [walk EXCEPT !.down = FALSE,
                       !.lab = IF is_exit_label(e.lab) /\ stage = 1 THEN way_out ELSE e.lab]
  /\ UNCHANGED <<prog, order, used, phase, stage, scan, left>>

\* A block met for the first time: it is alive, and its first exit is next.
DescendInto ==
  /\ Going(TRUE)
  /\ \E e \in {branch_emptychain(walk.lab)} :
         /\ ~branch_chain_exit_label(e.lab)
         /\ e.blk[e.lab].flags \cap {"ALIVE", "SWITCH"} = {}
         /\ blk' = [e.blk EXCEPT ![e.lab].flags = (@ \ {"P3"}) \cup {"ALIVE", "P2"},
                                 ![e.lab].next = Back(walk.back)]
         /\ walk' = [walk EXCEPT !.lab = e.blk[e.lab].next, !.back = e.lab]
  /\ UNCHANGED <<prog, order, used, phase, stage, scan, left>>

\* The entries of a switch table are walked by recursive calls.
DescendSwitch ==
  /\ Going(TRUE)
  /\ \E e \in {branch_emptychain(walk.lab)} :
         /\ ~branch_chain_exit_label(e.lab)
         /\ "ALIVE" \notin e.blk[e.lab].flags /\ "SWITCH" \in e.blk[e.lab].flags
         /\ blk' = [e.blk EXCEPT ![e.lab].flags = @ \cup {"ALIVE"}]
         /\ walk' = [down |-> TRUE, lab |-> e.blk[e.lab].table[1], back |-> NULL,
                     calls |-> <<[b |-> e.lab, i |-> 1, back |-> walk.back]>> \o walk.calls]
  /\ UNCHANGED <<prog, order, used, phase, stage, scan, left>>

\* A recursive call returns.
AscendSwitch ==
  /\ Going(FALSE) /\ walk.back = NULL /\ walk.calls # <<>>
  /\ LET c == Head(walk.calls)
     IN  /\ blk' = [blk EXCEPT ![c.b].table[c.i] = walk.lab]
         /\ walk' = IF c.i < Len(blk[c.b].table)
                    THEN [down |-> TRUE, lab |-> blk[c.b].table[c.i + 1], back |-> NULL,
                          calls |-> [walk.calls EXCEPT ![1].i = c.i + 1]]
                    ELSE [down |-> FALSE, lab |-> c.b, back |-> c.back,
                          calls |-> Tail(walk.calls)]
  /\ UNCHANGED <<prog, order, used, phase, stage, scan, left>>

\* Mutant: the mark of the first exit is left on.
AscendFirstStays ==
  /\ Going(FALSE) /\ walk.back # NULL /\ Has(walk.back, "P2")
  /\ LET b    == walk.back
         back == -blk[b].next
     IN  IF Has(b, "2EXIT")
         THEN /\ blk' = [blk EXCEPT ![b].next = walk.lab, ![b].next1 = Back(back),
                                    ![b].flags = @ \cup {"P3"}]
              /\ walk' = [walk EXCEPT !.down = TRUE, !.lab = blk[b].next1]
         ELSE /\ blk' = [blk EXCEPT ![b].next = walk.lab]
              /\ walk' = [walk EXCEPT !.lab = b, !.back = back]
  /\ UNCHANGED <<prog, order, used, phase, stage, scan, left>>

\* Back from the first exit, marked BLKP2: on to the second one if there is one.
AscendFirst ==
  /\ Going(FALSE) /\ walk.back # NULL /\ Has(walk.back, "P2")
  /\ LET b    == walk.back
         back == -blk[b].next
     IN  IF Has(b, "2EXIT")
         THEN /\ blk' = [blk EXCEPT ![b].next = walk.lab, ![b].next1 = Back(back),
                                    ![b].flags = (@ \ {"P2"}) \cup {"P3"}]
              /\ walk' = [walk EXCEPT !.down = TRUE, !.lab = blk[b].next1]
         ELSE /\ blk' = [blk EXCEPT ![b].next = walk.lab]
              /\ walk' = [walk EXCEPT !.lab = b, !.back = back]
  /\ UNCHANGED <<prog, order, used, phase, stage, scan, left>>

\* Mutant: one return is enough.
VacuousEither(x, y) == x = y \/ branch_chain_exit_label(x) \/ branch_chain_exit_label(y)

\* A test whose exits go to one place is dropped.
Vacuous(x, y) == x = y \/ (branch_chain_exit_label(x) /\ branch_chain_exit_label(y))

Untested(rec) == [rec EXCEPT !.flags = @ \ {"2EXIT"}, !.cond = "AL",
                             !.code = IF Last(@) = "cmp" THEN Front(@) ELSE @]

\* The blocks g when b, left without code, becomes an empty block on the way
\* to lab: those that lead to it now lead to lab.
Redirected(g, b, lab) ==
  [x \in DOMAIN g |->
     LET to == [g[x] EXCEPT
                  !.next = IF @ = b /\ Contains(order, x) THEN lab ELSE @,
                  !.next1 = IF @ = b /\ "2EXIT" \in g[x].flags /\ Contains(order, x)
                            THEN lab ELSE @]
     IN  IF x = b THEN [to EXCEPT !.flags = (@ \ {"ALIVE"}) \cup {"EMPTY"}] ELSE to]

\* Back from the second exit, marked BLKP3.
AscendSecond ==
  /\ Going(FALSE) /\ walk.back # NULL /\ Has(walk.back, "P3")
  /\ LET b    == walk.back
         back == -blk[b].next1
         g    == [blk EXCEPT ![b].next1 = walk.lab]
         h    == IF Vacuous(g[b].next, g[b].next1) THEN [g EXCEPT ![b] = Untested(@)] ELSE g
     IN  IF g # h /\ h[b].code = <<>> /\ walk.lab # b
         THEN /\ blk' = Redirected(h, b, walk.lab)
              /\ walk' = [walk EXCEPT !.back = back]
              /\ left' = left \cup
                   IF \E x \in Range(order) : "SWITCH" \in h[x].flags /\ Contains(h[x].table, b)
                   THEN {b} ELSE {}
         ELSE /\ blk' = h
              /\ walk' = [walk EXCEPT !.lab = b, !.back = back]
              /\ UNCHANGED left
  /\ UNCHANGED <<prog, order, used, phase, stage, scan>>

ChainEnds ==
  /\ Going(FALSE) /\ walk.back = NULL /\ walk.calls = <<>>
  /\ phase' = CASE stage = 0 -> "kill" [] stage = 1 -> "tail" [] stage = 2 -> "done"
  /\ UNCHANGED <<prog, blk, order, used, stage, walk, scan, left>>

----------------------------------------------------------------------------
(* The rest of lose_dead_code, and linearize_code.                         *)

NotAlive(g) == [b \in DOMAIN g |-> [g[b] EXCEPT !.flags = @ \ {"ALIVE"}]]

kill_unreachable_blocks ==
  /\ phase = "kill"
  /\ order' = SelectSeq(order, LAMBDA b : Has(b, "ALIVE"))
  /\ blk' = NotAlive(blk)
  /\ phase' = "noops"
  /\ UNCHANGED <<prog, used, stage, walk, scan, left>>

\* Registers have been allocated meanwhile.  linearize_code removes the
\* no-ops and makes the block of the one return.
remove_noops ==
  /\ phase = "noops"
  /\ \E moves \in SUBSET {b \in DOMAIN blk : Contains(blk[b].code, "move")} :
       blk' = [b \in DOMAIN prog \cup {way_out} |->
                 IF b = way_out
                 THEN [code |-> <<>>, flags |-> {"ALIVE"}, cond |-> "AL", next |-> Min(Exits), next1 |-> NULL,
                       table |-> <<>>]
                 ELSE IF b \in moves /\ Contains(order, b)
                 THEN [blk[b] EXCEPT !.code = SelectSeq(@, LAMBDA c : c # "move")]
                 ELSE blk[b]]
  /\ order' = Append(order, way_out)
  /\ phase' = "chain" /\ BranchChain(1)
  /\ UNCHANGED <<prog, used, scan, left>>

Simple(b) == blk[b].flags \cap {"SWITCH", "2EXIT"} = {}

\* A call before the return becomes a tail call.
MakeTailCalls ==
  /\ phase = "tail"
  /\ blk' = [b \in DOMAIN blk |->
               IF Contains(order, b) /\ Simple(b) /\ blk[b].next = way_out
                  /\ blk[b].code # <<>> /\ Last(blk[b].code) = "call"
               THEN [blk[b] EXCEPT !.code = Append(Front(@), "tailcall"),
                                   !.flags = @ \cup {"0EXIT"}]
               ELSE blk[b]]
  /\ phase' = "refs"
  /\ UNCHANGED <<prog, order, used, stage, walk, scan, left>>

\* Mutant: a predecessor is listed again.
refblockTwice(u, l, from) == IF is_exit_label(l) THEN u ELSE [u EXCEPT ![l] = <<from>> \o @]

\* The list of predecessors u when from leads to l.
refblock(u, l, from) ==
  IF is_exit_label(l) \/ Contains(u[l], from) THEN u ELSE [u EXCEPT ![l] = <<from>> \o @]

unrefblock(u, l, from) == [u EXCEPT ![l] = Remove(@, from)]

Successors(g, b) ==
  IF "SWITCH" \in g[b].flags THEN g[b].table
  ELSE IF "2EXIT" \in g[b].flags THEN <<g[b].next, g[b].next1>> ELSE <<g[b].next>>

\* Every alive block is put before the predecessors that its successors have,
\* once; the top block was given NULL before.
RefBlocks ==
  /\ phase = "refs"
  /\ used' = [l \in DOMAIN blk |->
                SelectSeq(Reverse(order),
                          LAMBDA b : Has(b, "ALIVE") /\ Contains(Successors(blk, b), l))
                \o IF l = top_block THEN <<NULL>> ELSE <<>>]
  /\ phase' = "cross"
  /\ scan' = [p |-> 1, again |-> FALSE, merged |-> FALSE]
  /\ UNCHANGED <<prog, blk, order, stage, walk, left>>

----------------------------------------------------------------------------
(* cross_jump_optimize: predecessors of a block that end alike share their *)
(* end.                                                                    *)

\* The instructions two sequences of code end with.
Common(c1, c2) ==
  LET n == Min({Len(c1), Len(c2)})
      Alike(k) == \A i \in 0 .. k - 1 : c1[Len(c1) - i] = c2[Len(c2) - i]
  IN  Max({k \in 0 .. n : Alike(k)})

\* The pairs <<i, j>> of places in the list of predecessors of p to be merged.
Pairs(p) ==
  {ij \in (DOMAIN used[p]) \X (DOMAIN used[p]) :
     LET x1 == used[p][ij[1]]
         x2 == used[p][ij[2]]
     IN  /\ ij[1] < ij[2] /\ x1 # NULL /\ x2 # NULL
         /\ Simple(x1) /\ Simple(x2)
         /\ Common(blk[x1].code, blk[x2].code) # 0}

\* The first of them, <<>> if there is none.
FirstPair(p) ==
  LET pairs == IF Has(p, "ALIVE") THEN Pairs(p) ELSE {}
  IN  IF pairs = {} THEN <<>>
      ELSE CHOOSE ij \in pairs :
             \A kl \in pairs : ij[1] < kl[1] \/ (ij[1] = kl[1] /\ ij[2] <= kl[2])

\* [blk, used] when x2, which is the same as x1, is dropped for x1; q follows
\* both.  The list of x2 is read before x2 is taken off that of q.
identify_blocks(x1, x2, q) ==
  LET srcs == IF q = x2 /\ Head(used[x2]) # x2 THEN Remove(used[x2], x2) ELSE used[x2]
      To(l) == IF l = x2 THEN x1 ELSE l
      Moved(b) ==
        IF b = x2 THEN [blk[b] EXCEPT !.flags = @ \ {"ALIVE"}, !.code = <<"duff">>]
        ELSE IF ~Contains(srcs, b) THEN blk[b]
        ELSE IF Has(b, "SWITCH")
        THEN [blk[b] EXCEPT !.table = [i \in DOMAIN @ |-> To(@[i])]]
        ELSE [blk[b] EXCEPT !.next = To(@), !.next1 = IF Has(b, "2EXIT") THEN To(@) ELSE @]
  IN  [blk |-> [b \in DOMAIN blk |-> Moved(b)],
       used |-> FoldLeft(LAMBDA u, b : refblock(u, x1, b),
                         [unrefblock(used, q, x2) EXCEPT ![x2] = <<>>], srcs)]

\* [blk, used, order] when x2 keeps its first n instructions and goes on at x1.
truncate_block(x2, n, x1, p) ==
  [blk |-> [blk EXCEPT ![x2].code = SubSeq(@, 1, n), ![x2].next = x1,
                       ![x2].flags = @ \ {"0EXIT"}],
   used |-> refblock(unrefblock(used, p, x2), x1, x2)]

\* The tail of x1 from n1 on becomes a block of its own.
zip_blocks(x1, n1, x2, n2, p) ==
  LET new == Max(DOMAIN blk) + 1
      tail == [code |-> SubSeq(blk[x1].code, n1 + 1, Len(blk[x1].code)),
               flags |-> {"ALIVE"} \cup (blk[x1].flags \cap {"0EXIT"}), cond |-> "AL",
               next |-> p, next1 |-> NULL, table |-> <<>>]
      Cut(b, n) == [blk[b] EXCEPT !.code = SubSeq(@, 1, n), !.next = new,
                                  !.flags = @ \ {"0EXIT"}]
      u0 == [b \in DOMAIN blk \cup {new} |-> IF b = new THEN <<>> ELSE used[b]]
  IN  [new |-> new,
       blk |-> [b \in DOMAIN blk \cup {new} |->
                  CASE b = new -> tail [] b = x1 -> Cut(x1, n1) [] b = x2 -> Cut(x2, n2)
                    [] OTHER -> blk[b]],
       used |-> refblock(refblock(unrefblock(
                  refblock(unrefblock(u0, p, x1), new, x1), p, x2), new, x2), p, new)]

Scanning == phase = "cross" /\ scan.p \in DOMAIN order

\* The next merge of predecessors of p: the blocks, and what is left of each.
NextMerge(p) ==
  LET ij == FirstPair(p)
      x1 == used[p][ij[1]]
      x2 == used[p][ij[2]]
      n  == Common(blk[x1].code, blk[x2].code)
  IN  IF ij = <<>> THEN {}
      ELSE {[x1 |-> x1, x2 |-> x2,
             i1 |-> Len(blk[x1].code) - n, i2 |-> Len(blk[x2].code) - n]}

\* The first two predecessors of the block that can be merged are merged, and
\* its predecessors are scanned afresh.
CrossIdentify ==
  /\ Scanning
  /\ LET p == order[scan.p]
     IN  \E c \in NextMerge(p) :
           \E kept \in {IF c.x2 # top_block THEN c.x1 ELSE c.x2} :
           \E dead \in {c.x1, c.x2} \ {kept} :
           \E m \in {identify_blocks(kept, dead, p)} :
             /\ c.i1 = 0 /\ c.i2 = 0
             /\ blk' = m.blk /\ used' = m.used
             \* The predecessors of p are read from where DUFF_ADDR points.
             /\ phase' = IF dead = p THEN "astray" ELSE phase
  /\ scan' = [scan EXCEPT !.again = TRUE, !.merged = TRUE]
  /\ UNCHANGED <<prog, order, stage, walk, left>>

\* Mutant: no other pass is asked for.
CrossTruncateOnce ==
  /\ Scanning
  /\ LET p == order[scan.p]
     IN  \E c \in NextMerge(p) :
           \E m \in {IF c.i1 = 0 THEN truncate_block(c.x2, c.i2, c.x1, p)
                                 ELSE truncate_block(c.x1, c.i1, c.x2, p)} :
             /\ (c.i1 = 0) # (c.i2 = 0)
             /\ blk' = m.blk /\ used' = m.used
  /\ scan' = scan
  /\ UNCHANGED <<prog, order, phase, stage, walk, left>>

CrossTruncate ==
  /\ Scanning
  /\ LET p == order[scan.p]
     IN  \E c \in NextMerge(p) :
           \E m \in {IF c.i1 = 0 THEN truncate_block(c.x2, c.i2, c.x1, p)
                                 ELSE truncate_block(c.x1, c.i1, c.x2, p)} :
             /\ (c.i1 = 0) # (c.i2 = 0)
             /\ blk' = m.blk /\ used' = m.used
  /\ scan' = [scan EXCEPT !.again = TRUE]
  /\ UNCHANGED <<prog, order, phase, stage, walk, left>>

CrossZip ==
  /\ Scanning
  /\ LET p == order[scan.p]
     IN  \E c \in NextMerge(p) :
           \E m \in {zip_blocks(c.x1, c.i1, c.x2, c.i2, p)} :
             /\ c.i1 # 0 /\ c.i2 # 0
             /\ blk' = m.blk /\ used' = m.used /\ order' = Append(order, m.new)
  /\ scan' = [scan EXCEPT !.again = TRUE]
  /\ UNCHANGED <<prog, phase, stage, walk, left>>

CrossNext ==
  /\ Scanning /\ FirstPair(order[scan.p]) = <<>>
  /\ scan' = [scan EXCEPT !.p = @ + 1]
  /\ UNCHANGED <<prog, blk, order, used, phase, stage, walk, left>>

\* Mutant: once another pass was needed, it always is.
CrossAgainAlways ==
  /\ phase = "cross" /\ scan.p = Len(order) + 1 /\ scan.again
  /\ scan' = [scan EXCEPT !.p = 1]
  /\ UNCHANGED <<prog, blk, order, used, phase, stage, walk, left>>

CrossAgain ==
  /\ phase = "cross" /\ scan.p = Len(order) + 1 /\ scan.again
  /\ scan' = [scan EXCEPT !.p = 1, !.again = FALSE]
  /\ UNCHANGED <<prog, blk, order, used, phase, stage, walk, left>>

\* Merged blocks may have left tests without a purpose: branch_chain again.
CrossEnds ==
  /\ phase = "cross" /\ scan.p = Len(order) + 1 /\ ~scan.again
  /\ IF scan.merged
     THEN phase' = "chain" /\ blk' = NotAlive(blk) /\ BranchChain(2)
     ELSE phase' = "done" /\ UNCHANGED <<blk, stage, walk>>
  /\ UNCHANGED <<prog, order, used, scan, left>>

----------------------------------------------------------------------------
Init ==
  /\ \E f \in Programs : prog \in f
  /\ blk = prog
  /\ order = [b \in 1 .. Len(prog) |-> b]
  /\ used = [b \in DOMAIN prog |-> <<>>]
  /\ phase = "chain" /\ stage = 0
  /\ walk = [down |-> TRUE, lab |-> top_block, back |-> NULL, calls |-> <<>>]
  /\ scan = [p |-> 1, again |-> FALSE, merged |-> FALSE]
  /\ left = {}

Walk == DescendEnds \/ DescendInto \/ DescendSwitch \/ AscendSwitch \/ AscendFirst
        \/ AscendSecond \/ ChainEnds

Cross == CrossIdentify \/ CrossTruncate \/ CrossZip \/ CrossNext \/ CrossAgain \/ CrossEnds

Next == Walk \/ kill_unreachable_blocks \/ remove_noops \/ MakeTailCalls \/ RefBlocks \/ Cross

\* linearize_code is one call: it goes on as long as it has something to do.
Spec == Init /\ [][Next]_vars /\ WF_vars(Next)

----------------------------------------------------------------------------
(* Properties.                                                             *)

\* "BLKEMPTY and BLKALIVE are disjoint": dump_flowgraph stops the compiler at
\* a live empty block.
EmptyNotAlive == \A b \in DOMAIN blk : ~({"EMPTY", "ALIVE"} \subseteq blk[b].flags)

\* They are as long as no block was made empty that a switch leads to.
EmptyNotAliveElse == left = {} => EmptyNotAlive

\* The way back of the innermost call of branch_chain, from the block b.
RECURSIVE Path(_, _)
Path(b, seen) ==
  IF b = NULL \/ b \in seen \/ b \notin DOMAIN blk THEN <<b>>
  ELSE <<b>> \o Path(-(IF Has(b, "P2") THEN blk[b].next ELSE blk[b].next1), seen \cup {b})

\* Pointer reversal in the fields shared with the exits: the way back of every
\* call under way ends at its start, and no other field holds a pointer of it,
\* however branch_emptychain and the dropping of tests rewrite exits meanwhile.
WaysBack ==
  phase = "chain" =>
    LET starts == <<walk.back>> \o [i \in DOMAIN walk.calls |-> walk.calls[i].back]
        paths  == [i \in DOMAIN starts |-> Path(starts[i], {})]
        on     == UNION {Range(Front(paths[i])) : i \in DOMAIN paths}
        Field(b) == IF b \notin on THEN "none" ELSE IF Has(b, "P2") THEN "next" ELSE "next1"
    IN  /\ \A i \in DOMAIN paths : Last(paths[i]) = NULL
        /\ \A b \in Range(order) : ~Has(b, "SWITCH") =>
             /\ Field(b) # "next" => blk[b].next > 0
             /\ Field(b) # "next1" /\ Has(b, "2EXIT") => blk[b].next1 > 0

AliveBlocks == {b \in Range(order) : Has(b, "ALIVE")} \cup {way_out}

\* What the function does is what it did as it was generated, when dead code
\* has been lost, when branches have been chained and at the end, if blocks
\* wrongly dropped for being empty are taken for where they lead.
SameBehaviour ==
  phase \in {"kill", "tail", "done"} =>
    Tree(blk, AliveBlocks \cup left, top_block, Depth, {})
      = Tree(prog, DOMAIN prog, top_block, Depth, {})

\* The predecessors cross jumping goes by are those that the blocks have, each
\* once, whatever has been merged before.
PredecessorsExact ==
  phase = "cross" =>
    \A l \in AliveBlocks :
      /\ IsInjective(used[l])
      /\ Range(used[l]) = {b \in AliveBlocks : Contains(Successors(blk, b), l)}
                          \cup (IF l = top_block THEN {NULL} ELSE {})

\* When cross jumping is over no end is left to share: one pass over the
\* blocks is not enough, as merging gives blocks passed already new
\* predecessors.
TailsShared ==
  phase = "cross" /\ scan.p = Len(order) + 1 /\ ~scan.again =>
    \A b \in AliveBlocks : Pairs(b) = {}
=============================================================================
