------------------------------ MODULE LitPool ------------------------------
(***************************************************************************)
(* Literal pools of the ARM code generator (mip/codebuf.c, arm/gen.c).     *)
(*                                                                         *)
(* An instruction reaches a literal relative to the program counter, so a  *)
(* pool of literals has to be emitted among the instructions before the    *)
(* first of the pending references to it runs out of reach.  The generator *)
(* does not know how long the expansion of the next jopcode will be: it    *)
(* keeps a limit, mustlitby, five instructions short of the first address  *)
(* too far, and looks at it at the start of a jopcode and in the few       *)
(* places known to emit more.  A literal is looked for in the pool being   *)
(* collected, then in the pools already emitted, and only then added.      *)
(*                                                                         *)
(* All lengths and addresses are in words.  codep is codebase+codep: the   *)
(* pools of earlier functions are still found.  A literal is a triple of   *)
(* flavour, symbol and value.  An action is the expansion of one jopcode;  *)
(* what it does to the pool is composed from the operators that stand for  *)
(* the routines of the two files, each a function on the state.            *)
(***************************************************************************)
EXTENDS Integers, Sequences, FiniteSets, SequencesExt, FiniteSetsExt

CONSTANTS
    Near,       \* words reached by LABREF_W256 (256)
    Far,        \* words reached by LABREF_B4096 (1024)
    PoolMax,    \* LITPOOLSEGMAX * LITPOOLSEGSIZE (1024)
    LdmMax,     \* instructions ldm_flush_r allows for (16)
    ShortStr,   \* words of a string that may be kept twice (2: eight bytes)
    Sizes,      \* numbers of instructions of a jopcode's expansion
    MulSizes,   \* ... of a multiplication by a constant
    Blocks,     \* ... of a block move or clear (num_instr)
    Tables,     \* sizes of branch tables (r3 of J_CASEBRANCH)
    Numbers,    \* values for load_integer_literal
    Adcons,     \* symbols of address constants
    Pairs,      \* doubles, as values of two words
    Strings,    \* string literals, each a sequence of words
    Offsets,    \* offsets folded into J_STRING, in words
    MaxCode     \* bound: no jopcode starts beyond this address

ASSUME ReachAssumption == /\ Near \in Nat /\ Far \in Nat /\ PoolMax \in Nat
                          /\ 5 < Near /\ Near <= Far /\ Far <= PoolMax

Infinity == 1000000000

(* A string has at least its terminator; addresses stay far from Infinity. *)
ASSUME SizeAssumption ==
    /\ LdmMax \in Nat \ {0} /\ ShortStr \in Nat /\ MaxCode \in Nat
    /\ Sizes \subseteq Nat /\ MulSizes \subseteq Nat /\ Blocks \subseteq Nat
    /\ Tables \subseteq Nat \ {0} /\ Offsets \subseteq Nat
    /\ \A str \in Strings : str \in Seq(Int) /\ str # <<>>
    /\ \A n \in {0} \cup Sizes \cup MulSizes \cup Blocks \cup Tables :
         MaxCode + 4 * PoolMax + LdmMax + n < Infinity

VARIABLES
    codep,      \* where the next instruction goes
    litpool,    \* the pool being collected
    mustlitby,  \* the address by which it must be emitted
    frefs,      \* references that wait for it (litlab->u.frefs)
    prevpools,  \* pools emitted, the newest first
    ldm,        \* TRUE: loads or stores are held back (ldm_state)
    table,      \* J_BXX still to come of a branch table
    err,        \* the syserr that ended the compilation
    \* History: what the properties are about.
    hit,        \* references resolved by the last step
    lost,       \* references that setlabel found out of reach in it
    long        \* its expansion exceeded the allowance of addressability

vars == <<codep, litpool, mustlitby, frefs, prevpools, ldm, table, err,
          hit, lost, long>>

(* The state the routines work on; incode is codebuf.c's litsincode.       *)
Now == [codep |-> codep, litpool |-> litpool, mustlitby |-> mustlitby,
        frefs |-> frefs, prevpools |-> prevpools, ldm |-> ldm,
        err |-> err, incode |-> TRUE,
        hit |-> {}, lost |-> {}, long |-> FALSE]

Become(s) ==
    /\ codep' = s.codep /\ litpool' = s.litpool /\ mustlitby' = s.mustlitby
    /\ frefs' = s.frefs /\ prevpools' = s.prevpools /\ ldm' = s.ldm
    /\ err' = s.err /\ hit' = s.hit /\ lost' = s.lost /\ long' = s.long

Syserr(s, what) == [s EXCEPT !.err = IF @ = "none" THEN what ELSE @]
Out(s, n) == [s EXCEPT !.codep = @ + n]

(* A jopcode has expanded to n instructions since it looked at the limit:  *)
(* long if addressability, which allows for five and the first of the next *)
(* jopcode, does not suppose so many.                                      *)
Slack == 6
Expanded(s, n) == [s EXCEPT !.long = n > Slack]

-----------------------------------------------------------------------------
(* Emitting the pool *)

Newliteralpool(s) == [s EXCEPT !.mustlitby = Infinity]

(* setlabel(litlab): each waiting instruction gets its displacement.  Only *)
(* the low bits of the place in the pool are left in the instruction.  A   *)
(* resolved reference is recorded with the address it now has, the words   *)
(* it should find there and by how much those bits fall short.             *)
LowPlace(r) == r.place % r.reach
Distance(s, r) == s.codep - r.at - 2 + LowPlace(r)

Setlitlab(s) ==
    LET far == {r \in s.frefs : Distance(s, r) \notin 0 .. r.reach - 1}
        t == [s EXCEPT
                !.hit = @ \cup {[target |-> r.at + 2 + Distance(s, r),
                                 want |-> r.want, sure |-> r.sure,
                                 short |-> r.place - LowPlace(r)] :
                                   r \in s.frefs \ far},
                !.lost = @ \cup far,
                !.frefs = {}]
    IN  IF far = {} THEN t ELSE Syserr(t, "displacement")

Dumplits_inner(s) ==
    [s EXCEPT !.prevpools = <<[base |-> s.codep, words |-> s.litpool]>> \o @,
              !.codep = @ + Len(s.litpool),
              !.litpool = <<>>]

Dumplits0(s) == Dumplits_inner(Setlitlab(s))

BranchRound(s) ==
    LET t == Out(Newliteralpool(s), 1)
    IN  IF t.litpool = <<>> THEN t ELSE Dumplits0(t)

(* dumplits2(YES): among instructions, with a branch round the pool.       *)
DumpAmong(s) ==
    IF s.frefs = {} THEN Syserr(s, "dumplits1") ELSE BranchRound(s)

(* dumplits2(NO): after an unconditional branch or at the function's end.  *)
DumpAfter(s) ==
    IF s.frefs # {} THEN Dumplits0(Newliteralpool(s))
    ELSE IF s.litpool = <<>> THEN s ELSE Syserr(s, "dumplits2")

-----------------------------------------------------------------------------
(* The limit *)

Check(s) == IF s.codep >= s.mustlitby THEN DumpAmong(s) ELSE s

RoomOne(s, n) ==                   \* mutant: room for one instruction only
    IF s.codep + 1 >= s.mustlitby THEN DumpAmong(s) ELSE s
Room(s, n) == IF s.codep + n >= s.mustlitby THEN DumpAmong(s) ELSE s

SpareNone(n) == n                  \* mutant: no allowance for a jopcode
Spare(n) == n - 5

Addressability(s, n) ==
    LET t == IF Len(s.litpool) >= Spare(n) THEN DumpAmong(s) ELSE s
    IN  [t EXCEPT !.mustlitby =
            Min({@, t.codep - Len(t.litpool) + Spare(n)})]

FlushBlind(s, n) ==                \* mutant: ldm_flush_r does not look
    IF s.ldm THEN [Out(s, n) EXCEPT !.ldm = FALSE] ELSE s
Flush(s, n) == IF s.ldm THEN [Out(Room(s, LdmMax), n) EXCEPT !.ldm = FALSE]
               ELSE s

(* show_inst_direct up to the case of the jopcode, with its ldm_flush.     *)
Begin(n) == Flush(Check(Now), n)

-----------------------------------------------------------------------------
(* The pool *)

(* outlitword; a string of more words than the pool holds is continued in  *)
(* the same place, behind one branch.                                      *)
OutlitwordAmong(s, w) ==           \* mutant: litsincode is never reset
    LET t == IF Len(s.litpool) = PoolMax THEN BranchRound(s) ELSE s
    IN  [t EXCEPT !.litpool = Append(@, w)]
Outlitword(s, w) ==
    LET full == Len(s.litpool) = PoolMax
        t == IF ~full THEN s
             ELSE IF s.incode
                  THEN [BranchRound(IF s.frefs = {} THEN Syserr(s, "dumplits3")
                                    ELSE s) EXCEPT !.incode = FALSE]
                  ELSE Dumplits_inner(Newliteralpool(s))
    IN  [t EXCEPT !.litpool = Append(@, w)]

(* The states after each of the words ws.                                  *)
Filled(s, ws) ==
    LET f[i \in 0 .. Len(ws)] ==
          IF i = 0 THEN s ELSE Outlitword(f[i - 1], ws[i])
    IN  f

OutlitsKept(s, ws) ==              \* mutant: the rest of a string stays
    Filled(s, ws)[Len(ws)]
Outlits(s, ws) ==
    LET t == Filled(s, ws)[Len(ws)]
    IN  IF t.incode THEN t ELSE Dumplits_inner(t)

(* Where ws begins in a pool, counted from 0.                              *)
Places(pool, ws) ==
    {i \in 0 .. Len(pool) - Len(ws) :
        SubSeq(pool, i + 1, i + Len(ws)) = ws}

(* Addresses at which a pool already emitted has ws, none before earliest. *)
Addresses(q, ws, earliest) ==
    {a \in {q.base + i : i \in Places(q.words, ws)} : a >= earliest}

FindPrevNewest(s, ws, earliest) == \* mutant: only the newest pool is read
    IF s.prevpools = <<>> THEN {}
    ELSE LET found == Addresses(s.prevpools[1], ws, earliest)
         IN  IF found = {} THEN {} ELSE {Min(found)}
FindPrev(s, ws, earliest) ==
    LET having == {j \in DOMAIN s.prevpools :
                     Addresses(s.prevpools[j], ws, earliest) # {}}
    IN  IF having = {} THEN {}
        ELSE {Min(Addresses(s.prevpools[Min(having)], ws, earliest))}

(* addfref_ and the instruction that refers to a place in the pool.  It is *)
(* sure to be in reach if the limit allows for it.                         *)
Forward(s, place, reach, want, sure) ==
    Out([s EXCEPT !.frefs = @ \cup {[at |-> s.codep, place |-> place,
                                     reach |-> reach, want |-> want,
                                     sure |-> sure]}], 1)

(* The offset of a string in an earlier pool is added to the distance back *)
(* that the instruction subtracts: it leads two offsets short of the words *)
(* wanted.                                                                 *)
Backward(s, dist, off, reach, want) ==
    Out([s EXCEPT !.hit = @ \cup {[target |-> s.codep + 2 - (dist % reach),
                                   want |-> want, sure |-> off = 0,
                                   short |-> 2 * off]}], 1)

(* A literal of one or two words: the pool, earlier pools in reach, a new  *)
(* entry.                                                                  *)
ReferLast(s, ws, reach) ==         \* mutant: the last word's place is used
    LET t == Outlits(Addressability(s, reach), ws)
    IN  Forward(t, Len(t.litpool) - 1, reach, ws, TRUE)
Refer(s, ws, reach) ==
    LET here == Places(s.litpool, ws)
        back == FindPrev(s, ws, s.codep + 2 - (reach - 1))
        t == Outlits(Addressability(s, reach), ws)
    IN  IF here # {} THEN Forward(s, Min(here), reach, ws, TRUE)
        ELSE IF back # {}
             THEN Backward(s, s.codep + 2 - Min(back), 0, reach, ws)
             ELSE Forward(t, Len(t.litpool) - Len(ws), reach, ws, TRUE)

Number(n) == << <<"NUMBER", "", n>> >>
Adcon(sym, off) == << <<"ADCON", sym, off>> >>
Double(p) == << <<"FPNUM1", "", p[1]>>, <<"FPNUM2", "", p[2]>> >>
Words(str) == [i \in DOMAIN str |-> <<"STRING", "", str[i]>>]

(* A reference to this place is no further from it than one that waits is  *)
(* from its own: then it "must be addressable if the previous one was"     *)
(* (gen.c 1754).                                                           *)
NoFurther(s, place) ==
    \E r \in s.frefs : /\ r.sure /\ r.reach = Near
                       /\ place - s.codep <= r.place - r.at

(* J_STRING.  An offset in whole words goes into the reference, any other  *)
(* (add = 1) into a further instruction; the words wanted are those from   *)
(* the offset on.  A string that is in the pool, be it as the tail of      *)
(* another, is shared with no look at the limit.  A string in reach of     *)
(* nothing is not written again when it is long: its address becomes a     *)
(* literal, counted in bytes.                                              *)
ReferString(s, str, off, add) ==
    LET ws == Words(str)
        want == SubSeq(ws, off + 1, Len(ws))
        here == Places(s.litpool, ws)
        there == Min(here) + off
        back == FindPrev(s, ws, s.codep + 2 - (Near - 1) + off)
        any == IF Len(str) <= ShortStr THEN {} ELSE FindPrev(s, ws, 0)
        t == Addressability(s, Near - off)
        u == Forward(t, Len(t.litpool) + off, Near, want, TRUE)
        a == Min(any) + off
    IN  IF here # {}
        THEN Out(Forward(s, there, Near, want, NoFurther(s, there)), add)
        ELSE IF back # {}
             THEN Out(Backward(s, s.codep + 2 - Min(back) + off, off, Near,
                               want), add)
        ELSE IF any # {}
             THEN Refer([s EXCEPT !.hit = @ \cup {[target |-> a, want |-> want,
                                                   sure |-> TRUE,
                                                   short |-> 0]}],
                        Adcon("code", 4 * a + add), Far)
             ELSE Out(Outlits(u, ws), add)

-----------------------------------------------------------------------------
(* Jopcodes *)

Goes == err = "none" /\ codep <= MaxCode
Free == Goes /\ table = 0
Flushes == IF ldm THEN {1, LdmMax} ELSE {0}

(* Any jopcode without a literal.                                          *)
Plain ==
    /\ Free
    /\ \E f \in Flushes, n \in Sizes :
          Become(Expanded(Out(Begin(f), n), n))
    /\ UNCHANGED table

(* A load or store that is held back to be merged with its neighbours; the *)
(* address may take instructions of its own.                               *)
HoldBack ==
    /\ Free
    /\ \/ Become([Check(Now) EXCEPT !.ldm = TRUE])
       \/ \E f \in Flushes, n \in Sizes :
             Become([Expanded(Out(Begin(f), n), n) EXCEPT !.ldm = TRUE])
    /\ UNCHANGED table

(* An integer: instructions of the same expansion may come before and      *)
(* after the one that loads it.                                            *)
LoadNumber ==
    /\ Free
    /\ \E f \in Flushes, n \in Numbers, b \in Sizes, a \in Sizes :
          /\ b + 1 + a <= Max(Sizes)
          /\ Become(Expanded(Out(Refer(Out(Begin(f), b), Number(n), Far), a),
                             b + 1 + a))
    /\ UNCHANGED table

LoadAdcon ==
    /\ Free
    /\ \E f \in Flushes, x \in Adcons : Become(Refer(Begin(f), Adcon(x, 0), Far))
    /\ UNCHANGED table

(* J_MOVDK and J_ADCOND; J_ADCONLL differs in the flavour alone.           *)
LoadDouble ==
    /\ Free
    /\ \E f \in Flushes, p \in Pairs : Become(Refer(Begin(f), Double(p), Near))
    /\ UNCHANGED table

LoadString ==
    /\ Free
    /\ \E f \in Flushes, str \in Strings, off \in Offsets, add \in {0, 1} :
          /\ off < Len(str) /\ (add = 1 => off = 0)
          /\ Become(ReferString(Begin(f), str, off, add))
    /\ UNCHANGED table

Multiply ==
    /\ Free
    /\ \E f \in Flushes, n \in MulSizes :
          Become(Expanded(Out(Check(Begin(f)), n), n))
    /\ UNCHANGED table

(* J_MOVC, J_CLRC and J_PUSHC.                                             *)
MoveBlock ==
    /\ Free
    /\ \E f \in Flushes, n \in Blocks : Become(Out(Room(Begin(f), n), n))
    /\ UNCHANGED table

(* The comparison, the ADD to the program counter; then r3-1 J_BXX and,    *)
(* as the next jopcode, the branch to the last destination.                *)
CaseBranch ==
    /\ Free
    /\ \E f \in Flushes, r3 \in Tables :
          /\ Become(Out(Room(Out(Begin(f), 1), r3), 1))
          /\ table' = r3 - 1

Bxx ==
    /\ Goes /\ table > 0
    /\ Become(Out(Begin(0), 1))
    /\ table' = table - 1

(* An unconditional J_B: one instruction, or a return of several.          *)
Jump ==
    /\ Free
    /\ \E f \in Flushes, n \in Sizes \ {0} :
          Become(Expanded(DumpAfter(Out(Begin(f), n)), n))
    /\ UNCHANGED table

(* J_ENDPROC; the last instruction of a function is a branch.              *)
Endproc ==
    /\ Free
    /\ ~ldm /\ \A r \in frefs : r.at # codep - 1
    /\ \E n \in {0, 1} : Become(DumpAfter(Out(Begin(0), n)))
    /\ UNCHANGED table

Init ==
    /\ codep = 0 /\ litpool = <<>> /\ mustlitby = Infinity
    /\ frefs = {} /\ prevpools = <<>> /\ ldm = FALSE
    /\ table = 0 /\ err = "none"
    /\ hit = {} /\ lost = {} /\ long = FALSE

Next == \/ Plain \/ HoldBack \/ Multiply \/ MoveBlock
        \/ LoadNumber \/ LoadAdcon \/ LoadDouble \/ LoadString
        \/ CaseBranch \/ Bxx \/ Jump \/ Endproc

Spec == Init /\ [][Next]_vars

-----------------------------------------------------------------------------
(* Properties *)

(* No reference runs out of reach: setlabel never reports a displacement,  *)
(* however many instructions each jopcode turns into.  A string shared in  *)
(* the pool "must be addressable if the previous one was" (gen.c 1754).    *)
InReach == err # "displacement"

(* A reference is out of reach of its literal in two cases only: it shares *)
(* words of a string further from it than any reference that the limit     *)
(* allows for, or the expansion of the last jopcode or of this one was     *)
(* longer than addressability supposes.  Wherever the limit is looked at,  *)
(* held back loads and blocks included, is early enough for all others.    *)
InReachOrKnown == [][\A r \in lost' : ~r.sure \/ long \/ long']_vars

(* dumplits2 is never called among instructions with nothing to dump, nor  *)
(* after a branch with a pool that nothing refers to, and no string fills  *)
(* a pool like that (syserr_dumplits1 to 3, codebuf.c 767, 780 and 826).   *)
(* There is a limit exactly when a reference waits: the check at the next  *)
(* jopcode goes by it.                                                     *)
PoolHasRefs ==
    /\ err \notin {"dumplits1", "dumplits2", "dumplits3"}
    /\ err = "none" => (mustlitby = Infinity <=> frefs = {})

(* The words ws are in the code from address a on, in pools emitted.       *)
InCode(a, ws) ==
    \A i \in DOMAIN ws : \E j \in DOMAIN prevpools :
        LET q == prevpools[j]
        IN  /\ a + i - 1 \in q.base .. q.base + Len(q.words) - 1
            /\ q.words[a + i - q.base] = ws[i]

(* What an instruction addresses is the literal it was to load, whole: the *)
(* displacement patched in by setlabel, or computed backwards into an      *)
(* earlier pool, leads to its words, one after the other even where a      *)
(* string has filled a pool and gone on in the next (outlitword).          *)
(* A reference that is not sure may keep too few bits of the place, and one *)
(* with an offset into an earlier pool goes two offsets back too far (gen.c *)
(* 1764): by just so much, no other word is addressed.                     *)
FindsLiteralOrKnown ==
    \A h \in hit : /\ InCode(h.target + h.short, h.want)
                   /\ h.sure => h.short = 0

(* A pool never breaks up a branch table, however close the limit is when  *)
(* the table begins: its entries follow the ADD that jumps into it and     *)
(* each other word by word (cg.c 5729, the check at J_CASEBRANCH).         *)
TableWhole == [][table > 0 => codep' = codep + 1]_vars

(* A long string is in the code once (gen.c 1769), whether in the pool     *)
(* being collected or in one of those emitted, unless it is so long that   *)
(* the pool may have no room for it (then it is in two of prevpools, and   *)
(* is not found again), or part of a longer one written after it.          *)
Copies(ws) ==
    Cardinality(Places(litpool, ws))
      + Cardinality(UNION {Addresses(prevpools[j], ws, 0) :
                              j \in DOMAIN prevpools})
MaySplit(str) == Spare(Near) - 1 + Len(str) > PoolMax
InAnother(str) == \E b \in Strings \ {str} : Places(b, str) # {}
OneCopy ==
    \A str \in Strings :
        Len(str) > ShortStr /\ ~MaySplit(str) /\ ~InAnother(str) =>
          Copies(Words(str)) <= 1
=============================================================================
