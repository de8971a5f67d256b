---------------------------- MODULE GeneratedFns ----------------------------
(***************************************************************************)
(* The C++ front end's functions in waiting, and the store they wait in.   *)
(*                                                                         *)
(* The parser makes functions while it reads other things: constructors,   *)
(* destructors and assignments at the end of a class, the core parts of    *)
(* those of a class with virtual bases, member functions whose bodies are  *)
(* put off to the end of the class, template functions at their first use. *)
(* Generated ones are trees in local store, each protected by a mark       *)
(* (syn_note_generated_fn); pending ones are saved symbols.  rd_topdecl    *)
(* hands both out before it reads on, to compile_statements, or to the     *)
(* loops that run in the middle of a function, after a class in its body   *)
(* and after the instance of a class template.                             *)
(*                                                                         *)
(* Store is seen through its marks only (module Store has the rest): what  *)
(* is allocated with n marks set lies at level n.  alloc_unmark gives back *)
(* the levels above the marks it leaves, drop_local_store those from the   *)
(* top mark on.  The parser's recursion is the stack ctl.                  *)
(***************************************************************************)
EXTENDS Integers, SequencesExt

CONSTANTS
  FeatureSets,  \* what the program and the options may make happen, each a
                \* set of:
                \*   "core"      user-written constructors of classes with
                \*               virtual bases
                \*   "build"     templates instantiated from generated code
                \*   "debug"     debug tables that describe default arguments
                \*   "template"  member templates of classes that are first
                \*               read in the middle of a function
  MaxFns,     \* bound on the functions of the program
  MaxDepth,   \* bound on the parser's nesting
  MaxHunks    \* bound on the hunks of Syn store

ASSUME GeneratedAssumption ==
  /\ FeatureSets \subseteq SUBSET {"core", "build", "debug", "template"}
  /\ MaxFns \in Nat \ {0} /\ MaxDepth \in Nat \ {0} /\ MaxHunks \in Nat

VARIABLES
  st,    \* the statics, a record:
         \*   marks  marklist, bottom first: [blk, seg, unmarked]
         \*   free   freemarks, the Mark blocks to use again
         \*   blks   Mark blocks taken from Glob store
         \*   seg    synsegcnt
         \*   gen    syn_generatedfns: [fn, mark]
         \*   pend   syn_pendingfns
         \*   fns    the functions so far: [store, whole, made, only]
         \*   out    "ok", "done" or the syserr that ended the compilation
  ctl,   \* the calls in progress, [k, fn, mark, saved, how, late]
  features  \* those of this compilation, one of FeatureSets

vars == <<st, ctl, features>>

F == st.fns

----------------------------------------------------------------------------
(* Store.                                                                  *)

Place(s) == Len(s.marks)
Top(s)   == Last(s.marks)

\* Levels above n are given back: a function with a piece there loses it.
GiveBack(s, n) ==
  [s EXCEPT !.fns = [f \in DOMAIN s.fns |->
     [s.fns[f] EXCEPT !.whole = @ /\ \A l \in s.fns[f].store : l <= n,
                      !.store = {l \in @ : l <= n}]]]

Block(s) == IF s.free = <<>> THEN s.blks + 1 ELSE Head(s.free)

Mark(s) ==
  [s EXCEPT !.marks = Append(@, [blk |-> Block(s), seg |-> s.seg, unmarked |-> FALSE]),
            !.blks  = IF s.free = <<>> THEN @ + 1 ELSE @,
            !.free  = IF @ = <<>> THEN @ ELSE Tail(@)]

DropAll(s) == GiveBack([s EXCEPT !.seg = 0], 0)   \* mutant: the marks are not seen
Drop(s)    == GiveBack([s EXCEPT !.seg = Top(s).seg], Place(s) - 1)

Blocks(marks) == [i \in 1 .. Len(marks) |-> marks[i].blk]

\* The mark that is left on top: pending ones under the top mark go with it.
LeftOne(marks) == Len(marks) - 1      \* mutant: the pending marks stay
Left(marks) ==
  CHOOSE k \in 1 .. Len(marks) - 1 :
    /\ ~marks[k].unmarked
    /\ \A j \in k + 1 .. Len(marks) - 1 : marks[j].unmarked

FreedTop(marks, k) == <<Last(marks).blk>>   \* mutant: the pending ones are lost
Freed(marks, k)    == SubSeq(Blocks(marks), k + 1, Len(marks))

UnmarkTop(s) ==
  LET k == Left(s.marks)
      r == [s EXCEPT !.marks = SubSeq(@, 1, k),
                     !.free  = Freed(s.marks, k) \o @,
                     !.seg   = s.marks[k + 1].seg]
  IN  IF s.seg > Top(s).seg THEN [s EXCEPT !.out = "unmark1"] ELSE GiveBack(r, k)

UnmarkNow(s, b) ==     \* mutant: a mark under the top one is not noted
  LET At == {i \in 2 .. Place(s) : s.marks[i].blk = b}
  IN  IF At = {} THEN [s EXCEPT !.out = "unmark"]
      ELSE IF Top(s).blk = b THEN UnmarkTop(s) ELSE s

\* alloc_unmark(mark): the base mark is never undone.
Unmark(s, b) ==
  LET At == {i \in 2 .. Place(s) : s.marks[i].blk = b}
  IN  IF At = {} THEN [s EXCEPT !.out = "unmark"]
      ELSE IF Top(s).blk = b THEN UnmarkTop(s)
      ELSE [s EXCEPT !.marks = [i \in DOMAIN s.marks |->
              [s.marks[i] EXCEPT !.unmarked = @ \/ i \in At]]]

----------------------------------------------------------------------------
(* Functions in waiting.                                                   *)

\* A piece of function f is allocated at the present level.
Piece(s, f) == [s EXCEPT !.fns[f].store = @ \cup {Place(s)}]

NewFn(s, only) ==
  [s EXCEPT !.fns = Append(@, [store |-> {}, whole |-> TRUE, made |-> 0, only |-> only])]

Newest(s) == Len(s.fns)

\* syn_note_generated_fn: the cell is in local store, under the mark.
Note(s, f) ==
  LET p == Piece(s, f)
      m == Mark(p)
  IN  [m EXCEPT !.gen = <<[fn |-> f, mark |-> Top(m).blk]>> \o @]

\* The debugger is told of a type, by dbg_proc or dbg_locvar.  It may be a
\* class with default arguments met for the first time, and each becomes a
\* function (dw_generate_default_fn): the possible outcomes.
Described(s) ==
  {s} \cup IF "debug" \in features /\ Newest(s) < MaxFns
           THEN LET n == NewFn(s, FALSE) IN {Note(n, Newest(n))}
           ELSE {}

Frame(k, f) == [k |-> k, fn |-> f, mark |-> 0, saved |-> <<>>, how |-> "top", late |-> FALSE]
Now         == Last(ctl)
Inside(k)   == ctl # <<>> /\ Now.k = k
Pop         == Front(ctl)
Push(fr)    == Append(ctl, fr)
Deeper      == Len(ctl) < MaxDepth
Room        == Newest(st) < MaxFns

Waiting(s) == s.gen # <<>> \/ s.pend # <<>>

----------------------------------------------------------------------------
(* rd_topdecl, called by compile_statements and by the two loops.          *)

Calling == ctl = <<>> \/ (Inside("loop") /\ Waiting(st))

\* compile_statements drops local store before and after each call.
Entry == IF ctl = <<>> THEN Drop(st) ELSE st

RdGenerated ==
  /\ Calling /\ st.gen # <<>>
  /\ \E s \in Described(Entry) :
       st' = Unmark([s EXCEPT !.gen = Tail(@)], Head(st.gen).mark)
  /\ ctl' = Push(Frame("cg", Head(st.gen).fn))

RdPending ==
  /\ Calling /\ st.gen = <<>> /\ st.pend # <<>>
  /\ st' = Piece([Entry EXCEPT !.pend = Tail(@)], Head(st.pend))
  /\ ctl' = Push(Frame("fn", Head(st.pend)))

\* The source: a function, or a declaration of something else.
RdSource ==
  /\ ctl = <<>> /\ ~Waiting(st)
  /\ \/ /\ Room
        /\ \E only \in BOOLEAN :
             LET s == NewFn(Drop(st), only) IN
             /\ st' = Piece(s, Newest(s))
             /\ ctl' = Push(Frame("fn", Newest(s)))
     \/ st' = Drop(st) /\ ctl' = Push(Frame("decl", 0))

\* The end of the source, and alloc_perfilefinalise.
EndOfFile ==
  /\ ctl = <<>> /\ ~Waiting(st)
  /\ st' = [Drop(st) EXCEPT !.out = IF Place(st) = 1 THEN "done" ELSE "marklist"]
  /\ UNCHANGED ctl

----------------------------------------------------------------------------
(* rd_fndef and generate_fn_body.                                          *)

\* Trees of the function that is being read or built; they may need a hunk.
Read ==
  /\ Inside("fn") \/ Inside("build")
  /\ Place(st) \notin F[Now.fn].store \/ st.seg < MaxHunks
  /\ \E h \in {st.seg, st.seg + 1} :
       /\ h <= MaxHunks
       /\ st' = [Piece(st, Now.fn) EXCEPT !.seg = h]
  /\ UNCHANGED ctl

\* A variable of the body, or a declaration, is described.
Describe ==
  /\ (Inside("fn") /\ Now.how = "body") \/ Inside("decl")
  /\ st' \in Described(st) \ {st}
  /\ UNCHANGED ctl

\* The head is read and described to the debugger; the members are next.
RdHead ==
  /\ Inside("fn") /\ Now.how = "top"
  /\ st' \in Described(st)
  /\ ctl' = Append(Pop, [Now EXCEPT !.how = "members"])

\* rd_meminit and syn_memdtor; of a class with virtual bases they first make
\* the whole-object function (meminit_cmd) and the body becomes the core.
RdMembers ==
  /\ Inside("fn") /\ Now.how = "members"
  /\ LET body == Append(Pop, [Now EXCEPT !.how = "body"]) IN
     \/ ctl' = body /\ UNCHANGED st
     \/ /\ "core" \in features /\ Room /\ Deeper
        /\ st' = NewFn(st, FALSE)
        /\ ctl' = Append(body, Frame("build", Newest(st) + 1))

NoteGenerated ==
  /\ Inside("build")
  /\ st' = Note(st, Now.fn)
  /\ ctl' = Pop

Made(s, f) == [s EXCEPT !.fns[f].made = @ + 1, !.fns[f].store = {}]

\* A template that was only parsed gives a declaration, which no caller
\* compiles: compile_statements drops its trees, the loops go on without.
EndFn ==
  /\ Inside("fn") /\ Now.how = "body"
  /\ \/ /\ F[Now.fn].only
        /\ st' = Made(st, Now.fn)
        /\ ctl' = Pop
     \/ /\ ~F[Now.fn].only
        /\ ctl' = Append(Pop, [Frame("cg", Now.fn) EXCEPT !.mark = Now.mark])
        /\ UNCHANGED st

EndFly(s, m) == IF m = 0 THEN s ELSE Unmark(Drop(s), m)

Compiled(s, f) == Drop(Made(s, f))

\* cg_topdecl uses the trees up and drops local store, on the way describing
\* types to the debugger; add_pendingfn then undoes its own mark.
CgTopDecl ==
  /\ Inside("cg")
  /\ \E s \in Described(st) : st' = EndFly(Compiled(s, Now.fn), Now.mark)
  /\ ctl' = Pop

----------------------------------------------------------------------------
(* What makes more functions while one is being read or built.             *)

\* Expressions are read here, and may need the instance of a template.
Using == \/ Inside("fn") /\ Now.how \in {"members", "body"}
         \/ Inside("decl")
         \/ Inside("build") /\ "build" \in features

\* add_pendingfn of a template function: read and compiled on the spot.
InstantiateFn ==
  /\ Using /\ Deeper /\ Room
  /\ LET s == NewFn(Mark(st), FALSE) IN
     /\ st' = Piece(s, Newest(s))
     /\ ctl' = Push([Frame("fn", Newest(s)) EXCEPT !.mark = Top(s).blk])

\* syn_implicit_instantiate: the instance of a class template.
InstantiateClass ==
  /\ Using \/ (Inside("class") /\ ~Now.late)
  /\ Deeper
  /\ ctl' = Push([Frame("class", 0) EXCEPT !.how = "instance"])
  /\ UNCHANGED st

\* A class in a function's body; functions pending outside are set aside.
LocalClass ==
  /\ Inside("fn") /\ Now.how = "body" /\ Deeper
  /\ ctl' = Push([Frame("class", 0) EXCEPT !.how = "local", !.saved = st.pend])
  /\ st' = [st EXCEPT !.pend = <<>>]

TopClass ==
  /\ Inside("decl") /\ Deeper
  /\ ctl' = Push(Frame("class", 0))
  /\ UNCHANGED st

NestedClass ==
  /\ Inside("class") /\ ~Now.late /\ Deeper
  /\ ctl' = Push([Frame("class", 0) EXCEPT !.how = "nested"])
  /\ UNCHANGED st

\* A member function with a body: the symbols are saved and add_pendingfn
\* queues it last.  Those of an instance wait for their first use instead.
InBody == \E i \in DOMAIN ctl : ctl[i].k \in {"fn", "build"}

MemberFn ==
  /\ Inside("class") /\ ~Now.late /\ Now.how # "instance" /\ Room
  /\ \E only \in IF InBody /\ "template" \notin features THEN {FALSE} ELSE BOOLEAN :
       st' = [NewFn(st, only) EXCEPT !.pend = Append(@, Newest(st) + 1)]
  /\ UNCHANGED ctl

\* The end of rd_classdecl: functions the class lacks are generated.
GenerateFn ==
  /\ Inside("class") /\ Room /\ Deeper
  /\ st' = NewFn(st, FALSE)
  /\ ctl' = Append(Append(Pop, [Now EXCEPT !.late = TRUE]),
                   Frame("build", Newest(st) + 1))

LoopForgets(saved) == [Frame("loop", 0) EXCEPT !.mark = Block(st)]   \* mutant

\* The loop's own mark; functions pending outside come back when it ends.
Loop(saved) == [Frame("loop", 0) EXCEPT !.mark = Block(st), !.saved = saved]

LoopMarkNone(s) == s                     \* mutant: the loop sets no mark
LoopMark(s)     == Mark(s)

EndClass ==
  /\ Inside("class")
  /\ CASE Now.how = "local" /\ Waiting(st) ->
            st' = LoopMark(st) /\ ctl' = Append(Pop, Loop(Now.saved))
       [] Now.how = "local" /\ ~Waiting(st) ->
            st' = [st EXCEPT !.pend = Now.saved] /\ ctl' = Pop
       [] Now.how = "instance" /\ Waiting(st) ->
            /\ st' = [LoopMark(st) EXCEPT !.pend = <<>>]
            /\ ctl' = Append(Pop, Loop(st.pend))
       [] OTHER -> ctl' = Pop /\ UNCHANGED st

EndLoop ==
  /\ Inside("loop") /\ ~Waiting(st)
  /\ st' = [Unmark(st, Now.mark) EXCEPT !.pend = Now.saved]
  /\ ctl' = Pop

EndDecl ==
  /\ Inside("decl")
  /\ ctl' = Pop
  /\ UNCHANGED st

----------------------------------------------------------------------------
Init ==
  /\ st = [marks |-> <<[blk |-> 1, seg |-> 0, unmarked |-> FALSE]>>, free |-> <<>>,
           blks |-> 1, seg |-> 0, gen |-> <<>>, pend |-> <<>>, fns |-> <<>>, out |-> "ok"]
  /\ ctl = <<>>
  /\ features \in FeatureSets

\* The compilation is over: the driver does not call the parser again.
Over == st.out # "ok" /\ UNCHANGED vars

Next ==
  \/ /\ st.out = "ok"
     /\ UNCHANGED features
     /\ \/ RdGenerated \/ RdPending \/ RdSource \/ EndOfFile
        \/ Read \/ Describe \/ RdHead \/ RdMembers \/ NoteGenerated
        \/ EndFn \/ CgTopDecl
        \/ InstantiateFn \/ InstantiateClass \/ LocalClass \/ TopClass
        \/ NestedClass \/ MemberFn \/ GenerateFn
        \/ EndClass \/ EndLoop \/ EndDecl
  \/ Over

Spec == Init /\ [][Next]_vars

----------------------------------------------------------------------------
(* Properties.                                                             *)

Fn     == 1 .. MaxFns
Blk    == Nat \ {0}
FrameK == {"fn", "class", "build", "loop", "cg", "decl"}

Plain == features = {}
Cores == features \subseteq {"core", "build"}

TypeOK ==
  /\ features \in FeatureSets
  /\ st.marks \in Seq([blk : Blk, seg : 0 .. MaxHunks, unmarked : BOOLEAN])
  /\ st.free \in Seq(Blk) /\ st.blks \in Nat /\ st.seg \in 0 .. MaxHunks
  /\ IsInjective(Blocks(st.marks) \o st.free)
  /\ ToSet(Blocks(st.marks) \o st.free) = 1 .. st.blks
  /\ st.gen \in Seq([fn : Fn, mark : Blk]) /\ st.pend \in Seq(Fn)
  /\ F \in Seq([store : SUBSET Nat, whole : BOOLEAN, made : Nat, only : BOOLEAN])
  /\ st.out \in {"ok", "done", "unmark", "unmark1", "marklist"}
  /\ ctl \in Seq([k : FrameK, fn : Nat, mark : Nat, saved : Seq(Fn),
                  how : {"top", "members", "body", "local", "nested", "instance"},
                  late : BOOLEAN])

\* With none of the four, every function is whole while it is read or built, while it waits and when
\* it is compiled: no mark undone and no local store dropped in between, by
\* the loops that compile other functions in the middle of it, gives back
\* store that holds a part of it.
Whole == Plain => \A f \in DOMAIN F : F[f].whole

\* syn_note_generated_fn: the mark "protects the function definition until
\* later unmark()'d by syn.c::rd_topdecl()", which returns the definition to
\* be compiled: what it returns is still there.
NotedKept ==
  \A f \in DOMAIN F :
    (\/ \E i \in DOMAIN st.gen : st.gen[i].fn = f
     \/ \E i \in DOMAIN ctl : ctl[i].k = "cg" /\ ctl[i].fn = f) => F[f].whole

\* Without debug tables, whatever order functions are made, set aside and
\* taken in, each is compiled (or, of a template, parsed) once, and none is
\* left at the end.
EachOnce == Cores =>
  \A f \in DOMAIN F : /\ F[f].made <= 1
                      /\ st.out = "done" => F[f].made = 1

\* With none of the four, between declarations the marks are exactly those of the generated
\* functions in waiting, latest on top, and none is pending: each unmark
\* gives back the store of one function and no more.
MarksInOrder ==
  Plain /\ ctl = <<>> /\ st.out = "ok" =>
    /\ Place(st) = Len(st.gen) + 1
    /\ \A i \in 1 .. Len(st.gen) :
         st.gen[i].mark = st.marks[Place(st) + 1 - i].blk
    /\ \A i \in DOMAIN st.marks : ~st.marks[i].unmarked

\* No mark is lost or undone twice: alloc_unmark is never "called too often",
\* for a mark already gone or for one whose block has been used again.
\* Without debug tables alloc_perfilefinalise never reports "corrupt
\* alloc_marklist": every mark set while the file was compiled was undone.
\* With none of the four "alloc_unmark(no drop_local_store())" is never
\* reported: whoever undoes the top mark dropped the local store above it.
MarksBalanced ==
  /\ st.out # "unmark"
  /\ Cores => st.out # "marklist"
  /\ Plain => st.out # "unmark1"

\* A function is damaged in one way only: alloc_unmark of the top mark also
\* undoes pending marks under it, set before the store was allocated.
\* drop_local_store never reaches a function that is still needed.
DamageByPending ==
  [][(\E f \in DOMAIN F : F[f].whole /\ ~F'[f].whole) =>
       Place(st') < Place(st) - 1]_vars

============================================================================
