# Specifications of the Norcroft C/C++ compiler

This directory holds TLA+ models of the parts of the Norcroft compiler (SDT
2.11a) whose correctness depends on long sequences of calls rather than on one
function's result, with TLC configurations that check them on small instances
and TLAPS proofs that hold for every size.

The compiler is a sequential C program. Nothing in it runs concurrently and
nothing is persisted; what makes it hard to test are protocols between its
phases over shared static state: store that must outlive one phase and not the
next, hunks that change owner, symbols peeked before the state that classifies
them changes, sets shared between blocks, literal pools that must be emitted
before a reference gets out of range.

## Inventory

| part | files | state | operations | hard behaviour |
|---|---|---|---|---|
| store allocator | `mip/store.c` | four pools of hunks, free lists of cons cells, stack of marks | PermAlloc, GlobAlloc, BindAlloc, SynAlloc, discard2/3, alloc_mark/unmark, drop_local_store, alloc_reinit, per-file and per-invocation calls | lifetimes, recycling between pools, marks undone out of order, arrays that grow while in use, an exit by longjmp from anywhere |
| driver | `mip/driver.c`, `mip/main.c` | option environment, lists of files and objects | cc_main, assembler, linker, compiler_exit | an error leaves by longjmp with static state half changed |
| compile control, include search | `mip/compiler.c` | the file stack, listing state, phase names | ccom, compile_statements, cleanup | the order of drop, reinit and phase calls per declaration |
| messages | `mip/misc.c` | counts, the position of errors | cc_err, cc_fatalerr, syserr | suppressed errors, an error inside an error |
| lexer | `cfe/lex.c`, `cppfe/xlex.c` | current symbol, ring of peeked symbols, saved token streams | nextsym, peeksym, ungetsym | symbols read ahead of the state that decides their kind |
| preprocessor | `cfe/pp.c` | macro table, include stack, #if nesting, expansion buffer | pp_nextchar, directives, macro expansion | nesting that crosses files, macros that mention themselves |
| parser | `cfe/syn.c`, `cppfe/xsyn.c` | recursion, pending generated functions | rd_topdecl and below | functions generated while another is read, marks undone out of order |
| semantics | `cfe/sem.c`, `cppfe/xsem.c`, `overload.c`, `doe.c` | none that lasts | type checking, conversions, overload resolution | functions of trees |
| scopes | `mip/bind.c`, `cppfe/xbind.c` | binding lists per symbol, scope stack, labels | push_scope, pop_scope, instate_declaration | tentative definitions, labels used before they are set |
| trees, simplifier, static data | `mip/aetree.c`, `cfe/simplify.c`, `cfe/vargen.c` | none that lasts | constructors, rewriting, layout | functions of trees |
| inline expansion | `mip/inline.c` | saved function bodies, out-of-line requests | Inline_Save, Inline_Do, out-of-line generation | a call expanded before, or asked for after, the body is gone |
| code generator | `mip/cg.c` | free registers, pending function, saved state | cg_topdecl and below | temporary registers and the store of nested constructs |
| flow graph | `mip/flowgraf.c` | basic blocks with reference counts | branch chaining, cross-jumping, removal | loops of branches, counts that must match the edges |
| CSE, strength reduction | `mip/cse*.c`, `mip/sr.c` | expression sets per block | scan, data flow, replacement | sets shared between blocks |
| register sets and allocation | `mip/regsets.c`, `mip/regalloc.c` | hashed shared bit sets, clash graph | set algebra, colouring, spilling | a set altered while another owner holds it |
| code buffers | `mip/codebuf.c` | code vector, literal pool, references | outcodeword, lit_word, dumplits | every reference within reach of its pool |
| ARM and Thumb back ends | `arm/`, `thumb/` | pending loads and stores, the peephole window | gen, peephole | merged transfers must not reorder aliases |
| object and debug output | `mip/*obj.c`, `mip/dwarf*.c`, `armthumb/` | tables | writers | formats |
| interpreter, build tools, support library | `interp/`, `util/`, `clbcomp/`, `ncc-support/` | small | | 64-bit arithmetic on 32-bit halves |

Calls go down the table's pipeline once per top-level declaration
(`compile_statements`, compiler.c 723-787): `drop_local_store`, `alloc_reinit`,
the `*_reinit` functions, `rd_topdecl`, `cg_topdecl`, `drop_local_store`. Every
part shares the four pools of the store allocator, which is why it comes first.

What makes each part correct is listed with its hazards in `PROJECT.json`.

| module | models | uses |
|---|---|---|
| `Store`, `StoreContract`, `MCStore`, four modules `Store_*proofs` | `mip/store.c` and its contract | |
| `PP`, `MacroExpand`, `MacroStandard`, `PP_proofs`, `MCPP` | `cfe/pp.c` | PP extends MacroExpand |
| `GeneratedFns`, `GeneratedFns_proofs`, `GeneratedFns_store_proofs` | functions in waiting, `cfe/syn.c`, `cppfe/xsyn.c`, with the marks of `store.c` | |
| `RegAlloc`, `MCRegAlloc` | `mip/regalloc.c`, `remove_noops` of `mip/flowgraf.c` | |
| `FlowGraph`, `FlowDump`, `MCFlowGraph` | `mip/flowgraf.c` after register allocation | FlowDump extends FlowGraph |
| `Ldm`, `MCLdm` | held back loads and stores of `arm/gen.c` | |
| `LitPool`, `LitPool_proofs`, `MCLitPool` | literal pools, `arm/gen.c`, `mip/codebuf.c` | |

They follow one function through the compiler: its text is made from files and
macros (`PP`), it is parsed and kept
(`GeneratedFns`) in store (`Store`), gets registers (`RegAlloc`), its graph is
simplified (`FlowGraph`) and laid out (`FlowDump`), and the generator merges its
transfers (`Ldm`) and places its literals (`LitPool`).

## Store: the allocator

`Store.tla` models all of `mip/store.c` that changes state.

A hunk of SEGSIZE words is a number (the order of malloc), a pointer a hunk and
an offset in words; bytes, padding and the contents of blocks are left out. The
correspondence:

| in the code | in the model |
|---|---|
| alloc_chain | `pool.chain`, the number of hunks malloc'ed |
| permallp, permalltop | `pool.permallp`; `pool.perm` is the set of hunks ever given to Perm |
| bindsegbase[0..bindsegcnt-1], bindsegcur | `pool.bindseg`, `pool.bindsegcur` |
| segmax | `pool.segmax` |
| globsegbase, globsegsize, globsegcnt | `glob.seg`, a sequence of [hunk, size] |
| globallp, globalltop | `glob.allp`, `glob.size` (size of the page it points into) |
| globoschain | `glob.os` |
| synsegbase, synsegptr, synsegcnt, synallp | `syn.seg`, `syn.ptr`, `syn.allp` |
| bindsegptr, bindallp | `bnd.ptr`, `bnd.allp` |
| synall2/synall3, bindall2/bindall3 | `syn.free[k]`, `bnd.free[k]`, by the size of the cell |
| marklist, freemarks | `marklist` (bottom first), `freemarks` (a count) |
| DUFF_ADDR | `Duff` |

synalltop and bindalltop are the end of the current hunk, so they are not state:
a hunk's size is SEGSIZE, and `MarksRestore` says that the hunk the code computes
them from (`segbase[segno-1]`) is the one the pointer lies in.

Each C function is an operator on the record `pool` where it runs inside other
calls (`PermAlloc`, `TakeHunk`, `ExpandSegmax`, `Room`) and an action where the
compiler calls it. A taker of a hunk that calls expand_segmax calls PermAlloc six
times, and those calls may take spare hunks themselves, in the same action. The
loops of drop_local_store and alloc_perfilefinalise are a step per round
(`DropHunk`, `RecycleGlobPage`), because an error can leave from the middle of
them (`Fail`, the longjmp of compiler_exit) and the next invocation starts from
whatever is left (`AllocFinalise`, `AllocInitialise`).

The environment (`Compile`, `Common`) is every caller: any order of requests
that the lifetimes allow. `PerFileInit(command)` says whether the driver prepares
a command for the assembler or the linker; those use Perm and Syn store and
drop_local_store only, and never call alloc_perfilefinalise. `live` is history:
it follows a few blocks from allocation to the end of the lifetime that the
comment at the head of `store.h` gives their class.

`StoreContract.tla` is the abstract specification: blocks of four classes,
marks, and no hunks. A block gets words that no living block owns and keeps them
until the lifetime of its class ends. `Promise` instantiates it with the words
(hunk, offset) and `KeepsPromise` is the claim that Store implements it.

### Properties

* `TypeOK`: the statics keep their types.
* `Shape`: the counts remembered by marks never exceed the present ones and grow
  from mark to mark; each array of free offsets has the length of its pool.
* `HunksDisjoint`: no hunk is in two pools, or twice in one.
* `LiveHeld`: the allocator that handed a block out still counts it as used, to
  the end of its lifetime.
* `LiveDisjoint`: two blocks in use do not overlap.
* `FreeCellsDead`: cells on a free list are dead, distinct, and inside hunks that
  the owner of the list holds.
* `MarksRestore`: the allocators' pointers and those saved in marks lie in the hunk that
  the segment counts call the last one.
* `ArraysFit`: the segment arrays are never written past segmax.
* `DiscardFinds`: discard2 and discard3 never fail for a caller that keeps to the
  lifetimes.
* `LossIsKnown`: a hunk leaves all pools only in the two ways named below.
* `KeepsPromise`: refinement of `StoreContract`.

### Runs

The run instantiates `MCStore.tla` (Store with a symmetry set). Deadlock is
checked: the model has none.

| run | bounds | shows |
|---|---|---|
| `store` | hunks of 2 words, requests of 2 and of 3 (above SEGSIZE), cells of 1, arrays of 2 that double, 6 hunks, 3 marks, 2 files, 2 objects | lifetimes, overlap, free lists, recycling, marks, growing arrays, refinement |

Why these bounds are enough. Two objects see every pair that can overlap. Two
words and cells of one leave room for a partly used hunk, a scrap and a scrap that
is too small; `ScavengeAbove = 0` lets every request look for scraps (the code's
threshold of 12 bytes only makes fewer requests do so). Three marks, the base
mark among them, give a mark undone before the one above it and popped with that one.
`EntriesPerWord = 2` scales the arrays so that they are enlarged once or twice, and
the arrays take hunks of their own, within the bound on hunks. MaxHunks is also how malloc fails. Six hunks let one hunk visit
Syn, Bind and Glob in turn.

What comments say and the code does not do: store.c 287 and 333 say recycled
segments are found again, 704-706 that blocks are lost only "until the segment
is recycled". `alloc_perfileinit` of a command is never matched by
`alloc_perfilefinalise`, so the page of its mark leaves all pools; alloc_unmark
does the same to the Syn hunks between pending marks. The hunks are freed at the
end of the program. `LossIsKnown` is the property that does hold; `NoHunkLost`
of the module, without its exceptions, fails under `Store.cfg`.

With requests of 5, hunks of 6 and arrays of 2 that grow
to 8, the model reaches `pool.err = "overlarge"` though no request is too large.
store.c 260-261 say there is no fixed limit on the number of pages; the arrays
come from PermAlloc, which refuses more than SEGSIZE, and with 8-byte pointers the
step from 1024 to 4096 segments is refused.

No liveness is claimed for Store: every loop is a C loop over a finite count, and
the environment need not call anything again. No fairness is assumed there.

### Proofs

Four modules, each extending the one before, prove every invariant above,
`LossIsKnown` and the refinement, for every value of the constants that `StoreAssumption`
allows: any size of hunk, request and cell, any number of hunks, marks, files and
objects, any growth of the arrays.

| module | theorems | from |
|---|---|---|
| `Store_proofs` | `TypeCorrect`, `ShapeCorrect` | `IInv` |
| `Store_hunk_proofs` | `HunksDisjointCorrect`, `ArraysFitCorrect`, `LossIsKnownCorrect`, `MarksRestoreCorrect` | `Hunky`, `Emptied` for the third, `MarksRestore` for the last |
| `Store_block_proofs` | `LiveHeldCorrect`, `LiveDisjointCorrect`, `FreeCellsDeadCorrect`, `DiscardFindsCorrect` | `Placed` |
| `Store_refine_proofs` | `KeepsPromiseCorrect` | all of them |

The inductive invariant is their conjunction,
`BlockInv == IInv /\ Hunky /\ MarksRestore /\ Placed /\ DiscardFinds`, and every
part is there because another is not inductive without it:

* `IInv == TypeOK /\ Shape`. `alloc_unmark` cuts the arrays to the counts saved in
  a mark, and `SubSeq(syn.seg, 1, m.synno)` is a sequence of hunks only if the
  count is at most the present length; popping several pending marks needs the
  counts to be in order.
* `Hunky` is `HunksDisjoint` and `ArraysFit` for the allocator as it is in the
  middle of a call: expand_segmax calls PermAlloc six times, each of which may
  take a spare. `Tidy` says it of a `pool` record, a sequence of Syn hunks and a
  `glob` record, and `Passes(s, t)` what any taker of hunks may do to them; a hunk
  taken is one no pool has, since spares are hunks of the binder pool above
  bindsegcur and malloc's are above `chain`.
* `MarksRestore` needs `Hunky`: a pointer names its hunk, and the position of that
  hunk is determined only when no hunk is twice in the array.
* `Placed` is the invariant of blocks. A block of Syn or Bind lies below the free
  pointer now (`HeldSyn`, `HeldBind`), and also below that of every mark set after
  it (`SynUnder`, `BindUnder`), for that is the pointer alloc_unmark, alloc_reinit
  and drop_local_store go back to. The search for scraps runs only above the top
  mark, so what lies below one is kept (`Low`). A block handed out was not below
  the pointer before and is below it after (`Grows`), which gives disjointness
  from blocks of its own pool; `Hunky` gives it from the others'. Cells on free
  lists are held and dead, so a block that comes from one overlaps nothing; their
  lists are emptied exactly when the free pointer may go below them.
  While drop_local_store runs the free pointer of Syn is not known, and the
  blocks that survive are those of a level below the marks.
* `DiscardFinds` is there because a block that is held lies in a hunk in use.

`LossIsKnown` speaks of steps. `Saves(s, t, X)` is the account it rests on: of the
hunks malloc has ever handed out, each is in a pool of `t`, or with the taker (`X`), or
was in no pool of `s` already. Every taker of hunks keeps it, expand_segmax's six calls
of PermAlloc one after the other. `Emptied` says what is left between files: no
Glob page and, but after a command, no Syn hunk, so that alloc_perfileinit, which
resets both, loses nothing else.

The refinement maps an object to the words it lies in. `OwnFacts` recovers class
and level from the abstract block; `Allocate` of the contract asks that the words of
a new block be free, which is `LiveDisjoint` in the next state, so the step lemmas
use `BlockInv'`; that a discard, unmark, drop, reinit or end of file ends just the
lifetimes that the contract ends is `EndsKept`, `UnmarkKept` and `FileEndKept`.

The lemmas go bottom up: sequences (Front, Swap, SubSeq), takers of hunks, stacks
of hunks (`Grows`, `Low`) that Syn and Bind share, the allocators, cons cells,
marks, drop and reinit, the passage from file to file; one lemma per action and
part of the invariant, then `NextIInv`, `NextHunky`, `NextMarks`, `NextPlaced`,
`NextFinds` and `NextKept`.

The only assumption is `StoreAssumption` in `Store.tla`, which every run evaluates:
sizes are positive, cells fit in a hunk, arrays grow, and `None` is not a block.
`Init` starts the first invocation as failed if malloc refuses the first
arrays, which the proofs need and no bound of the runs reaches.

## PP and MacroExpand: the preprocessor

`pp.c` gives the lexer one character after another. `pp_process` reads characters
at top level; a name goes to `pp_checkid`, which may call `pp_rd_args` and
`pp_expand`; `pp_expand` makes the macro's text and calls `pp_argexpand` for
arguments, which copies an argument from `abuf` to `ebuf` and back until no
macro in it is left, calling `pp_checkid` in turn. A macro is asleep while its text is
read: `sleepleft` counts the characters still to come.

`MacroExpand.tla` models those functions, a step per character or token of theirs,
with the C stack in `calls`. `PP.tla` extends it with files and directives. A line
that is a directive is one character there, explained by the constant `Directives`.

| in the code | in the model |
|---|---|
| ebuf, from pp_ebufptr to pp_ebuftop | `b.e` |
| abuf, to pp_abufptr | `b.a`; the cell pp_arg_align leaves before an argument is an element |
| pp_scanidx, pp_noexpand with sleepleft | `b.scanidx`, `b.noexpand` |
| hashalive of each macro, other fields | `b.alive`, `macros` |
| argactual, and older ones in the cells | `actual`, a stack per parameter |
| locals of the functions under way | `calls` |
| pp_ifstack, pp_skipping | `ifstack`, `skipping` |
| pp_filestack, pp_cis, seen_pp_token, seen_before | `filestack`, `b.in` and `file`, `seen`, `seen_before` |
| guard_ifndef, a pointer into pp_ifstack | the number of cells under it: freed cells are taken again in the opposite order, so both compare alike |
| pp_lookup | `Expandable` and `IsDefined`: a sleeping macro is not found |

`lost` (files left out that had something to say) and `astray` are history.

* `SleepersNest`: only the first sleeper of a list is ever looked at, so each must
  sleep as long as those before it; a macro has one link, so it sleeps once, in
  one list; and a macro that sleeps is not alive. It must hold through every
  read-ahead and putting back, which correct all counts at once.
* `ExpandsAsStandard`: the tokens that come out are those of `MacroStandard.tla`,
  an expansion with a set of names to leave alone on every token, which knows no buffers and
  no counts. Two tokens are never made one by standing next to each other.
* `ConditionalsHold`: each directive does to the open conditionals what the
  language says (`Directed`), and text is skipped just when one of them is not
  taken, also when a file ends conditionals of its includer's.
* `GuardHarmlessIfWhole`: a file left out since its guard is defined would have
  said nothing, if the guard has no `#else` and the file ends what it begins.
* `Ends`: expansion and reading come to an end.
* `GuardHarmless` (**fails**, run `pp_guard`): without the condition.

Run `pp`, four families. *Calling*: two macros, one with a parameter, all bodies
of up to three tokens out of the parameter, both names and the parentheses, and
two texts with calls in arguments, names without arguments, and calls over a
line. *Pasting*: bodies of up to four tokens with `#` and `##`, where gluing makes
the name of another macro, called directly and through a macro. *Including*: a
file of up to three lines (and the same inside an `#ifndef` that guards it),
included two or three times, skipped and not, with the name
defined and undefined between; one of the lines includes a file that ends the
conditional around it and begins another. *Asking*: macros, one with a parameter, before
directives that ask for one of them, where a parenthesis is looked for in the
directive's place. Deadlock is not checked: the text ends.

What the code does and comments do not say:

* `pp_guard`: `pp_h_endif` takes the first `#ifndef` of a file for its guard if
  nothing follows the `#endif`, whatever lies between, an `#else` too (2236). A
  file that says one thing the first time and another with the name defined says
  nothing the second time.
* An `#ifndef` after the guard's `#endif` restores `seen_pp_token` (2784) and sets
  it only when it could be a guard itself. If the file does not end it the file
  is taken for guarded all the same, and the second time what it left open is not.
* Arguments may run on behind the text that named the macro. Names that slept
  when the call was read are then awake when the argument is expanded, and a name
  quoted in an argument next to `##` loses its quote (the comment at 1492 calls it
  a bug). The standard leaves the first open; `astray` marks both, and
  `ExpandsAsStandard` claims nothing of such programs.
* The newlines of a call over several lines come after its text (1523).

### Proofs

`PP_proofs` proves, for every set of programs, macros and directives
(`DirectivesAssumption`: a line that is a directive is no letter of a name):

* `FlagsDoAsAsked`, for the conditionals alone. The invariant `Flags` is what the flags
  of each cell of ifstack say of those around it: `oldskip` is set in all that are
  inside a part not taken, `skipelse` where `oldskip` is, and text not skipped after
  `#else` or `#elif` has `skipelse` set, so that no later part is taken. From it `LiveIs`
  (text is skipped just when some conditional is not taken), and a lemma for each way a
  directive changes the stack: `OpeningOf`, `ElseOf`, `ElifOf`, `ClosingOf`.
* `ScanEnds`: abuf is not read from at top level. The invariant `ReadOK` is proved of each of the 22
  actions of `MacroExpand` and each of `PP`: the list of sleepers is a list, the
  functions under way are a stack of which the first pp_argexpand began when nothing was read from
  abuf, and there is no pp_argexpand only where nothing is.
* `ConditionalsAsked`, `ConditionalsHold` under `[]DirectivesInFiles`. That is a hypothesis about
  programs: text a macro was replaced by holds no directive (to C, what looks like one
  there is none), and an argument holds none either (undefined). `DirectivesInFiles`
  can be added to the invariants of `PP.cfg` and holds there. Then
  reading the directive awakens every macro (`RdchKept`), so that pp_lookup finds
  all that are defined.

Two definitions had to change for the proofs, both a CASE whose guards overlapped, where TLC took the
arm that was meant and TLA+ leaves the choice open: `Groups` and the count
of parentheses in `ArgChar`.

Only model-checked: `SleepersNest` (the counts of sleepers; it needs that every
argument in abuf is closed), `GuardHarmlessIfWhole`, `ExpandsAsStandard` and `Ends`.

Not modelled: PCC mode (no sleeping names, arguments in strings), numbers,
comments, trigraphs and line splicing, line counts, predefined macros, `defined`
and the expressions of `#if` (conditions are 0 or 1), `#line`, `#pragma`,
`#error`, built-in headers, the option that includes every file once, and files that include themselves. Wrong numbers
of arguments end the model (`err`): the code goes on with invented ones.

## GeneratedFns: functions in waiting

`GeneratedFns.tla` models how the C++ parser makes functions while it reads other
things, keeps them, and hands them out to be compiled, and what the marks of the
store allocator do for them. It is the largest client of `alloc_mark`, and the
one whose marks are undone out of order.

Two lists wait. `syn_generatedfns` holds trees: constructors, destructors and
assignments made at the end of a class (`generate_fndef`), the whole-object
functions made before a user-written constructor of a class with virtual bases
(`rd_meminit`, `syn_memdtor`), and functions for default arguments that the
debugger wants (`dw_generate_default_fn`). The trees are in local store under a
mark that `syn_note_generated_fn` sets. `syn_pendingfns` holds saved symbols of
member functions, which need no mark. `rd_topdecl` empties both before it reads
on. It has three callers: `compile_statements`, the loop after a class inside a
function (`rd_declspec`), and the loop after the instance of a class template
(`syn_implicit_instantiate`); `add_pendingfn` reads and compiles a template
function on the spot.

| in the code | in the model |
|---|---|
| the C stack of the recursive parser | `ctl`, a stack of frames: reading a function (`fn`), building one (`build`), a class (`class`), one of the two loops (`loop`), cg_topdecl (`cg`), another declaration (`decl`) |
| locals `mark`, `old_pendingfns` | `mark` and `saved` of the frame |
| marklist, freemarks, synsegcnt | `st.marks`, `st.free` (blocks by number), `st.seg` |
| local store | levels: a piece of a function allocated with n marks set is at level n; `drop_local_store` and `alloc_unmark` give back the levels above what they keep |
| syn_generatedfns, syn_pendingfns | `st.gen`, `st.pend` |
| a function's trees | `st.fns[f].store`, the levels it has pieces at, and `whole`, false once one was given back |
| syserr | `st.out`, which ends the run |

`store`, `whole` and `made` are history variables: the program keeps no such
record. `only` says that the function is a template that rd_topdecl merely parses.

`features` (one of `FeatureSets`) selects what the program and the options make happen, so that one run
shows what holds without it and what goes wrong with it: `core`
(user-written constructors of classes with virtual bases), `build` (an instance
needed while a function is being generated), `debug` (debug tables) and
`template` (member templates of a class read in the middle of a function). All
are legal; none is a restriction the code itself makes.

Properties and runs:

| run | features and bounds | properties |
|---|---|---|
| `gen_all` | none; core and build; all four: 4 functions, nesting 5, 1 hunk | with none: `Whole`: no waiting or half-read function loses a tree; `MarksInOrder`: between declarations the marks are those of `st.gen`, in order, none pending. With core and build: `EachOnce`: every function is compiled exactly once. With all: `TypeOK`; `MarksBalanced`: alloc_unmark always finds its mark, without debug tables "corrupt alloc_marklist" is never reported, and with none of the four "no drop_local_store()" is not either; `DamageByPending`: a function is damaged only by an unmark that pops pending marks too |
| `gen_core` | core; 3, 5, 0 | **fails** `NotedKept` |

Why the bounds are enough: two waiting functions and one being read are what a
mark can be out of order with, and the fourth is the one made in a loop on the
way. Nesting 5 lets a loop run inside a function inside a loop.
One hunk of Syn store beyond the mark's is what alloc_unmark's test tells from
none.

Each feature has one way to go wrong. `gen_core` shows the first; the others
appear with `FeatureSets` of `{{"build"}}` (`NotedKept` fails), `{{"debug"}}`
(`st.out = "marklist"`) and `{{"template"}}` and a hunk (`st.out = "unmark1"`):

* `gen_core`. `add_pendingfn` undoes its own mark (xsyn.c 3483) while the
  whole-object constructor noted in the body lies above it; the mark becomes
  pending and, when rd_topdecl takes that constructor, goes with it, and so does
  the store of the definition rd_topdecl returns. The comment at xsyn.c 2816 says
  the mark protects it.
* build. An instance is needed while a second function is being generated.
  Its loop also takes the first, whose mark is under the loop's and becomes
  pending, and the loop's own unmark then gives back what has been built of the
  second.
* debug. rd_topdecl reads the head of the list, calls dbg_proc, and removes
  the head (syn.c 5190-5206). A class with default arguments that dbg_proc meets
  for the first time puts a new cell in front; that one is removed.
* template. The loops skip what is not a function definition, and with
  cg_topdecl the drop of local store that alloc_unmark insists on.

Store given back is not store overwritten: what follows from the first two
depends on what is allocated before the trees are used up. The model says only
that the store no longer belongs to them.

`Over` keeps the run from ending where the compilation ends, so that deadlock is
checked everywhere else. No fairness is assumed and no liveness claimed: source
text may go on for ever.

### Proofs

Every property of the run is a theorem, for every set of features and every bound.
`GeneratedFns_proofs` proves `TypeOK`, `EachOnce` and of `MarksBalanced` the first two
parts; `GeneratedFns_store_proofs`, which extends it, the rest of `MarksBalanced`,
`Whole`, `MarksInOrder` and the action property `DamageByPending`. The invariant of the first is in layers, each proved of a
step from those before it:

* `TypeInv`: the types, and `Apart`: the Mark blocks in marklist and on freemarks are
  different and are all there are. `alloc_unmark` of the top mark gives several blocks
  back at once, and what is cut from one list is what the other gets. `TopLive`: the
  bottom mark and the top one are not flagged, so that the search for the mark that is
  left on top ends.
* `KnownInv`: every function in a list or a call is one made so far, since a new one
  must not be in any list.
* `Owned`: each mark that `gen` or a call in progress still has to undo is set, and no
  two have the same. That is not inductive: a flagged mark goes when one above it is
  undone, its owner's too. What saves it is `Held`: an owner's mark is not flagged, or
  has above it one that nobody owns and that is not flagged (only `debug` makes such),
  so that an unmark never cuts that far. `GeneratedMarks` is that and `Sound`: without
  debug tables no mark is without owner.
* `OncePlaced`: there are disjoint sets of the functions in `gen`, in `pend` and in the
  calls (being read, built, compiled, or set aside in `saved`), each function is at one
  place of its own, and those in none have been compiled once. With `debug` one that is
  being compiled may be in `gen` again, and `Holds` counts no call of cg_topdecl.
* `DoneInv`: nothing waits when the compilation is done.

`Steps` is `Next` as a relation of states, actions spelled out by what they change, so
that each layer is one lemma per action, and no lemma opens the records again.

`PlainInv` adds what holds with none of the features. What is left of store after an
unmark depends on where the mark was, so it relates `marks`, `gen` and `ctl` by place:

* `Nested`: which call the parser makes from which, for any features; so functions are
  compiled only by compile_statements, by a loop, or for an instance with a mark of its
  own.
* `Laid`: there are heights `H`, `H[i]` the place of the last mark set by the first i
  calls, that go up with the calls (`Heights`). A pending mark is below one of them with
  no generated function's mark between (`Covered`), which is what makes the unmark of a
  call give back no more than was allocated since; the first of `gen` has the latest mark
  (`NotesUp`); and the mark of an instance is right above that of the function it was met
  in (`Close`).
* `Reached`: a call that reads, compiles or loops has its height at the top mark, so that
  what it allocates is its own.
* `Safe`: pieces of a function in waiting are below its mark, those of one that is read
  not above its call's height, and no function has any that neither waits nor is in a
  call (`Homes`). Then drop_local_store and alloc_unmark give back levels above all
  pieces (`LowCut`, `TopDrop`).
* `Firm`: in a loop no function is read that is only parsed; that is why its
  cg_topdecl comes and drops local store. `Settled`: a loop starts from the segment count
  its mark has, the test that alloc_unmark makes.

Its step is one lemma per action again, gathered in `StepSure`. `MarksInOrder` follows
at the top level, where no call has a mark: nothing is pending, and places that go down
with the list and leave none out are those the property names (`Downwards`).

`HousedInv`, for `DamageByPending`, holds whatever the features. With them functions do
lose pieces, a mark may be pending over another's, and calls build functions in the
middle of others, so `Laid`, `Reached` and `Safe` fail. What is left is where a piece can
still be (`Lies`), by places again:

* `Housed`: a function has no pieces, or is in a call, or is `Sheltered`: some mark is
  above all its pieces that is neither pending nor a call's nor another waiting function's:
  as a rule the one that was set when the function was noted.
* `HandLow`: a function that is read or built has its pieces below the marks of the
  calls made from it, which is why it is not enough that it is in a call.
* With `Heights`, as above, where drop_local_store is called nothing lies at the top level
  (`Dry`): a call with a mark, or a loop, stands between the function and the
  top, and what cg_topdecl has compiled is used up.

A mark is then undone only by a call, or for a function that a call has taken, so it
shelters no one (`Idle`), and undoing it alone gives back what nothing needs
(`UndoLies`). If it is not on top, as after `debug` has noted a default argument, it is
only flagged (`UndoUnder`). What is left is the unmark that cuts pending marks too. Each
action is one lemma (`...Fares`), gathered in `StepFares`.

Left out: the store of the class itself, the function that `vg_dynamic_init`
makes at the end of the file, alloc_reinit's reset of Bind store, and errors in
the source.

## LitPool: literal pools of the ARM generator

An ARM instruction reaches a literal 255 or 1023 words from the program counter,
so `arm/gen.c` collects literals in `litpool` and lets `mip/codebuf.c` write them
among the instructions before the first pending reference is out of reach. How
long the next jopcode's expansion will be is not known when the check is made.
`addressability(n)` therefore sets `mustlitby` five instructions short, each
jopcode looks at it once, and the places known to emit more look again: held back
loads and stores (`ldm_flush_r`), block moves, branch tables.

| Model | Code |
|---|---|
| `codep` | `codebase + codep`, in words |
| `litpool`, `frefs`, `mustlitby` | `litpool`/`litpoolp`, `litlab->u.frefs`, `mustlitby` |
| `prevpools` | `prevpools`, and the address constants of `codexrefs` in them |
| `ldm` | `ldm_state.state` is not `PENDING_NONE` |
| `table` | `J_BXX` still to come after a `J_CASEBRANCH` |
| `hit` | history: references given their displacement in the last step, with the words each should find |
| `lost`, `long` | history: references `setlabel` found out of reach in it; whether its expansion was longer than `addressability` supposes |
| `err` | the `syserr` that stopped the compiler |

The routines of the two files are operators from state record to state record;
an action composes those one jopcode calls, in the code's order, and stores the
result. `Plain` is any jopcode without a literal: the model knows only how many
instructions it emits. `addressability` leaves room for six (`Slack`): five, and the
first of the next jopcode. With six a reference at the limit is exactly 255 or 1023
words from its literal.

| Run | Instance | Result |
|---|---|---|
| `lit` | an integer, an address constant, a double; strings of 2, 3, 8 and 17 words, two of them tails of the third; offsets of 0 and 1 word; jopcodes of 0 and 6 instructions, multiplications of 7, blocks of 8, tables of 4 | `InReachOrKnown`, `FindsLiteralOrKnown`, `TableWhole`, `OneCopy`, `PoolHasRefs` hold |
| `lit_shared` | strings of 2 and 8 words, one the tail of the other, no offsets, no expansion above 6 | `InReach` fails |

Reaches are scaled down (`Near` 7, `Far` and `PoolMax` 9), which keeps the five
words of allowance and the six of an expansion as they are: only the length of
pools shrinks. `PoolMax = Far` as in the code (1024). `MaxCode` lets a pool be
filled, written, read backwards until it is out of reach, and another begun; the
long string fills what is left of one pool, a second, and goes on in a third.
The model stops at `MaxCode` or at a `syserr`, so deadlock is not checked.

The properties:

* `InReachOrKnown`: a reference is out of reach of its literal in two cases only. It
  shares words of a string further from it than any reference that the limit allows for
  is from its own (`NoFurther`), or this expansion or the last was longer than `Slack`.
* `FindsLiteralOrKnown`: what an instruction addresses is the literal it was to load.
  Two kinds of reference may miss it, and by no more than `short` says: one with an
  offset, into an earlier pool, is two offsets short; a shared one that is not sure to
  be in reach is short by what the instruction has no room for.
* `InReach`: setlabel never reports a displacement. It is what the code relies on, and fails.
* `PoolHasRefs`: dumplits2 is never called for nothing, nor for a pool without references,
  and there is a limit exactly when a reference waits.
* `TableWhole`: no pool between the entries of a branch table.
* `OneCopy`: a string longer than eight bytes is in the code once.

The exceptions are faults of the code, and in the instance of `lit`:

* A string that ends like one in the pool is shared, and its words are further on than those
  the limit was set for. gen.c 1754 says the reference "must be addressable if the previous
  one was"; `lit_shared` shows setlabel report a displacement. A reference sure to be in
  reach is one for which the comment is right: its words are no further from it than those of
  an earlier one that is sure are from that.
* `multiply_integer` (gen.c 4165-4215) checks as if it emitted five instructions, and emits
  as many shifts and additions as are faster than a multiplication, seven and more. With
  `MulSizes = {7}` and the long string alone, `InReach` fails too; with `MulSizes = {6}`
  it holds.
* A constant added to a string literal is folded into `J_STRING` (`peeppat` 1055-1078). If the
  string is in an earlier pool, gen.c 1764 subtracts the offset together with the distance.
  The address is short of the string by the offset, so of the words wanted by two.
* A string that may not fit in a pool (`MaySplit`) is in two entries of `prevpools`, is
  not found again, and is written twice; one that is part of another (`InAnother`) may be
  written before it. `OneCopy` leaves both out.

One restriction is left: no offset is `Near - 5` or more. With such a one addressability asks
for room in an empty pool, dumps it, and `PoolHasRefs` fails (gen.c 1775).

### Proofs

`LitPool_proofs` proves four of the five properties of `lit` for every value of the
constants. `TableWhole` needs nothing else; the other three need `OffsetsShort`, the
restriction above. Expansions may be as long, and strings as alike, as they please.

Each routine is first shown to do what a relation of two states says (`RoomOf`,
`AddrOf`, `OutlitsOf`, `ReferOf`, ...); an action is then one of the relations
of `StepOf`. The invariants, each proved with those before it:

* `TypeInv`. `Filled` is a recursive function, so that what it does after each word is
  shown by the least word at which it would not: either the words are behind those in
  the pool (`Longer`), or they have filled it (`Spilt`), and then every word is at its
  address behind the branch, in a pool emitted or in the one begun.
* `TableInv`: while entries are to come, nothing is held back and the limit is further
  away than there are entries. That is `TableWhole`.
* `Tidy`: a reference waits, the pool has words, and there is a limit, only together.
* `Fits`: `mustlitby` is at most `at - place + reach - 5` for each reference that waits and is
  sure, and (`Placed`) for each number, address constant and double in the pool as if a
  reference were made to it now. The second is what sharing them needs; a string
  is covered by `NoFurther` instead. `Before` says how many instructions past
  the limit the generator may be: five at the end of an expansion, none after a check. `FitInv`
  requires it between jopcodes unless the last expansion was `long`.
* `Good`: each reference that waits has the place of its words, each resolved one
  their address or what it falls `short` of it, and pools end before the next instruction.

`OneCopy` stays with TLC: it counts the places of a string with `Cardinality`, in pools
that hold words of other strings.

Left out: reentrant and Arthur code (no pool, or more instructions), the name
table of `-K`, new code areas, literals of static initialisers, and the mapping
symbols that tell a debugger where a pool is.

## Ldm: held back loads and stores

`arm/gen.c` does not emit a word load or store at once. `ldm_outinstr` collects
those from one base register with their offsets; an addition to the base is only
counted in `baseadjust`; and `ldm_flush_r` later emits them, the lowest offsets
first, as LDMs and STMs with writeback where `ldm_type` finds one that fits, and
else one by one. So they come out in another order than the program's, and the
base moves on the way.

| Model | Code |
|---|---|
| `ldm_state` | `ldm_state`: `state`, `base`, `adjust` (baseadjust), `deadregs`, `basedead`; `off` is `offset[]` on `regbits` |
| `spare` | `spareregs` |
| `want`, `got` | the registers and words the program, and the emitted code, have made so far (history) |
| `live` | the registers the program will read, chosen beforehand |
| `fixed` | R_SP if it is among the registers: never dead, and not to be above what is in use |

`LoadOrStore`, `AddK`, `MovR`, `MovK` and `LdmFlush` are the jopcodes of
`show_inst_direct` that reach ldm_outinstr or flush. `ldm_flush_r` is one action: nothing comes
between its rounds. Three registers and a base, offsets -8, 0 and 4, additions of
-4 and 8 and three jopcodes between two comparisons give every form of LDM and
STM (IA, IB, DA, DB, with and without writeback), a base adjusted before and
after transfers, a transfer refused and pending ones flushed in part.

* `AgreeOrKnown`: when nothing is pending, memory and every register the program
  still reads hold what the program made them, except after the faults below.
* `SpareDead`: a register marked free is not one the program still reads.
* `Agree` (**fails**, run `ldm_lost`): without the exception. A load of the base
  after loads with decreasing post-indexing is refused, refused again after the
  flush (gen.c 886), and never emitted.

The second exception, `"down"`: when all of several registers lie below the base,
the code moves the base down by an addition that `baseadjust` does not know of
and that the next group counts again (gen.c 576-581). It needs offsets the
jopcodes before it seldom leave. Words stored below R_SP for the length of one
instruction (STMDA) are left out: nothing interrupts the model.

## FlowGraph and FlowDump: from the flow graph to code

`FlowGraph.tla` models `linearize_code` from the first `branch_chain` to the end
of cross jumping. A block is a record by label; instructions are single letters,
since what matters is which are equal. `branch_chain` walks the graph by pointer
reversal: `succ1` is both `blknext_` and `blkbackp_`, so a pointer of the way back
is kept as minus a label in the field it overwrites. A step is one descent or
ascent; the recursive calls for the entries of a switch table are `walk.calls`.
`cross_jump_optimize` is three steps per merge (`identify_blocks`,
`truncate_block`, `zip_blocks`) and the loops around them.

`FlowDump.tla` extends it with `dump_flowgraph`: the order blocks are laid out
in, and `use_cond_field`, which executes short blocks, pairs and chains of tests
under a condition instead of branching around them.

What a function does is the tree of instructions and tests met from its top
block, `Tree` for a graph and `Run` for the code dumped, to `Depth` instructions.

* `WaysBack`: every suspended walk finds its way back, and no other exit holds a
  reversed pointer, whatever is redirected on the way.
* `SameBehaviour`, `FlatSame`: the graph, and the code, do what the function did.
* `PredecessorsExact`: the lists cross jumping goes by are exact after each merge.
* `TailsShared`: at its end no two predecessors of a block end alike.
* `EmptyNotAliveElse`: blocks are not both empty and alive, but for the case below.
* `LabelsOnce`: no label is set twice.
* `Finishes`: the walk, the passes and the dump end. Its fairness is `WF` of the
  next step: `linearize_code` is one call that runs until it returns.

`MCFlowGraph.tla` has the graphs, some twelve thousand in five families: blocks without code and
loops of them, switches among them, blocks that end alike, short blocks after
tests, and tests that merging makes vacuous. Five blocks are enough for a merge
that gives blocks already passed a new predecessor, and for a chain of two tests
with a common exit. The function has been dumped at the end: no deadlock check.

Where the code does not do what its comments say:

* A switch may lead to a block that branch_chain marks empty; only `blknext_` and
  `blknext1_` of those who lead there are redirected (1229-1234). It may then be
  alive too, against the comment at 1109, and the dump stops with a syserr.
  `left` holds such blocks; `EmptyNotAlive` fails on `Families = {"switches"}`.
* A block that loops to itself may end like another of its predecessors; the merge
  then drops the block and with it the list being scanned (2147, 2223). The model
  stops in `phase = "astray"`; the graph that shows it is in family `tails`.
* `flow_elsewhere` (**fails** `NotReachedFromElsewhere`): branch_chain runs again
  after the lists of predecessors were made; a block executed conditionally is
  branched to. `FlatSame` excepts such graphs (`Stale`).

Not modelled: `try_shrinkwrap` (2398-2680), thunk tables, and compilation for a
debugger. `BLKLIFTABLE` blocks, which only shrink wrapping makes, are absent.

## RegAlloc: register allocation

`RegAlloc.tla` models `allocate_registers` and what it calls, in its order, and
`remove_noops`, which makes virtual registers real:

| action | code |
|---|---|
| `update_block_use_info`, `InfoAgain` | what is live at the head of each block, from the last block up until nothing changes |
| `collect_register_clashes` | a block forwards for value numbers, then backwards for clashes; loads whose result is not wanted go, extensions become moves |
| `FlattenClashes`, `BuildHeap`, `ScheduleTop` | the heap; the least clashing register leaves first and its neighbours lose a clash |
| `ChooseOrSpill` | a real register, or a variable goes to the stack and the loop goes back to where that was allocated |
| `CleanOrNot`, `Unspill`, `CleanDone` | spilt registers are tried once more |
| `update_deadflags` | marks of death that sharing has made wrong |

| Model | Code |
|---|---|
| `code` | the jopcodes of each block, their operands and dead bits |
| `use` | `blkuse_` |
| `vreg` | the `VRegister`s; `nclashes` and `spillbinder` are a union there and two fields here |
| `rel.clash`, `rel.copy` | `clashmatrix`, `copymatrix` |
| `heap` | `permregheap_`, by number |
| `bind` | `bindxx_` of each variable, GAP once it is on the stack |
| `mask`, `spillset` | `regmaskvec`, `spillset` |

The jopcodes are the kinds that differ for the allocator: moves, constants (with
or without a master that holds the constant), sums, products, shifts, extensions,
byte loads and stores, variables, compares and calls. A value is its low byte and
the whole of it, so that what an extension does, and what is lost when it is
dropped, can be seen. `FP` stands for the registers live everywhere (R_FP, R_SP,
R_SL): every register clashes with it, so the case of `reg_cmp` for registers
without clashes is not reached, nor is it in a real function. Clashes with R_LR
and the PSR change the order of allocation only, and are left out.

* `SameCode`: the code dumped shows the same comparisons, calls, stores and result
  as the code that came in, along every path of `Depth` blocks, although
  registers share that are live together. It also keeps a product out of the
  register of its last operand, and every preserved register it writes is in
  `regmaskvec`.
* `DeadBitsTrue`: what the dumped code marks dead is not read again.
* `SpillsEnd`: the allocation ends, and with none of its own checks failed, under
  `WF` of the next step (`allocate_registers` is one call).

Run `regalloc`: five families of functions, straight-line code with every mixture
of copies, extensions and sums; variables across calls; constants held in
registers that reach a block on two ways; both in loops. Two to four registers
can be given. That is enough for no spill, for several, for a spilt register that
gets a register after all, and for one that does not. The function is finished at
the end: no deadlock check.

Two observations. The count of spills on which the retry depends is kept only
when `ENABLE_SPILL` is defined (2372-2378), which `defaults.h` (404) does under
`ENABLE_ALL` and `optproto.h` (91) calls an aid for debugging: a release build
never retries (`CountSpills = FALSE`; the properties hold then too). And
`check_valnr_slave` asks `is_real_valn_` of the register's number, not of its
value number (1180), which only leaves out register 0.

Not modelled: floating point registers and pairs, the clashes made for a
debugger, the inline assembler's jopcodes, range splitting's superbinders, and
how register sets are represented.

## Fairness

Only `FlowGraph`, `FlowDump`, `RegAlloc` and `PP` state it: weak fairness of the
whole next-state relation, because each is one call of a sequential program, or
for `PP` a loop that the lexer keeps asking for characters to the end of the
file. No action is given fairness of its own; no choice is left to chance in them
but the function compiled or the text read.

## What is proved, and what is only checked

Every invariant of `Store`, its action property `LossIsKnown`, and that it implements
`StoreContract`, are theorems (section Store, Proofs). So are all of `GeneratedFns`, with
its action property `DamageByPending` (its section, Proofs). Of `LitPool` all is proved
but `OneCopy`, and `InReach`, which is false, under the one hypothesis its section names; of `PP`, `ConditionalsHold`, under the hypothesis
its section names. All else is model-checked on the instances above.
Liveness stays with TLC; so does all of `RegAlloc`, `FlowGraph` and `FlowDump`,
whose definitions are recursive, and `ExpandsAsStandard`, whose reference is.
`GuardHarmlessIfWhole` speaks of a fold over data (what a file says), which would
need an induction theorem with an operator as parameter.

## Not modelled

* Statistics and debug output of the allocators.
* `cg.c`, `csescan.c`, `cse.c`: the order in which they generate and move code is a
  function of trees; what they leave for the phases after them is the input of
  `RegAlloc` and `FlowGraph`, which take any.
* The parsers and semantic analysis but for functions in waiting: recursive
  descent and type checking without state that lasts.
* The Thumb back end: its literal pools and transfers follow the ARM's with other
  reaches.
* Object formats, debug tables, the interpreter, the support library and the
  programs that build tables.
* Everything else `PROJECT.json` marks `not_modelled`, with the reason there.

## Plan

1. `Store` and its contract (done), with its theorems (done).
2. `LitPool` (done), with theorems for all but `OneCopy` (done).
3. `GeneratedFns` (done), with theorems for all its properties (done).
4. `Ldm`, `FlowGraph`, `FlowDump`, `RegAlloc` (done); then `try_shrinkwrap`.
5. `PP` and `MacroExpand` (done), with theorems for conditionals (done); then
   `SleepersNest` as one, and arguments that run on (`astray`).
6. `Bind` (scopes, labels, tentative definitions), `Lexer` (the ring of peeked
   symbols), `Inline` (saved bodies and out-of-line copies).
