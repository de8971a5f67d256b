--------------------------------- MODULE PP ---------------------------------
(***************************************************************************)
(* The preprocessor: text, conditionals, definitions and included files.   *)
(*                                                                         *)
(* A file is a sequence of characters.  A line that is a directive is one  *)
(* character, and Directives says what it says.  Each step of pp_process   *)
(* reads one character at the top level; a name or a string goes on with   *)
(* the actions of MacroExpand.                                             *)
(***************************************************************************)
EXTENDS MacroExpand

CONSTANT
  Directives  \* character -> [word, ...], see the actions

ASSUME DirectivesAssumption ==
  \A ch \in DOMAIN Directives :
    /\ ~IdChar(ch) /\ ch \notin {NOEXPAND, Quote, PP_EOF}
    /\ Directives[ch].word \in {"if", "elif"} => Directives[ch].cond \in BOOLEAN

VARIABLES
  ifstack,      \* [seenelse, oldskip, skipelse], the innermost last
  skipping,     \* pp_skipping
  filestack,    \* [in, name, ifdefname, guard], the innermost last
  file,         \* pp_fl->f
  seen,         \* seen_pp_token
  seen_before,  \* file -> the name its #ifndef guards it with
  lost          \* files not read again that had something to say

vars == <<pvars, ifstack, skipping, filestack, file, seen, seen_before, lost>>
cvars == <<ifstack, skipping>>
fvars == <<filestack, file, seen, seen_before, lost>>

None == <<>>    \* no name
DUFF == -1      \* no place in ifstack

(***************************************************************************)
(* A place in ifstack is known by how many there are below it, since freed *)
(* cells are taken again in the opposite order.                            *)
(***************************************************************************)

----------------------------------------------------------------------------
(* What the language says of conditionals: a group within one that is not  *)
(* taken is off; of any other the first part whose condition holds is      *)
(* taken, and parts after it are over.                                     *)

Live(groups) == \A i \in DOMAIN groups : groups[i].part = "taken"

Opened(groups, cond) ==
  Append(groups, [part |-> IF ~Live(groups) THEN "off" ELSE IF cond THEN "taken" ELSE "wanted",
                  last |-> FALSE])

Further(part, cond) ==
  CASE part = "taken" -> "over"
    [] part = "wanted" /\ cond -> "taken"
    [] OTHER -> part

\* An #else or #elif after the #else is an error, and nothing else.
Directed(groups, d, defined) ==
  LET n == Len(groups)
      open == n > 0 /\ ~groups[n].last
  IN  CASE d.word = "if"     -> Opened(groups, d.cond)
        [] d.word = "ifdef"  -> Opened(groups, d.name \in defined)
        [] d.word = "ifndef" -> Opened(groups, d.name \notin defined)
        [] d.word = "elif" /\ open -> [groups EXCEPT ![n].part = Further(@, d.cond)]
        [] d.word = "else" /\ open ->
             [groups EXCEPT ![n] = [part |-> Further(@.part, TRUE), last |-> TRUE]]
        [] d.word = "endif" /\ n > 0 -> Front(groups)
        [] OTHER -> groups

\* A file of text and directives, read on its own, says something that is
\* not white, defines or undefines, includes, or ends what it did not begin.
Says(chars, defined) ==
  LET Step(s, ch) ==
        IF ch \notin DOMAIN Directives
        THEN [s EXCEPT !.says = @ \/ (Live(s.groups) /\ ch \notin {" ", NL})]
        ELSE [groups |-> Directed(s.groups, Directives[ch], defined),
              says |-> \/ s.says
                       \/ Live(s.groups) /\ Directives[ch].word \in {"define", "undef", "include"}
                       \/ s.groups = <<>> /\ Directives[ch].word \in {"else", "elif", "endif"}]
      end == FoldLeft(Step, [groups |-> <<>>, says |-> FALSE], chars)
  IN  end.says \/ end.groups # <<>>

----------------------------------------------------------------------------
(* pp_process.                                                             *)

Init ==
  /\ prog \in Programs
  /\ macros = prog.macros
  /\ actual = [m \in DOMAIN macros |-> [k \in DOMAIN Params(m) |-> <<>>]]
  /\ b = Fresh(prog.files["main"], DOMAIN macros)
  /\ calls = <<>> /\ out = <<>> /\ astray = FALSE /\ err = FALSE
  /\ ifstack = <<>> /\ skipping = FALSE
  /\ filestack = <<>> /\ file = "main" /\ seen = FALSE
  /\ seen_before = [f \in {} |-> None] /\ lost = {}

Process == ~err /\ calls = <<>>
Read == Rdch(b)

\* Read.ch, at top level
Char == IF b.e # <<>> THEN Head(b.e) ELSE IF b.in # <<>> THEN Head(b.in) ELSE PP_EOF

Significant == seen' = TRUE /\ UNCHANGED <<filestack, file, seen_before, lost>>

\* A name, or a string: read on.
Word ==
  /\ Process /\ ~skipping /\ (IdChar(Char) \/ Char \in {NOEXPAND, Quote})
  /\ IF Char = Quote
     THEN b' = WrBuf(Read, <<Quote>>) /\ calls' = <<[fn |-> "copystring"]>>
     ELSE b' = Read /\ calls' = <<Checkid(Char)>>
  /\ Significant
  /\ UNCHANGED <<prog, macros, actual, out, astray, err, cvars>>

\* A newline is written even where text is skipped.
Plainly ==
  /\ Process
  /\ Char \notin DOMAIN Directives \cup {PP_EOF}
  /\ skipping \/ ~(IdChar(Char) \/ Char \in {NOEXPAND, Quote})
  /\ b' = Read
  /\ out' = IF skipping /\ Char # NL THEN out
            ELSE Append(out, IF Char = TOKSEP THEN " " ELSE Char)
  /\ IF White(Char) \/ Char = NL THEN UNCHANGED fvars ELSE Significant
  /\ UNCHANGED <<prog, macros, actual, calls, astray, err, cvars>>

EofStays ==   \* mutant: the includer is read again, and stays on filestack
  /\ Process /\ Char = PP_EOF /\ filestack # <<>>
  /\ b' = [Read EXCEPT !.in = Last(filestack).in]
  /\ file' = Last(filestack).name
  /\ seen' = TRUE
  /\ UNCHANGED <<prog, macros, actual, calls, out, astray, err, cvars, filestack,
                 seen_before, lost>>

\* The end of an included file.
Eof ==
  /\ Process /\ Char = PP_EOF /\ filestack # <<>>
  /\ LET f == Last(filestack) IN
     /\ seen_before' = IF ~seen /\ f.ifdefname # None /\ file \notin DOMAIN seen_before
                       THEN [g \in DOMAIN seen_before \cup {file} |->
                               IF g = file THEN f.ifdefname ELSE seen_before[g]]
                       ELSE seen_before
     /\ b' = [Read EXCEPT !.in = f.in]
     /\ file' = f.name
     /\ filestack' = Front(filestack)
  /\ seen' = TRUE
  /\ UNCHANGED <<prog, macros, actual, calls, out, astray, err, cvars, lost>>

----------------------------------------------------------------------------
(* pp_directive.  All but an #include that reads a file leave a newline.   *)

Directive(word) ==
  /\ Process /\ Char \in DOMAIN Directives
  /\ Directives[Char].word = word

What == Directives[Char]

\* Names are looked up when the macros whose text has been read are awake.
IsDefined(name) == name \in Read.alive

LineDone(c) ==
  /\ b' = c /\ out' = Append(out, NL)
  /\ UNCHANGED <<prog, calls, astray, err>>

Conditional ==
  /\ LineDone(Read)
  /\ UNCHANGED <<macros, actual, file, seen_before, lost>>

AddConditionalInner(skipelsepart) ==   \* mutant: the part after #else in a group that is skipped
  /\ ifstack' = Append(ifstack, [seenelse |-> FALSE, oldskip |-> skipping,
                                 skipelse |-> skipelsepart])
  /\ skipping' = (skipping \/ ~skipelsepart)

AddConditional(skipelsepart) ==
  /\ ifstack' = Append(ifstack, [seenelse |-> FALSE, oldskip |-> skipping,
                                 skipelse |-> skipping \/ skipelsepart])
  /\ skipping' = (skipping \/ ~skipelsepart)

If ==
  /\ Directive("if")
  /\ AddConditional(skipping \/ What.cond)
  /\ seen' = TRUE
  /\ Conditional /\ UNCHANGED filestack

Ifdef ==
  /\ Directive("ifdef")
  /\ AddConditional(IsDefined(What.name))
  /\ seen' = TRUE
  /\ Conditional /\ UNCHANGED filestack

GuardsAny == filestack # <<>> /\ Last(filestack).ifdefname = None   \* mutant: after other text

\* The first that is said in a file: perhaps its guard.
Guards == ~seen /\ filestack # <<>> /\ Last(filestack).ifdefname = None

Ifndef ==
  /\ Directive("ifndef")
  /\ AddConditional(~IsDefined(What.name))
  /\ IF Guards
     THEN /\ filestack' = [filestack EXCEPT ![Len(filestack)].ifdefname = What.name,
                                            ![Len(filestack)].guard = Len(ifstack)]
          /\ seen' = TRUE
     ELSE UNCHANGED <<filestack, seen>>
  /\ Conditional

ElseAllowed == ifstack # <<>> /\ ~Last(ifstack).seenelse

Else ==
  /\ Directive("else")
  /\ IF ElseAllowed
     THEN /\ skipping' = Last(ifstack).skipelse
          /\ ifstack' = [ifstack EXCEPT ![Len(ifstack)].seenelse = TRUE]
     ELSE UNCHANGED cvars
  /\ seen' = TRUE
  /\ Conditional /\ UNCHANGED filestack

Elif ==
  /\ Directive("elif")
  /\ IF ElseAllowed
     THEN /\ skipping' = (Last(ifstack).skipelse \/ ~What.cond)
          /\ ifstack' = [ifstack EXCEPT ![Len(ifstack)].skipelse = @ \/ What.cond]
     ELSE UNCHANGED cvars
  /\ seen' = TRUE
  /\ Conditional /\ UNCHANGED filestack

Endif ==
  /\ Directive("endif")
  /\ IF ifstack # <<>>
     THEN skipping' = Last(ifstack).oldskip /\ ifstack' = Front(ifstack)
     ELSE UNCHANGED cvars
  /\ IF ifstack # <<>> /\ filestack # <<>> /\ Last(filestack).guard = Len(ifstack) - 1
     THEN /\ seen' = FALSE
          /\ filestack' = [filestack EXCEPT ![Len(filestack)].guard = DUFF]
     ELSE seen' = TRUE /\ UNCHANGED filestack
  /\ Conditional

\* A definition that is there already is replaced.
Define ==
  /\ Directive("define")
  /\ IF skipping THEN LineDone(Read) /\ UNCHANGED <<macros, actual>>
     ELSE /\ LineDone([Read EXCEPT !.alive = @ \cup {What.name}])
          /\ macros' = [m \in DOMAIN macros \cup {What.name} |->
                          IF m = What.name THEN What.macro ELSE macros[m]]
          /\ actual' = [m \in DOMAIN macros' |->
                          IF m = What.name THEN [k \in DOMAIN What.macro.params |-> <<>>]
                          ELSE actual[m]]
  /\ Significant /\ UNCHANGED cvars

Undef ==
  /\ Directive("undef")
  /\ LineDone([Read EXCEPT !.alive = IF skipping THEN @ ELSE @ \ {What.name}])
  /\ Significant /\ UNCHANGED <<macros, actual, cvars>>

Guarded(f) == f \in DOMAIN seen_before /\ IsDefined(seen_before[f])

SkipInclude ==
  /\ Directive("include")
  /\ skipping \/ Guarded(What.file)
  /\ LineDone(Read)
  /\ lost' = IF ~skipping /\ Says(prog.files[What.file], Read.alive) THEN lost \cup {What.file}
             ELSE lost
  /\ seen' = TRUE
  /\ UNCHANGED <<macros, actual, cvars, filestack, file, seen_before>>

PushInclude ==
  /\ Directive("include")
  /\ ~skipping /\ ~Guarded(What.file)
  /\ filestack' = Append(filestack, [in |-> Read.in, name |-> file,
                                     ifdefname |-> None, guard |-> DUFF])
  /\ file' = What.file
  /\ b' = [Read EXCEPT !.in = prog.files[What.file]]
  /\ seen' = FALSE
  /\ UNCHANGED <<prog, macros, actual, calls, out, astray, err, cvars, seen_before, lost>>

Next ==
  \/ Expanding /\ UNCHANGED <<cvars, fvars>>
  \/ Word \/ Plainly \/ Eof
  \/ If \/ Ifdef \/ Ifndef \/ Else \/ Elif \/ Endif
  \/ Define \/ Undef \/ SkipInclude \/ PushInclude

Spec == Init /\ [][Next]_vars

FairSpec == Spec /\ WF_vars(Next)

----------------------------------------------------------------------------
(* Properties.                                                             *)

Sleepers == {b.noexpand} \cup {calls[i].oldsleepers : i \in {j \in DOMAIN calls : calls[j].fn = "argexpand"}}

\* Only the first sleeper is ever looked at, so those behind must sleep as
\* long; and a macro has one link and one count, so it sleeps once
\* (pp_awaken, syserr_pp_recursion).  A macro is alive unless it sleeps, so
\* that each is found again when its text has been read.
SleepersNest ==
  /\ \A s \in Sleepers : \A i, j \in DOMAIN s :
       i < j => s[i].left <= s[j].left /\ s[i].name # s[j].name
  /\ \A s, t \in Sleepers : s # t => Names(s) \cap Names(t) = {}
  /\ UNION {Names(s) : s \in Sleepers} \cap b.alive = {}

\* What ifstack and skipping say of each conditional that is open.
Groups ==
  LET n == Len(ifstack)
      Skips(i) == IF i = n THEN skipping ELSE ifstack[i + 1].oldskip
      Part(i) == IF ifstack[i].oldskip THEN "off"
                 ELSE IF ~Skips(i) THEN "taken"
                 ELSE IF ifstack[i].skipelse THEN "over"
                 ELSE "wanted"
  IN  [i \in 1 .. n |-> [part |-> Part(i), last |-> ifstack[i].seenelse]]

Defined == b.alive \cup UNION {Names(s) : s \in Sleepers}

\* The text of each macro that is asleep has been read.
AllRead(c) ==
  \/ c.scanidx = 0 /\ c.e = <<>>
  \/ \A i \in DOMAIN c.noexpand : c.noexpand[i].left <= 0

\* Of programs, not of the code: what looks like a directive in text that a
\* macro was replaced by is none, and within its arguments it is undefined.
DirectivesInFiles == Process /\ Char \in DOMAIN Directives => AllRead(b)

\* Three flags for each conditional and one for all do what the language
\* asks, whatever is nested in what and however directives are misplaced,
\* over the ends of files, and with names that are asleep still defined.
ConditionalsHold ==
  [][/\ skipping' = ~Live(Groups')
     /\ Groups' = IF Process /\ Char \in DOMAIN Directives
                  THEN Directed(Groups, Directives[Char], Defined)
                  ELSE Groups]_vars

\* A file that is not read again, since its first #ifndef and its last
\* #endif match and the name is defined, would have said nothing
\* (pp_push_include).
GuardHarmless == lost = {}

\* That holds of the files whose guard has no #else or #elif, and which end
\* all they begin: an #ifndef after the guard is not counted as a token.
HasElseOrIsOpen(chars) ==
  LET Step(s, ch) ==
        IF ch \notin DOMAIN Directives THEN s
        ELSE LET w == Directives[ch].word IN
             [depth |-> CASE w \in {"if", "ifdef", "ifndef"} -> s.depth + 1
                          [] w = "endif" -> s.depth - 1
                          [] OTHER -> s.depth,
              has |-> s.has \/ (s.depth = 1 /\ w \in {"else", "elif"})]
      end == FoldLeft(Step, [depth |-> 0, has |-> FALSE], chars)
  IN  end.has \/ end.depth # 0

GuardHarmlessIfWhole == \A f \in lost : HasElseOrIsOpen(prog.files[f])

\* Expansion ends, whatever macros name each other, and so does a program
\* whose files do not include themselves.
AtEnd == Process /\ Char = PP_EOF /\ filestack = <<>>
Ends == <>(err \/ AtEnd)
============================================================================
