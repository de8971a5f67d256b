---------------------------- MODULE MacroExpand ----------------------------
(***************************************************************************)
(* Macro expansion in the preprocessor, in ANSI mode.                      *)
(*                                                                         *)
(* A macro's text is made in ebuf and read again from there, or, while an  *)
(* argument is expanded, copied to abuf and read again from there, until   *)
(* nothing changes.  A macro is asleep while its text is read: each of     *)
(* noexpand counts the characters still to come.  calls holds the          *)
(* functions that are under way, the latest first.                         *)
(*                                                                         *)
(* A character is a string; those below stand for '\v', '\f', 0, EOF and   *)
(* '\n'.  A name is a sequence of letters, so that two may be glued.       *)
(***************************************************************************)
EXTENDS Integers, SequencesExt

CONSTANTS
  Letters,    \* pp_cidchar
  Programs    \* [macros: name -> macro, files: name -> characters]

TOKSEP   == "sep"
NOEXPAND == "noexpand"
EOM      == "eom"
PP_EOF   == "eof"
NL       == "nl"
Quote    == "\""
Escaped  == "\\\""   \* a quote in a string

VARIABLES
  prog,    \* the program that is read
  macros,  \* name -> [noargs, params, body], the latest definition
  actual,  \* name -> argactual of each parameter, and what it was before that
  b,       \* [ch, in, e, a, scanidx, noexpand, alive], below
  calls,   \* the functions under way
  out,     \* what pp_nextchar has given
  astray,  \* a name may have been expanded that should not, below
  err      \* cc_err: the arguments do not end, or are too many

pvars == <<prog, macros, actual, b, calls, out, astray, err>>

(***************************************************************************)
(* astray     arguments went on behind the text that named the macro, and  *)
(*            names in them are awake again when they are expanded, or a   *)
(*            quote that keeps a name from expansion was left out          *)
(* b.ch       the character just read                                      *)
(* b.in       the characters of the file still to come                     *)
(* b.e        ebuf from ebufptr to ebuftop                                 *)
(* b.a        abuf up to abufptr; before each argument a cell for the       *)
(*            argactual its parameter had                                  *)
(* b.scanidx  the next character to be read in abuf, or 0 for none         *)
(* b.noexpand the sleeping macros, [name, left]                            *)
(* b.alive    the macros for which hashalive is set                        *)
(***************************************************************************)

Fresh(in, names) ==
  [ch |-> NL, in |-> in, e |-> <<>>, a |-> <<>>, scanidx |-> 0,
   noexpand |-> <<>>, alive |-> names]

----------------------------------------------------------------------------
(* Sleeping names.                                                         *)

Names(sleepers) == {sleepers[i].name : i \in DOMAIN sleepers}

AddSleep(c, n) ==
  [c EXCEPT !.noexpand = [i \in DOMAIN c.noexpand |-> [c.noexpand[i] EXCEPT !.left = @ + n]]]

Awaken(c, k) ==   \* the first k
  [c EXCEPT !.noexpand = SubSeq(@, k + 1, Len(@)),
            !.alive    = @ \cup Names(SubSeq(c.noexpand, 1, k))]

AwakenAll(c) == Awaken(c, Len(c.noexpand))

\* Only the first of the list is looked at, again and again.
AwakenDue(c) ==
  LET due(k) == \A i \in 1 .. k : c.noexpand[i].left <= 0
  IN  Awaken(c, CHOOSE k \in 0 .. Len(c.noexpand) :
                  due(k) /\ (k = Len(c.noexpand) \/ ~due(k + 1)))

SleepNameOnly(c, name, n) ==   \* mutant: the others do not sleep longer
  [c EXCEPT !.noexpand = <<[name |-> name, left |-> n]>> \o @, !.alive = @ \ {name}]

SleepName(c, name, n) ==
  AddSleep([c EXCEPT !.noexpand = <<[name |-> name, left |-> 0]>> \o @,
                     !.alive    = @ \ {name}], n)

----------------------------------------------------------------------------
(* Reading a character, and putting one back.                              *)

Rdch(c) ==
  IF c.scanidx # 0
  THEN LET w == AddSleep(AwakenDue(c), -1)
       IN  [w EXCEPT !.ch = w.a[w.scanidx], !.scanidx = @ + 1]
  ELSE IF c.e # <<>>
  THEN LET w == AddSleep(AwakenDue(c), -1)
       IN  [w EXCEPT !.ch = Head(w.e), !.e = Tail(@)]
  ELSE LET w == AwakenAll(c)
       IN  IF w.in = <<>> THEN [w EXCEPT !.ch = PP_EOF]
           ELSE [w EXCEPT !.ch = Head(w.in), !.in = Tail(@)]

Unrdch(c, ch) ==
  IF ch = PP_EOF THEN c
  ELSE IF c.scanidx # 0
  THEN [AddSleep(c, 1) EXCEPT !.a[c.scanidx - 1] = ch, !.scanidx = @ - 1]
  ELSE [AddSleep(c, 1) EXCEPT !.e = <<ch>> \o @]

IdChar(ch) == ch \in Letters
White(ch) == ch \in {" ", TOKSEP}

WrBuf(c, s) == [c EXCEPT !.a = @ \o s]
SavBuf(c, s) == [c EXCEPT !.e = @ \o s]

\* To abuf at top level, to ebuf in an argument.
Leave(c, s) == IF c.scanidx = 0 THEN WrBuf(c, s) ELSE SavBuf(c, s)

----------------------------------------------------------------------------
(* The functions under way.                                                *)

Top == calls[1]
Under == Tail(calls)
In(fn) == ~err /\ calls # <<>> /\ Top.fn = fn

\* The function on top goes on.
Go(f) == calls' = <<f>> \o Under

Checkid(ch) ==
  [fn |-> "checkid", id |-> <<>>, noexpand |-> ch = NOEXPAND]

\* pp_checkid returns: to pp_argexpand, which goes on from scanidx, or to
\* pp_process, which returns what has been written.
Returned(c, changes) ==
  IF Under = <<>>
  THEN /\ out' = out \o SelectSeq(c.a, LAMBDA ch : ch # NOEXPAND)
       /\ b' = [c EXCEPT !.a = <<>>]
       /\ calls' = <<>>
  ELSE /\ calls' = [Under EXCEPT ![1].ap = c.scanidx, ![1].sleepbase = c.scanidx,
                                 ![1].changes = changes]
       /\ b' = c
       /\ UNCHANGED out

\* pp_expand is called: what is in ebuf after the call goes behind the
\* arguments for the time being.
CallExpand(c, name) ==
  /\ b' = IF c.scanidx = 0 THEN [c EXCEPT !.a = @ \o c.e, !.e = <<TOKSEP>>]
          ELSE SavBuf(c, <<TOKSEP>>)
  /\ Go([fn |-> "expand", name |-> name, dp |-> 1, hash |-> {},
         abufptr |-> Len(c.a), after |-> Len(c.e)])

----------------------------------------------------------------------------
(* pp_checkid.                                                             *)

ReadId ==
  /\ In("checkid") /\ (IdChar(b.ch) \/ b.ch = NOEXPAND)
  /\ Go([Top EXCEPT !.id = IF IdChar(b.ch) THEN Append(@, b.ch) ELSE @])
  /\ b' = Rdch(b)
  /\ UNCHANGED <<prog, macros, actual, out, astray, err>>

IdRead == In("checkid") /\ ~IdChar(b.ch) /\ b.ch # NOEXPAND

Expandable == ~Top.noexpand /\ Top.id \in b.alive

NotAMacroBare ==   \* mutant: without the quote
  /\ IdRead /\ ~Expandable
  /\ Returned(Unrdch(Leave(b, Top.id), b.ch), FALSE)
  /\ UNCHANGED <<prog, macros, actual, astray, err>>

\* In an argument every name left alone is quoted, lest it be expanded when
\* the text of the macro it is an argument of is read again.
NotAMacro ==
  /\ IdRead /\ ~Expandable
  /\ Returned(Unrdch(Leave(b, (IF b.scanidx = 0 THEN <<>> ELSE <<NOEXPAND>>) \o Top.id),
                     b.ch), FALSE)
  /\ UNCHANGED <<prog, macros, actual, astray, err>>

ObjectLike ==
  /\ IdRead /\ Expandable /\ macros[Top.id].noargs
  /\ CallExpand(Unrdch(b, b.ch), Top.id)
  /\ UNCHANGED <<prog, macros, actual, out, astray, err>>

FunctionLike ==
  /\ IdRead /\ Expandable /\ ~macros[Top.id].noargs
  /\ Go([fn |-> "skipb", id |-> Top.id, white |-> EOM,
         asleep |-> Names(b.noexpand)])
  /\ UNCHANGED <<prog, macros, actual, b, out, astray, err>>

\* The white space before a parenthesis: a newline, else the first, is kept.
SkipB ==
  /\ In("skipb") /\ (White(b.ch) \/ b.ch = NL)
  /\ Go([Top EXCEPT !.white = IF b.ch = NL \/ @ = EOM THEN b.ch ELSE @])
  /\ b' = Rdch(b)
  /\ UNCHANGED <<prog, macros, actual, out, astray, err>>

NotCalled ==
  /\ In("skipb") /\ ~White(b.ch) /\ b.ch \notin {NL, "("}
  /\ LET c == Unrdch(Leave(b, Top.id), b.ch) IN
     Returned(IF Top.white = EOM THEN c ELSE Unrdch(c, Top.white), FALSE)
  /\ UNCHANGED <<prog, macros, actual, astray, err>>

ArgAlign(c) == [c EXCEPT !.a = Append(@, "link")]

ArgLink(k, arg) == [actual EXCEPT ![Top.name][k] = <<arg>> \o @]

Called ==
  /\ In("skipb") /\ b.ch = "("
  /\ Go([fn |-> "rd_args", name |-> Top.id, k |-> 1, arg |-> Len(b.a) + 1, parcnt |-> 0,
         instring |-> FALSE, asleep |-> Top.asleep])
  /\ b' = Rdch(ArgAlign(b))
  /\ UNCHANGED <<prog, macros, actual, out, astray, err>>

----------------------------------------------------------------------------
(* pp_copystring, at top level.                                            *)

CopyString ==
  /\ In("copystring")
  /\ LET c == Rdch(b)
         w == WrBuf(c, <<c.ch>>)
     IN  IF c.ch = Quote THEN Returned(w, FALSE) ELSE b' = w /\ UNCHANGED <<calls, out>>
  /\ UNCHANGED <<prog, macros, actual, astray, err>>

----------------------------------------------------------------------------
(* pp_rd_args.                                                             *)

Params(name) == IF macros[name].noargs THEN <<>> ELSE macros[name].params

\* At most one space or separator between tokens, none in front.
SpaceArg(c, ch) ==
  LET t == IF Last(c.a) = TOKSEP THEN Front(c.a) ELSE c.a
  IN  [c EXCEPT !.a = IF Last(t) = " " THEN t ELSE Append(t, ch)]

TrimArg(c, arg) ==
  IF Len(c.a) > arg /\ White(Last(c.a)) THEN [c EXCEPT !.a = Front(@)] ELSE c

ArgEnds == ~Top.instring /\ Top.parcnt = 0 /\ b.ch \in {",", ")"}

ArgChar ==
  /\ In("rd_args") /\ ~ArgEnds /\ b.ch \notin {EOM, PP_EOF}
  /\ LET f == [Top EXCEPT !.instring = IF b.ch = Quote THEN ~@ ELSE @,
                          !.parcnt = IF Top.instring THEN @
                                     ELSE IF b.ch = "(" THEN @ + 1
                                     ELSE IF b.ch = ")" THEN @ - 1
                                     ELSE @]
         c == IF Top.instring \/ ~(White(b.ch) \/ b.ch = NL) THEN WrBuf(b, <<b.ch>>)
              ELSE IF Len(b.a) = Top.arg THEN b
              ELSE SpaceArg(b, IF b.ch = NL THEN " " ELSE b.ch)
     IN  Go(f) /\ b' = Rdch(c)
  /\ UNCHANGED <<prog, macros, actual, out, astray, err>>

Comma ==
  /\ In("rd_args") /\ ArgEnds /\ b.ch = "," /\ Top.k < Len(Params(Top.name))
  /\ LET c == ArgAlign(WrBuf(TrimArg(b, Top.arg), <<EOM>>)) IN
     b' = Rdch(c) /\ Go([Top EXCEPT !.k = @ + 1, !.arg = Len(c.a)])
  /\ actual' = ArgLink(Top.k, Top.arg)
  /\ UNCHANGED <<prog, macros, out, astray, err>>

\* Too few arguments, and none closed, are errors the compiler goes on from
\* by inventing the rest; too many leave the arguments to be overwritten.
BadArgs ==
  /\ In("rd_args")
  /\ \/ ArgEnds /\ b.ch = "," /\ Top.k >= Len(Params(Top.name))
     \/ ArgEnds /\ b.ch = ")" /\ Top.k < Len(Params(Top.name))
     \/ ArgEnds /\ b.ch = ")" /\ Params(Top.name) = <<>> /\ Len(b.a) > Top.arg
     \/ b.ch \in {EOM, PP_EOF}
  /\ err' = TRUE
  /\ UNCHANGED <<prog, macros, actual, b, calls, out, astray>>

Close ==
  /\ In("rd_args") /\ ArgEnds /\ b.ch = ")"
  /\ \/ Top.k = Len(Params(Top.name))
     \/ Params(Top.name) = <<>> /\ Len(b.a) = Top.arg
  /\ CallExpand(WrBuf(TrimArg(b, Top.arg), <<EOM>>), Top.name)
  /\ actual' = IF Params(Top.name) = <<>> THEN actual ELSE ArgLink(Top.k, Top.arg)
  /\ astray' = (astray \/ Top.asleep # Names(b.noexpand))
  /\ UNCHANGED <<prog, macros, out, err>>

----------------------------------------------------------------------------
(* pp_expand.                                                              *)

Body == macros[Top.name].body
Tok == Body[Top.dp]
HashHash == <<"#", "#">>
More == In("expand") /\ Top.dp <= Len(Body)

\* # is an operator in macros with parameters, ## in all.
Hash ==
  /\ More
  /\ \/ Tok = HashHash
     \/ Tok = <<"#">> /\ ~macros[Top.name].noargs
  /\ Go([Top EXCEPT !.dp = @ + 1, !.hash = @ \cup {Tok}])
  /\ UNCHANGED <<prog, macros, actual, b, out, astray, err>>

Plain == Tok # HashHash /\ (Tok = <<"#">> => macros[Top.name].noargs)

\* # or ## before it, or ## behind.
HashFlag ==
  IF Top.hash = {} /\ Top.dp < Len(Body) /\ Body[Top.dp + 1] = HashHash THEN {HashHash}
  ELSE Top.hash

Stringizes == <<"#">> \in HashFlag
Stringized(s) == IF Stringizes THEN <<Quote>> \o s \o <<Quote>> ELSE s

IsParam(t) == Contains(Params(Top.name), t)

CopyToken ==
  /\ More /\ Plain /\ ~IsParam(Tok)
  /\ b' = SavBuf(b, IF IdChar(Tok[1]) THEN Stringized(Tok) ELSE Tok)
  /\ Go([Top EXCEPT !.dp = @ + 1, !.hash = {}])
  /\ UNCHANGED <<prog, macros, actual, out, astray, err>>

\* A sequence up to the end of the argument that starts after cell arg.
Text(a, arg) ==
  LET end == CHOOSE i \in arg + 1 .. Len(a) :
               a[i] = EOM /\ \A j \in arg + 1 .. i - 1 : a[j] # EOM
  IN  SubSeq(a, arg + 1, end - 1)

Actual(t) == Head(actual[Top.name][SelectInSeq(Params(Top.name), LAMBDA p : p = t)])

\* As it was written, but for the quotes that keep names from expansion.
Spelling(ch) == IF Stringizes /\ ch = Quote THEN Escaped ELSE ch

LeftOut ==
  (IF Stringizes THEN {TOKSEP} ELSE {}) \cup (IF HashHash \in HashFlag THEN {NOEXPAND} ELSE {})

CopyArg ==
  /\ More /\ Plain /\ IsParam(Tok) /\ HashFlag # {}
  /\ LET s == SelectSeq(Text(b.a, Actual(Tok)), LAMBDA ch : ch \notin LeftOut) IN
     b' = SavBuf(b, Stringized([i \in DOMAIN s |-> Spelling(s[i])]))
  /\ Go([Top EXCEPT !.dp = @ + 1, !.hash = {}])
  /\ astray' = (astray \/ Contains(Text(b.a, Actual(Tok)), NOEXPAND))
  /\ UNCHANGED <<prog, macros, actual, out, err>>

\* pp_argexpand is called, with a list of sleepers of its own.
ExpandArg ==
  /\ More /\ Plain /\ IsParam(Tok) /\ HashFlag = {}
  /\ b' = [SavBuf(b, <<TOKSEP>>) EXCEPT !.noexpand = <<>>]
  /\ calls' = <<[fn |-> "argexpand", ap |-> Actual(Tok) + 1, sleepbase |-> Actual(Tok) + 1,
                 ebuftop |-> Len(b.e) + 1, abufptr |-> Len(b.a), doneseg |-> 0,
                 scanidx |-> b.scanidx, changes |-> FALSE, oldsleepers |-> b.noexpand],
                [Top EXCEPT !.dp = @ + 1, !.hash = {}]>> \o Under
  /\ UNCHANGED <<prog, macros, actual, out, astray, err>>

\* The end of the body.  The parameters get the arguments back that they
\* had, the macro goes to sleep for the length of its text, and what came
\* after the call goes after it.
ExpandEnd ==
  /\ In("expand") /\ Top.dp > Len(Body)
  /\ LET c == SavBuf(b, <<TOKSEP>>)
         n == Len(c.e) - IF b.scanidx = 0 THEN 0 ELSE Top.after
         s == SleepName(c, Top.name, n)
         rest == SubSeq(b.a, Top.abufptr + 1, Top.abufptr + Top.after)
     IN  Returned(IF b.scanidx = 0 THEN [SavBuf(s, rest) EXCEPT !.a = <<>>] ELSE s, TRUE)
  /\ actual' = [actual EXCEPT ![Top.name] = [k \in DOMAIN @ |-> Tail(@[k])]]
  /\ UNCHANGED <<prog, macros, astray, err>>

----------------------------------------------------------------------------
(* pp_argexpand: again and again over an argument in abuf, up to the first *)
(* name that changes.  sleepbase is where sleepers have been counted to.   *)

Scan == b.a[Top.ap]
Scanning == In("argexpand") /\ ~Top.changes

ArgPlain ==
  /\ Scanning /\ Scan \notin {EOM, NOEXPAND, Quote} /\ ~IdChar(Scan)
  /\ b' = SavBuf(b, <<Scan>>)
  /\ Go([Top EXCEPT !.ap = @ + 1])
  /\ UNCHANGED <<prog, macros, actual, out, astray, err>>

ArgString ==
  /\ Scanning /\ Scan = Quote
  /\ LET end == CHOOSE i \in Top.ap + 1 .. Len(b.a) :
                  b.a[i] = Quote /\ \A j \in Top.ap + 1 .. i - 1 : b.a[j] # Quote
     IN  b' = SavBuf(b, SubSeq(b.a, Top.ap, end)) /\ Go([Top EXCEPT !.ap = end + 1])
  /\ UNCHANGED <<prog, macros, actual, out, astray, err>>

ArgName ==
  /\ Scanning /\ (IdChar(Scan) \/ Scan = NOEXPAND)
  /\ LET c == AddSleep(b, Top.sleepbase - (Top.ap + 1)) IN
     b' = [c EXCEPT !.ch = Scan, !.scanidx = Top.ap + 1]
  /\ calls' = <<Checkid(Scan), [Top EXCEPT !.doneseg = Len(b.e) - Top.ebuftop]>> \o Under
  /\ UNCHANGED <<prog, macros, actual, out, astray, err>>

\* The rest is copied and everything goes back to abuf.
ArgAgain ==
  /\ In("argexpand") /\ Top.changes
  /\ LET rest == Text(b.a, Top.ap - 1)
         new  == SubSeq(b.e, Top.ebuftop + 1, Len(b.e)) \o rest \o <<EOM>>
         a    == SubSeq(b.a, 1, Top.abufptr) \o new
         ap   == Top.abufptr + 1 + Top.doneseg
     IN  /\ b' = [b EXCEPT !.a = a,
                           !.e = SubSeq(@, 1, Top.ebuftop) \o SubSeq(new, 1, Top.doneseg)]
         /\ Go([Top EXCEPT !.ap = ap, !.sleepbase = ap, !.abufptr = Len(a), !.changes = FALSE])
  /\ UNCHANGED <<prog, macros, actual, out, astray, err>>

ArgExpanded ==
  /\ Scanning /\ Scan = EOM
  /\ LET c == AwakenAll([b EXCEPT !.a = SubSeq(@, 1, Top.abufptr),
                                  !.scanidx = Top.scanidx])
     IN  b' = [SavBuf(c, <<TOKSEP>>) EXCEPT !.noexpand = Top.oldsleepers]
  /\ calls' = Under
  /\ UNCHANGED <<prog, macros, actual, out, astray, err>>

----------------------------------------------------------------------------

Expanding ==
  \/ CopyString \/ ReadId \/ NotAMacro \/ ObjectLike \/ FunctionLike
  \/ SkipB \/ NotCalled \/ Called
  \/ ArgChar \/ Comma \/ BadArgs \/ Close
  \/ Hash \/ CopyToken \/ CopyArg \/ ExpandArg \/ ExpandEnd
  \/ ArgPlain \/ ArgString \/ ArgName \/ ArgAgain \/ ArgExpanded
============================================================================
