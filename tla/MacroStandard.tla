--------------------------- MODULE MacroStandard ---------------------------
(***************************************************************************)
(* What the language says of macro expansion, with a set of names that are *)
(* not to be expanded in each token: those of the macros whose replacement *)
(* the token comes from.  pp.c is compared with this; it is no part of it. *)
(*                                                                         *)
(* A token is [t, sp, hs]: its characters, whether white space comes before *)
(* it, and its hidden names.  An empty t holds the place of an argument    *)
(* without tokens.                                                         *)
(***************************************************************************)
EXTENDS MacroExpand

Token(t, sp, hs) == [t |-> t, sp |-> sp, hs |-> hs]

Blank(ch) == White(ch) \/ ch = NL

\* Names are as long as they can be, strings are whole.
Lex(chars, hs) ==
  LET Step(s, ch) ==
        LET last == Last(s.toks)
        IN  CASE s.in = "string" ->
                   [s EXCEPT !.toks[Len(s.toks)].t = Append(@, ch),
                             !.in = IF ch = Quote THEN "none" ELSE @]
              [] s.in # "string" /\ Blank(ch) -> [s EXCEPT !.sp = TRUE, !.in = "none"]
              [] s.in = "name" /\ IdChar(ch) ->
                   [s EXCEPT !.toks[Len(s.toks)].t = Append(@, ch)]
              [] OTHER ->
                   [toks |-> Append(s.toks, Token(<<ch>>, s.sp, hs)), sp |-> FALSE,
                    in |-> IF IdChar(ch) THEN "name" ELSE IF ch = Quote THEN "string" ELSE "none"]
  IN  FoldLeft(Step, [toks |-> <<>>, sp |-> FALSE, in |-> "none"], chars).toks

Spellings(toks) == [i \in DOMAIN toks |-> toks[i].t]
Place == Token(<<>>, FALSE, {})
Hide(toks, hs) == [i \in DOMAIN toks |-> [toks[i] EXCEPT !.hs = @ \cup hs]]
Spaced(toks, sp) == IF toks = <<>> THEN <<>> ELSE [toks EXCEPT ![1].sp = sp]

\* Two tokens made into one, or more where that makes no token.
Glue(s, r) ==
  LET l == Last(s)  h == Head(r)
      hs == IF l.t = <<>> THEN h.hs ELSE IF h.t = <<>> THEN l.hs ELSE l.hs \cap h.hs
      one == IF l.t \o h.t = <<>> THEN <<Place>> ELSE Spaced(Lex(l.t \o h.t, hs), l.sp)
  IN  Front(s) \o one \o Tail(r)

StringOf(toks) ==
  LET Word(i) == (IF toks[i].sp /\ i > 1 THEN <<" ">> ELSE <<>>)
                 \o [j \in DOMAIN toks[i].t |-> IF toks[i].t[j] = Quote THEN Escaped
                                                ELSE toks[i].t[j]]
  IN  Token(<<Quote>> \o FoldLeft(LAMBDA s, i : s \o Word(i), <<>>, [i \in DOMAIN toks |-> i])
                      \o <<Quote>>, FALSE, {})

\* How deep in parentheses the i-th of toks is, which begins with a name.
Depth(toks, i) ==
  Cardinality({j \in 2 .. i : toks[j].t = <<"(">>}) - Cardinality({j \in 2 .. i : toks[j].t = <<")">>})

Closing(toks) == {i \in 3 .. Len(toks) : toks[i].t = <<")">> /\ Depth(toks, i) = 0}

Arguments(toks, close) ==
  LET cuts == SetToSortSeq({2, close} \cup {i \in 3 .. close : toks[i].t = <<",">> /\ Depth(toks, i) = 1}, <)
  IN  [k \in 1 .. Len(cuts) - 1 |-> SubSeq(toks, cuts[k] + 1, cuts[k + 1] - 1)]

RECURSIVE Expand(_, _), Substitute(_, _, _, _, _)

\* From the i-th token of m's body; args are m's arguments.
Substitute(ms, m, args, i, s) ==
  LET body == m.body
      sp == i > 1 /\ body[i - 1] = <<" ">>
      Is(j, t) == j <= Len(body) /\ body[j] = t
      IsPar(j) == ~m.noargs /\ j <= Len(body) /\ Contains(m.params, body[j])
      Arg(j) == args[SelectInSeq(m.params, LAMBDA p : p = body[j])]
      Raw(j) == IF Arg(j) = <<>> THEN <<Place>> ELSE Arg(j)
  IN  IF i > Len(body) THEN SelectSeq(s, LAMBDA tok : tok.t # <<>>)
      ELSE IF Is(i, <<" ">>) THEN Substitute(ms, m, args, i + 1, s)
      ELSE IF Is(i, HashHash) /\ Is(i + 1, <<"#">>) /\ IsPar(i + 2)
      THEN Substitute(ms, m, args, i + 3, Glue(s, <<StringOf(Arg(i + 2))>>))
      ELSE IF Is(i, HashHash)
      THEN Substitute(ms, m, args, i + 2,
                      Glue(s, IF IsPar(i + 1) THEN Raw(i + 1) ELSE <<Token(body[i + 1], FALSE, {})>>))
      ELSE IF Is(i, <<"#">>) /\ IsPar(i + 1)
      THEN Substitute(ms, m, args, i + 2, Append(s, [StringOf(Arg(i + 1)) EXCEPT !.sp = sp]))
      ELSE Substitute(ms, m, args, i + 1,
                      s \o (IF ~IsPar(i) THEN <<Token(body[i], sp, {})>>
                            ELSE IF Is(i + 1, HashHash) THEN Spaced(Raw(i), sp)
                            ELSE Spaced(Expand(ms, Arg(i)), sp)))

Expand(ms, toks) ==
  IF toks = <<>> THEN <<>>
  ELSE LET tok   == Head(toks)
           known == tok.t \in DOMAIN ms /\ tok.t \notin tok.hs
           Replaced(args, close, hs) ==
             Expand(ms, Spaced(Hide(Substitute(ms, ms[tok.t], args, 1, <<>>), hs \cup {tok.t}), tok.sp)
                        \o SubSeq(toks, close + 1, Len(toks)))
       IN  IF known /\ ms[tok.t].noargs THEN Replaced(<<>>, 1, tok.hs)
           ELSE IF known /\ Len(toks) > 1 /\ toks[2].t = <<"(">> /\ Closing(toks) # {}
           THEN LET close == CHOOSE i \in Closing(toks) : \A j \in Closing(toks) : i <= j
                IN  Replaced(Arguments(toks, close), close, tok.hs \cap toks[close].hs)
           ELSE <<tok>> \o Expand(ms, Tail(toks))
============================================================================
