-------------------------------- MODULE MCPP --------------------------------
(* Instances of PP: small macros that name each other, small files that are *)
(* included twice, and directives among macros.                             *)
EXTENDS PP, MacroStandard

CONSTANTS
  BodyLen,   \* of a macro with a parameter
  PasteLen,  \* of one that glues
  FileLen    \* of a file, in lines

MCLetters == {"f", "g", "h", "x", "y", "t"}

f == <<"f">>  g == <<"g">>  h == <<"h">>  x == <<"x">>  y == <<"y">>

Object(body) == [noargs |-> TRUE, params |-> <<>>, body |-> body]
Function(params, body) == [noargs |-> FALSE, params |-> params, body |-> body]

\* Names that follow each other are written with a space.
SpaceOut(body) ==
  FoldLeft(LAMBDA s, tok : s \o (IF s # <<>> /\ IdChar(Last(s)[1]) /\ IdChar(tok[1]) THEN <<<<" ">>>>
                                 ELSE <<>>) \o <<tok>>, <<>>, body)

Program(macs, text) == [macros |-> macs, files |-> [n \in {"main"} |-> text]]

Calling ==
  {Program([m \in {f, g} |-> IF m = f THEN Object(a) ELSE Function(<<x>>, SpaceOut(c))], text) :
     a \in {<<>>, <<g>>, <<g, <<"(">>>>, <<g, <<"(">>, f, <<")">>>>, <<<<"+">>, f>>},
     c \in SeqOf({x, f, g, <<"(">>, <<")">>}, BodyLen),
     text \in {<<"f", "(", "f", ")", NL, "(", "f", ")">>,
               <<"g", "(", "g", " ", "(", "f", ")", "+", "g", ")">>}}

IsPaste(body) ==
  /\ \A i \in DOMAIN body : body[i] = <<"#">> => i < Len(body) /\ body[i + 1] \in {x, y}
  /\ body # <<>> => body[1] # HashHash /\ Last(body) # HashHash
  /\ \A i \in 2 .. Len(body) : body[i - 1] = HashHash => body[i] # HashHash

Pasting ==
  {Program([m \in {f, <<"f", "f">>, g, h} |->
           CASE m = f -> Object(<<<<"f", "f">>>>)
             [] m = g -> Function(<<x>>, <<h, <<"(">>, x, <<",">>, f, <<")">>>>)
             [] m = h -> Function(<<x, y>>, SpaceOut(c))
             [] OTHER -> Object(<<f, <<"+">>>>)], text) :
     c \in {s \in SeqOf({x, y, f, <<"#">>, HashHash}, PasteLen) : IsPaste(s)},
     text \in {<<"h", "(", "f", ",", ")", "f">>, <<"g", "(", "f", " ", "+", NL, "f", ")">>}}

MCDirectives == [d \in {"#ifndef G", "#define G", "#undef G", "#ifdef G", "#if 0", "#if 1", "#elif 0", "#elif 1",
                        "#else", "#endif", "#include H", "#include I"} |->
  CASE d = "#ifndef G" -> [word |-> "ifndef", name |-> g]
    [] d = "#ifdef G"  -> [word |-> "ifdef", name |-> g]
    [] d = "#define G" -> [word |-> "define", name |-> g, macro |-> Object(<<>>)]
    [] d = "#undef G"  -> [word |-> "undef", name |-> g]
    [] d = "#if 0"     -> [word |-> "if", cond |-> FALSE]
    [] d = "#if 1"     -> [word |-> "if", cond |-> TRUE]
    [] d = "#elif 0"   -> [word |-> "elif", cond |-> FALSE]
    [] d = "#elif 1"   -> [word |-> "elif", cond |-> TRUE]
    [] d = "#else"     -> [word |-> "else"]
    [] d = "#endif"    -> [word |-> "endif"]
    [] d = "#include H" -> [word |-> "include", file |-> "H"]
    [] d = "#include I" -> [word |-> "include", file |-> "I"]]

Lines == {"#ifndef G", "#define G", "#if 0", "#elif 1", "#else", "#endif", "#include I", "t"}

\* I ends a conditional of its includer's, and begins one in its place.
Including ==
  {[macros |-> [m \in {} |-> None],
    files |-> [n \in {"main", "H", "I"} |->
                CASE n = "main" -> main [] n = "H" -> lines [] OTHER -> <<"#endif", "#if 1">>]] :
     main \in {<<"#include H", "#include H">>,
               <<"#include H", "#define G", "#include H", "#ifdef G", "#undef G", "#include H", "#endif">>,
               <<"#if 0", "#include H", "#elif 1", "#include H", "#elif 0", "#endif", "#include H">>},
     lines \in SeqOf(Lines, FileLen)
               \cup {<<"#ifndef G">> \o s \o <<"#endif">> : s \in SeqOf(Lines, FileLen)}}

\* A directive follows macros that have slept, asks for one of them, and is
\* put back where a parenthesis was looked for.
Asking ==
  {[macros |-> [m \in {f, g} |-> IF m = f THEN Object(a) ELSE Function(<<x>>, SpaceOut(c))],
    files |-> [n \in {"main", "H"} |->
                IF n = "main" THEN text \o <<NL, d, "t", "#endif", "#include H", "f">> ELSE <<d, "#endif">>]] :
     a \in {<<>>, <<g>>, <<g, <<"(">>>>, <<g, <<"(">>, f, <<")">>>>, <<<<"+">>, f>>},
     c \in SeqOf({x, f, g, <<"(">>, <<")">>}, 1),
     text \in {<<"f">>, <<"g">>, <<"g", "(", "f", ")">>, <<"f", "(", "f", ")">>},
     d \in {"#ifdef G", "#ifndef G"}}

MCPrograms == Calling \cup Pasting \cup Including \cup Asking

\* Programs of text alone expand to the tokens the language asks for, no two
\* of them made one by standing next to each other, unless a name was astray.
ExpandsAsStandard ==
  AtEnd /\ ~astray /\ DOMAIN prog.files = {"main"} =>
    Spellings(Lex(out, {})) = Spellings(Expand(prog.macros, Lex(prog.files["main"], {})))
============================================================================
