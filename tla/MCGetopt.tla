------------------------------ MODULE MCGetopt ------------------------------
(***************************************************************************)
(* Instances of Getopt for TLC, with the options of yagiws.c 177-209 and   *)
(* 241.  Long names are cut where an abbreviation of them is tried.        *)
(***************************************************************************)
EXTENDS Getopt

MCRequired == {"4", "5", "B", "E", "R", "V", "b", "c", "e", "f", "p"}
MCAllowed  == {"C", "L", "N", "S", "W", "d", "g", "h", "l", "n", "r", "s", "v"}

Opt(name, has_arg, val) == [name |-> name, has_arg |-> has_arg, val |-> val]

\* long_opts, in its order.
MCLongNames ==
  <<Opt(<<"ban", "ner">>, TRUE, "b"), Opt(<<"p", "ulls">>, TRUE, "p"), Opt(<<"fate_points">>, TRUE, "f"),
    Opt(<<"epitomized", "_path">>, TRUE, "e"), Opt(<<"p", "ity", "4">>, TRUE, "4"),
    Opt(<<"p", "ity", "5">>, TRUE, "5"), Opt(<<"smooth", "4", "c">>, TRUE, "smooth4c"),
    Opt(<<"smooth", "4", "w">>, TRUE, "smooth4w"), Opt(<<"smooth", "5", "c">>, TRUE, "smooth5c"),
    Opt(<<"smooth", "5", "w">>, TRUE, "smooth5w"), Opt(<<"lostRateUp", "4">>, FALSE, "l"),
    Opt(<<"lostRateUp", "5">>, FALSE, "L"), Opt(<<"no", "Smooth", "5">>, FALSE, "S"),
    Opt(<<"no", "Smooth", "4">>, FALSE, "s"), Opt(<<"no", "Pity", "5">>, FALSE, "N"),
    Opt(<<"no", "Pity", "4">>, FALSE, "n"), Opt(<<"no", "Guarantee">>, FALSE, "g"),
    Opt(<<"no", "viceCnt">>, TRUE, "c"), Opt(<<"p", "ool_version">>, TRUE, "V"),
    Opt(<<"details">>, FALSE, "d"), Opt(<<"version">>, FALSE, "v"), Opt(<<"help">>, FALSE, "h"),
    Opt(<<"usage">>, FALSE, "usage"), Opt(<<"ban", "ner", "_version">>, TRUE, "B"),
    Opt(<<"ra", "teUpOnly">>, FALSE, "r"), Opt(<<"forceSmooth", "Char">>, FALSE, "C"),
    Opt(<<"forceSmooth", "Wpn">>, FALSE, "W"), Opt(<<"no", "Smooth", "Old">>, FALSE, "noSmoothOld"),
    Opt(<<"epitomized", "_state">>, TRUE, "E"), Opt(<<"ra", "diance">>, TRUE, "R")>>

Element(kind, name, text) == [kind |-> kind, name |-> name, text |-> text]
W(x) == Element("word", <<x>>, FALSE)
Dashes == Element("dashes", <<>>, FALSE)
S(letters) == Element("short", letters, FALSE)
L(name) == Element("long", name, FALSE)

\* Lists of up to three elements of every form...
Forms ==
  {W("character"), Dashes, S(<<"g">>), S(<<"g", "b">>), S(<<"b", "g">>), S(<<"x", "g">>),
   L(<<"ban", "ner">>), L(<<"ban">>), L(<<"no", "Pity", "5">>), L(<<"no", "Gua">>), L(<<"no", "Gua", "x">>),
   Element("long", <<"ra", "diance">>, TRUE), Element("long", <<"ra", "teUpOnly">>, TRUE)}

\* ... and of up to five where operands and options alternate.
Mixed == {W("1"), W("2"), S(<<"g">>), S(<<"b">>), Dashes}

ListsOf(elements, n) == UNION {[1..k -> elements] : k \in 0..n}

MCArgLists == ListsOf(Forms, 3) \cup ListsOf(Mixed, 5)
=============================================================================
