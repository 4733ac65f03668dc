------------------------------ MODULE Arguments ------------------------------
(***************************************************************************)
(* What an argument list says, and nothing of how it is scanned: options   *)
(* in the order they were given, their arguments, and the operands in the  *)
(* order they were given, wherever they stood.  Two dashes end the options *)
(* and, with POSIXLY_CORRECT set, so does the first operand.               *)
(*                                                                         *)
(* An element is a record: its kind ("word", "dashes", "short" or "long"), *)
(* its name, and whether "=" and a text come with it.  The name of a short *)
(* element are its letters, that of a long one the parts of its word.      *)
(***************************************************************************)
EXTENDS Integers, Sequences

CONSTANTS
  Required, Allowed,  \* the letters that take an argument, and those that take none
  LongNames           \* the long options: name, has_arg and val

VARIABLES
  posix,      \* POSIXLY_CORRECT is set
  rest,       \* the elements not read yet
  operands,   \* the operands met
  said,       \* the option said last: its letter or val, its argument if any
  over        \* nothing more is read

arguments == <<posix, rest, operands, said, over>>

Word(parts) == [kind |-> "word", name |-> parts, text |-> FALSE]
Text        == Word(<<"=">>)          \* what stands behind "="
Mistake     == [opt |-> "?", arg |-> <<>>]
Option(v, a) == [opt |-> v, arg |-> a]

\* From, and up to, a place in a sequence.
After(s, k)  == SubSeq(s, k + 1, Len(s))
Before(s, k) == SubSeq(s, 1, k - 1)

\* The place of the first element at or after k that is no word.
FirstOption(s, k) ==
  CHOOSE j \in k..(Len(s) + 1) :
    /\ j <= Len(s) => s[j].kind # "word"
    /\ \A m \in k..(j - 1) : s[m].kind = "word"

IsPrefixOf(s, t) == Len(s) <= Len(t) /\ SubSeq(t, 1, Len(s)) = s

\* "Their names may be abbreviated as long as the abbreviation is unique or is
\* an exact match for some defined option."
Meant(name) ==
  LET exact == {k \in DOMAIN LongNames : LongNames[k].name = name}
  IN  IF exact # {} THEN exact ELSE {k \in DOMAIN LongNames : IsPrefixOf(name, LongNames[k].name)}

\* What a long element e with after behind it says, and what is left of after.
Long(e, after) ==
  LET meant == Meant(e.name)
      o == LongNames[CHOOSE n \in meant : TRUE]
  IN  IF meant = {} \/ \E a, b \in meant : a # b THEN <<Mistake, after>>
      ELSE IF e.text
      THEN IF o.has_arg THEN <<Option(o.val, <<Text>>), after>> ELSE <<Mistake, after>>
      ELSE IF ~o.has_arg THEN <<Option(o.val, <<>>), after>>
      ELSE IF after = <<>> THEN <<Mistake, after>>
      ELSE <<Option(o.val, <<Head(after)>>), Tail(after)>>

\* The same for the first letter of a short element.
Short(e, after) ==
  LET c == Head(e.name)
      letters == Tail(e.name)
      left == IF letters = <<>> THEN after ELSE <<[e EXCEPT !.name = letters]>> \o after
  IN  IF c \in Allowed THEN <<Option(c, <<>>), left>>
      ELSE IF c \in Required /\ letters # <<>> THEN <<Option(c, <<Word(letters)>>), after>>
      ELSE IF c \in Required /\ after # <<>> THEN <<Option(c, <<Head(after)>>), Tail(after)>>
      ELSE <<Mistake, left>>

Init ==
  /\ posix \in BOOLEAN
  /\ rest \in Seq([kind : {"word", "dashes", "short", "long"}, name : Seq(STRING), text : BOOLEAN])
  /\ operands = <<>> /\ said = Option("", <<>>) /\ over = FALSE

\* Where reading goes on, past the operands if they do not end it.
Here == IF posix THEN 1 ELSE FirstOption(rest, 1)

Say ==
  \E k \in {Here} :
    /\ k <= Len(rest) /\ rest[k].kind \in {"short", "long"}
    /\ \E r \in {IF rest[k].kind = "long" THEN Long(rest[k], After(rest, k)) ELSE Short(rest[k], After(rest, k))} :
         said' = r[1] /\ rest' = r[2] /\ over' = (r[1] = Mistake)
    /\ operands' = operands \o Before(rest, k) /\ UNCHANGED posix

End ==
  \E k \in {Here} :
    /\ k <= Len(rest) => rest[k].kind \in {"word", "dashes"}
    /\ operands' = operands \o IF k <= Len(rest) /\ rest[k].kind = "dashes"
                               THEN Before(rest, k) \o After(rest, k) ELSE rest
    /\ rest' = <<>> /\ over' = TRUE /\ UNCHANGED <<posix, said>>

Next == ~over /\ (Say \/ End)

Spec == Init /\ [][Next]_arguments
=============================================================================
