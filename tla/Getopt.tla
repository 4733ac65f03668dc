------------------------------- MODULE Getopt -------------------------------
(***************************************************************************)
(* getopt_long of gnulib/getopt.c as main calls it (yagiws.c 240-243), one *)
(* step per call.  It scans argv in place: words it passes over are kept   *)
(* in a block [first_nonopt, last_nonopt) that is exchanged with the       *)
(* options read since, so that in the end the operands come last.          *)
(*                                                                         *)
(* main's optstring has no sign in front, and main never moves optind: the *)
(* code for these is left out.  main stops at the first mistake.           *)
(***************************************************************************)
EXTENDS Blocks

CONSTANTS
  ArgLists,    \* the argument lists a program may be started with, without its name
  Required, Allowed, LongNames      \* as in Arguments

\* An element of a list, as in Arguments; a short one has a letter at least.
Elements ==
  {e \in [kind : {"word", "dashes", "short", "long"}, name : Seq(STRING), text : BOOLEAN] :
     e.kind = "short" => e.name # <<>>}

ASSUME ArgListsAssumption == ArgLists \subseteq Seq(Elements)

\* No letter is in the optstring twice, and no two long options share a name or a
\* val (yagiws.c 177-209, 241).  Of two that share a val, either would be taken.
ASSUME OptionsAssumption ==
  /\ Required \cap Allowed = {}
  /\ LongNames \in Seq([name : Seq(STRING), has_arg : BOOLEAN, val : STRING])
  /\ \A j, k \in DOMAIN LongNames :
       LongNames[j].name = LongNames[k].name \/ LongNames[j].val = LongNames[k].val => j = k

VARIABLES
  argv,          \* the elements, as permuted so far
  ordering,      \* "PERMUTE", or "REQUIRE_ORDER" with POSIXLY_CORRECT set
  optind, first_nonopt, last_nonopt,
  nextchar,      \* the letters of argv[optind] still to be read
  returned,      \* the last option returned to main, with its argument
  stage          \* "reading"; "end" after -1; "mistake" after '?'

varsG == <<argv, ordering, optind, first_nonopt, last_nonopt, nextchar, returned, stage>>

NoOption == [opt |-> "", arg |-> <<>>]
Bad      == [opt |-> "?", arg |-> <<>>]
Ret(v, a) == [opt |-> v, arg |-> a]
AWord(parts) == [kind |-> "word", name |-> parts, text |-> FALSE]

argc == Len(argv) + 1

InitG ==
  /\ argv \in ArgLists /\ ordering \in {"PERMUTE", "REQUIRE_ORDER"}
  /\ optind = 1 /\ first_nonopt = 1 /\ last_nonopt = 1 /\ nextchar = <<>>
  /\ returned = NoOption /\ stage = "reading"

-----------------------------------------------------------------------------
\* The list and the scan's places in it.
Scanned(args, at, first, last) == [args |-> args, optind |-> at, first |-> first, last |-> last]

Exchange_Once(d) ==      \* blocks of the same length taken for granted
  LET len == d.optind - d.last
  IN  [d EXCEPT !.args = [k \in DOMAIN d.args |->
                            CASE k \in d.first..(d.first + len - 1) -> d.args[k + (d.last - d.first)]
                              [] k \in d.last..(d.optind - 1)       -> d.args[k - (d.last - d.first)]
                              [] OTHER                              -> d.args[k]],
                !.first = @ + (d.optind - d.last), !.last = d.optind]

\* exchange: the two blocks change places (ExchangeLoop shows how).
Exchange(d) ==
  Scanned(Rotated(d.args, d.first, d.last, d.optind), d.optind,
          d.first + (d.optind - d.last), d.optind)

Scan == Scanned(argv, optind, first_nonopt, last_nonopt)

\* Past the next words; they join the block of those passed over before.
SkipWords(d) ==
  LET e == IF d.last = d.optind THEN d
           ELSE IF d.first # d.last THEN Exchange(d)
           ELSE Scanned(d.args, d.optind, d.optind, d.last)
      k == CHOOSE j \in e.optind..argc :
             /\ j < argc => e.args[j].kind # "word"
             /\ \A m \in e.optind..(j - 1) : e.args[m].kind = "word"
  IN  Scanned(e.args, k, e.first, k)

\* Past "--", and past everything behind it.
SkipRest(d) ==
  LET over == Scanned(d.args, d.optind + 1, d.first, d.last)
      e == IF over.first = over.last THEN Scanned(over.args, over.optind, over.optind, over.last)
           ELSE IF over.last # over.optind THEN Exchange(over) ELSE over
  IN  Scanned(e.args, argc, e.first, argc)

\* At the next element that is looked at, where a new one is begun.
Advanced ==
  LET d == IF ordering = "PERMUTE" THEN SkipWords(Scan) ELSE Scan
  IN  IF d.optind # argc /\ d.args[d.optind].kind = "dashes" THEN SkipRest(d) ELSE d

Moved(d, optind2) ==
  /\ argv' = d.args /\ first_nonopt' = d.first /\ last_nonopt' = d.last
  /\ optind' = optind2 /\ UNCHANGED ordering

Return(r) == returned' = r /\ stage' = IF r = Bad THEN "mistake" ELSE "reading"

-----------------------------------------------------------------------------
\* -1: the end of the list, or an operand that ends the options.
ReturnEnd ==
  /\ nextchar = <<>>
  /\ \E d \in {Advanced} :
       /\ d.optind # argc => d.args[d.optind].kind = "word"
       /\ Moved(d, IF d.optind = argc /\ d.first # d.last THEN d.first ELSE d.optind)
  /\ stage' = "end" /\ UNCHANGED <<nextchar, returned>>

\* The entries a long name may stand for: the exact one first, or all that begin so.
Matches(name) ==
  LET exact == {k \in DOMAIN LongNames : LongNames[k].name = name}
      begins == {k \in DOMAIN LongNames :
                   Len(name) <= Len(LongNames[k].name) /\ SubSeq(LongNames[k].name, 1, Len(name)) = name}
  IN  IF exact # {} THEN exact ELSE begins

\* process_long_option, for the name of e, with the scan at d.
ReadName(d, e) ==
  \E found \in {Matches(e.name)}, next \in {d.optind + 1} :
    \/ /\ \A k \in found : \E j \in found : j # k      \* none, or ambiguous
       /\ Return(Bad) /\ Moved(d, next)
    \/ \E k \in found :
         LET p == LongNames[k]
         IN  /\ found = {k}
             /\ \/ /\ e.text /\ p.has_arg
                   /\ Return(Ret(p.val, <<AWord(<<"=">>)>>)) /\ Moved(d, next)
                \/ /\ e.text # p.has_arg /\ (p.has_arg => next = argc)
                   /\ Return(Bad) /\ Moved(d, next)
                \/ /\ ~e.text /\ p.has_arg /\ next < argc
                   /\ Return(Ret(p.val, <<d.args[next]>>)) /\ Moved(d, next + 1)
                \/ /\ ~e.text /\ ~p.has_arg
                   /\ Return(Ret(p.val, <<>>)) /\ Moved(d, next)

ReturnLong ==
  /\ nextchar = <<>>
  /\ \E d \in {Advanced} :
       d.optind # argc /\ d.args[d.optind].kind = "long" /\ ReadName(d, d.args[d.optind])
  /\ UNCHANGED nextchar

ReturnShort_Stays ==     \* optind not increased at the last letter
  LET d == IF nextchar = <<>> THEN Advanced ELSE Scan
      letters == IF nextchar = <<>> THEN d.args[d.optind].name ELSE nextchar
      c == Head(letters)
      text == Tail(letters)
      next == d.optind
  IN  /\ nextchar = <<>> => d.optind # argc /\ d.args[d.optind].kind = "short"
      /\ c \in Allowed /\ Return(Ret(c, <<>>)) /\ Moved(d, next) /\ nextchar' = text

\* The first of the letters, with its argument: what is left of the element, or
\* the element after it, whatever that looks like.
ReadLetter(d, letters) ==
  LET c == Head(letters)
      text == Tail(letters)
      next == IF text = <<>> THEN d.optind + 1 ELSE d.optind
  IN  \/ /\ c \notin Required \cup Allowed
         /\ Return(Bad) /\ Moved(d, next) /\ nextchar' = text
      \/ /\ c \in Allowed
         /\ Return(Ret(c, <<>>)) /\ Moved(d, next) /\ nextchar' = text
      \/ /\ c \in Required /\ text # <<>>
         /\ Return(Ret(c, <<AWord(text)>>)) /\ Moved(d, next + 1) /\ nextchar' = <<>>
      \/ /\ c \in Required /\ text = <<>> /\ next = argc
         /\ Return(Bad) /\ Moved(d, next) /\ nextchar' = <<>>
      \/ /\ c \in Required /\ text = <<>> /\ next < argc
         /\ Return(Ret(c, <<d.args[next]>>)) /\ Moved(d, next + 1) /\ nextchar' = <<>>

\* The next letter of the element being read, or the first of a new one.
ReturnShort ==
  \/ nextchar # <<>> /\ ReadLetter(Scan, nextchar)
  \/ /\ nextchar = <<>>
     /\ \E d \in {Advanced} :
          d.optind # argc /\ d.args[d.optind].kind = "short" /\ ReadLetter(d, d.args[d.optind].name)

\* main calls again while options are returned.
NextG == stage = "reading" /\ (ReturnEnd \/ ReturnLong \/ ReturnShort)

SpecG == InitG /\ [][NextG]_varsG /\ WF_varsG(NextG)

-----------------------------------------------------------------------------
Unread ==
  IF stage = "end" THEN <<>>
  ELSE IF nextchar # <<>>
  THEN <<[argv[optind] EXCEPT !.name = nextchar]>> \o SubSeq(argv, optind + 1, Len(argv))
  ELSE SubSeq(argv, optind, Len(argv))

\* Every list is read as Arguments says: after getopt is done, "all the options
\* precede all the non-option arguments and optind points to the first
\* non-option argument" (getopt.c 63-66), with no option and no operand lost,
\* repeated or out of its order, however often blocks were exchanged.
Said == INSTANCE Arguments WITH
  posix    <- (ordering = "REQUIRE_ORDER"),
  rest     <- Unread,
  operands <- IF stage = "end" THEN SubSeq(argv, optind, Len(argv))
                               ELSE SubSeq(argv, first_nonopt, last_nonopt - 1),
  said     <- returned,
  over     <- stage # "reading"

ReadAsSaid == Said!Spec

\* main's loop over the options comes to an end (yagiws.c 240-243), with
\* everything main still holds against the list in argv from optind on.
ReadingEnds == <>[](stage # "reading")
=============================================================================
