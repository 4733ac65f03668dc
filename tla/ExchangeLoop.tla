---------------------------- MODULE ExchangeLoop ----------------------------
(***************************************************************************)
(* The loop of exchange (gnulib/getopt.c 130-183), one step per pass.  The *)
(* shorter of two neighbouring blocks changes places with the far end of   *)
(* the longer one, until one of them is empty.  Getopt takes the result    *)
(* from here: the blocks have changed places.                              *)
(***************************************************************************)
EXTENDS Blocks

CONSTANTS
  Things,                \* what a list is made of
  Lists                  \* the lists that exchange may be called with

ASSUME ListsAssumption == Lists \subseteq Seq(Things)

VARIABLES
  list,                  \* argv, as exchanged so far
  bottom, middle, top,
  called                 \* what exchange was called with

varsX == <<list, bottom, middle, top, called>>

\* The scan calls it with two blocks inside the list.
InitX ==
  /\ \E s \in Lists : \E f, l, o \in 1..(Len(s) + 1) :
       f <= l /\ l <= o /\ called = [argv |-> s, first |-> f, last |-> l, optind |-> o]
  /\ list = called.argv
  /\ bottom = called.first /\ middle = called.last /\ top = called.optind

-----------------------------------------------------------------------------
\* len elements from here on and from there on change places.
Swap(args, here, there, len) ==
  [k \in DOMAIN args |->
     args[IF k \in here..(here + len - 1) THEN k + (there - here)
          ELSE IF k \in there..(there + len - 1) THEN k - (there - here)
          ELSE k]]

Swapping == top > middle /\ middle > bottom

BottomIsShort_FrontOfTop ==      \* the near end of the longer block
  /\ Swapping /\ top - middle > middle - bottom
  /\ list' = Swap(list, bottom, middle, middle - bottom)
  /\ top' = top - (middle - bottom)
  /\ UNCHANGED <<bottom, middle, called>>

\* "Swap it with the top part of the top segment."
BottomIsShort ==
  /\ Swapping /\ top - middle > middle - bottom
  /\ list' = Swap(list, bottom, top - (middle - bottom), middle - bottom)
  /\ top' = top - (middle - bottom)
  /\ UNCHANGED <<bottom, middle, called>>

TopIsShort_Kept ==               \* the moved block is not excluded
  /\ Swapping /\ top - middle <= middle - bottom
  /\ list' = Swap(list, bottom, middle, top - middle)
  /\ UNCHANGED <<bottom, middle, top, called>>

\* "Swap it with the bottom part of the bottom segment."
TopIsShort ==
  /\ Swapping /\ top - middle <= middle - bottom
  /\ list' = Swap(list, bottom, middle, top - middle)
  /\ bottom' = bottom + (top - middle)
  /\ UNCHANGED <<middle, top, called>>

NextX == BottomIsShort \/ TopIsShort

SpecX == InitX /\ [][NextX]_varsX /\ WF_varsX(NextX)

-----------------------------------------------------------------------------
Result == Rotated(called.argv, called.first, called.last, called.optind)

\* When the loop is through, the two blocks exchange was called with have
\* changed places, whatever their lengths: the operands passed over follow the
\* options, both in the order they were given, and nothing else has moved
\* (getopt.c 119-128).
BlocksTraded == ~Swapping => list = Result

\* The loop, which shortens one of the blocks per pass, comes to its end.
LoopEnds == <>~Swapping
=============================================================================
