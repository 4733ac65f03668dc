------------------------------- MODULE Blocks -------------------------------
(***************************************************************************)
(* Two neighbouring blocks of a sequence that change places.               *)
(***************************************************************************)
EXTENDS Integers, Sequences

\* args with its blocks [bottom, middle) and [middle, top) in the other order,
\* each as it was and everything around them untouched.
Rotated(args, bottom, middle, top) ==
  [k \in DOMAIN args |->
     args[IF k \in bottom..(bottom + (top - middle) - 1) THEN k + (middle - bottom)
          ELSE IF k \in (bottom + (top - middle))..(top - 1) THEN k - (top - middle)
          ELSE k]]
=============================================================================
