--------------------------- MODULE MCExchangeLoop ---------------------------
(***************************************************************************)
(* Lists of up to nine elements, no two alike.                             *)
(***************************************************************************)
EXTENDS ExchangeLoop

MCThings == 1..9

MCLists == {[k \in 1..n |-> k] : n \in 0..9}
=============================================================================
