---------------------------- MODULE GetoptProofs ----------------------------
(***************************************************************************)
(* getopt_long reads every argument list as Arguments says, for every      *)
(* optstring and table of long options, with the list of any length.  And  *)
(* the loop of exchange, which that rests on, makes two neighbouring       *)
(* blocks of any lengths change places.                                    *)
(***************************************************************************)
EXTENDS Getopt, ExchangeLoop, SequenceTheorems, WellFoundedInduction, TLAPS

-----------------------------------------------------------------------------
(* The blocks, and the loop that exchanges them. *)

\* The elements of s from a to b.
Stretch(s, a, b) == SubSeq(s, a, b)

\* From a to b, s holds what t holds from c to d.
Alike(S, s, a, b, t, c, d) ==
  /\ s \in Seq(S) /\ a \in Nat /\ b \in Int /\ 1 <= a /\ b <= Len(s)
  /\ t \in Seq(S) /\ c \in Nat /\ d \in Int /\ 1 <= c /\ d <= Len(t)
  /\ b - a = d - c /\ \A i \in 0..(b - a) : s[a + i] = t[c + i]

\* Equal stretches of two sequences are the same sequence.
LEMMA SameStretch ==
  ASSUME NEW S, NEW s, NEW a, NEW b, NEW t, NEW c, NEW d, Alike(S, s, a, b, t, c, d)
  PROVE  Stretch(s, a, b) = Stretch(t, c, d)
<1> USE DEF Alike, Stretch
<1>1. \A i \in a..b : s[i] \in S
  BY ElementOfSeq
<1>2. \A i \in c..d : t[i] \in S
  BY ElementOfSeq
<1>3. /\ SubSeq(s, a, b) \in Seq(S) /\ Len(SubSeq(s, a, b)) = IF a <= b THEN b - a + 1 ELSE 0
      /\ \A i \in 1..(b - a + 1) : SubSeq(s, a, b)[i] = s[a + i - 1]
  BY <1>1, SubSeqProperties
<1>4. /\ SubSeq(t, c, d) \in Seq(S) /\ Len(SubSeq(t, c, d)) = IF c <= d THEN d - c + 1 ELSE 0
      /\ \A i \in 1..(d - c + 1) : SubSeq(t, c, d)[i] = t[c + i - 1]
  BY <1>2, SubSeqProperties
<1>5. \A i \in 1..(b - a + 1) : SubSeq(s, a, b)[i] = SubSeq(t, c, d)[i]
  <2>1. TAKE i \in 1..(b - a + 1)
  <2>2. i - 1 \in 0..(b - a) /\ a + (i - 1) = a + i - 1 /\ c + (i - 1) = c + i - 1
    OBVIOUS
  <2>3. s[a + i - 1] = t[c + i - 1]
    BY <2>2
  <2>4. QED BY <1>3, <1>4, <2>3
<1>6. QED BY <1>3, <1>4, <1>5, SeqEqual

\* What a sequence whose blocks have changed places holds, place by place.
LEMMA RotatedPlaces ==
  ASSUME NEW S, NEW args \in Seq(S), NEW b \in Nat, NEW m \in Nat, NEW t \in Nat,
         1 <= b, b <= m, m <= t, t <= Len(args) + 1
  PROVE  LET r == Rotated(args, b, m, t)
         IN  /\ r \in Seq(S) /\ Len(r) = Len(args)
             /\ \A k \in 1..Len(args) : k < b \/ k >= t => r[k] = args[k]
             /\ \A k \in b..(b + (t - m) - 1) : r[k] = args[k + (m - b)]
             /\ \A k \in (b + (t - m))..(t - 1) : r[k] = args[k - (t - m)]
<1> DEFINE from(k) == IF k \in b..(b + (t - m) - 1) THEN k + (m - b)
                      ELSE IF k \in (b + (t - m))..(t - 1) THEN k - (t - m) ELSE k
           e(k) == args[from(k)]
           r == [k \in 1..Len(args) |-> e(k)]
<1>1. Rotated(args, b, m, t) = r
  BY LenProperties DEF Rotated
<1>2. /\ \A k \in 1..Len(args) : k < b \/ k >= t => e(k) = args[k]
      /\ \A k \in b..(b + (t - m) - 1) : e(k) = args[k + (m - b)]
      /\ \A k \in (b + (t - m))..(t - 1) : e(k) = args[k - (t - m)]
  OBVIOUS
<1>3. \A k \in 1..Len(args) : e(k) \in S
  <2>1. TAKE k \in 1..Len(args)
  <2>2. from(k) \in 1..Len(args)
    OBVIOUS
  <2> HIDE DEF from
  <2>3. QED BY <2>2, ElementOfSeq
<1> HIDE DEF e, from
<1>4. r \in Seq(S) /\ Len(r) = Len(args)
  BY <1>3, IsASeq
<1>5. QED BY <1>1, <1>2, <1>4

\* The lower block, and what is above both.
LEMMA RotatedStretches ==
  ASSUME NEW S, NEW args \in Seq(S), NEW b \in Nat, NEW m \in Nat, NEW t \in Nat,
         1 <= b, b <= m, m <= t, t <= Len(args) + 1
  PROVE  /\ Rotated(args, b, m, t) \in Seq(S) /\ Len(Rotated(args, b, m, t)) = Len(args)
         /\ \A k \in t..Len(args) : Rotated(args, b, m, t)[k] = args[k]
         /\ SubSeq(Rotated(args, b, m, t), b + (t - m), t - 1) = SubSeq(args, b, m - 1)
<1> DEFINE r == Rotated(args, b, m, t)
<1>1. /\ r \in Seq(S) /\ Len(r) = Len(args)
      /\ \A k \in 1..Len(args) : k < b \/ k >= t => r[k] = args[k]
      /\ \A k \in (b + (t - m))..(t - 1) : r[k] = args[k - (t - m)]
  BY RotatedPlaces
<1>2. Len(args) \in Nat
  BY LenProperties
<1> HIDE DEF r
<1>3. \A i \in 0..((t - 1) - (b + (t - m))) : r[(b + (t - m)) + i] = args[b + i]
  <2>1. TAKE i \in 0..((t - 1) - (b + (t - m)))
  <2>2. (b + (t - m)) + i \in (b + (t - m))..(t - 1) /\ ((b + (t - m)) + i) - (t - m) = b + i
    OBVIOUS
  <2>3. QED BY <1>1, <2>2
<1>4. SubSeq(r, b + (t - m), t - 1) = SubSeq(args, b, m - 1)
  <2>1. /\ b + (t - m) \in Nat /\ t - 1 \in Int /\ m - 1 \in Int /\ 1 <= b + (t - m)
        /\ t - 1 <= Len(r) /\ m - 1 <= Len(args) /\ (t - 1) - (b + (t - m)) = (m - 1) - b
    BY <1>1, <1>2
  <2>2. Alike(S, r, b + (t - m), t - 1, args, b, m - 1)
    BY <1>1, <1>3, <2>1 DEF Alike
  <2>3. Stretch(r, b + (t - m), t - 1) = Stretch(args, b, m - 1)
    BY <2>2, SameStretch
  <2>4. QED BY <2>3 DEF Stretch
<1>5. \A k \in t..Len(args) : r[k] = args[k]
  <2>1. TAKE k \in t..Len(args)
  <2>2. k \in 1..Len(args) /\ k >= t
    BY <1>2
  <2>3. QED BY <1>1, <2>2
<1>6. r \in Seq(S) /\ Len(r) = Len(args)
  BY <1>1
<1>7. QED BY <1>4, <1>5, <1>6, Zenon DEF r

\* Trading places within a list leaves a list, of the same length.
LEMMA SwapSeq ==
  ASSUME NEW S, NEW args \in Seq(S), NEW h \in Nat, NEW o \in Nat, NEW n \in Nat,
         1 <= h, h + n <= o, o + n <= Len(args) + 1
  PROVE  Swap(args, h, o, n) \in Seq(S) /\ Len(Swap(args, h, o, n)) = Len(args)
<1> DEFINE from(k) == IF k \in h..(h + n - 1) THEN k + (o - h)
                      ELSE IF k \in o..(o + n - 1) THEN k - (o - h) ELSE k
           e(k) == args[from(k)]
<1>1. Swap(args, h, o, n) = [k \in 1..Len(args) |-> e(k)]
  BY LenProperties DEF Swap
<1>2. \A k \in 1..Len(args) : e(k) \in S
  <2>1. TAKE k \in 1..Len(args)
  <2>2. from(k) \in 1..Len(args)
    OBVIOUS
  <2> HIDE DEF from
  <2>3. QED BY <2>2, ElementOfSeq
<1> HIDE DEF e, from
<1>3. [k \in 1..Len(args) |-> e(k)] \in Seq(S) /\ Len([k \in 1..Len(args) |-> e(k)]) = Len(args)
  BY <1>2, IsASeq
<1>4. QED BY <1>1, <1>3

\* With the shorter block below in its place, trading what is left does the rest.
LEMMA BottomGone ==
  ASSUME NEW S, NEW args \in Seq(S), NEW b \in Nat, NEW m \in Nat, NEW t \in Nat,
         1 <= b, b < m, m < t, t <= Len(args) + 1, t - m > m - b
  PROVE  Rotated(Swap(args, b, t - (m - b), m - b), b, m, t - (m - b)) = Rotated(args, b, m, t)
<1> DEFINE u == t - (m - b)
           n == Swap(args, b, u, m - b)
           sw(k) == IF k \in b..(b + (m - b) - 1) THEN k + (u - b)
                    ELSE IF k \in u..(u + (m - b) - 1) THEN k - (u - b) ELSE k
           new(k) == IF k \in b..(b + (u - m) - 1) THEN k + (m - b)
                     ELSE IF k \in (b + (u - m))..(u - 1) THEN k - (u - m) ELSE k
           old(k) == IF k \in b..(b + (t - m) - 1) THEN k + (m - b)
                     ELSE IF k \in (b + (t - m))..(t - 1) THEN k - (t - m) ELSE k
<1>1. \A k \in 1..Len(args) : new(k) \in 1..Len(args) /\ sw(new(k)) = old(k)
  OBVIOUS
<1>2. DOMAIN args = 1..Len(args)
  BY LenProperties
<1>3. n = [k \in 1..Len(args) |-> args[sw(k)]]
  BY <1>2 DEF Swap
<1>4. Rotated(n, b, m, u) = [k \in 1..Len(args) |-> n[new(k)]]
  BY <1>3 DEF Rotated
<1>5. Rotated(args, b, m, t) = [k \in 1..Len(args) |-> args[old(k)]]
  BY <1>2 DEF Rotated
<1> HIDE DEF new, old, sw, n
<1>6. \A k \in 1..Len(args) : n[new(k)] = args[old(k)]
  BY <1>1, <1>3
<1>7. Rotated(n, b, m, u) = Rotated(args, b, m, t)
  BY <1>4, <1>5, <1>6
<1>8. QED BY <1>7 DEF n

\* The same with the shorter block above.
LEMMA TopGone ==
  ASSUME NEW S, NEW args \in Seq(S), NEW b \in Nat, NEW m \in Nat, NEW t \in Nat,
         1 <= b, b < m, m < t, t <= Len(args) + 1, t - m <= m - b
  PROVE  Rotated(Swap(args, b, m, t - m), b + (t - m), m, t) = Rotated(args, b, m, t)
<1> DEFINE u == b + (t - m)
           n == Swap(args, b, m, t - m)
           sw(k) == IF k \in b..(b + (t - m) - 1) THEN k + (m - b)
                    ELSE IF k \in m..(m + (t - m) - 1) THEN k - (m - b) ELSE k
           new(k) == IF k \in u..(u + (t - m) - 1) THEN k + (m - u)
                     ELSE IF k \in (u + (t - m))..(t - 1) THEN k - (t - m) ELSE k
           old(k) == IF k \in b..(b + (t - m) - 1) THEN k + (m - b)
                     ELSE IF k \in (b + (t - m))..(t - 1) THEN k - (t - m) ELSE k
<1>1. \A k \in 1..Len(args) : new(k) \in 1..Len(args) /\ sw(new(k)) = old(k)
  OBVIOUS
<1>2. DOMAIN args = 1..Len(args)
  BY LenProperties
<1>3. n = [k \in 1..Len(args) |-> args[sw(k)]]
  BY <1>2 DEF Swap
<1>4. Rotated(n, u, m, t) = [k \in 1..Len(args) |-> n[new(k)]]
  BY <1>3 DEF Rotated
<1>5. Rotated(args, b, m, t) = [k \in 1..Len(args) |-> args[old(k)]]
  BY <1>2 DEF Rotated
<1> HIDE DEF new, old, sw, n
<1>6. \A k \in 1..Len(args) : n[new(k)] = args[old(k)]
  BY <1>1, <1>3
<1>7. Rotated(n, u, m, t) = Rotated(args, b, m, t)
  BY <1>4, <1>5, <1>6
<1>8. QED BY <1>7 DEF n

\* With a block empty there is nothing to trade.
LEMMA NothingToTrade ==
  ASSUME NEW S, NEW args \in Seq(S), NEW b \in Nat, NEW m \in Nat, NEW t \in Nat,
         b <= m, m <= t, b = m \/ m = t
  PROVE  Rotated(args, b, m, t) = args
<1> DEFINE old(k) == IF k \in b..(b + (t - m) - 1) THEN k + (m - b)
                     ELSE IF k \in (b + (t - m))..(t - 1) THEN k - (t - m) ELSE k
<1>1. \A k \in 1..Len(args) : old(k) = k
  OBVIOUS
<1>2. DOMAIN args = 1..Len(args) /\ args \in [1..Len(args) -> S]
  BY LenProperties
<1>3. Rotated(args, b, m, t) = [k \in 1..Len(args) |-> args[old(k)]]
  BY <1>2 DEF Rotated
<1> HIDE DEF old
<1>4. QED BY <1>1, <1>2, <1>3

-----------------------------------------------------------------------------
\* The blocks that are left lie inside the list...
LoopType ==
  /\ list \in Seq(Things)
  /\ bottom \in Nat /\ middle \in Nat /\ top \in Nat
  /\ 1 <= bottom /\ bottom <= middle /\ middle <= top /\ top <= Len(list) + 1

\* ... and trading them ends where trading those of the call would.
LoopInv == LoopType /\ Rotated(list, bottom, middle, top) = Result

\* exchange is called inside a list.
LEMMA LoopStarts == InitX => LoopInv
BY ListsAssumption, LenProperties DEF InitX, LoopInv, LoopType, Result

\* A pass leaves the same exchange to be done, on shorter blocks.
LEMMA LoopStep == LoopInv /\ [NextX]_varsX => LoopInv'
<1> SUFFICES ASSUME LoopInv, [NextX]_varsX PROVE LoopInv'
  OBVIOUS
<1> USE DEF LoopInv, LoopType
<1>1. CASE BottomIsShort
  <2>1. /\ bottom < middle /\ middle < top /\ top - middle > middle - bottom
        /\ list' = Swap(list, bottom, top - (middle - bottom), middle - bottom)
        /\ top' = top - (middle - bottom) /\ bottom' = bottom /\ middle' = middle /\ called' = called
    BY <1>1 DEF BottomIsShort, Swapping
  <2>2. list' \in Seq(Things) /\ Len(list') = Len(list)
    <3>1. QED BY <2>1, SwapSeq
  <2>3. Rotated(list', bottom', middle', top') = Rotated(list, bottom, middle, top)
    BY <2>1, BottomGone
  <2>4. Result' = Result
    BY <2>1 DEF Result
  <2>5. QED BY <2>1, <2>2, <2>3, <2>4
<1>2. CASE TopIsShort
  <2>1. /\ bottom < middle /\ middle < top /\ top - middle <= middle - bottom
        /\ list' = Swap(list, bottom, middle, top - middle)
        /\ bottom' = bottom + (top - middle) /\ top' = top /\ middle' = middle /\ called' = called
    BY <1>2 DEF TopIsShort, Swapping
  <2>2. list' \in Seq(Things) /\ Len(list') = Len(list)
    BY <2>1, SwapSeq
  <2>3. Rotated(list', bottom', middle', top') = Rotated(list, bottom, middle, top)
    BY <2>1, TopGone
  <2>4. Result' = Result
    BY <2>1 DEF Result
  <2>5. QED BY <2>1, <2>2, <2>3, <2>4
<1>3. CASE UNCHANGED varsX
  BY <1>3 DEF varsX, Result
<1>4. QED BY <1>1, <1>2, <1>3 DEF NextX

\* However long the blocks exchange is called with (getopt.c 130-183), when its
\* loop is through they have changed places and nothing else has moved.
THEOREM ExchangeCorrect == SpecX => []BlocksTraded
<1>1. LoopInv => BlocksTraded
  <2>1. ASSUME LoopInv, ~Swapping PROVE list = Result
    <3>1. bottom = middle \/ middle = top
      BY <2>1 DEF LoopInv, LoopType, Swapping
    <3>2. Rotated(list, bottom, middle, top) = list
      BY <2>1, <3>1, NothingToTrade DEF LoopInv, LoopType
    <3>3. QED BY <2>1, <3>2 DEF LoopInv
  <2>2. QED BY <2>1 DEF BlocksTraded
<1>2. QED BY <1>1, LoopStarts, LoopStep, PTL DEF SpecX

-----------------------------------------------------------------------------
(* Past the words, and past two dashes: what the scan has in its block. *)

\* There is a first element that is no word, or the end of the list.
LEMMA FirstNonWord ==
  ASSUME NEW s \in Seq(Elements), NEW k \in 1..(Len(s) + 1)
  PROVE  \E j \in k..(Len(s) + 1) :
           /\ j <= Len(s) => s[j].kind # "word"
           /\ \A n \in k..(j - 1) : s[n].kind = "word"
<1> DEFINE Stops == {j \in k..(Len(s) + 1) : j <= Len(s) => s[j].kind # "word"}
<1>1. Len(s) \in Nat
  BY LenProperties
<1>2. Stops \subseteq Nat /\ Len(s) + 1 \in Stops
  BY <1>1
<1> HIDE DEF Stops
<1>3. PICK j \in Stops : \A i \in Stops : ~ (<<i, j>> \in OpToRel(<, Nat))
  <2>1. IsWellFoundedOn(OpToRel(<, Nat), Nat)
    BY NatLessThanWellFounded
  <2>2. Stops # {}
    BY <1>2
  <2>3. QED BY <1>2, <2>1, <2>2, WFMin
<1>4. \A n \in k..(j - 1) : n \notin Stops
  <2>1. SUFFICES ASSUME NEW n \in k..(j - 1), n \in Stops PROVE FALSE
    OBVIOUS
  <2>2. <<n, j>> \in OpToRel(<, Nat)
    BY <1>2 DEF OpToRel
  <2>3. QED BY <1>3, <2>1, <2>2
<1>5. QED BY <1>1, <1>4 DEF Stops

\* Where the words end, for the scan and for Arguments alike.
LEMMA FirstOptionIs ==
  ASSUME NEW s \in Seq(Elements), NEW k \in 1..(Len(s) + 1), NEW j \in k..(Len(s) + 1),
         j <= Len(s) => s[j].kind # "word", \A n \in k..(j - 1) : s[n].kind = "word"
  PROVE  Said!FirstOption(s, k) = j
<1>1. \A i \in k..(Len(s) + 1) :
        (/\ i <= Len(s) => s[i].kind # "word"
         /\ \A n \in k..(i - 1) : s[n].kind = "word") <=> i = j
  BY LenProperties
<1>2. QED BY <1>1 DEF Said!FirstOption

\* Two sequences that agree from a on have the same stretches from there.
LEMMA SameFrom ==
  ASSUME NEW S, NEW s \in Seq(S), NEW t \in Seq(S), NEW a \in Nat, NEW b \in Int,
         1 <= a, b <= Len(s), Len(s) = Len(t), \A n \in a..Len(s) : s[n] = t[n]
  PROVE  SubSeq(s, a, b) = SubSeq(t, a, b)
<1>1. Len(s) \in Nat
  BY LenProperties
<1>2. \A i \in 0..(b - a) : s[a + i] = t[a + i]
  <2>1. TAKE i \in 0..(b - a)
  <2>2. a + i \in a..Len(s)
    BY <1>1
  <2>3. QED BY <2>2
<1>3. b <= Len(t) /\ b - a = b - a
  OBVIOUS
<1>4. Alike(S, s, a, b, t, a, b)
  BY <1>2, <1>3 DEF Alike
<1>5. Stretch(s, a, b) = Stretch(t, a, b)
  BY <1>4, SameStretch
<1>6. QED BY <1>5 DEF Stretch

-----------------------------------------------------------------------------
\* Places of the scan in a list: operands, options read since, the rest.
InOrder(a, o, f, l) ==
  /\ a \in Seq(Elements) /\ o \in Nat /\ f \in Nat /\ l \in Nat
  /\ 1 <= f /\ f <= l /\ l <= o /\ o <= Len(a) + 1

\* b is the list with the block of operands brought up to the place o, where it
\* begins at g.
BroughtUp(a, o, f, l, b, g) ==
  /\ b \in Seq(Elements) /\ Len(b) = Len(a) /\ g \in Nat /\ 1 <= g /\ g <= o
  /\ \A n \in o..Len(a) : b[n] = a[n]
  /\ SubSeq(b, g, o - 1) = SubSeq(a, f, l - 1)

\* An exchange puts the words passed over next to where the scan is.
LEMMA ExchangeBringsUp ==
  ASSUME NEW a, NEW o, NEW f, NEW l, InOrder(a, o, f, l)
  PROVE  \E b, g : Exchange(Scanned(a, o, f, l)) = Scanned(b, o, g, o) /\ BroughtUp(a, o, f, l, b, g)
<1> DEFINE b == Rotated(a, f, l, o)
           g == f + (o - l)
<1>1. Exchange(Scanned(a, o, f, l)) = Scanned(b, o, g, o)
  BY DEF Exchange, Scanned
<1>2. /\ b \in Seq(Elements) /\ Len(b) = Len(a) /\ \A n \in o..Len(a) : b[n] = a[n]
      /\ SubSeq(b, g, o - 1) = SubSeq(a, f, l - 1)
  BY RotatedStretches DEF InOrder
<1>3. g \in Nat /\ 1 <= g /\ g <= o
  BY DEF InOrder
<1> HIDE DEF b, g
<1>4. BroughtUp(a, o, f, l, b, g)
  BY <1>2, <1>3 DEF BroughtUp
<1>5. QED BY <1>1, <1>4

\* What SkipWords starts from, in each of its three cases.
BringUp(d) ==
  IF d.last = d.optind THEN d
  ELSE IF d.first # d.last THEN Exchange(d)
  ELSE Scanned(d.args, d.optind, d.optind, d.last)

\* The same where there is nothing to exchange.
LEMMA BringUpDoes ==
  ASSUME NEW a, NEW o, NEW f, NEW l, InOrder(a, o, f, l)
  PROVE  \E b, g, m : BringUp(Scanned(a, o, f, l)) = Scanned(b, o, g, m) /\ BroughtUp(a, o, f, l, b, g)
<1> DEFINE d == Scanned(a, o, f, l)
<1>1. d.args = a /\ d.optind = o /\ d.first = f /\ d.last = l
  BY DEF Scanned
<1>2. CASE l = o
  <2>1. BringUp(d) = Scanned(a, o, f, l)
    BY <1>1, <1>2 DEF BringUp
  <2>2. BroughtUp(a, o, f, l, a, f)
    BY <1>2 DEF InOrder, BroughtUp
  <2>3. QED BY <2>1, <2>2
<1>3. CASE l # o /\ f # l
  <2>1. BringUp(d) = Exchange(d)
    BY <1>1, <1>3 DEF BringUp
  <2>2. QED BY <2>1, ExchangeBringsUp
<1>4. CASE l # o /\ f = l
  <2>1. BringUp(d) = Scanned(a, o, o, l)
    BY <1>1, <1>4 DEF BringUp
  <2>2. SubSeq(a, o, o - 1) = <<>> /\ SubSeq(a, f, l - 1) = <<>>
    BY <1>4, SubSeqEmpty DEF InOrder
  <2>3. BroughtUp(a, o, f, l, a, o)
    BY <2>2 DEF InOrder, BroughtUp
  <2>4. QED BY <2>1, <2>3
<1>5. QED BY <1>2, <1>3, <1>4

\* The words at o and after it, up to a place k, have joined the block.
Skipped(a, o, f, l, b, g, k) ==
  /\ b \in Seq(Elements) /\ Len(b) = Len(a) /\ g \in Nat /\ 1 <= g /\ g <= k
  /\ k \in o..(Len(a) + 1)
  /\ k <= Len(a) => a[k].kind # "word"
  /\ \A n \in o..(k - 1) : a[n].kind = "word"
  /\ \A n \in o..Len(a) : b[n] = a[n]
  /\ SubSeq(b, g, k - 1) = SubSeq(a, f, l - 1) \o SubSeq(a, o, k - 1)

\* The words ahead join those passed over.
LEMMA SkipWordsDoes ==
  ASSUME NEW a, NEW o, NEW f, NEW l, InOrder(a, o, f, l), Len(a) = Len(argv)
  PROVE  \E b, g, k : SkipWords(Scanned(a, o, f, l)) = Scanned(b, k, g, k) /\ Skipped(a, o, f, l, b, g, k)
<1> DEFINE d == Scanned(a, o, f, l)
<1>1. PICK b, g, m : BringUp(d) = Scanned(b, o, g, m) /\ BroughtUp(a, o, f, l, b, g)
  BY BringUpDoes
<1> DEFINE e == Scanned(b, o, g, m)
           P(j) == /\ j < argc => e.args[j].kind # "word"
                   /\ \A n \in e.optind..(j - 1) : e.args[n].kind = "word"
           k == CHOOSE j \in e.optind..argc : P(j)
<1>2. /\ a \in Seq(Elements) /\ o \in Nat /\ Len(a) \in Nat /\ argc = Len(a) + 1
      /\ 1 <= o /\ o <= Len(a) + 1
  BY LenProperties DEF InOrder, argc
<1>3. SkipWords(d) = Scanned(e.args, k, e.first, k)
  BY <1>1 DEF SkipWords, BringUp
<1>4. e.args = b /\ e.optind = o /\ e.first = g
  BY DEF Scanned
<1>5. /\ b \in Seq(Elements) /\ Len(b) = Len(a) /\ g \in Nat /\ 1 <= g /\ g <= o
      /\ \A n \in o..Len(a) : b[n] = a[n]
      /\ SubSeq(b, g, o - 1) = SubSeq(a, f, l - 1)
  BY <1>1 DEF BroughtUp
<1> HIDE DEF e
<1>6. \E j \in e.optind..argc : P(j)
  <2>1. PICK j \in o..(Len(b) + 1) :
           /\ j <= Len(b) => b[j].kind # "word"
           /\ \A n \in o..(j - 1) : b[n].kind = "word"
    <3>1. b \in Seq(Elements) /\ o \in 1..(Len(b) + 1)
      BY <1>2, <1>5
    <3>2. QED BY <3>1, FirstNonWord, Zenon
  <2>2. QED BY <1>2, <1>4, <1>5, <2>1
<1>7. k \in e.optind..argc /\ P(k)
  <2> HIDE DEF P
  <2>1. QED BY <1>6
<1> HIDE DEF k
<1>8. k \in o..(Len(a) + 1) /\ k \in Nat /\ g <= k
  BY <1>2, <1>4, <1>5, <1>7
<1>9. /\ k <= Len(a) => a[k].kind # "word"
      /\ \A n \in o..(k - 1) : a[n].kind = "word"
  BY <1>2, <1>4, <1>5, <1>7, <1>8
<1>10. SubSeq(b, g, k - 1) = SubSeq(a, f, l - 1) \o SubSeq(a, o, k - 1)
  <2>1. SubSeq(b, g, o - 1) \o SubSeq(b, o, k - 1) = SubSeq(b, g, k - 1)
    <3>1. /\ g \in 1..(Len(b) + 1) /\ o - 1 \in (g - 1)..Len(b)
          /\ k - 1 \in (o - 1)..Len(b) /\ (o - 1) + 1 = o
      BY <1>2, <1>5, <1>8
    <3>2. QED BY <1>5, <3>1, ConcatAdjacentSubSeq
  <2>2. SubSeq(b, o, k - 1) = SubSeq(a, o, k - 1)
    <3>1. k - 1 \in Int /\ k - 1 <= Len(b) /\ \A n \in o..Len(b) : b[n] = a[n]
      BY <1>2, <1>5, <1>8
    <3>2. QED BY <1>2, <1>5, <3>1, SameFrom
  <2>3. QED BY <1>5, <2>1, <2>2
<1>11. Skipped(a, o, f, l, b, g, k)
  BY <1>5, <1>8, <1>9, <1>10 DEF Skipped
<1>12. QED BY <1>3, <1>4, <1>11

\* Two dashes end it: everything before them but the options read, and
\* everything after them, is at the end of the list.
LEMMA SkipRestDoes ==
  ASSUME NEW a, NEW o, NEW f, NEW l, InOrder(a, o, f, l), Len(a) = Len(argv),
         o <= Len(a), l = o \/ f = l
  PROVE  \E b \in Seq(Elements), g \in 1..(Len(a) + 1) :
           /\ SkipRest(Scanned(a, o, f, l)) = Scanned(b, Len(a) + 1, g, Len(a) + 1)
           /\ Len(b) = Len(a)
           /\ SubSeq(b, g, Len(a)) = SubSeq(a, f, l - 1) \o SubSeq(a, o + 1, Len(a))
<1> DEFINE d == Scanned(a, o, f, l)
           over == Scanned(a, o + 1, f, l)
<1>1. /\ a \in Seq(Elements) /\ o \in Nat /\ f \in Nat /\ l \in Nat /\ Len(a) \in Nat
      /\ 1 <= f /\ f <= l /\ l <= o /\ argc = Len(a) + 1
  BY LenProperties DEF InOrder, argc
<1>2. /\ d.args = a /\ d.optind = o /\ d.first = f /\ d.last = l
      /\ over.args = a /\ over.optind = o + 1 /\ over.first = f /\ over.last = l
  BY DEF Scanned
<1>3. CASE f = l
  <2>1. SkipRest(d) = Scanned(a, argc, o + 1, argc)
    BY <1>3 DEF SkipRest, Scanned
  <2>2. SubSeq(a, f, l - 1) = <<>>
    BY <1>1, <1>3, SubSeqEmpty
  <2>3. SubSeq(a, o + 1, Len(a)) \in Seq(Elements)
    BY <1>1, ElementOfSeq, SubSeqProperties
  <2>4. <<>> \o SubSeq(a, o + 1, Len(a)) = SubSeq(a, o + 1, Len(a))
    BY <2>3, ConcatEmptySeq
  <2>5. o + 1 \in 1..(Len(a) + 1)
    BY <1>1
  <2>6. QED BY <1>1, <2>1, <2>2, <2>4, <2>5
<1>4. CASE f # l
  <2>1. InOrder(a, o + 1, f, l)
    BY <1>1 DEF InOrder
  <2>2. PICK b, g : Exchange(over) = Scanned(b, o + 1, g, o + 1) /\ BroughtUp(a, o + 1, f, l, b, g)
    BY <2>1, ExchangeBringsUp
  <2>3. l # o + 1
    BY <1>1
  <2>4. SkipRest(d) = Scanned(b, argc, g, argc)
    BY <1>4, <2>2, <2>3 DEF SkipRest, Scanned
  <2>5. /\ b \in Seq(Elements) /\ Len(b) = Len(a) /\ g \in Nat /\ 1 <= g /\ g <= o + 1
        /\ \A n \in (o + 1)..Len(a) : b[n] = a[n]
        /\ SubSeq(b, g, o) = SubSeq(a, f, l - 1)
    <3>1. (o + 1) - 1 = o
      BY <1>1
    <3>2. QED BY <2>2, <3>1 DEF BroughtUp
  <2>6. SubSeq(b, o + 1, Len(a)) = SubSeq(a, o + 1, Len(a))
    BY <1>1, <2>5, SameFrom
  <2>7. SubSeq(b, g, o) \o SubSeq(b, o + 1, Len(a)) = SubSeq(b, g, Len(a))
    <3>1. g \in 1..(Len(b) + 1) /\ o \in (g - 1)..Len(b) /\ Len(a) \in o..Len(b)
      BY <1>1, <2>5
    <3>2. QED BY <2>5, <3>1, ConcatAdjacentSubSeq
  <2>8. g \in 1..(Len(a) + 1)
    BY <1>1, <2>5
  <2>9. QED BY <1>1, <2>4, <2>5, <2>6, <2>7, <2>8
<1>5. QED BY <1>3, <1>4

-----------------------------------------------------------------------------
(* What getopt holds between two calls, and where a call begins to read. *)

\* While main reads: the places are in order, without permuting no operand has
\* been passed over, and letters that are left are those of a short element.
Reading ==
  /\ argv \in Seq(Elements) /\ ordering \in {"PERMUTE", "REQUIRE_ORDER"} /\ nextchar \in Seq(STRING)
  /\ stage = "reading" =>
       /\ InOrder(argv, optind, first_nonopt, last_nonopt)
       /\ ordering = "REQUIRE_ORDER" => first_nonopt = last_nonopt
       /\ nextchar # <<>> => optind <= Len(argv) /\ argv[optind].kind = "short"

\* The elements from optind on, and the operands passed over.
Ahead  == SubSeq(argv, optind, Len(argv))
Passed == SubSeq(argv, first_nonopt, last_nonopt - 1)

\* What is ahead and what was passed over are lists, inside argv.
LEMMA AheadIs ==
  ASSUME Reading, stage = "reading"
  PROVE  /\ Ahead \in Seq(Elements) /\ Len(Ahead) \in Nat /\ Len(Ahead) = Len(argv) - optind + 1
         /\ \A n \in 1..Len(Ahead) : Ahead[n] = argv[optind + n - 1]
         /\ Passed \in Seq(Elements)
<1>1. /\ argv \in Seq(Elements) /\ optind \in Nat /\ 1 <= optind /\ optind <= Len(argv) + 1
      /\ Len(argv) \in Nat
      /\ first_nonopt \in Nat /\ last_nonopt \in Nat /\ 1 <= first_nonopt /\ last_nonopt <= optind
  BY LenProperties DEF Reading, InOrder
<1>2. /\ Ahead \in Seq(Elements) /\ Len(Ahead) = Len(argv) - optind + 1
      /\ \A n \in 1..Len(Ahead) : Ahead[n] = argv[optind + n - 1]
  BY <1>1, ElementOfSeq, SubSeqProperties DEF Ahead
<1>3. Passed \in Seq(Elements)
  <2>1. \A i \in first_nonopt..(last_nonopt - 1) : argv[i] \in Elements
    BY <1>1, ElementOfSeq
  <2>2. last_nonopt - 1 \in Int /\ first_nonopt \in Int
    BY <1>1
  <2>3. QED BY <2>1, <2>2, SubSeqProperties DEF Passed
<1>4. QED BY <1>1, <1>2, <1>3

\* A stretch of what is ahead, as one of the list.
LEMMA AheadStretch ==
  ASSUME Reading, stage = "reading", NEW i \in Nat, NEW j \in Int, 1 <= i, j <= Len(Ahead),
         NEW x \in Int, NEW y \in Int, x = optind + i - 1, y = optind + j - 1
  PROVE  SubSeq(Ahead, i, j) = SubSeq(argv, x, y)
<1>1. /\ argv \in Seq(Elements) /\ optind \in Nat /\ 1 <= optind /\ Len(argv) \in Nat
  BY LenProperties DEF Reading, InOrder
<1>2. /\ Ahead \in Seq(Elements) /\ Len(Ahead) = Len(argv) - optind + 1
      /\ \A n \in 1..Len(Ahead) : Ahead[n] = argv[optind + n - 1]
  BY AheadIs
<1>3. \A n \in 0..(j - i) : Ahead[i + n] = argv[x + n]
  <2>1. TAKE n \in 0..(j - i)
  <2>2. i + n \in 1..Len(Ahead) /\ optind + (i + n) - 1 = x + n
    BY <1>1, <1>2
  <2>3. QED BY <1>2, <2>2
<1>4. x \in Nat /\ 1 <= x /\ y <= Len(argv) /\ j - i = y - x
  BY <1>1, <1>2
<1>5. Ahead \in Seq(Elements) /\ argv \in Seq(Elements)
  BY <1>1, <1>2
<1>6. Alike(Elements, Ahead, i, j, argv, x, y)
  BY <1>3, <1>4, <1>5 DEF Alike
<1>7. Stretch(Ahead, i, j) = Stretch(argv, x, y)
  BY <1>6, SameStretch
<1>8. QED BY <1>7 DEF Stretch

\* Any stretch of a list of elements is one.
LEMMA StretchIs ==
  ASSUME NEW s \in Seq(Elements), NEW i \in Nat, NEW j \in Int, 1 <= i, j <= Len(s)
  PROVE  SubSeq(s, i, j) \in Seq(Elements)
<1>1. \A n \in i..j : s[n] \in Elements
  BY ElementOfSeq, LenProperties
<1>2. QED BY <1>1, SubSeqProperties

\* Where Arguments goes on, with no letters left.
Place == IF ordering = "REQUIRE_ORDER" THEN 1 ELSE Said!FirstOption(Ahead, 1)

\* The scan stands at the place h of what was ahead, with the words before it
\* among the operands.
AtElement(h, b, g, m) ==
  /\ b \in Seq(Elements) /\ Len(b) = Len(argv) /\ InOrder(b, optind + h - 1, g, m)
  /\ ordering = "REQUIRE_ORDER" => g = m
  /\ ordering = "PERMUTE" => m = optind + h - 1 /\ (h <= Len(Ahead) => Ahead[h].kind # "word")
  /\ \A n \in h..Len(Ahead) : b[optind + n - 1] = Ahead[n]
  /\ SubSeq(b, g, m - 1) = Passed \o SubSeq(Ahead, 1, h - 1)

\* The scan has found two dashes at h and is at the end.
AtRest(h, b, g) ==
  /\ b \in Seq(Elements) /\ Len(b) = Len(argv) /\ g \in 1..(Len(argv) + 1)
  /\ SubSeq(b, g, Len(argv)) =
       Passed \o (SubSeq(Ahead, 1, h - 1) \o SubSeq(Ahead, h + 1, Len(Ahead)))

\* Where the scan looks next, and what it has passed over by then.
LEMMA AdvancedDoes ==
  ASSUME Reading, stage = "reading"
  PROVE  \E h \in 1..(Len(Ahead) + 1) :
           /\ h = Place
           /\ \/ /\ h <= Len(Ahead) /\ Ahead[h].kind = "dashes"
                 /\ \E b, g : Advanced = Scanned(b, argc, g, argc) /\ AtRest(h, b, g)
              \/ /\ h <= Len(Ahead) => Ahead[h].kind # "dashes"
                 /\ \E b, g, m : Advanced = Scanned(b, optind + h - 1, g, m) /\ AtElement(h, b, g, m)
<1>1. /\ argv \in Seq(Elements) /\ optind \in Nat /\ 1 <= optind /\ optind <= Len(argv) + 1
      /\ Len(argv) \in Nat /\ argc = Len(argv) + 1
  BY LenProperties DEF Reading, InOrder, argc
<1>2. /\ InOrder(argv, optind, first_nonopt, last_nonopt)
      /\ ordering \in {"PERMUTE", "REQUIRE_ORDER"}
      /\ ordering = "REQUIRE_ORDER" => first_nonopt = last_nonopt
  BY DEF Reading
<1>3. /\ Ahead \in Seq(Elements) /\ Passed \in Seq(Elements)
      /\ Len(Ahead) \in Nat /\ Len(Ahead) = Len(argv) - optind + 1
  BY AheadIs
<1>4. \A n \in 1..Len(Ahead) : Ahead[n] = argv[optind + n - 1]
  BY AheadIs
<1>5. Scan = Scanned(argv, optind, first_nonopt, last_nonopt)
  BY DEF Scan
<1>6. CASE ordering = "REQUIRE_ORDER"
  <2>1. Place = 1 /\ 1 \in 1..(Len(Ahead) + 1)
    BY <1>3, <1>6 DEF Place
  <2>2. SubSeq(Ahead, 1, 1 - 1) = <<>>
    BY SubSeqEmpty
  <2>3. Advanced = IF optind # argc /\ argv[optind].kind = "dashes" THEN SkipRest(Scan) ELSE Scan
    BY <1>5, <1>6 DEF Advanced, Scanned
  <2>4. optind # argc => 1 <= Len(Ahead) /\ optind <= Len(argv) /\ Ahead[1] = argv[optind]
    <3>1. ASSUME optind # argc PROVE 1 \in 1..Len(Ahead) /\ 1 <= Len(Ahead) /\ optind <= Len(argv)
      BY <1>1, <1>3, <3>1
    <3>2. optind + 1 - 1 = optind
      BY <1>1
    <3>3. QED BY <1>4, <3>1, <3>2
  <2>5. CASE optind # argc /\ argv[optind].kind = "dashes"
    <3>1. PICK b \in Seq(Elements), g \in 1..(Len(argv) + 1) :
             /\ SkipRest(Scan) = Scanned(b, Len(argv) + 1, g, Len(argv) + 1) /\ Len(b) = Len(argv)
             /\ SubSeq(b, g, Len(argv)) = SubSeq(argv, first_nonopt, last_nonopt - 1) \o SubSeq(argv, optind + 1, Len(argv))
      <4>1. optind <= Len(argv) /\ first_nonopt = last_nonopt
        BY <1>2, <1>6, <2>4, <2>5
      <4>2. QED BY <1>2, <1>5, <4>1, SkipRestDoes
    <3>2. SubSeq(Ahead, 1 + 1, Len(Ahead)) = SubSeq(argv, optind + 1, Len(argv))
      <4>1. PICK i \in Nat, x \in Nat : i = 1 + 1 /\ x = optind + 1
        BY <1>1
      <4>2. /\ i \in Nat /\ x \in Int /\ x = optind + i - 1 /\ Len(argv) = optind + Len(Ahead) - 1 /\ 1 <= i
            /\ Len(Ahead) \in Int /\ Len(argv) \in Int /\ Len(Ahead) <= Len(Ahead)
        BY <1>1, <1>3, <4>1
      <4>3. SubSeq(Ahead, i, Len(Ahead)) = SubSeq(argv, x, Len(argv))
        BY <4>2, AheadStretch
      <4>4. QED BY <4>1, <4>3
    <3>3. <<>> \o SubSeq(Ahead, 1 + 1, Len(Ahead)) = SubSeq(Ahead, 1 + 1, Len(Ahead))
      <4>1. SubSeq(Ahead, 1 + 1, Len(Ahead)) \in Seq(Elements)
        BY <1>3, StretchIs
      <4>2. QED BY <4>1, ConcatEmptySeq
    <3>4. SubSeq(b, g, Len(argv)) = Passed \o (SubSeq(Ahead, 1, 1 - 1) \o SubSeq(Ahead, 1 + 1, Len(Ahead)))
      BY <2>2, <3>1, <3>2, <3>3 DEF Passed
    <3>5. AtRest(1, b, g)
      BY <3>1, <3>4 DEF AtRest
    <3>6. Advanced = Scanned(b, argc, g, argc)
      BY <1>1, <2>3, <2>5, <3>1
    <3>7. QED BY <2>1, <2>4, <2>5, <3>5, <3>6
  <2>6. CASE ~(optind # argc /\ argv[optind].kind = "dashes")
    <3>1. 1 <= Len(Ahead) => Ahead[1].kind # "dashes"
      BY <1>1, <1>3, <2>4, <2>6
    <3>2. optind + 1 - 1 = optind
      BY <1>1
    <3>3. Passed = Passed \o SubSeq(Ahead, 1, 1 - 1)
      BY <1>3, <2>2, ConcatEmptySeq
    <3>4. AtElement(1, argv, first_nonopt, last_nonopt)
      <4>1. ordering # "PERMUTE"
        BY <1>6
      <4>2. SubSeq(argv, first_nonopt, last_nonopt - 1) = Passed \o SubSeq(Ahead, 1, 1 - 1)
        BY <3>3 DEF Passed
      <4>3. InOrder(argv, optind + 1 - 1, first_nonopt, last_nonopt)
        BY <1>2, <3>2
      <4>4. \A n \in 1..Len(Ahead) : argv[optind + n - 1] = Ahead[n]
        BY <1>4
      <4>5. QED BY <1>1, <1>2, <4>1, <4>2, <4>3, <4>4 DEF AtElement
    <3>5. Advanced = Scanned(argv, optind + 1 - 1, first_nonopt, last_nonopt)
      BY <1>5, <2>3, <2>6, <3>2
    <3>6. QED BY <2>1, <3>1, <3>4, <3>5
  <2>7. QED BY <2>5, <2>6
<1>7. CASE ordering = "PERMUTE"
  <2>1. PICK b, g, k : /\ SkipWords(Scan) = Scanned(b, k, g, k)
                       /\ Skipped(argv, optind, first_nonopt, last_nonopt, b, g, k)
    BY <1>2, <1>5, SkipWordsDoes
  <2>2. /\ b \in Seq(Elements) /\ Len(b) = Len(argv) /\ g \in Nat /\ 1 <= g /\ g <= k
        /\ k \in Nat /\ optind <= k /\ k <= Len(argv) + 1
    BY <1>1, <2>1 DEF Skipped
  <2>3. /\ k <= Len(argv) => argv[k].kind # "word"
        /\ \A n \in optind..(k - 1) : argv[n].kind = "word"
    BY <2>1 DEF Skipped
  <2>4. \A n \in optind..Len(argv) : b[n] = argv[n]
    BY <2>1 DEF Skipped
  <2>5. SubSeq(b, g, k - 1) = Passed \o SubSeq(argv, optind, k - 1)
    BY <2>1 DEF Skipped, Passed
  <2>6. PICK h \in Nat : h = k - optind + 1
    BY <1>1, <2>2
  <2>7. /\ h \in 1..(Len(Ahead) + 1) /\ 1 <= h /\ optind + h - 1 = k
        /\ h <= Len(Ahead) <=> k <= Len(argv)
    BY <1>1, <1>3, <2>2, <2>6
  <2>8. h <= Len(Ahead) => Ahead[h] = argv[k]
    BY <1>3, <1>4, <2>7
  <2>9. h = Place
    <3>1. \A n \in 1..(h - 1) : Ahead[n].kind = "word"
      <4>1. TAKE n \in 1..(h - 1)
      <4>2. n \in 1..Len(Ahead) /\ optind + n - 1 \in optind..(k - 1)
        BY <1>1, <1>3, <2>2, <2>6
      <4>3. QED BY <1>4, <2>3, <4>2
    <3>2. 1 \in 1..(Len(Ahead) + 1)
      BY <1>3
    <3>3. h <= Len(Ahead) => Ahead[h].kind # "word"
      BY <2>3, <2>7, <2>8
    <3>4. Said!FirstOption(Ahead, 1) = h
      BY <1>3, <2>7, <3>1, <3>2, <3>3, FirstOptionIs
    <3>5. QED BY <1>7, <3>4 DEF Place
  <2>10. SubSeq(Ahead, 1, h - 1) = SubSeq(argv, optind, k - 1)
    <3>1. /\ h - 1 \in Int /\ h - 1 <= Len(Ahead) /\ optind = optind + 1 - 1 /\ k - 1 = optind + (h - 1) - 1
          /\ optind \in Int /\ k - 1 \in Int
      BY <1>1, <1>3, <2>2, <2>6
    <3>2. QED BY <3>1, AheadStretch
  <2>11. Advanced = IF k # argc /\ b[k].kind = "dashes" THEN SkipRest(Scanned(b, k, g, k)) ELSE Scanned(b, k, g, k)
    BY <1>7, <2>1 DEF Advanced, Scanned
  <2>12. InOrder(b, k, g, k)
    BY <2>2 DEF InOrder
  <2>13. k <= Len(argv) => b[k] = argv[k]
    BY <1>1, <2>2, <2>4
  <2>14. CASE k # argc /\ b[k].kind = "dashes"
    <3>1. k <= Len(argv) /\ h <= Len(Ahead)
      BY <1>1, <2>2, <2>7, <2>14
    <3>2. Ahead[h].kind = "dashes"
      BY <2>8, <2>13, <2>14, <3>1
    <3>3. PICK c \in Seq(Elements), f \in 1..(Len(b) + 1) :
             /\ SkipRest(Scanned(b, k, g, k)) = Scanned(c, Len(b) + 1, f, Len(b) + 1) /\ Len(c) = Len(b)
             /\ SubSeq(c, f, Len(b)) = SubSeq(b, g, k - 1) \o SubSeq(b, k + 1, Len(b))
      <4>1. Len(b) = Len(argv) /\ k <= Len(b)
        BY <2>2, <3>1
      <4>2. QED BY <2>12, <4>1, SkipRestDoes
    <3>4. SubSeq(b, k + 1, Len(b)) = SubSeq(argv, k + 1, Len(argv))
      <4>1. k + 1 \in Nat /\ 1 <= k + 1 /\ Len(b) \in Int /\ Len(b) <= Len(b)
        BY <1>1, <2>2
      <4>2. \A n \in (k + 1)..Len(b) : b[n] = argv[n]
        BY <1>1, <2>2, <2>4
      <4>3. SubSeq(b, k + 1, Len(b)) = SubSeq(argv, k + 1, Len(b))
        BY <1>1, <2>2, <4>1, <4>2, SameFrom
      <4>4. QED BY <2>2, <4>3
    <3>5. SubSeq(Ahead, h + 1, Len(Ahead)) = SubSeq(argv, k + 1, Len(argv))
      <4>1. /\ k + 1 = optind + (h + 1) - 1 /\ Len(argv) = optind + Len(Ahead) - 1
            /\ Len(Ahead) \in Int /\ h + 1 \in Nat /\ 1 <= h + 1 /\ k + 1 \in Int /\ Len(argv) \in Int
            /\ Len(Ahead) <= Len(Ahead)
        BY <1>1, <1>3, <2>2, <2>6
      <4>2. QED BY <4>1, AheadStretch
    <3>6. (Passed \o SubSeq(Ahead, 1, h - 1)) \o SubSeq(Ahead, h + 1, Len(Ahead))
            = Passed \o (SubSeq(Ahead, 1, h - 1) \o SubSeq(Ahead, h + 1, Len(Ahead)))
      <4>1. h - 1 \in Int /\ h - 1 <= Len(Ahead) /\ h + 1 \in Nat /\ 1 <= h + 1 /\ Len(Ahead) \in Int
        BY <1>3, <3>1
      <4>2. SubSeq(Ahead, 1, h - 1) \in Seq(Elements) /\ SubSeq(Ahead, h + 1, Len(Ahead)) \in Seq(Elements)
        BY <1>3, <4>1, StretchIs
      <4>3. ASSUME NEW p \in Seq(Elements), NEW q \in Seq(Elements), NEW r \in Seq(Elements)
            PROVE  (p \o q) \o r = p \o (q \o r)
        BY <4>3, ConcatAssociative
      <4>4. QED BY <1>3, <4>2, <4>3
    <3>7. SubSeq(c, f, Len(argv)) = Passed \o (SubSeq(Ahead, 1, h - 1) \o SubSeq(Ahead, h + 1, Len(Ahead)))
      BY <2>2, <2>5, <2>10, <3>3, <3>4, <3>5, <3>6
    <3>8. AtRest(h, c, f)
      BY <2>2, <3>3, <3>7 DEF AtRest
    <3>9. Advanced = Scanned(c, argc, f, argc)
      BY <1>1, <2>2, <2>11, <2>14, <3>3
    <3>10. QED BY <2>7, <2>9, <3>1, <3>2, <3>8, <3>9
  <2>15. CASE ~(k # argc /\ b[k].kind = "dashes")
    <3>1. h <= Len(Ahead) => Ahead[h].kind # "dashes"
      BY <1>1, <2>7, <2>8, <2>13, <2>15
    <3>2. \A n \in h..Len(Ahead) : b[optind + n - 1] = Ahead[n]
      <4>1. TAKE n \in h..Len(Ahead)
      <4>2. n \in 1..Len(Ahead) /\ optind + n - 1 \in optind..Len(argv)
        BY <1>1, <1>3, <2>7
      <4>3. QED BY <1>4, <2>4, <4>2
    <3>3. h <= Len(Ahead) => Ahead[h].kind # "word"
      BY <2>3, <2>7, <2>8
    <3>4. AtElement(h, b, g, k)
      <4>1. ordering # "REQUIRE_ORDER"
        BY <1>7
      <4>2. InOrder(b, optind + h - 1, g, k)
        BY <2>7, <2>12
      <4>3. SubSeq(b, g, k - 1) = Passed \o SubSeq(Ahead, 1, h - 1)
        BY <2>5, <2>10
      <4>4. QED BY <2>2, <2>7, <3>2, <3>3, <4>1, <4>2, <4>3 DEF AtElement
    <3>5. Advanced = Scanned(b, optind + h - 1, g, k)
      BY <2>7, <2>11, <2>15
    <3>6. QED BY <2>7, <2>9, <3>1, <3>4, <3>5
  <2>16. QED BY <2>14, <2>15
<1>8. QED BY <1>2, <1>6, <1>7

-----------------------------------------------------------------------------
(* The end of the list. *)

\* With no letters left, what is not read yet is what is ahead.
LEMMA UnreadAhead ==
  ASSUME stage = "reading", nextchar = <<>>
  PROVE  Unread = Ahead
BY DEF Unread, Ahead

\* What follows an element, in the list and in what is said.
LEMMA Following ==
  ASSUME NEW s \in Seq(Elements), NEW p \in 1..Len(s), NEW n \in Nat, n = p + 1,
         NEW after, after = SubSeq(s, n, Len(s))
  PROVE  /\ after \in Seq(Elements)
         /\ n = Len(s) + 1 <=> after = <<>>
         /\ n < Len(s) + 1 => /\ Head(after) = s[n]
                              /\ Tail(after) = SubSeq(s, n + 1, Len(s))
<1>1. Len(s) \in Nat
  BY LenProperties
<1>2. after \in Seq(Elements)
  <2>1. 1 <= n /\ Len(s) \in Int /\ Len(s) <= Len(s)
    BY <1>1
  <2>2. QED BY <2>1, StretchIs
<1>3. CASE n = Len(s) + 1
  <2>1. n \in Int /\ Len(s) \in Int /\ Len(s) < n
    BY <1>1, <1>3
  <2>2. after = <<>>
    BY <2>1, SubSeqEmpty
  <2>3. QED BY <1>1, <1>2, <1>3, <2>2
<1>4. CASE n < Len(s) + 1
  <2>1. n \in 1..Len(s) /\ Len(s) \in n..Len(s)
    BY <1>1, <1>4
  <2>2. Head(after) = s[n] /\ Tail(after) = SubSeq(s, n + 1, Len(s))
    BY <2>1, HeadTailOfSubSeq
  <2>3. after # <<>>
    <3>1. \A i \in n..Len(s) : s[i] \in Elements
      BY <1>1, ElementOfSeq
    <3>2. Len(after) = Len(s) - n + 1
      BY <1>1, <1>4, <3>1, SubSeqProperties
    <3>3. Len(after) # 0 /\ Len(<<>>) = 0
      BY <1>1, <1>4, <3>2
    <3>4. QED BY <3>3
  <2>4. QED BY <1>1, <1>2, <1>4, <2>2, <2>3
<1>5. QED BY <1>1, <1>3, <1>4

-----------------------------------------------------------------------------
\* What the end of the list gives back.
LEMMA EndIsSaid ==
  ASSUME Reading, stage = "reading", ReturnEnd
  PROVE  Said!End /\ Reading'
<1>1. nextchar = <<>> /\ stage' = "end" /\ nextchar' = nextchar /\ returned' = returned /\ ordering' = ordering
  BY DEF ReturnEnd, Moved
<1>2. /\ argv \in Seq(Elements) /\ optind \in Nat /\ 1 <= optind /\ optind <= Len(argv) + 1
      /\ Len(argv) \in Nat /\ argc = Len(argv) + 1
      /\ ordering \in {"PERMUTE", "REQUIRE_ORDER"} /\ nextchar \in Seq(STRING)
  BY LenProperties DEF Reading, InOrder, argc
<1>3. /\ Ahead \in Seq(Elements) /\ Passed \in Seq(Elements)
      /\ Len(Ahead) \in Nat /\ Len(Ahead) = Len(argv) - optind + 1
  BY AheadIs
<1>4. PICK h \in 1..(Len(Ahead) + 1) :
         /\ h = Place
         /\ \/ /\ h <= Len(Ahead) /\ Ahead[h].kind = "dashes"
               /\ \E b, g : Advanced = Scanned(b, argc, g, argc) /\ AtRest(h, b, g)
            \/ /\ h <= Len(Ahead) => Ahead[h].kind # "dashes"
               /\ \E b, g, m : Advanced = Scanned(b, optind + h - 1, g, m) /\ AtElement(h, b, g, m)
  BY AdvancedDoes
<1> DEFINE Left == IF h <= Len(Ahead) /\ Ahead[h].kind = "dashes"
                   THEN SubSeq(Ahead, 1, h - 1) \o SubSeq(Ahead, h + 1, Len(Ahead)) ELSE Ahead
<1>5. /\ argv' \in Seq(Elements) /\ SubSeq(argv', optind', Len(argv')) = Passed \o Left
      /\ h <= Len(Ahead) => Ahead[h].kind \in {"word", "dashes"}
  <2>1. CASE h <= Len(Ahead) /\ Ahead[h].kind = "dashes"
    <3>1. PICK b, g : Advanced = Scanned(b, argc, g, argc) /\ AtRest(h, b, g)
      BY <1>4, <2>1
    <3>2. argv' = b /\ optind' = IF g # argc THEN g ELSE argc
      BY <3>1 DEF ReturnEnd, Moved, Scanned
    <3>3. optind' = g
      BY <3>2
    <3>4. QED BY <2>1, <3>1, <3>2, <3>3 DEF AtRest
  <2>2. CASE ~(h <= Len(Ahead) /\ Ahead[h].kind = "dashes")
    <3>1. PICK b, g, m : Advanced = Scanned(b, optind + h - 1, g, m) /\ AtElement(h, b, g, m)
      BY <1>4, <2>2
    <3>2. /\ argv' = b
          /\ optind' = IF optind + h - 1 = argc /\ g # m THEN g ELSE optind + h - 1
          /\ optind + h - 1 # argc => b[optind + h - 1].kind = "word"
      BY <3>1 DEF ReturnEnd, Moved, Scanned
    <3>3. /\ b \in Seq(Elements) /\ Len(b) = Len(argv) /\ g \in Nat /\ m \in Nat /\ 1 <= g /\ g <= m
          /\ m <= optind + h - 1 /\ optind + h - 1 <= Len(b) + 1
      BY <3>1 DEF AtElement, InOrder
    <3>4. \A n \in h..Len(Ahead) : b[optind + n - 1] = Ahead[n]
      BY <3>1 DEF AtElement
    <3>5. SubSeq(b, g, m - 1) = Passed \o SubSeq(Ahead, 1, h - 1)
      BY <3>1 DEF AtElement
    <3>6. h <= Len(Ahead) => Ahead[h].kind = "word"
      <4>1. SUFFICES ASSUME h <= Len(Ahead) PROVE Ahead[h].kind = "word"
        OBVIOUS
      <4>2. h \in h..Len(Ahead) /\ optind + h - 1 # argc
        BY <1>2, <1>3, <4>1
      <4>3. QED BY <3>2, <3>4, <4>2
    <3>7. SubSeq(b, optind', Len(b)) = Passed \o Ahead
      <4>1. CASE ordering = "REQUIRE_ORDER"
        <5>1. h = 1 /\ g = m
          BY <1>4, <3>1, <4>1 DEF Place, AtElement
        <5>2. optind' = optind
          BY <1>2, <3>2, <5>1
        <5>3. Passed = <<>>
          <6>1. first_nonopt = last_nonopt /\ first_nonopt \in Nat
            BY <4>1 DEF Reading, InOrder
          <6>2. first_nonopt \in Int /\ last_nonopt - 1 \in Int /\ last_nonopt - 1 < first_nonopt
            BY <6>1
          <6>3. QED BY <6>2, SubSeqEmpty DEF Passed
        <5>4. SubSeq(b, optind, Len(b)) = Ahead
          <6>1. \A n \in optind..Len(b) : b[n] = argv[n]
            <7>1. TAKE n \in optind..Len(b)
            <7>2. PICK i \in Nat : i = n - optind + 1
              BY <1>2, <3>3
            <7>3. i \in 1..Len(Ahead) /\ optind + i - 1 = n
              BY <1>2, <1>3, <3>3, <7>2
            <7>4. b[n] = Ahead[i]
              BY <3>4, <5>1, <7>3
            <7>5. Ahead[i] = argv[n]
              BY AheadIs, <7>3
            <7>6. QED BY <7>4, <7>5
          <6>2. Len(b) \in Int /\ Len(b) <= Len(b)
            BY <1>2, <3>3
          <6>3. SubSeq(b, optind, Len(b)) = SubSeq(argv, optind, Len(b))
            BY <1>2, <3>3, <6>1, <6>2, SameFrom
          <6>4. QED BY <3>3, <6>3 DEF Ahead
        <5>5. <<>> \o Ahead = Ahead
          BY <1>3, ConcatEmptySeq
        <5>6. QED BY <5>2, <5>3, <5>4, <5>5
      <4>2. CASE ordering = "PERMUTE"
        <5>1. m = optind + h - 1 /\ h = Len(Ahead) + 1
          BY <1>4, <3>1, <3>6, <4>2 DEF AtElement
        <5>2. optind + h - 1 = argc /\ m - 1 = Len(b) /\ h - 1 = Len(Ahead)
          BY <1>2, <1>3, <3>3, <5>1
        <5>3. optind' = g
          BY <3>2, <5>1, <5>2
        <5>4. SubSeq(Ahead, 1, Len(Ahead)) = Ahead
          BY <1>3, SubSeqFull
        <5>5. QED BY <3>5, <5>2, <5>3, <5>4
      <4>3. QED BY <1>2, <4>1, <4>2
    <3>8. Left = Ahead
      BY <2>2
    <3> HIDE DEF Left
    <3>9. QED BY <3>2, <3>3, <3>6, <3>7, <3>8
  <2>3. QED BY <2>1, <2>2
<1>6. Unread = Ahead /\ Unread' = <<>>
  <2>1. Unread' = <<>>
    BY <1>1 DEF Unread
  <2>2. QED BY <1>1, <2>1, UnreadAhead
<1>7. Said!End
  <2>1. Said!Here = h
    BY <1>4, <1>6 DEF Said!Here, Place
  <2>2. Said!Before(Ahead, h) = SubSeq(Ahead, 1, h - 1) /\ Said!After(Ahead, h) = SubSeq(Ahead, h + 1, Len(Ahead))
    BY DEF Said!Before, Said!After
  <2>3. Left = IF h <= Len(Ahead) /\ Ahead[h].kind = "dashes"
               THEN Said!Before(Ahead, h) \o Said!After(Ahead, h) ELSE Ahead
    BY <2>2
  <2> HIDE DEF Left
  <2>4. (IF stage = "end" THEN SubSeq(argv, optind, Len(argv))
                          ELSE SubSeq(argv, first_nonopt, last_nonopt - 1)) = Passed
    BY DEF Passed
  <2>5. (IF stage = "end" THEN SubSeq(argv, optind, Len(argv))
                          ELSE SubSeq(argv, first_nonopt, last_nonopt - 1))' = Passed \o Left
    BY <1>1, <1>5
  <2>6. QED BY <1>1, <1>5, <1>6, <2>1, <2>3, <2>4, <2>5 DEF Said!End
<1>8. Reading'
  BY <1>1, <1>2, <1>5 DEF Reading
<1>9. QED BY <1>7, <1>8

-----------------------------------------------------------------------------
(* A long option. *)

\* Two sequences that agree in as many elements at their ends.
LEMMA SameTail ==
  ASSUME NEW s \in Seq(Elements), NEW t \in Seq(Elements), NEW x \in Nat, NEW y \in Nat,
         1 <= x, 1 <= y, Len(s) - x = Len(t) - y, \A i \in 0..(Len(s) - x) : s[x + i] = t[y + i]
  PROVE  SubSeq(s, x, Len(s)) = SubSeq(t, y, Len(t))
<1>1. Len(s) \in Nat /\ Len(t) \in Nat
  BY LenProperties
<1>2. /\ \A i \in x..Len(s) : s[i] \in Elements
      /\ \A i \in y..Len(t) : t[i] \in Elements
  BY <1>1, ElementOfSeq
<1>3. /\ SubSeq(s, x, Len(s)) \in Seq(Elements)
      /\ Len(SubSeq(s, x, Len(s))) = IF x <= Len(s) THEN Len(s) - x + 1 ELSE 0
      /\ \A i \in 1..(Len(s) - x + 1) : SubSeq(s, x, Len(s))[i] = s[x + i - 1]
  BY <1>1, <1>2, SubSeqProperties
<1>4. /\ SubSeq(t, y, Len(t)) \in Seq(Elements)
      /\ Len(SubSeq(t, y, Len(t))) = IF y <= Len(t) THEN Len(t) - y + 1 ELSE 0
      /\ \A i \in 1..(Len(t) - y + 1) : SubSeq(t, y, Len(t))[i] = t[y + i - 1]
  BY <1>1, <1>2, SubSeqProperties
<1>5. \A i \in 1..(Len(s) - x + 1) : s[x + i - 1] = t[y + i - 1]
  <2>1. TAKE i \in 1..(Len(s) - x + 1)
  <2>2. i - 1 \in 0..(Len(s) - x) /\ x + (i - 1) = x + i - 1 /\ y + (i - 1) = y + i - 1
    BY <1>1
  <2>3. QED BY <2>2
<1>6. Len(SubSeq(s, x, Len(s))) = Len(SubSeq(t, y, Len(t)))
  BY <1>1, <1>3, <1>4
<1>7. \A i \in 1..Len(SubSeq(s, x, Len(s))) : SubSeq(s, x, Len(s))[i] = SubSeq(t, y, Len(t))[i]
  BY <1>1, <1>3, <1>4, <1>5
<1>8. QED BY <1>3, <1>4, <1>6, <1>7, SeqEqual

\* The scan at p has an element of a kind before it that is an option.
AtOption(h, b, p, g, m) ==
  /\ h \in 1..Len(Ahead) /\ h = Place /\ b[p] = Ahead[h] /\ Len(b) = Len(argv) /\ p \in 1..Len(b)
  /\ InOrder(b, p, g, m) /\ (ordering = "REQUIRE_ORDER" => g = m)
  /\ SubSeq(b, g, m - 1) = Passed \o SubSeq(Ahead, 1, h - 1)
  /\ SubSeq(Ahead, h + 1, Len(Ahead)) = SubSeq(b, p + 1, Len(b))

\* A call that finds an option finds the one Arguments finds.
LEMMA AdvancedToOption ==
  ASSUME Reading, stage = "reading", NEW d, d = Advanced,
         d.optind # argc, d.args[d.optind].kind \in {"short", "long"}
  PROVE  \E h, b, p, g, m : d = Scanned(b, p, g, m) /\ AtOption(h, b, p, g, m)
<1>1. PICK h \in 1..(Len(Ahead) + 1) :
         /\ h = Place
         /\ \/ /\ h <= Len(Ahead) /\ Ahead[h].kind = "dashes"
               /\ \E b, g : Advanced = Scanned(b, argc, g, argc) /\ AtRest(h, b, g)
            \/ /\ h <= Len(Ahead) => Ahead[h].kind # "dashes"
               /\ \E b, g, m : Advanced = Scanned(b, optind + h - 1, g, m) /\ AtElement(h, b, g, m)
  BY AdvancedDoes
<1>2. ASSUME NEW b, NEW g, Advanced = Scanned(b, argc, g, argc) PROVE FALSE
  BY <1>2 DEF Scanned
<1>3. PICK b, g, m : Advanced = Scanned(b, optind + h - 1, g, m) /\ AtElement(h, b, g, m)
  BY <1>1, <1>2
<1>4. /\ optind \in Nat /\ 1 <= optind /\ optind <= Len(argv) + 1
      /\ Len(argv) \in Nat /\ argc = Len(argv) + 1
  BY LenProperties DEF Reading, InOrder, argc
<1>5. /\ Ahead \in Seq(Elements) /\ Len(Ahead) \in Nat /\ Len(Ahead) = Len(argv) - optind + 1
  BY AheadIs
<1>6. PICK p \in Nat : p = optind + h - 1
  BY <1>4
<1>7. /\ d.optind = p /\ d.args = b /\ d = Scanned(b, p, g, m)
  BY <1>3, <1>6 DEF Scanned
<1>8. /\ b \in Seq(Elements) /\ Len(b) = Len(argv) /\ InOrder(b, p, g, m)
      /\ ordering = "REQUIRE_ORDER" => g = m
      /\ SubSeq(b, g, m - 1) = Passed \o SubSeq(Ahead, 1, h - 1)
  BY <1>3, <1>6 DEF AtElement
<1>9. \A n \in h..Len(Ahead) : b[optind + n - 1] = Ahead[n]
  BY <1>3 DEF AtElement
<1>10. h \in 1..Len(Ahead) /\ p \in 1..Len(b) /\ Len(b) = Len(argv)
  <2>1. p # argc
    BY <1>7
  <2>2. p <= Len(b) + 1 /\ 1 <= p
    BY <1>4, <1>6, <1>8 DEF InOrder
  <2>3. Len(b) = Len(argv)
    BY <1>8
  <2>4. QED BY <1>4, <1>5, <1>6, <2>1, <2>2, <2>3
<1>11. b[p] = Ahead[h]
  BY <1>6, <1>9, <1>10
<1>12. SubSeq(Ahead, h + 1, Len(Ahead)) = SubSeq(b, p + 1, Len(b))
  <2>1. PICK x \in Nat : x = h + 1
    BY <1>5
  <2>2. PICK y \in Nat : y = p + 1
    BY <1>6
  <2>3. \A i \in 0..(Len(Ahead) - x) : Ahead[x + i] = b[y + i]
    <3>1. TAKE i \in 0..(Len(Ahead) - x)
    <3>2. x + i \in h..Len(Ahead) /\ optind + (x + i) - 1 = y + i
      BY <1>4, <1>5, <1>6, <1>10, <2>1, <2>2
    <3>3. QED BY <1>9, <3>2
  <2>4. Len(b) \in Nat /\ 1 <= x /\ 1 <= y /\ Len(Ahead) - x = Len(b) - y
    BY <1>4, <1>5, <1>6, <1>8, <1>10, <2>1, <2>2
  <2>5. SubSeq(Ahead, x, Len(Ahead)) = SubSeq(b, y, Len(b))
    <3>1. Ahead \in Seq(Elements) /\ b \in Seq(Elements)
      BY <1>5, <1>8
    <3>2. QED BY <2>1, <2>2, <2>3, <2>4, <3>1, SameTail, Zenon
  <2>6. QED BY <2>1, <2>2, <2>5
<1>13. AtOption(h, b, p, g, m)
  BY <1>1, <1>8, <1>10, <1>11, <1>12 DEF AtOption
<1>14. QED BY <1>7, <1>13

-----------------------------------------------------------------------------
\* What a call that returns an option leaves: the scan somewhere behind the
\* element, with the blocks as it found them.
ReadOn(b, p, g, m) ==
  /\ argv' = b /\ first_nonopt' = g /\ last_nonopt' = m /\ ordering' = ordering
  /\ optind' \in p..(Len(b) + 1)
  /\ stage' = IF returned' = Bad THEN "mistake" ELSE "reading"

\* An abbreviation means the same entries to both.
LEMMA MeantIsMatches ==
  ASSUME NEW name
  PROVE  Said!Meant(name) = Matches(name) /\ Matches(name) \subseteq DOMAIN LongNames
<1>1. Said!Meant(name) = Matches(name)
  BY DEF Said!Meant, Said!IsPrefixOf, Matches
<1>2. QED BY <1>1 DEF Matches

\* An element at p in a list b that argv is permuted to, and what is behind it.
Behind(b, p, next, after) ==
  /\ b \in Seq(Elements) /\ p \in 1..Len(b) /\ Len(b) = Len(argv)
  /\ next \in Nat /\ next = p + 1 /\ after = SubSeq(b, next, Len(b))

\* A name says what Arguments says it does, with the element behind it.
LEMMA LongIsSaid ==
  ASSUME stage = "reading", nextchar = <<>>, nextchar' = <<>>,
         NEW b, NEW p, NEW g, NEW m, NEW next, NEW after, Behind(b, p, next, after),
         NEW e, e = b[p], ReadName(Scanned(b, p, g, m), e)
  PROVE  /\ ReadOn(b, p, g, m)
         /\ Said!Long(e, after) = <<returned', Unread'>>
<1> USE DEF Behind
<1>1. /\ Len(b) \in Nat /\ argc = Len(b) + 1
      /\ e \in Elements /\ e.text \in BOOLEAN
  BY LenProperties, ElementOfSeq DEF argc, Elements
<1>2. /\ after \in Seq(Elements)
      /\ next = Len(b) + 1 <=> after = <<>>
      /\ next < Len(b) + 1 => Head(after) = b[next] /\ Tail(after) = SubSeq(b, next + 1, Len(b))
  BY Following
<1>3. ASSUME NEW q \in p..(Len(b) + 1), NEW r, Moved(Scanned(b, p, g, m), q), Return(r)
      PROVE  ReadOn(b, p, g, m) /\ returned' = r /\ Unread' = SubSeq(b, q, Len(b))
  <2>1. /\ argv' = b /\ first_nonopt' = g /\ last_nonopt' = m /\ ordering' = ordering /\ optind' = q
        /\ returned' = r /\ stage' = (IF r = Bad THEN "mistake" ELSE "reading")
    BY <1>3 DEF Moved, Return, Scanned
  <2>2. Unread' = SubSeq(argv', optind', Len(argv'))
    BY <2>1 DEF Unread
  <2>3. QED BY <2>1, <2>2 DEF ReadOn
<1> DEFINE found == Matches(e.name)
<1>4. Said!Meant(e.name) = found /\ found \subseteq DOMAIN LongNames
  BY MeantIsMatches
<1> HIDE DEF found
<1>5. \/ /\ \A k \in found : \E j \in found : j # k
         /\ Return(Bad) /\ Moved(Scanned(b, p, g, m), next)
      \/ \E k \in found :
           /\ found = {k}
           /\ \/ /\ e.text /\ LongNames[k].has_arg
                 /\ Return(Ret(LongNames[k].val, <<AWord(<<"=">>)>>)) /\ Moved(Scanned(b, p, g, m), next)
              \/ /\ e.text # LongNames[k].has_arg /\ (LongNames[k].has_arg => next = argc)
                 /\ Return(Bad) /\ Moved(Scanned(b, p, g, m), next)
              \/ /\ ~e.text /\ LongNames[k].has_arg /\ next < argc
                 /\ Return(Ret(LongNames[k].val, <<b[next]>>)) /\ Moved(Scanned(b, p, g, m), next + 1)
              \/ /\ ~e.text /\ ~LongNames[k].has_arg
                 /\ Return(Ret(LongNames[k].val, <<>>)) /\ Moved(Scanned(b, p, g, m), next)
  <2>1. Scanned(b, p, g, m).optind + 1 = next /\ Scanned(b, p, g, m).args = b
    BY DEF Scanned
  <2>2. PICK F \in {Matches(e.name)}, q \in {Scanned(b, p, g, m).optind + 1} :
          \/ /\ \A k \in F : \E j \in F : j # k
             /\ Return(Bad) /\ Moved(Scanned(b, p, g, m), q)
          \/ \E k \in F :
               /\ F = {k}
               /\ \/ /\ e.text /\ LongNames[k].has_arg
                     /\ Return(Ret(LongNames[k].val, <<AWord(<<"=">>)>>)) /\ Moved(Scanned(b, p, g, m), q)
                  \/ /\ e.text # LongNames[k].has_arg /\ (LongNames[k].has_arg => q = argc)
                     /\ Return(Bad) /\ Moved(Scanned(b, p, g, m), q)
                  \/ /\ ~e.text /\ LongNames[k].has_arg /\ q < argc
                     /\ Return(Ret(LongNames[k].val, <<Scanned(b, p, g, m).args[q]>>)) /\ Moved(Scanned(b, p, g, m), q + 1)
                  \/ /\ ~e.text /\ ~LongNames[k].has_arg
                     /\ Return(Ret(LongNames[k].val, <<>>)) /\ Moved(Scanned(b, p, g, m), q)
    BY DEF ReadName
  <2>3. F = found /\ q = next
    BY <2>1, <2>2 DEF found
  <2>4. QED BY <2>1, <2>2, <2>3
<1>6. /\ next \in p..(Len(b) + 1)
      /\ next = argc <=> after = <<>>
      /\ next < argc => /\ next + 1 \in p..(Len(b) + 1)
                        /\ Head(after) = b[next] /\ Tail(after) = SubSeq(b, next + 1, Len(b))
      /\ SubSeq(b, next, Len(b)) = after /\ (next = argc \/ next < argc)
  <2>1. next \in p..(Len(b) + 1) /\ (next = argc \/ next < argc)
    BY <1>1
  <2>2. next = argc <=> after = <<>>
    BY <1>1, <1>2
  <2>3. ASSUME next < argc
        PROVE  /\ next + 1 \in p..(Len(b) + 1)
               /\ Head(after) = b[next] /\ Tail(after) = SubSeq(b, next + 1, Len(b))
    <3>1. next < Len(b) + 1
      BY <1>1, <2>3
    <3>2. next + 1 \in p..(Len(b) + 1)
      BY <1>1, <3>1
    <3>3. QED BY <1>2, <3>1, <3>2
  <2>4. SubSeq(b, next, Len(b)) = after
    OBVIOUS
  <2>5. QED BY <2>1, <2>2, <2>3, <2>4
<1>7. Said!Mistake = Bad /\ \A v, a : Said!Option(v, a) = Ret(v, a)
  BY DEF Said!Mistake, Said!Option, Bad, Ret
<1>8. Said!Text = AWord(<<"=">>)
  BY DEF Said!Text, Said!Word, AWord
<1>9. CASE /\ \A k \in found : \E j \in found : j # k
           /\ Return(Bad) /\ Moved(Scanned(b, p, g, m), next)
  <2>1. found = {} \/ \E x, y \in found : x # y
    BY <1>9
  <2>2. Said!Long(e, after) = <<Bad, after>>
    BY <1>4, <1>7, <2>1 DEF Said!Long
  <2>3. returned' = Bad /\ Unread' = after /\ ReadOn(b, p, g, m)
    BY <1>3, <1>6, <1>9
  <2>4. QED BY <2>2, <2>3
<1>10. ASSUME NEW k \in found, found = {k}
       PROVE  Said!Long(e, after) =
                IF e.text
                THEN IF LongNames[k].has_arg
                     THEN <<Ret(LongNames[k].val, <<AWord(<<"=">>)>>), after>> ELSE <<Bad, after>>
                ELSE IF ~LongNames[k].has_arg THEN <<Ret(LongNames[k].val, <<>>), after>>
                ELSE IF after = <<>> THEN <<Bad, after>>
                ELSE <<Ret(LongNames[k].val, <<Head(after)>>), Tail(after)>>
  <2>1. (CHOOSE n \in found : TRUE) = k
    BY <1>10
  <2>2. ~(found = {} \/ \E x, y \in found : x # y)
    BY <1>10
  <2>3. Said!Long(e, after) =
          IF found = {} \/ \E x, y \in found : x # y THEN <<Said!Mistake, after>>
          ELSE IF e.text
          THEN IF LongNames[CHOOSE n \in found : TRUE].has_arg
               THEN <<Said!Option(LongNames[CHOOSE n \in found : TRUE].val, <<Said!Text>>), after>>
               ELSE <<Said!Mistake, after>>
          ELSE IF ~LongNames[CHOOSE n \in found : TRUE].has_arg
               THEN <<Said!Option(LongNames[CHOOSE n \in found : TRUE].val, <<>>), after>>
          ELSE IF after = <<>> THEN <<Said!Mistake, after>>
          ELSE <<Said!Option(LongNames[CHOOSE n \in found : TRUE].val, <<Head(after)>>), Tail(after)>>
    BY <1>4 DEF Said!Long
  <2>4. QED BY <1>7, <1>8, <2>1, <2>2, <2>3
<1>11. ASSUME NEW k \in found, found = {k},
              \/ /\ e.text /\ LongNames[k].has_arg
                 /\ Return(Ret(LongNames[k].val, <<AWord(<<"=">>)>>)) /\ Moved(Scanned(b, p, g, m), next)
              \/ /\ e.text # LongNames[k].has_arg /\ (LongNames[k].has_arg => next = argc)
                 /\ Return(Bad) /\ Moved(Scanned(b, p, g, m), next)
              \/ /\ ~e.text /\ LongNames[k].has_arg /\ next < argc
                 /\ Return(Ret(LongNames[k].val, <<b[next]>>)) /\ Moved(Scanned(b, p, g, m), next + 1)
              \/ /\ ~e.text /\ ~LongNames[k].has_arg
                 /\ Return(Ret(LongNames[k].val, <<>>)) /\ Moved(Scanned(b, p, g, m), next)
       PROVE  ReadOn(b, p, g, m) /\ Said!Long(e, after) = <<returned', Unread'>>
  <2>1. LongNames[k].has_arg \in BOOLEAN
    <3> DEFINE O == [name : Seq(STRING), has_arg : BOOLEAN, val : STRING]
    <3>1. LongNames \in Seq(O)
      BY OptionsAssumption
    <3>2. \A o \in O : o.has_arg \in BOOLEAN
      OBVIOUS
    <3> HIDE DEF O
    <3>3. k \in 1..Len(LongNames)
      BY <1>4, <3>1, LenProperties
    <3>4. LongNames[k] \in O
      BY <3>1, <3>3, ElementOfSeq
    <3>5. QED BY <3>2, <3>4
  <2>2. CASE /\ e.text /\ LongNames[k].has_arg
             /\ Return(Ret(LongNames[k].val, <<AWord(<<"=">>)>>)) /\ Moved(Scanned(b, p, g, m), next)
    <3>1. Said!Long(e, after) = <<Ret(LongNames[k].val, <<AWord(<<"=">>)>>), after>>
      BY <1>10, <1>11, <2>2
    <3>2. returned' = Ret(LongNames[k].val, <<AWord(<<"=">>)>>) /\ Unread' = after /\ ReadOn(b, p, g, m)
      BY <1>3, <1>6, <2>2
    <3>3. QED BY <3>1, <3>2
  <2>3. CASE /\ e.text # LongNames[k].has_arg /\ (LongNames[k].has_arg => next = argc)
             /\ Return(Bad) /\ Moved(Scanned(b, p, g, m), next)
    <3>1. Said!Long(e, after) = <<Bad, after>>
      BY <1>1, <1>6, <1>10, <1>11, <2>1, <2>3
    <3>2. returned' = Bad /\ Unread' = after /\ ReadOn(b, p, g, m)
      BY <1>3, <1>6, <2>3
    <3>3. QED BY <3>1, <3>2
  <2>4. CASE /\ ~e.text /\ LongNames[k].has_arg /\ next < argc
             /\ Return(Ret(LongNames[k].val, <<b[next]>>)) /\ Moved(Scanned(b, p, g, m), next + 1)
    <3>1. next # argc
      BY <1>1, <1>6, <2>4
    <3>2. Said!Long(e, after) = <<Ret(LongNames[k].val, <<b[next]>>), Tail(after)>>
      BY <1>6, <1>10, <1>11, <2>4, <3>1
    <3>3. returned' = Ret(LongNames[k].val, <<b[next]>>) /\ Unread' = Tail(after) /\ ReadOn(b, p, g, m)
      <4>1. next + 1 \in p..(Len(b) + 1) /\ Tail(after) = SubSeq(b, next + 1, Len(b))
        BY <1>6, <2>4
      <4>2. QED BY <1>3, <2>4, <4>1
    <3>4. QED BY <3>2, <3>3
  <2>5. CASE /\ ~e.text /\ ~LongNames[k].has_arg
             /\ Return(Ret(LongNames[k].val, <<>>)) /\ Moved(Scanned(b, p, g, m), next)
    <3>1. Said!Long(e, after) = <<Ret(LongNames[k].val, <<>>), after>>
      BY <1>10, <1>11, <2>5
    <3>2. returned' = Ret(LongNames[k].val, <<>>) /\ Unread' = after /\ ReadOn(b, p, g, m)
      BY <1>3, <1>6, <2>5
    <3>3. QED BY <3>1, <3>2
  <2>6. QED BY <1>11, <2>2, <2>3, <2>4, <2>5
<1>12. QED BY <1>5, <1>9, <1>11

-----------------------------------------------------------------------------
(* A letter of a short element. *)

\* An element of which only some letters are left.
Left(e, letters) == [e EXCEPT !.name = letters]

\* So does a letter.
LEMMA LetterIsSaid ==
  ASSUME stage = "reading",
         NEW b, NEW p, NEW g, NEW m, NEW next, NEW after, Behind(b, p, next, after),
         NEW letters \in Seq(STRING), letters # <<>>, NEW e, e = Left(b[p], letters),
         ReadLetter(Scanned(b, p, g, m), letters)
  PROVE  /\ ReadOn(b, p, g, m) /\ nextchar' \in Seq(STRING) /\ (nextchar' # <<>> => optind' = p)
         /\ Said!Short(e, after) = <<returned', Unread'>>
<1> USE DEF Behind
<1> DEFINE c == Head(letters)
           text == Tail(letters)
           left == IF text = <<>> THEN after ELSE <<[b[p] EXCEPT !.name = text]>> \o after
           q == IF text = <<>> THEN next ELSE p
<1>1. Len(b) \in Nat /\ argc = Len(b) + 1 /\ p \in p..(Len(b) + 1) /\ next \in p..(Len(b) + 1)
  BY LenProperties DEF argc
<1>2. /\ next = argc <=> after = <<>>
      /\ next < argc => Head(after) = b[next] /\ Tail(after) = SubSeq(b, next + 1, Len(b))
  BY <1>1, Following
<1>3. text \in Seq(STRING) /\ <<>> \in Seq(STRING)
  BY HeadTailProperties
<1>4. Said!Short(e, after) =
        IF c \in Allowed THEN <<Ret(c, <<>>), left>>
        ELSE IF c \in Required /\ text # <<>> THEN <<Ret(c, <<AWord(text)>>), after>>
        ELSE IF c \in Required /\ after # <<>> THEN <<Ret(c, <<Head(after)>>), Tail(after)>>
        ELSE <<Bad, left>>
  <2>1. b[p] \in Elements
    BY ElementOfSeq
  <2>2. e.name = letters /\ [e EXCEPT !.name = text] = [b[p] EXCEPT !.name = text]
    BY <2>1 DEF Elements, Left
  <2>3. /\ Said!Mistake = Bad /\ Said!Word(text) = AWord(text)
        /\ \A v, a : Said!Option(v, a) = Ret(v, a)
    BY DEF Said!Mistake, Said!Option, Said!Word, Bad, Ret, AWord
  <2>4. Said!Short(e, after) =
          IF Head(e.name) \in Allowed
          THEN <<Said!Option(Head(e.name), <<>>),
                 IF Tail(e.name) = <<>> THEN after ELSE <<[e EXCEPT !.name = Tail(e.name)]>> \o after>>
          ELSE IF Head(e.name) \in Required /\ Tail(e.name) # <<>>
          THEN <<Said!Option(Head(e.name), <<Said!Word(Tail(e.name))>>), after>>
          ELSE IF Head(e.name) \in Required /\ after # <<>>
          THEN <<Said!Option(Head(e.name), <<Head(after)>>), Tail(after)>>
          ELSE <<Said!Mistake,
                 IF Tail(e.name) = <<>> THEN after ELSE <<[e EXCEPT !.name = Tail(e.name)]>> \o after>>
    BY DEF Said!Short
  <2>5. QED BY <2>2, <2>3, <2>4
<1>5. ASSUME NEW n \in p..(Len(b) + 1), NEW r, Moved(Scanned(b, p, g, m), n), Return(r), nextchar' = <<>>
      PROVE  ReadOn(b, p, g, m) /\ returned' = r /\ Unread' = SubSeq(b, n, Len(b))
  <2>1. /\ argv' = b /\ first_nonopt' = g /\ last_nonopt' = m /\ ordering' = ordering /\ optind' = n
        /\ returned' = r /\ stage' = (IF r = Bad THEN "mistake" ELSE "reading")
    BY <1>5 DEF Moved, Return, Scanned
  <2>2. Unread' = SubSeq(argv', optind', Len(argv'))
    BY <1>5, <2>1 DEF Unread
  <2>3. QED BY <2>1, <2>2 DEF ReadOn
<1>6. ASSUME NEW r, Moved(Scanned(b, p, g, m), q), Return(r), nextchar' = text
      PROVE  /\ ReadOn(b, p, g, m) /\ returned' = r /\ Unread' = left
             /\ nextchar' \in Seq(STRING) /\ (nextchar' # <<>> => optind' = p)
  <2>1. CASE text = <<>>
    <3>1. Moved(Scanned(b, p, g, m), next) /\ nextchar' = <<>>
      BY <1>6, <2>1
    <3>2. ReadOn(b, p, g, m) /\ returned' = r /\ Unread' = SubSeq(b, next, Len(b))
      BY <1>1, <1>5, <1>6, <3>1
    <3>3. QED BY <1>3, <2>1, <3>1, <3>2
  <2>2. CASE text # <<>>
    <3>1. Moved(Scanned(b, p, g, m), p)
      BY <1>6, <2>2
    <3>2. /\ argv' = b /\ first_nonopt' = g /\ last_nonopt' = m /\ ordering' = ordering /\ optind' = p
          /\ returned' = r /\ stage' = (IF r = Bad THEN "mistake" ELSE "reading")
      BY <1>6, <3>1 DEF Moved, Return, Scanned
    <3>3. Unread' = <<[argv'[optind'] EXCEPT !.name = nextchar']>> \o SubSeq(argv', optind' + 1, Len(argv'))
      BY <1>6, <2>2, <3>2 DEF Unread
    <3>4. Unread' = <<[b[p] EXCEPT !.name = text]>> \o after
      <4>1. SubSeq(argv', optind' + 1, Len(argv')) = after
        BY <3>2
      <4>2. QED BY <1>6, <3>2, <3>3, <4>1
    <3>5. Unread' = left
      BY <2>2, <3>4
    <3> HIDE DEF text, left
    <3>6. QED BY <1>1, <1>3, <1>6, <3>2, <3>5 DEF ReadOn
  <2>3. QED BY <2>1, <2>2
<1>7. \/ /\ c \notin Required \cup Allowed
         /\ Return(Bad) /\ Moved(Scanned(b, p, g, m), q) /\ nextchar' = text
      \/ /\ c \in Allowed
         /\ Return(Ret(c, <<>>)) /\ Moved(Scanned(b, p, g, m), q) /\ nextchar' = text
      \/ /\ c \in Required /\ text # <<>>
         /\ Return(Ret(c, <<AWord(text)>>)) /\ Moved(Scanned(b, p, g, m), next) /\ nextchar' = <<>>
      \/ /\ c \in Required /\ text = <<>> /\ next = argc
         /\ Return(Bad) /\ Moved(Scanned(b, p, g, m), next) /\ nextchar' = <<>>
      \/ /\ c \in Required /\ text = <<>> /\ next < argc
         /\ Return(Ret(c, <<b[next]>>)) /\ Moved(Scanned(b, p, g, m), next + 1) /\ nextchar' = <<>>
  <2>1. Scanned(b, p, g, m).optind + 1 = next /\ Scanned(b, p, g, m).args = b /\ Scanned(b, p, g, m).optind = p
    BY DEF Scanned
  <2> HIDE DEF c
  <2>2. QED BY <2>1 DEF ReadLetter, c
<1> HIDE DEF c, text, left, q
<1>8. Required \cap Allowed = {}
  BY OptionsAssumption
<1>9. CASE /\ c \notin Required \cup Allowed
           /\ Return(Bad) /\ Moved(Scanned(b, p, g, m), q) /\ nextchar' = text
  <2>1. Said!Short(e, after) = <<Bad, left>>
    BY <1>4, <1>9
  <2>2. QED BY <1>6, <1>9, <2>1
<1>10. CASE /\ c \in Allowed
            /\ Return(Ret(c, <<>>)) /\ Moved(Scanned(b, p, g, m), q) /\ nextchar' = text
  <2>1. Said!Short(e, after) = <<Ret(c, <<>>), left>>
    BY <1>4, <1>10
  <2>2. QED BY <1>6, <1>10, <2>1
<1>11. CASE /\ c \in Required /\ text # <<>>
            /\ Return(Ret(c, <<AWord(text)>>)) /\ Moved(Scanned(b, p, g, m), next) /\ nextchar' = <<>>
  <2>1. Said!Short(e, after) = <<Ret(c, <<AWord(text)>>), after>>
    BY <1>4, <1>8, <1>11
  <2>2. ReadOn(b, p, g, m) /\ returned' = Ret(c, <<AWord(text)>>) /\ Unread' = after
    BY <1>1, <1>5, <1>11
  <2>3. QED BY <1>3, <1>11, <2>1, <2>2
<1>12. CASE /\ c \in Required /\ text = <<>> /\ next = argc
            /\ Return(Bad) /\ Moved(Scanned(b, p, g, m), next) /\ nextchar' = <<>>
  <2>1. left = after /\ after = <<>>
    BY <1>2, <1>12 DEF left
  <2>2. Said!Short(e, after) = <<Bad, after>>
    BY <1>4, <1>8, <1>12, <2>1
  <2>3. ReadOn(b, p, g, m) /\ returned' = Bad /\ Unread' = after
    BY <1>1, <1>5, <1>12
  <2>4. QED BY <1>3, <1>12, <2>2, <2>3
<1>13. CASE /\ c \in Required /\ text = <<>> /\ next < argc
            /\ Return(Ret(c, <<b[next]>>)) /\ Moved(Scanned(b, p, g, m), next + 1) /\ nextchar' = <<>>
  <2>1. /\ after # <<>> /\ next + 1 \in p..(Len(b) + 1)
        /\ Head(after) = b[next] /\ Tail(after) = SubSeq(b, next + 1, Len(b))
    <3>1. next # argc /\ next + 1 \in p..(Len(b) + 1)
      BY <1>1, <1>13
    <3>2. QED BY <1>2, <1>13, <3>1
  <2>2. Said!Short(e, after) = <<Ret(c, <<b[next]>>), Tail(after)>>
    BY <1>4, <1>8, <1>13, <2>1
  <2>3. ReadOn(b, p, g, m) /\ returned' = Ret(c, <<b[next]>>) /\ Unread' = Tail(after)
    BY <1>5, <1>13, <2>1
  <2>4. QED BY <1>3, <1>13, <2>2, <2>3
<1>14. QED BY <1>7, <1>9, <1>10, <1>11, <1>12, <1>13

-----------------------------------------------------------------------------
\* An option read as Arguments says it is a step of Arguments.
LEMMA SayIsSaid ==
  ASSUME Reading, stage = "reading", NEW k, k = Said!Here,
         k <= Len(Unread), Unread[k].kind \in {"short", "long"},
         NEW b \in Seq(Elements), NEW p \in Nat, NEW g, NEW m, InOrder(b, p, g, m), ReadOn(b, p, g, m),
         ordering = "REQUIRE_ORDER" => g = m,
         SubSeq(b, g, m - 1) = Passed \o Said!Before(Unread, k),
         nextchar' \in Seq(STRING), nextchar' # <<>> => optind' = p /\ p <= Len(b) /\ b[p].kind = "short",
         <<returned', Unread'>> = IF Unread[k].kind = "long" THEN Said!Long(Unread[k], Said!After(Unread, k))
                                  ELSE Said!Short(Unread[k], Said!After(Unread, k))
  PROVE  Said!Say /\ Reading'
<1>1. /\ argv' = b /\ first_nonopt' = g /\ last_nonopt' = m /\ ordering' = ordering
      /\ optind' \in p..(Len(b) + 1)
      /\ stage' = IF returned' = Bad THEN "mistake" ELSE "reading"
  BY DEF ReadOn
<1>2. Said!Say
  <2>1. (IF stage = "end" THEN SubSeq(argv, optind, Len(argv))
                          ELSE SubSeq(argv, first_nonopt, last_nonopt - 1)) = Passed
    BY DEF Passed
  <2>2. (IF stage = "end" THEN SubSeq(argv, optind, Len(argv))
                          ELSE SubSeq(argv, first_nonopt, last_nonopt - 1))' = Passed \o Said!Before(Unread, k)
    BY <1>1
  <2>3. (stage # "reading")' = (returned' = Bad) /\ Said!Mistake = Bad
    BY <1>1 DEF Said!Mistake, Bad
  <2>4. PICK r : /\ r = IF Unread[k].kind = "long" THEN Said!Long(Unread[k], Said!After(Unread, k))
                        ELSE Said!Short(Unread[k], Said!After(Unread, k))
                 /\ r[1] = returned' /\ r[2] = Unread'
    <3>1. <<returned', Unread'>>[1] = returned' /\ <<returned', Unread'>>[2] = Unread'
      OBVIOUS
    <3>2. QED BY <3>1
  <2>5. (ordering = "REQUIRE_ORDER")' = (ordering = "REQUIRE_ORDER")
    BY <1>1
  <2>6. QED BY <2>1, <2>2, <2>3, <2>4, <2>5 DEF Said!Say
<1>3. Reading'
  <2>1. InOrder(argv', optind', first_nonopt', last_nonopt')
    <3>1. optind' \in Nat /\ p <= optind' /\ optind' <= Len(b) + 1
      BY <1>1, LenProperties
    <3>2. QED BY <1>1, <3>1 DEF InOrder
  <2>2. InOrder(argv, optind, first_nonopt, last_nonopt)'
    BY <2>1
  <2>3. QED BY <1>1, <2>2 DEF Reading
<1>4. QED BY <1>2, <1>3

-----------------------------------------------------------------------------
(* A call of getopt_long is a step of Arguments. *)

\* A long option.
LEMMA LongSaid ==
  ASSUME Reading, stage = "reading", ReturnLong
  PROVE  Said!Say /\ Reading'
<1>1. PICK d : /\ d = Advanced /\ d.optind # argc /\ d.args[d.optind].kind = "long"
               /\ ReadName(d, d.args[d.optind]) /\ nextchar = <<>> /\ nextchar' = nextchar
  BY DEF ReturnLong
<1>2. PICK h, b, p, g, m : d = Scanned(b, p, g, m) /\ AtOption(h, b, p, g, m)
  BY <1>1, AdvancedToOption
<1>3. /\ h \in 1..Len(Ahead) /\ h = Place /\ b[p] = Ahead[h] /\ Len(b) = Len(argv) /\ p \in 1..Len(b)
      /\ InOrder(b, p, g, m) /\ (ordering = "REQUIRE_ORDER" => g = m)
      /\ SubSeq(b, g, m - 1) = Passed \o SubSeq(Ahead, 1, h - 1)
      /\ SubSeq(Ahead, h + 1, Len(Ahead)) = SubSeq(b, p + 1, Len(b))
  BY <1>2 DEF AtOption
<1>4. b \in Seq(Elements) /\ p \in Nat
  BY <1>3 DEF InOrder
<1>5. d.args = b /\ d.optind = p
  BY <1>2 DEF Scanned
<1>6. Unread = Ahead
  BY <1>1, UnreadAhead
<1>7. Said!Here = h
  BY <1>3, <1>6 DEF Said!Here, Place
<1>8. /\ Said!Before(Ahead, h) = SubSeq(Ahead, 1, h - 1)
      /\ Said!After(Ahead, h) = SubSeq(Ahead, h + 1, Len(Ahead))
  BY DEF Said!Before, Said!After
<1>9. PICK next \in Nat : next = p + 1
  BY <1>4
<1>10. Said!After(Ahead, h) = SubSeq(b, next, Len(b))
  BY <1>3, <1>8, <1>9
<1>11. nextchar' = <<>>
  BY <1>1
<1>12. ReadName(Scanned(b, p, g, m), Ahead[h]) /\ Ahead[h].kind = "long"
  BY <1>1, <1>2, <1>3, <1>5
<1>13. /\ ReadOn(b, p, g, m)
       /\ Said!Long(Ahead[h], Said!After(Ahead, h)) = <<returned', Unread'>>
  <2>1. PICK e, after : e = Ahead[h] /\ after = Said!After(Ahead, h)
    OBVIOUS
  <2>2. e = b[p] /\ ReadName(Scanned(b, p, g, m), e)
    BY <1>3, <1>12, <2>1
  <2>3. stage = "reading" /\ nextchar = <<>> /\ nextchar' = <<>>
    BY <1>1
  <2>4. Behind(b, p, next, after)
    BY <1>3, <1>4, <1>9, <1>10, <2>1 DEF Behind
  <2>5. ReadOn(b, p, g, m) /\ Said!Long(e, after) = <<returned', Unread'>>
    BY <2>2, <2>3, <2>4, LongIsSaid
  <2>6. QED BY <2>1, <2>5
<1>14. h <= Len(Ahead) /\ <<>> \in Seq(STRING)
  BY <1>3, AheadIs
<1>15. SubSeq(b, g, m - 1) = Passed \o Said!Before(Ahead, h)
  BY <1>3, <1>8
<1>16. QED BY <1>3, <1>4, <1>6, <1>7, <1>11, <1>12, <1>13, <1>14, <1>15, SayIsSaid

\* A sequence with one more element in front.
LEMMA OneMore ==
  ASSUME NEW x \in Elements, NEW t \in Seq(Elements), NEW u, u = <<x>> \o t
  PROVE  /\ u \in Seq(Elements) /\ Len(u) = Len(t) + 1 /\ u[1] = x
         /\ u # <<>> /\ Tail(u) = t
<1>1. PICK w \in Seq(Elements) : w = <<x>> /\ Len(w) = 1 /\ w[1] = x
  <2>1. <<x>> \in Seq(Elements) /\ Len(<<x>>) = 1 /\ <<x>>[1] = x
    OBVIOUS
  <2>2. QED BY <2>1
<1>2. Len(t) \in Nat /\ u = w \o t
  BY <1>1, LenProperties
<1>3. /\ w \o t \in Seq(Elements) /\ Len(w \o t) = Len(w) + Len(t)
      /\ \A i \in 1..(Len(w) + Len(t)) : (w \o t)[i] = IF i <= Len(w) THEN w[i] ELSE t[i - Len(w)]
  BY ConcatProperties
<1>4. /\ u \in Seq(Elements) /\ Len(u) = Len(t) + 1
      /\ \A i \in 1..(1 + Len(t)) : u[i] = IF i <= 1 THEN w[i] ELSE t[i - 1]
  BY <1>1, <1>2, <1>3
<1>5. u[1] = x
  BY <1>1, <1>2, <1>4
<1>6. ASSUME NEW i \in 1..Len(t) PROVE u[i + 1] = t[i]
  <2>1. i + 1 \in 1..(1 + Len(t)) /\ ~(i + 1 <= 1) /\ (i + 1) - 1 = i
    BY <1>2
  <2>2. QED BY <1>4, <2>1
<1>7. u # <<>>
  BY <1>2, <1>4
<1>8. /\ Tail(u) \in Seq(Elements) /\ Len(Tail(u)) = Len(u) - 1
      /\ \A i \in 1..Len(Tail(u)) : Tail(u)[i] = u[i + 1]
  BY <1>4, <1>7, HeadTailProperties
<1>9. Tail(u) = t
  <2>1. Len(Tail(u)) = Len(t) /\ \A i \in 1..Len(t) : Tail(u)[i] = t[i]
    BY <1>2, <1>4, <1>6, <1>8
  <2>2. QED BY <1>8, <2>1, SeqEqual
<1>10. QED BY <1>4, <1>5, <1>7, <1>9

\* The element whose letters are being read, as far as it is not read yet.
LEMMA LettersLeft ==
  ASSUME Reading, stage = "reading", nextchar # <<>>,
         NEW e, e = Left(argv[optind], nextchar),
         NEW next \in Nat, next = optind + 1, NEW after, after = SubSeq(argv, next, Len(argv))
  PROVE  /\ Unread = <<e>> \o after /\ 1 <= Len(Unread) /\ Unread[1] = e /\ e.kind = "short"
         /\ Said!Here = 1 /\ Said!After(Unread, 1) = after /\ Said!Before(Unread, 1) = <<>>
<1>1. /\ argv \in Seq(Elements) /\ optind \in Nat /\ 1 <= optind /\ optind <= Len(argv) /\ Len(argv) \in Nat
      /\ argv[optind].kind = "short" /\ nextchar \in Seq(STRING)
  BY LenProperties DEF Reading, InOrder
<1>2. e \in Elements /\ e.kind = "short"
  <2>1. argv[optind] \in Elements
    BY <1>1, ElementOfSeq
  <2>2. QED BY <1>1, <2>1 DEF Elements, Left
<1>3. after \in Seq(Elements) /\ Len(after) \in Nat
  <2>1. 1 <= next /\ Len(argv) \in Int /\ Len(argv) <= Len(argv)
    BY <1>1
  <2>2. after \in Seq(Elements)
    BY <1>1, <2>1, StretchIs
  <2>3. QED BY <2>2, LenProperties
<1>4. Unread = <<e>> \o after
  BY DEF Unread, Left
<1>5. PICK u : u = Unread
  OBVIOUS
<1>6. /\ u \in Seq(Elements) /\ Len(u) = Len(after) + 1 /\ u[1] = e
      /\ u # <<>> /\ Tail(u) = after
  <2>1. e \in Elements /\ after \in Seq(Elements) /\ u = <<e>> \o after
    BY <1>2, <1>3, <1>4, <1>5
  <2>2. QED BY <2>1, OneMore
<1>7. 1 <= Len(u) /\ u[1] = e
  BY <1>3, <1>6
<1>8. Said!Here = 1
  <2>1. 1 \in 1..(Len(u) + 1) /\ u[1].kind # "word" /\ \A n \in 1..(1 - 1) : u[n].kind = "word"
    BY <1>2, <1>3, <1>6, <1>7
  <2>2. Said!FirstOption(u, 1) = 1
    BY <1>6, <2>1, FirstOptionIs
  <2>3. QED BY <1>5, <2>2 DEF Said!Here
<1>9. Said!Before(u, 1) = <<>>
  <2>1. SubSeq(u, 1, 1 - 1) = <<>>
    BY SubSeqEmpty
  <2>2. QED BY <2>1 DEF Said!Before
<1>10. Said!After(u, 1) = after
  <2>1. 1 + 1 = 2
    OBVIOUS
  <2>2. SubSeq(u, 2, Len(u)) = after
    BY <1>6, TailIsSubSeq
  <2>3. QED BY <2>1, <2>2 DEF Said!After
<1>11. QED BY <1>2, <1>4, <1>5, <1>7, <1>8, <1>9, <1>10

\* A letter, of an element being read or of the next one.
LEMMA ShortSaid ==
  ASSUME Reading, stage = "reading", ReturnShort
  PROVE  Said!Say /\ Reading'
<1>1. CASE nextchar # <<>> /\ ReadLetter(Scan, nextchar)
  <2>1. /\ argv \in Seq(Elements) /\ optind \in 1..Len(argv) /\ optind \in Nat /\ Len(argv) \in Nat
        /\ nextchar \in Seq(STRING) /\ InOrder(argv, optind, first_nonopt, last_nonopt)
        /\ argv[optind].kind = "short" /\ (ordering = "REQUIRE_ORDER" => first_nonopt = last_nonopt)
    BY <1>1, LenProperties DEF Reading, InOrder
  <2>2. PICK next \in Nat : next = optind + 1
    BY <2>1
  <2>20. PICK e, after : e = Left(argv[optind], nextchar) /\ after = SubSeq(argv, next, Len(argv))
    OBVIOUS
  <2>3. ReadLetter(Scanned(argv, optind, first_nonopt, last_nonopt), nextchar)
    BY <1>1 DEF Scan
  <2>4. /\ Unread = <<e>> \o after /\ 1 <= Len(Unread) /\ Unread[1] = e /\ e.kind = "short"
        /\ Said!Here = 1 /\ Said!After(Unread, 1) = after /\ Said!Before(Unread, 1) = <<>>
    BY <1>1, <2>2, <2>20, LettersLeft
  <2>5. /\ ReadOn(argv, optind, first_nonopt, last_nonopt)
        /\ nextchar' \in Seq(STRING) /\ (nextchar' # <<>> => optind' = optind)
        /\ Said!Short(e, after) = <<returned', Unread'>>
    <3>1. PICK b, p, g, m, letters :
            b = argv /\ p = optind /\ g = first_nonopt /\ m = last_nonopt /\ letters = nextchar
      OBVIOUS
    <3>2. /\ Behind(b, p, next, after)
          /\ letters \in Seq(STRING) /\ letters # <<>> /\ e = Left(b[p], letters)
      BY <1>1, <2>1, <2>2, <2>20, <3>1 DEF Behind
    <3>3. ReadLetter(Scanned(b, p, g, m), letters)
      BY <2>3, <3>1
    <3>4. /\ ReadOn(b, p, g, m) /\ nextchar' \in Seq(STRING) /\ (nextchar' # <<>> => optind' = p)
          /\ Said!Short(e, after) = <<returned', Unread'>>
      BY <3>2, <3>3, LetterIsSaid
    <3>5. QED BY <3>1, <3>4
  <2>6. SubSeq(argv, first_nonopt, last_nonopt - 1) = Passed \o Said!Before(Unread, 1)
    <3>1. Passed \o <<>> = Passed
      BY AheadIs, ConcatEmptySeq
    <3>2. QED BY <2>4, <3>1 DEF Passed
  <2>7. nextchar' # <<>> => optind' = optind /\ optind <= Len(argv) /\ argv[optind].kind = "short"
    BY <2>1, <2>5
  <2>8. <<returned', Unread'>> = IF Unread[1].kind = "long" THEN Said!Long(Unread[1], Said!After(Unread, 1))
                                 ELSE Said!Short(Unread[1], Said!After(Unread, 1))
    BY <2>4, <2>5
  <2>9. Unread[1].kind \in {"short", "long"}
    BY <2>4
  <2>10. QED BY <2>1, <2>4, <2>5, <2>6, <2>7, <2>8, <2>9, SayIsSaid
<1>2. CASE /\ nextchar = <<>>
           /\ \E d \in {Advanced} :
                d.optind # argc /\ d.args[d.optind].kind = "short" /\ ReadLetter(d, d.args[d.optind].name)
  <2>1. PICK d : /\ d = Advanced /\ d.optind # argc /\ d.args[d.optind].kind = "short"
                 /\ ReadLetter(d, d.args[d.optind].name)
    BY <1>2
  <2>2. PICK h, b, p, g, m : d = Scanned(b, p, g, m) /\ AtOption(h, b, p, g, m)
    BY <2>1, AdvancedToOption
  <2>3. /\ h \in 1..Len(Ahead) /\ h = Place /\ b[p] = Ahead[h] /\ Len(b) = Len(argv) /\ p \in 1..Len(b)
        /\ InOrder(b, p, g, m) /\ (ordering = "REQUIRE_ORDER" => g = m)
        /\ SubSeq(b, g, m - 1) = Passed \o SubSeq(Ahead, 1, h - 1)
        /\ SubSeq(Ahead, h + 1, Len(Ahead)) = SubSeq(b, p + 1, Len(b))
    BY <2>2 DEF AtOption
  <2>4. b \in Seq(Elements) /\ p \in Nat
    BY <2>3 DEF InOrder
  <2>5. d.args = b /\ d.optind = p
    BY <2>2 DEF Scanned
  <2>6. Unread = Ahead
    BY <1>2, UnreadAhead
  <2>7. Said!Here = h
    BY <2>3, <2>6 DEF Said!Here, Place
  <2>8. /\ Said!Before(Ahead, h) = SubSeq(Ahead, 1, h - 1)
        /\ Said!After(Ahead, h) = SubSeq(Ahead, h + 1, Len(Ahead))
    BY DEF Said!Before, Said!After
  <2>9. PICK next \in Nat : next = p + 1
    BY <2>4
  <2>10. Said!After(Ahead, h) = SubSeq(b, next, Len(b))
    BY <2>3, <2>8, <2>9
  <2>11. b[p] \in Elements /\ b[p].kind = "short"
    BY <2>1, <2>3, <2>4, <2>5, ElementOfSeq
  <2>12. /\ b[p].name \in Seq(STRING) /\ b[p].name # <<>>
         /\ b[p] = Left(b[p], b[p].name)
    BY <2>11 DEF Elements, Left
  <2>13. ReadLetter(Scanned(b, p, g, m), b[p].name)
    BY <2>1, <2>2, <2>5
  <2>14. /\ ReadOn(b, p, g, m) /\ nextchar' \in Seq(STRING) /\ (nextchar' # <<>> => optind' = p)
         /\ Said!Short(b[p], Said!After(Ahead, h)) = <<returned', Unread'>>
    <3>1. PICK e, after, letters : e = b[p] /\ after = Said!After(Ahead, h) /\ letters = b[p].name
      OBVIOUS
    <3>2. Behind(b, p, next, after)
      BY <2>3, <2>4, <2>9, <2>10, <3>1 DEF Behind
    <3>3. letters \in Seq(STRING) /\ letters # <<>> /\ e = Left(b[p], letters)
      BY <2>12, <3>1
    <3>4. ReadLetter(Scanned(b, p, g, m), letters)
      BY <2>13, <3>1
    <3>5. /\ ReadOn(b, p, g, m) /\ nextchar' \in Seq(STRING) /\ (nextchar' # <<>> => optind' = p)
          /\ Said!Short(e, after) = <<returned', Unread'>>
      BY <3>2, <3>3, <3>4, LetterIsSaid
    <3>6. QED BY <3>1, <3>5
  <2>15. h <= Len(Ahead) /\ p <= Len(b)
    BY <2>3, AheadIs, LenProperties
  <2>16. SubSeq(b, g, m - 1) = Passed \o Said!Before(Ahead, h)
    BY <2>3, <2>8
  <2>17. /\ Ahead[h].kind = "short"
         /\ Said!Short(Ahead[h], Said!After(Ahead, h)) = <<returned', Unread'>>
    BY <2>3, <2>11, <2>14
  <2>18. QED BY <2>3, <2>4, <2>6, <2>7, <2>11, <2>14, <2>15, <2>16, <2>17, SayIsSaid
<1>3. QED BY <1>1, <1>2 DEF ReturnShort

-----------------------------------------------------------------------------
\* main's first call.
LEMMA ReadingStarts == InitG => Reading /\ Said!Init
<1> SUFFICES ASSUME InitG PROVE Reading /\ Said!Init
  OBVIOUS
<1>1. /\ argv \in Seq(Elements) /\ ordering \in {"PERMUTE", "REQUIRE_ORDER"}
      /\ optind = 1 /\ first_nonopt = 1 /\ last_nonopt = 1 /\ nextchar = <<>>
      /\ returned = NoOption /\ stage = "reading" /\ Len(argv) \in Nat
  BY ArgListsAssumption, LenProperties DEF InitG
<1>2. Reading
  BY <1>1 DEF Reading, InOrder
<1>3. Unread = argv
  BY <1>1, SubSeqFull DEF Unread
<1>4. SubSeq(argv, first_nonopt, last_nonopt - 1) = <<>>
  BY <1>1, SubSeqEmpty
<1>5. argv \in Seq([kind : {"word", "dashes", "short", "long"}, name : Seq(STRING), text : BOOLEAN])
  <2>1. Elements \subseteq [kind : {"word", "dashes", "short", "long"}, name : Seq(STRING), text : BOOLEAN]
    BY DEF Elements
  <2>2. QED BY <1>1, <2>1, SeqMonotonic
<1>6. returned = Said!Option("", <<>>)
  BY <1>1 DEF NoOption, Said!Option
<1>7. Said!Init
  BY <1>1, <1>3, <1>4, <1>5, <1>6 DEF Said!Init
<1>8. QED BY <1>2, <1>7

\* Every call after it.
LEMMA ReadingStep == Reading /\ [NextG]_varsG => Reading' /\ [Said!Next]_(Said!arguments)
<1> SUFFICES ASSUME Reading, [NextG]_varsG PROVE Reading' /\ [Said!Next]_(Said!arguments)
  OBVIOUS
<1>1. CASE NextG
  <2>1. stage = "reading"
    BY <1>1 DEF NextG
  <2>2. CASE ReturnEnd
    BY <2>1, <2>2, EndIsSaid DEF Said!Next
  <2>3. CASE ReturnLong
    BY <2>1, <2>3, LongSaid DEF Said!Next
  <2>4. CASE ReturnShort
    BY <2>1, <2>4, ShortSaid DEF Said!Next
  <2>5. QED BY <1>1, <2>2, <2>3, <2>4 DEF NextG
<1>2. CASE UNCHANGED varsG
  <2>1. Reading'
    BY <1>2 DEF varsG, Reading, InOrder
  <2>2. UNCHANGED Said!arguments
    BY <1>2 DEF varsG, Said!arguments, Unread
  <2>3. QED BY <2>1, <2>2
<1>3. QED BY <1>1, <1>2

\* getopt_long refines Arguments: with the list permuted in place as main calls
\* it, every option is returned with the argument it was given, in the order
\* they were given, and the operands are left behind them in theirs (getopt.c
\* 63-66), whatever the list and the options known.
THEOREM ReadCorrect == SpecG => ReadAsSaid
<1>1. SpecG => Said!Init /\ [][Said!Next]_(Said!arguments)
  BY ReadingStarts, ReadingStep, PTL DEF SpecG
<1>2. QED BY <1>1 DEF ReadAsSaid, Said!Spec
=============================================================================
