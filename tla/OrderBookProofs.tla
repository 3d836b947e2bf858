--------------------------- MODULE OrderBookProofs ---------------------------
(***************************************************************************)
(* The matching loop of OrderBook is correct for every book and order.     *)
(* The conservation and the priority of fills are not inductive by         *)
(* themselves: between two iterations one also has to know that a level    *)
(* that has traded is gone (Exhausted), that the trades account for what   *)
(* the order no longer asks for (FillsAddUp), that a side has finitely     *)
(* many levels (FiniteBook), and that nothing of a finished order is left  *)
(* over (Rested).  That the trades are the reference allocation follows    *)
(* from these parts and from facts about sums over finite sets.  The       *)
(* lemmas about the calls are for all positive prices and quantities: the  *)
(* engine's proofs use them.                                               *)
(***************************************************************************)
EXTENDS OrderBook, SequenceTheorems, FiniteSetTheorems, WellFoundedInduction, TLAPS

\* A side of the book: finitely many levels, none of them empty
Levels(f) == /\ DOMAIN f \subseteq Positive /\ f \in [DOMAIN f -> Positive]
             /\ IsFiniteSet(DOMAIN f)

FiniteBook == \A f \in {bids, asks, before} : IsFiniteSet(DOMAIN f)

\* While the loop goes on, the levels that traded are gone
Exhausted ==
    phase = "loop" => \A i \in DOMAIN trades : trades[i].price \notin DOMAIN Contra(aggSide)

Rested == phase = "idle" => trades = <<>>

\* The running total of the trades' quantities ends at aggQty - remaining
FillsAddUp ==
    \E total \in [0..Len(trades) -> 0..aggQty] :
      /\ total[0] = 0
      /\ \A i \in 1..Len(trades) : total[i] = total[i - 1] + trades[i].qty
      /\ total[Len(trades)] + remaining = aggQty

OBInv == /\ OBTypeOK /\ LevelsConserved /\ PricePriority /\ SweepComplete
         /\ FiniteBook /\ Exhausted /\ FillsAddUp /\ Rested

-----------------------------------------------------------------------------
(* The empty map is a side of the book. *)
LEMMA NoLevelsLevels == Levels(NoLevels)
  BY FS_EmptySet DEF Levels, NoLevels

(* Adding to a level and taking from it leave a well-formed side. *)
LEMMA AddToLevels ==
    ASSUME NEW f, Levels(f), NEW p \in Positive, NEW q \in Positive
    PROVE  Levels(AddTo(f, p, q))
  <1>1. ASSUME NEW r \in DOMAIN f PROVE f[r] + q \in Positive /\ f[r] \in Positive
    BY DEF Levels, Positive
  <1>2. IsFiniteSet(DOMAIN f \cup {p})
    BY FS_AddElement DEF Levels
  <1> QED
    BY <1>1, <1>2 DEF Levels, AddTo

(* Taking quantity from a level never leaves an empty one. *)
LEMMA TakeFromLevels ==
    ASSUME NEW f, Levels(f), NEW p \in DOMAIN f, NEW q \in Positive
    PROVE  /\ Levels(TakeFrom(f, p, q))
           /\ DOMAIN TakeFrom(f, p, q) \subseteq DOMAIN f
           /\ \A r \in DOMAIN f : r # p => /\ r \in DOMAIN TakeFrom(f, p, q)
                                           /\ TakeFrom(f, p, q)[r] = f[r]
           /\ f[p] =< q => p \notin DOMAIN TakeFrom(f, p, q)
           /\ q < f[p] => /\ p \in DOMAIN TakeFrom(f, p, q)
                          /\ TakeFrom(f, p, q)[p] = f[p] - q
  <1>1. f[p] \in Nat /\ q \in Nat /\ q # 0
    BY DEF Levels, Positive
  <1>2. CASE f[p] =< q
    <2>1. IsFiniteSet(DOMAIN f \ {p})
      BY FS_RemoveElement DEF Levels
    <2> QED
      BY <1>1, <1>2, <2>1 DEF Levels, TakeFrom, Erase
  <1>3. CASE q < f[p]
    <2>1. f[p] - q \in Positive
      BY <1>1, <1>3 DEF Positive
    <2>2. TakeFrom(f, p, q) = [f EXCEPT ![p] = f[p] - q]
      BY <1>1, <1>3 DEF TakeFrom
    <2> QED
      BY <2>1, <2>2, <1>1, <1>3 DEF Levels
  <1> QED
    BY <1>1, <1>2, <1>3

(* The type invariant, said of each side. *)
LEMMA OBTypeLevels ==
    ASSUME OBTypeOK, FiniteBook
    PROVE  Levels(bids) /\ Levels(asks) /\ Levels(before)
  BY DEF OBTypeOK, FiniteBook, Levels

(* Without trades the running total is a single zero. *)
LEMMA NothingFilled ==
    ASSUME NEW qty \in Nat
    PROVE  \E total \in [0..Len(<<>>) -> 0..qty] :
             /\ total[0] = 0
             /\ \A i \in 1..Len(<<>>) : total[i] = total[i - 1] + <<>>[i].qty
             /\ total[Len(<<>>)] + qty = qty
  <1> DEFINE zero == [i \in {0} |-> 0]
  <1>1. Len(<<>>) = 0 /\ 0..Len(<<>>) = {0} /\ 1..Len(<<>>) = {}
    OBVIOUS
  <1>2. zero \in [0..Len(<<>>) -> 0..qty] /\ zero[0] = 0 /\ zero[Len(<<>>)] + qty = qty
    BY <1>1
  <1> HIDE DEF zero
  <1> QED
    BY <1>1, <1>2, Zenon

(* The side an order matches against is a side of the book. *)
LEMMA ContraLevels ==
    ASSUME OBTypeOK, FiniteBook, NEW side \in Sides
    PROVE  Levels(Contra(side))
  BY OBTypeLevels DEF Contra, Sides

-----------------------------------------------------------------------------
(* While no market order is in hand, a change of the book alone is harmless. *)
LEMMA BookChangeInv ==
    ASSUME OBInv, phase = "idle", UNCHANGED matchVars, Levels(bids'), Levels(asks')
    PROVE  OBInv'
  <1> USE DEF OBInv
  <1>1. phase' = "idle" /\ trades' = <<>> /\ DOMAIN trades' = {}
    BY DEF Rested, matchVars
  <1>2. OBTypeOK' /\ FiniteBook'
    BY DEF OBTypeOK, FiniteBook, Levels, matchVars
  <1>3. FillsAddUp'
    BY DEF FillsAddUp, matchVars
  <1> QED
    BY <1>1, <1>2, <1>3 DEF LevelsConserved, PricePriority, SweepComplete, Exhausted, Rested

(* A limit order of any positive price and quantity keeps the invariant. *)
LEMMA AddLimitOrderInv ==
    ASSUME OBInv, phase = "idle", UNCHANGED matchVars, NEW side \in Sides,
           NEW price \in Positive, NEW qty \in Positive, AddLimitOrder(side, price, qty)
    PROVE  OBInv'
  <1>1. Levels(bids) /\ Levels(asks)
    BY OBTypeLevels DEF OBInv
  <1>2. Levels(bids') /\ Levels(asks')
    BY <1>1, AddToLevels DEF AddLimitOrder
  <1> QED
    BY <1>2, BookChangeInv

(* A market order of any quantity starts its walk with the invariant. *)
LEMMA AddMarketOrderInv ==
    ASSUME OBInv, NEW side \in Sides, NEW qty \in Nat, AddMarketOrder(side, qty)
    PROVE  OBInv'
  <1> USE DEF OBInv
  <1>1. /\ phase' = "loop" /\ aggSide' = side /\ aggQty' = qty /\ remaining' = qty
        /\ trades' = <<>> /\ before' = Contra(side) /\ bids' = bids /\ asks' = asks
    BY DEF AddMarketOrder, bookVars
  <1>2. Contra(aggSide)' = Contra(side) /\ Levels(Contra(side)) /\ DOMAIN trades' = {}
    BY <1>1, ContraLevels DEF Contra
  <1>3. OBTypeOK' /\ FiniteBook'
    BY <1>1, <1>2 DEF OBTypeOK, FiniteBook, Levels
  <1>4. LevelsConserved'
    BY <1>1, <1>2 DEF LevelsConserved, LeftAt
  <1>5. FillsAddUp'
    BY <1>1, NothingFilled DEF FillsAddUp
  <1> QED
    BY <1>1, <1>2, <1>3, <1>4, <1>5 DEF PricePriority, SweepComplete, Exhausted, Rested

(* Every call of the book's interface keeps the invariant. *)
LEMMA CallInv == ASSUME OBInv, Call PROVE OBInv'
  <1>0. phase = "idle" /\ Prices \subseteq Positive /\ Qtys \subseteq Positive
    BY OrderAssumption DEF Call, Positive
  <1>1. ASSUME NEW side \in Sides, NEW price \in Prices, NEW qty \in Qtys,
               AddLimitOrder(side, price, qty), UNCHANGED matchVars
        PROVE  OBInv'
    BY <1>0, <1>1, AddLimitOrderInv
  <1>2. ASSUME NEW side \in Sides, NEW price \in Prices, NEW qty \in Qtys,
               RemoveQty(side, price, qty), UNCHANGED matchVars
        PROVE  OBInv'
    <2>1. Levels(bids') /\ Levels(asks')
      BY <1>0, <1>2, OBTypeLevels, TakeFromLevels DEF RemoveQty, OBInv
    <2> QED
      BY <1>0, <1>2, <2>1, BookChangeInv
  <1>3. ASSUME ClearBook, UNCHANGED matchVars PROVE OBInv'
    BY <1>0, <1>3, NoLevelsLevels, BookChangeInv DEF ClearBook
  <1>4. ASSUME NEW side \in Sides, NEW qty \in Qtys, AddMarketOrder(side, qty)
        PROVE  OBInv'
    BY <1>0, <1>4, AddMarketOrderInv DEF Positive
  <1> QED
    BY <1>1, <1>2, <1>3, <1>4 DEF Call

-----------------------------------------------------------------------------
(* One iteration of the loop, at the best level p. *)
LEMMA MatchLevelInv == ASSUME OBInv, MatchLevel PROVE OBInv'
  <1> USE DEF OBInv
  <1> DEFINE C == Contra(aggSide)
             D == Contra(aggSide)'
  <1>1. PICK p \in DOMAIN C :
          /\ IsBest(aggSide, p)
          /\ LET level == C[p]
                 fill  == IF remaining < level THEN remaining ELSE level
                 left  == TakeFrom(C, p, fill)
             IN  /\ asks' = IF aggSide = "BUY"  THEN left ELSE asks
                 /\ bids' = IF aggSide = "SELL" THEN left ELSE bids
                 /\ ChargeFill(p, fill)
                 /\ NextOrBreak(p, fill)
    BY DEF MatchLevel
  <1> DEFINE fill == IF remaining < C[p] THEN remaining ELSE C[p]
             new  == [price |-> p, qty |-> fill]
             n    == Len(trades)
  <1>2. /\ phase = "loop" /\ remaining > 0 /\ aggSide' = aggSide
        /\ aggQty' = aggQty /\ before' = before
    BY DEF MatchLevel
  <1>3. /\ aggSide \in Sides /\ Levels(C) /\ Levels(before) /\ remaining \in Nat
        /\ trades \in Seq([price : Positive, qty : Positive]) /\ n \in Nat
    BY OBTypeLevels, ContraLevels DEF OBTypeOK
  <1>4. C[p] \in Positive /\ p \in Positive /\ fill \in Positive
        /\ fill =< C[p] /\ fill =< remaining
    BY <1>2, <1>3 DEF Levels, Positive
  <1>5. D = TakeFrom(C, p, fill)
    BY <1>1, <1>2, <1>3 DEF Contra, Sides
  <1>6. /\ Levels(D) /\ DOMAIN D \subseteq DOMAIN C
        /\ \A r \in DOMAIN C : r # p => r \in DOMAIN D /\ D[r] = C[r]
        /\ C[p] =< fill => p \notin DOMAIN D
        /\ fill < C[p] => p \in DOMAIN D /\ D[p] = C[p] - fill
    BY <1>3, <1>4, <1>5, TakeFromLevels
  <1>7. /\ remaining' = remaining - fill /\ trades' = Append(trades, new)
        /\ phase' = IF C[p] = fill THEN "loop" ELSE "return"
    BY <1>1 DEF ChargeFill, NextOrBreak
  <1>8. new \in [price : Positive, qty : Positive]
    BY <1>4
  <1>9. /\ trades' \in Seq([price : Positive, qty : Positive]) /\ Len(trades') = n + 1
        /\ DOMAIN trades = 1..n /\ DOMAIN trades' = 1..(n + 1)
        /\ trades'[n + 1] = new /\ \A i \in 1..n : trades'[i] = trades[i]
    BY <1>3, <1>7, <1>8
  <1> HIDE DEF C, D, fill, new, n
  <1>10. \A i \in 1..n : trades[i].price \notin DOMAIN C
    BY <1>2, <1>9 DEF Exhausted, C
  <1>11. DOMAIN C \subseteq DOMAIN before /\ p \in DOMAIN before
    BY <1>2 DEF LevelsConserved, C
  <1>12. OBTypeOK' /\ FiniteBook'
    <2>1. Levels(bids)' /\ Levels(asks)'
      BY <1>1, <1>3, <1>5, <1>6, OBTypeLevels DEF fill, C
    <2>2. remaining' \in Nat
      BY <1>3, <1>4, <1>7 DEF Positive
    <2> QED
      BY <1>2, <1>7, <1>9, <2>1, <2>2 DEF OBTypeOK, FiniteBook, Levels
  <1>13. Exhausted'
    <2> SUFFICES ASSUME phase' = "loop", NEW i \in DOMAIN trades'
                 PROVE  trades'[i].price \notin DOMAIN D
      BY DEF Exhausted, D
    <2>1. C[p] = fill /\ p \notin DOMAIN D
      BY <1>4, <1>6, <1>7 DEF Positive
    <2>2. CASE i \in 1..n
      BY <1>6, <1>9, <1>10, <2>2
    <2>3. CASE i = n + 1
      BY <1>9, <2>1, <2>3 DEF new
    <2> QED
      BY <1>3, <1>9, <2>2, <2>3
  <1>14. LevelsConserved'
    <2> DEFINE Left(r) == IF r \in DOMAIN C THEN C[r] ELSE 0
               Rest(r) == IF r \in DOMAIN D THEN D[r] ELSE 0
    <2>1. \A r : LeftAt(r) = Left(r) /\ LeftAt(r)' = Rest(r)
      BY DEF LeftAt, C, D
    <2>2. ASSUME NEW r \in DOMAIN before
          PROVE  \/ /\ Rest(r) = before[r]
                    /\ \A i \in 1..(n + 1) : trades'[i].price # r
                 \/ \E i \in 1..(n + 1) :
                      /\ trades'[i].price = r
                      /\ trades'[i].qty + Rest(r) = before[r]
                      /\ \A j \in 1..(n + 1) : trades'[j].price = r => j = i
      <3>1. \/ /\ Left(r) = before[r]
               /\ \A i \in 1..n : trades[i].price # r
            \/ \E i \in 1..n :
                 /\ trades[i].price = r
                 /\ trades[i].qty + Left(r) = before[r]
                 /\ \A j \in 1..n : trades[j].price = r => j = i
        BY <1>2, <1>9, <2>1, <2>2 DEF LevelsConserved
      <3>2. CASE r = p
        <4>1. C[p] = before[p] /\ \A i \in 1..n : trades[i].price # p
          BY <1>10, <3>1, <3>2
        <4>2. fill + Rest(p) = before[p]
          BY <1>4, <1>6, <4>1 DEF Positive
        <4>3. trades'[n + 1].price = p /\ trades'[n + 1].qty = fill
          BY <1>9 DEF new
        <4>4. \A j \in 1..(n + 1) : trades'[j].price = p => j = n + 1
          BY <1>3, <1>9, <4>1
        <4> QED
          BY <1>3, <3>2, <4>2, <4>3, <4>4
      <3>3. CASE r # p
        <4>1. Rest(r) = Left(r)
          BY <1>6, <3>3
        <4>2. trades'[n + 1].price # r
          BY <1>9, <3>3 DEF new
        <4> QED
          BY <1>3, <1>9, <3>1, <4>1, <4>2
      <3> QED
        BY <3>2, <3>3
    <2>3. \A i \in 1..(n + 1) : trades'[i].price \in DOMAIN before
      <3>1. \A i \in 1..n : trades[i].price \in DOMAIN before
        BY <1>2, <1>9 DEF LevelsConserved
      <3> QED
        BY <1>3, <1>9, <1>11, <3>1 DEF new
    <2>4. DOMAIN D \subseteq DOMAIN before
      BY <1>6, <1>11
    <2> QED
      BY <1>2, <1>9, <2>1, <2>2, <2>3, <2>4 DEF LevelsConserved, D
  <1>15. PricePriority'
    <2> SUFFICES ASSUME NEW i \in DOMAIN trades', NEW r \in DOMAIN before,
                        Better(aggSide, r, trades'[i].price)
                 PROVE  \E j \in DOMAIN trades' :
                          j < i /\ trades'[j] = [price |-> r, qty |-> before[r]]
      BY <1>2 DEF PricePriority, Better
    <2>1. CASE i \in 1..n
      <3>1. PICK j \in 1..n : j < i /\ trades[j] = [price |-> r, qty |-> before[r]]
        BY <1>9, <2>1 DEF PricePriority
      <3> QED
        BY <1>3, <1>9, <3>1
    <2>2. CASE i = n + 1
      <3>1. Better(aggSide, r, p)
        BY <1>9, <2>2 DEF new
      <3>2. r \notin DOMAIN C
        BY <1>1, <3>1 DEF IsBest, C
      <3>3. LeftAt(r) = 0 /\ before[r] \in Positive
        BY <1>3, <3>2 DEF LeftAt, C, Levels
      <3>4. PICK j \in 1..n : trades[j].price = r /\ trades[j].qty + LeftAt(r) = before[r]
        <4>1. LeftAt(r) # before[r]
          BY <3>3 DEF Positive
        <4> QED
          BY <1>2, <1>9, <4>1 DEF LevelsConserved
      <3>5. trades[j] \in [price : Positive, qty : Positive]
        BY <1>3, <3>4, ElementOfSeq, Zenon DEF n
      <3>6. trades[j].qty = before[r]
        BY <3>3, <3>4, <3>5 DEF Positive
      <3>7. trades[j] = [price |-> r, qty |-> before[r]]
        BY <3>4, <3>5, <3>6
      <3> QED
        BY <1>3, <1>9, <2>2, <3>4, <3>7
    <2> QED
      BY <1>3, <1>9, <2>1, <2>2
  <1>16. SweepComplete'
    BY <1>3, <1>4, <1>7 DEF SweepComplete, fill, Positive
  <1>17. Rested'
    BY <1>7 DEF Rested
  <1>18. FillsAddUp'
    <2>1. PICK total \in [0..n -> 0..aggQty] :
            /\ total[0] = 0
            /\ \A i \in 1..n : total[i] = total[i - 1] + trades[i].qty
            /\ total[n] + remaining = aggQty
      BY DEF FillsAddUp, n
    <2> DEFINE next == [i \in 0..(n + 1) |-> IF i = n + 1 THEN total[n] + fill ELSE total[i]]
    <2>2. total[n] \in Nat /\ aggQty \in Nat /\ total[n] + fill \in 0..aggQty
      BY <1>3, <1>4, <2>1 DEF Positive, OBTypeOK
    <2>3. next \in [0..(n + 1) -> 0..aggQty]
      BY <1>3, <2>2
    <2>4. next[0] = 0
      BY <1>3, <2>1
    <2>5. ASSUME NEW i \in 1..(n + 1) PROVE next[i] = next[i - 1] + trades'[i].qty
      <3>1. CASE i = n + 1
        BY <1>3, <1>9, <3>1 DEF new
      <3>2. CASE i \in 1..n
        <4>1. next[i] = total[i] /\ next[i - 1] = total[i - 1]
          BY <1>3, <3>2
        <4> QED
          BY <1>9, <2>1, <3>2, <4>1
      <3> QED
        BY <1>3, <3>1, <3>2
    <2>6. next[n + 1] + remaining' = aggQty
      BY <1>3, <1>4, <1>7, <2>1, <2>2 DEF Positive
    <2> HIDE DEF next
    <2> QED
      BY <1>2, <1>9, <2>3, <2>4, <2>5, <2>6 DEF FillsAddUp
  <1> QED
    BY <1>12, <1>13, <1>14, <1>15, <1>16, <1>17, <1>18

(* Leaving the loop changes nothing but the phase. *)
LEMMA MatchEndInv == ASSUME OBInv, MatchEnd PROVE OBInv'
  <1> USE DEF OBInv
  <1>1. /\ phase = "loop" /\ phase' = "return" /\ bids' = bids /\ asks' = asks
        /\ aggSide' = aggSide /\ aggQty' = aggQty /\ remaining' = remaining
        /\ trades' = trades /\ before' = before
        /\ DOMAIN Contra(aggSide) = {} \/ remaining =< 0
    BY DEF MatchEnd, bookVars
  <1>2. OBTypeOK' /\ FiniteBook'
    BY <1>1 DEF OBTypeOK, FiniteBook
  <1>3. LevelsConserved'
    BY <1>1 DEF LevelsConserved, LeftAt, Contra
  <1>4. PricePriority'
    BY <1>1 DEF PricePriority, Better
  <1>5. SweepComplete'
    BY <1>1 DEF SweepComplete, Contra, OBTypeOK
  <1>6. FillsAddUp'
    BY <1>1 DEF FillsAddUp
  <1> QED
    BY <1>1, <1>2, <1>3, <1>4, <1>5, <1>6 DEF Exhausted, Rested

(* Returning from addMarketOrder keeps the invariant. *)
LEMMA MatchReturnInv == ASSUME OBInv, MatchReturn PROVE OBInv'
  <1> USE DEF OBInv
  <1>1. /\ phase' = "idle" /\ bids' = bids /\ asks' = asks /\ aggSide' = aggSide
        /\ aggQty' = 0 /\ remaining' = 0 /\ trades' = <<>> /\ before' = NoLevels
    BY DEF MatchReturn, bookVars
  <1>2. OBTypeOK' /\ FiniteBook'
    BY <1>1, NoLevelsLevels DEF OBTypeOK, FiniteBook, Levels
  <1>3. FillsAddUp'
    BY <1>1, NothingFilled DEF FillsAddUp
  <1> QED
    BY <1>1, <1>2, <1>3 DEF LevelsConserved, PricePriority, SweepComplete, Exhausted, Rested

(* The invariant holds of the empty book. *)
LEMMA OBInitInv == OBInit => OBInv
  <1> SUFFICES ASSUME OBInit PROVE OBInv
    OBVIOUS
  <1>1. OBTypeOK /\ FiniteBook
    BY NoLevelsLevels DEF OBInit, OBTypeOK, FiniteBook, Levels, Sides
  <1>2. FillsAddUp
    BY NothingFilled DEF OBInit, FillsAddUp
  <1> QED
    BY <1>1, <1>2 DEF OBInit, OBInv, LevelsConserved, PricePriority, SweepComplete,
                      Exhausted, Rested

(* A step that changes nothing of the book keeps the invariant. *)
LEMMA OBStutterInv == ASSUME OBInv, UNCHANGED obVars PROVE OBInv'
  <1>1. FillsAddUp'
    BY DEF OBInv, FillsAddUp, obVars, matchVars
  <1> QED
    BY <1>1 DEF obVars, bookVars, matchVars, OBInv, OBTypeOK, FiniteBook, LevelsConserved, LeftAt,
                PricePriority, Better, SweepComplete, Exhausted, Rested, Contra

-----------------------------------------------------------------------------
(* Sums over finite sets.  Where the usual proof is by induction, these     *)
(* take a smallest set for which the claim fails.                           *)

Pick(s) == CHOOSE x \in s : TRUE

\* g sums f over every subset of S, one picked element at a time
Sums(f, S, g) ==
    g = [s \in SUBSET S |-> IF s = {} THEN 0 ELSE f[Pick(s)] + g[s \ {Pick(s)}]]

(* The sum is the value of one of those functions. *)
LEMMA SumIsChosen ==
    ASSUME NEW f, NEW S
    PROVE  SumOver(f, S) = (CHOOSE g : Sums(f, S, g))[S]
  BY Zenon DEF SumOver, MapThenSumSet, MapThenFoldSet, Sums, Pick

(* A picked element is one of the set. *)
LEMMA PickIn == ASSUME NEW s, s # {} PROVE Pick(s) \in s
  BY DEF Pick

(* A family of subsets of a finite set has a minimal member. *)
LEMMA MinimalSubset ==
    ASSUME NEW S, IsFiniteSet(S), NEW F, F \subseteq SUBSET S, F # {}
    PROVE  \E t \in F : \A s \in F : s \subseteq t => s = t
  <1>1. IsWellFoundedOn(StrictSubsetOrdering(S), SUBSET S)
    BY FS_StrictSubsetOrderingWellFounded, FS_FiniteSubsetsOfFinite
  <1>2. PICK t \in F : \A s \in F : <<s, t>> \notin StrictSubsetOrdering(S)
    BY <1>1, WFMin
  <1>3. ASSUME NEW s \in F, s \subseteq t, s # t PROVE FALSE
    BY <1>2, <1>3 DEF StrictSubsetOrdering
  <1> QED
    BY <1>3

(* Those functions agree. *)
LEMMA SumsAgree ==
    ASSUME NEW f, NEW S, IsFiniteSet(S), NEW g, NEW h, Sums(f, S, g), Sums(f, S, h)
    PROVE  g[S] = h[S]
  <1> DEFINE F == {s \in SUBSET S : g[s] # h[s]}
  <1> SUFFICES ASSUME F # {} PROVE FALSE
    OBVIOUS
  <1>1. PICK t \in F : \A s \in F : s \subseteq t => s = t
    <2>1. F \subseteq SUBSET S
      OBVIOUS
    <2> HIDE DEF F
    <2> QED
      BY <2>1, MinimalSubset
  <1>2. /\ g[t] = IF t = {} THEN 0 ELSE f[Pick(t)] + g[t \ {Pick(t)}]
        /\ h[t] = IF t = {} THEN 0 ELSE f[Pick(t)] + h[t \ {Pick(t)}]
    BY DEF Sums
  <1>3. t # {}
    BY <1>2
  <1>4. g[t \ {Pick(t)}] = h[t \ {Pick(t)}]
    BY <1>1, <1>3, PickIn
  <1> QED
    BY <1>2, <1>3, <1>4

(* The equation that defines the sum. *)
LEMMA SumEquation ==
    ASSUME NEW f, NEW S, IsFiniteSet(S)
    PROVE  SumOver(f, S) = IF S = {} THEN 0 ELSE f[Pick(S)] + SumOver(f, S \ {Pick(S)})
  <1> DEFINE Next(s) == IF s = {} THEN 0 ELSE f[Pick(s)] + SumOver(f, s \ {Pick(s)})
             F == {s \in SUBSET S : SumOver(f, s) # Next(s)}
  <1> SUFFICES ASSUME F # {} PROVE FALSE
    OBVIOUS
  <1>1. PICK t \in F : \A s \in F : s \subseteq t => s = t
    <2>1. F \subseteq SUBSET S
      OBVIOUS
    <2> HIDE DEF F
    <2> QED
      BY <2>1, MinimalSubset
  <1>2. t \subseteq S /\ IsFiniteSet(t) /\ SumOver(f, t) # Next(t)
    BY FS_Subset
  <1>3. \A s \in SUBSET t : s # t => SumOver(f, s) = Next(s)
    BY <1>1, <1>2
  <1> DEFINE h == [s \in SUBSET t |-> Next(s)]
  <1>4. ASSUME NEW s \in SUBSET t, s # {} PROVE h[s \ {Pick(s)}] = SumOver(f, s \ {Pick(s)})
    <2>1. s \ {Pick(s)} \in SUBSET t /\ s \ {Pick(s)} # t
      BY <1>4, PickIn
    <2>2. SumOver(f, s \ {Pick(s)}) = Next(s \ {Pick(s)})
      BY <1>3, <2>1
    <2> HIDE DEF Next
    <2> QED
      BY <2>1, <2>2
  <1>5. Sums(f, t, h)
    <2>1. \A s \in SUBSET t : Next(s) = IF s = {} THEN 0 ELSE f[Pick(s)] + h[s \ {Pick(s)}]
      BY <1>4
    <2> HIDE DEF Next
    <2>2. h = [s \in SUBSET t |-> IF s = {} THEN 0 ELSE f[Pick(s)] + h[s \ {Pick(s)}]]
      BY <2>1
    <2> QED
      BY <2>2, Zenon DEF Sums
  <1>6. h[t] = Next(t)
    OBVIOUS
  <1> HIDE DEF h, Next
  <1>7. Sums(f, t, CHOOSE g : Sums(f, t, g))
    BY <1>5, Zenon
  <1>8. SumOver(f, t) = h[t]
    BY <1>2, <1>5, <1>7, SumsAgree, SumIsChosen
  <1> QED
    BY <1>2, <1>6, <1>8

(* A sum of naturals is one. *)
LEMMA SumNat ==
    ASSUME NEW f, NEW S, IsFiniteSet(S), \A x \in S : f[x] \in Nat
    PROVE  SumOver(f, S) \in Nat
  <1> DEFINE F == {s \in SUBSET S : SumOver(f, s) \notin Nat}
  <1> SUFFICES ASSUME F # {} PROVE FALSE
    OBVIOUS
  <1>1. PICK t \in F : \A s \in F : s \subseteq t => s = t
    <2>1. F \subseteq SUBSET S
      OBVIOUS
    <2> HIDE DEF F
    <2> QED
      BY <2>1, MinimalSubset
  <1>2. t \subseteq S /\ IsFiniteSet(t) /\ SumOver(f, t) \notin Nat
    BY FS_Subset
  <1>3. t # {} /\ SumOver(f, t) = f[Pick(t)] + SumOver(f, t \ {Pick(t)})
    <2>1. SumOver(f, t) = IF t = {} THEN 0 ELSE f[Pick(t)] + SumOver(f, t \ {Pick(t)})
      BY <1>2, SumEquation
    <2>2. 0 \in Nat
      OBVIOUS
    <2> QED
      BY <1>2, <2>1, <2>2, Zenon
  <1>4. Pick(t) \in t /\ f[Pick(t)] \in Nat
    BY <1>2, <1>3, PickIn
  <1>5. SumOver(f, t \ {Pick(t)}) \in Nat
    BY <1>1, <1>2, <1>4
  <1> QED
    BY <1>2, <1>3, <1>4, <1>5

(* Any element may be added last. *)
LEMMA SumRemove ==
    ASSUME NEW f, NEW S, IsFiniteSet(S), \A x \in S : f[x] \in Nat, NEW a \in S
    PROVE  /\ SumOver(f, S) = f[a] + SumOver(f, S \ {a})
           /\ SumOver(f, S \ {a}) \in Nat
  <1> DEFINE Off(s, x) == SumOver(f, s) # f[x] + SumOver(f, s \ {x})
             F == {s \in SUBSET S : \E x \in s : Off(s, x)}
  <1>1. SumOver(f, S \ {a}) \in Nat
    BY FS_Subset, SumNat
  <1> SUFFICES ASSUME F # {} PROVE FALSE
    BY <1>1
  <1>2. PICK t \in F : \A s \in F : s \subseteq t => s = t
    <2>1. F \subseteq SUBSET S
      OBVIOUS
    <2> HIDE DEF F
    <2> QED
      BY <2>1, MinimalSubset
  <1>3. PICK x \in t : Off(t, x)
    OBVIOUS
  <1>4. t \subseteq S /\ IsFiniteSet(t)
    BY FS_Subset
  <1>5. \A s \in SUBSET t : s # t => \A y \in s : ~Off(s, y)
    BY <1>2, <1>4
  <1> DEFINE p == Pick(t)
             u == (t \ {p}) \ {x}
  <1>6. p \in t /\ ~Off(t, p)
    BY <1>4, SumEquation, PickIn
  <1> HIDE DEF p
  <1>7. p # x
    BY <1>3, <1>6
  <1>8. SumOver(f, t \ {p}) = f[x] + SumOver(f, u)
    BY <1>5, <1>6, <1>7
  <1>9. SumOver(f, t \ {x}) = f[p] + SumOver(f, u)
    <2>1. t \ {x} \in SUBSET t /\ t \ {x} # t /\ p \in t \ {x} /\ (t \ {x}) \ {p} = u
      BY <1>6, <1>7
    <2> QED
      BY <1>5, <2>1
  <1>10. f[x] \in Nat /\ f[p] \in Nat /\ SumOver(f, u) \in Nat
    <2>1. IsFiniteSet(u) /\ \A y \in u : f[y] \in Nat
      BY <1>4, FS_Subset
    <2> QED
      BY <1>4, <1>6, <2>1, SumNat
  <1> HIDE DEF u
  <1>11. SumOver(f, t) = f[p] + SumOver(f, t \ {p})
    BY <1>6
  <1> QED
    BY <1>3, <1>8, <1>9, <1>10, <1>11

(* More elements give no smaller a sum, and zeros the same one. *)
LEMMA SumSubset ==
    ASSUME NEW f, NEW S, IsFiniteSet(S), \A x \in S : f[x] \in Nat, NEW A, A \subseteq S
    PROVE  /\ SumOver(f, A) \in Nat /\ SumOver(f, S) \in Nat
           /\ SumOver(f, A) =< SumOver(f, S)
           /\ (\A x \in S \ A : f[x] = 0) => SumOver(f, A) = SumOver(f, S)
  <1> DEFINE Right(s) == /\ SumOver(f, A) =< SumOver(f, s)
                         /\ (\A x \in s \ A : f[x] = 0) => SumOver(f, A) = SumOver(f, s)
             F == {s \in SUBSET S : A \subseteq s /\ ~Right(s)}
  <1>1. SumOver(f, A) \in Nat /\ SumOver(f, S) \in Nat
    BY FS_Subset, SumNat
  <1> SUFFICES ASSUME F # {} PROVE FALSE
    BY <1>1
  <1>2. PICK t \in F : \A s \in F : s \subseteq t => s = t
    <2>1. F \subseteq SUBSET S
      OBVIOUS
    <2> HIDE DEF F
    <2> QED
      BY <2>1, MinimalSubset
  <1>3. t \subseteq S /\ IsFiniteSet(t) /\ A \subseteq t /\ ~Right(t)
    BY FS_Subset
  <1>4. A # t
    BY <1>1, <1>3
  <1>5. PICK x \in t : x \notin A
    BY <1>3, <1>4
  <1>6. Right(t \ {x})
    <2>1. t \ {x} \in SUBSET S /\ A \subseteq t \ {x} /\ t \ {x} # t
      BY <1>3, <1>5
    <2> QED
      BY <1>2, <2>1
  <1>7. /\ SumOver(f, t) = f[x] + SumOver(f, t \ {x})
        /\ SumOver(f, t \ {x}) \in Nat /\ f[x] \in Nat
    BY <1>3, SumRemove
  <1>8. SumOver(f, A) =< SumOver(f, t)
    BY <1>1, <1>6, <1>7
  <1>9. ASSUME \A y \in t \ A : f[y] = 0 PROVE SumOver(f, A) = SumOver(f, t)
    <2>1. f[x] = 0 /\ SumOver(f, A) = SumOver(f, t \ {x})
      BY <1>5, <1>6, <1>9
    <2> QED
      BY <1>7, <2>1
  <1> QED
    BY <1>3, <1>8, <1>9

(* A set of naturals has a smallest element. *)
LEMMA LeastExists ==
    ASSUME NEW S, S \subseteq Nat, S # {}
    PROVE  \E m \in S : \A k \in S : m =< k
  <1>1. PICK m \in S : \A k \in S : <<k, m>> \notin OpToRel(<, Nat)
    BY NatLessThanWellFounded, WFMin
  <1>2. ASSUME NEW k \in S, k < m PROVE <<k, m>> \in OpToRel(<, Nat)
    BY <1>2 DEF OpToRel
  <1>3. \A k \in S : ~(k < m)
    BY <1>1, <1>2, Zenon
  <1> QED
    BY <1>3

Summable(f, S) == IsFiniteSet(S) /\ \A x \in S : f[x] \in Nat

(* The same for a summable function, as the walk's proof cites it. *)
LEMMA SumWithout ==
    ASSUME NEW f, NEW S, Summable(f, S), NEW a \in S
    PROVE  SumOver(f, S) = f[a] + SumOver(f, S \ {a})
  <1>1. IsFiniteSet(S) /\ \A x \in S : f[x] \in Nat
    BY DEF Summable
  <1> QED
    BY <1>1, SumRemove

\* The first k of the prices P
First(P, k) == {P[j] : j \in 1..k}

\* total adds up f along the first n prices, which differ
Accumulates(total, f, P, n) ==
    /\ total[0] = 0
    /\ \A i, j \in 1..n : P[i] = P[j] => i = j
    /\ \A i \in 1..n : f[P[i]] \in Nat /\ total[i] = total[i - 1] + f[P[i]]

\* ... and it is the sum
IsSum(total, f, P, k) == IsFiniteSet(First(P, k)) /\ SumOver(f, First(P, k)) = total[k]

(* Summing f over the first k of n different prices gives the k-th running  *)
(* total.                                                                   *)
LEMMA RunningTotal ==
    ASSUME NEW n \in Nat, NEW P, NEW f, NEW total, Accumulates(total, f, P, n)
    PROVE  \A k \in 0..n : IsSum(total, f, P, k)
  <1> USE DEF Accumulates, IsSum
  <1> DEFINE Right(k) == IsFiniteSet(First(P, k)) /\ SumOver(f, First(P, k)) = total[k]
             F == {k \in 0..n : ~Right(k)}
  <1> SUFFICES ASSUME F # {} PROVE FALSE
    OBVIOUS
  <1>1. PICK k \in F : \A j \in F : k =< j
    <2>1. F \subseteq Nat
      OBVIOUS
    <2> HIDE DEF F
    <2> QED
      BY <2>1, LeastExists
  <1>2. k \in 0..n /\ ~Right(k)
    OBVIOUS
  <1>3. k # 0
    <2>1. First(P, 0) = {}
      BY DEF First
    <2> QED
      BY <1>2, <2>1, FS_EmptySet, SumEquation
  <1>4. k \in 1..n /\ k - 1 \in 0..n /\ k \in Nat /\ k - 1 < k
    BY <1>2, <1>3
  <1>5. Right(k - 1)
    BY <1>1, <1>4
  <1>6. First(P, k) = First(P, k - 1) \cup {P[k]}
    <2>1. 1..k = 1..(k - 1) \cup {k}
      BY <1>4
    <2> QED
      BY <2>1 DEF First
  <1>7. P[k] \notin First(P, k - 1)
    <2> SUFFICES ASSUME NEW j \in 1..(k - 1), P[j] = P[k] PROVE FALSE
      BY DEF First
    <2>1. j \in 1..n /\ j # k
      BY <1>4
    <2> QED
      BY <1>4, <2>1
  <1>8. \A x \in First(P, k) : f[x] \in Nat
    <2> SUFFICES ASSUME NEW j \in 1..k PROVE f[P[j]] \in Nat
      BY DEF First
    <2>1. j \in 1..n
      BY <1>4
    <2> QED
      BY <2>1
  <1>9. IsFiniteSet(First(P, k))
    BY <1>5, <1>6, FS_AddElement
  <1>10. First(P, k) \ {P[k]} = First(P, k - 1) /\ P[k] \in First(P, k)
    BY <1>6, <1>7
  <1>11. SumOver(f, First(P, k)) = f[P[k]] + SumOver(f, First(P, k - 1))
         /\ SumOver(f, First(P, k - 1)) \in Nat
    BY <1>8, <1>9, <1>10, SumRemove
  <1>12. f[P[k]] \in Nat /\ total[k] = total[k - 1] + f[P[k]]
    BY <1>4
  <1> QED
    BY <1>2, <1>5, <1>9, <1>11, <1>12

(* The smaller of two numbers, or zero. *)
LEMMA CutAtZero ==
    ASSUME NEW a \in Int, NEW b \in Int
    PROVE  Max({0, Min({a, b})}) = IF a =< b THEN (IF a =< 0 THEN 0 ELSE a)
                                             ELSE (IF b =< 0 THEN 0 ELSE b)
  <1>1. Min({a, b}) = IF a =< b THEN a ELSE b
    <2> DEFINE m == IF a =< b THEN a ELSE b
    <2>1. m \in {a, b} /\ \A y \in {a, b} : m =< y
      OBVIOUS
    <2>2. \A x \in {a, b} : (\A y \in {a, b} : x =< y) => x = m
      OBVIOUS
    <2> QED
      BY <2>1, <2>2 DEF Min
  <1> DEFINE c == IF a =< b THEN a ELSE b
             m == IF c =< 0 THEN 0 ELSE c
  <1>2. c \in Int
    OBVIOUS
  <1> HIDE DEF c
  <1>3. Max({0, c}) = m
    <2>1. m \in {0, c} /\ \A y \in {0, c} : m >= y
      BY <1>2
    <2>2. \A x \in {0, c} : (\A y \in {0, c} : x >= y) => x = m
      BY <1>2
    <2> QED
      BY <2>1, <2>2 DEF Max
  <1> QED
    BY <1>1, <1>3 DEF c

-----------------------------------------------------------------------------
(* The walk meets its reference *)

(* Price priority, for one trade and one level. *)
LEMMA PriorityOf ==
    ASSUME OBInv, NEW i \in DOMAIN trades, NEW p \in DOMAIN before,
           Better(aggSide, p, trades[i].price)
    PROVE  \E j \in DOMAIN trades :
             j < i /\ trades[j] = [price |-> p, qty |-> before[p]] /\ trades[j].price = p
  <1>1. PICK j \in DOMAIN trades : j < i /\ trades[j] = [price |-> p, qty |-> before[p]]
    BY DEF OBInv, PricePriority
  <1> QED
    BY <1>1

\* The prices of the trades, in their order
Traded == [i \in 1..Len(trades) |-> trades[i].price]

(* Trades go from better to worse levels, and all but the last take theirs  *)
(* whole.                                                                   *)
LEMMA TradesInOrder ==
    ASSUME OBInv, phase # "idle"
    PROVE  /\ Len(trades) \in Nat /\ DOMAIN trades = 1..Len(trades)
           /\ \A i \in 1..Len(trades) :
                /\ trades[i] \in [price : Positive, qty : Positive]
                /\ Traded[i] = trades[i].price /\ Traded[i] \in DOMAIN before
                /\ Traded[i] \in Positive /\ before[Traded[i]] \in Positive
                /\ trades[i].qty + LeftAt(Traded[i]) = before[Traded[i]]
                /\ LeftAt(Traded[i]) \in Nat
           /\ \A i, j \in 1..Len(trades) : Traded[i] = Traded[j] => i = j
           /\ \A i, j \in 1..Len(trades) : j < i =>
                Better(aggSide, Traded[j], Traded[i]) /\ trades[j].qty = before[Traded[j]]
  <1> DEFINE n == Len(trades)
  <1>1. /\ trades \in Seq([price : Positive, qty : Positive]) /\ n \in Nat
        /\ DOMAIN trades = 1..n /\ aggSide \in Sides
    BY DEF OBInv, OBTypeOK
  <1>2. Levels(before) /\ Levels(Contra(aggSide))
    BY <1>1, OBTypeLevels, ContraLevels DEF OBInv
  <1>3. \A i \in 1..n : trades[i] \in [price : Positive, qty : Positive]
    BY <1>1, ElementOfSeq
  <1> HIDE DEF n
  <1>4. ASSUME NEW i \in 1..n
        PROVE  /\ Traded[i] = trades[i].price /\ Traded[i] \in DOMAIN before
               /\ Traded[i] \in Positive /\ before[Traded[i]] \in Positive
               /\ trades[i].qty + LeftAt(Traded[i]) = before[Traded[i]]
               /\ LeftAt(Traded[i]) \in Nat
               /\ \A j \in 1..n : Traded[i] = Traded[j] => i = j
    <2>1. Traded[i] = trades[i].price /\ \A j \in 1..n : Traded[j] = trades[j].price
      BY DEF Traded, n
    <2>2. trades[i].price \in DOMAIN before
      BY <1>1 DEF OBInv, LevelsConserved
    <2>3. PICK k \in 1..n :
            /\ trades[k].price = trades[i].price
            /\ trades[k].qty + LeftAt(trades[i].price) = before[trades[i].price]
            /\ \A j \in 1..n : trades[j].price = trades[i].price => j = k
      BY <1>1, <2>2 DEF OBInv, LevelsConserved
    <2>4. k = i
      BY <2>3
    <2>5. LeftAt(trades[i].price) \in Nat
      BY <1>2 DEF LeftAt, Levels, Positive
    <2>6. trades[i].price \in Positive /\ before[trades[i].price] \in Positive
      BY <1>2, <1>3, <2>2 DEF Levels
    <2> QED
      BY <2>1, <2>2, <2>3, <2>4, <2>5, <2>6
  <1>5. ASSUME NEW i \in 1..n, NEW j \in 1..n, j < i
        PROVE  Better(aggSide, Traded[j], Traded[i]) /\ trades[j].qty = before[Traded[j]]
    <2>1. ~Better(aggSide, Traded[i], Traded[j])
      <3> SUFFICES ASSUME Better(aggSide, Traded[i], Traded[j]) PROVE FALSE
        OBVIOUS
      <3>1. PICK k \in 1..n : k < j /\ trades[k].price = Traded[i]
        <4>1. PICK p \in DOMAIN before : p = Traded[i]
          BY <1>4
        <4>2. Better(aggSide, p, trades[j].price) /\ j \in DOMAIN trades
          BY <1>1, <1>4, <4>1
        <4>3. \E k \in DOMAIN trades : k < j /\ trades[k].price = p
          BY <4>2, PriorityOf
        <4> QED
          BY <1>1, <4>1, <4>3
      <3>2. k = i
        BY <1>4, <3>1
      <3> QED
        BY <1>1, <1>5, <3>1, <3>2
    <2>2. Traded[i] # Traded[j]
      BY <1>1, <1>4, <1>5
    <2>3. Better(aggSide, Traded[j], Traded[i])
      BY <1>4, <2>1, <2>2 DEF Better, Positive
    <2>4. PICK k \in 1..n : trades[k] = [price |-> Traded[j], qty |-> before[Traded[j]]]
      BY <1>1, <1>4, <2>3, SMTT(60) DEF OBInv, PricePriority
    <2>5. k = j
      BY <1>4, <2>4
    <2> QED
      BY <2>3, <2>4, <2>5
  <1> QED
    BY <1>1, <1>3, <1>4, <1>5 DEF n

(* Ahead of a level that traded are exactly the levels that traded before.  *)
LEMMA AheadOfTrade ==
    ASSUME OBInv, phase # "idle", NEW i \in 1..Len(trades)
    PROVE  {q \in DOMAIN before : Better(aggSide, q, Traded[i])} = First(Traded, i - 1)
  <1> DEFINE n == Len(trades)
  <1>1. /\ n \in Nat /\ DOMAIN trades = 1..n
        /\ \A j \in 1..n : Traded[j] = trades[j].price /\ Traded[j] \in DOMAIN before
        /\ \A j \in 1..n : j < i => Better(aggSide, Traded[j], Traded[i])
    BY TradesInOrder
  <1> HIDE DEF n
  <1>2. ASSUME NEW q \in DOMAIN before, Better(aggSide, q, Traded[i])
        PROVE  q \in First(Traded, i - 1)
    <2>1. PICK j \in 1..n : j < i /\ trades[j] = [price |-> q, qty |-> before[q]]
      BY <1>1, <1>2 DEF OBInv, PricePriority, n
    <2>2. j \in 1..(i - 1) /\ Traded[j] = q
      BY <1>1, <2>1 DEF n
    <2> QED
      BY <2>2 DEF First
  <1>3. ASSUME NEW j \in 1..(i - 1)
        PROVE  Traded[j] \in DOMAIN before /\ Better(aggSide, Traded[j], Traded[i])
    <2>1. j \in 1..n /\ j < i
      BY <1>1 DEF n
    <2> QED
      BY <1>1, <2>1
  <1> QED
    BY <1>2, <1>3 DEF First

(* A finished walk has given every level what it was owed.                  *)
LEMMA OwedIsTraded ==
    ASSUME OBInv, phase = "return", NEW total \in [0..Len(trades) -> 0..aggQty],
           total[0] = 0, \A i \in 1..Len(trades) : total[i] = total[i - 1] + trades[i].qty,
           total[Len(trades)] + remaining = aggQty
    PROVE  /\ \A i \in 1..Len(trades) : Owed[Traded[i]] = trades[i].qty
           /\ \A p \in DOMAIN before \ First(Traded, Len(trades)) : Owed[p] = 0
  <1> DEFINE n == Len(trades)
  <1>1. /\ n \in Nat /\ DOMAIN trades = 1..n /\ remaining \in Nat /\ aggQty \in Nat
        /\ Levels(before) /\ aggSide \in Sides
    BY TradesInOrder, OBTypeLevels DEF OBInv, OBTypeOK
  <1>2. \A i \in 1..n : /\ trades[i].qty \in Positive /\ before[Traded[i]] \in Positive
                        /\ Traded[i] = trades[i].price /\ Traded[i] \in DOMAIN before
                        /\ Traded[i] \in Positive
                        /\ trades[i].qty + LeftAt(Traded[i]) = before[Traded[i]]
                        /\ LeftAt(Traded[i]) \in Nat
    BY TradesInOrder
  <1>3. /\ \A i, j \in 1..n : Traded[i] = Traded[j] => i = j
        /\ \A i, j \in 1..n : j < i => trades[j].qty = before[Traded[j]]
    BY TradesInOrder
  <1>4. \A p \in DOMAIN before : before[p] \in Nat /\ p \in Positive /\ p \in Nat /\ before[p] # 0
    BY <1>1 DEF Levels, Positive
  <1>5. /\ \A k \in 0..n : total[k] \in Nat /\ total[k] =< aggQty
        /\ total[0] = 0 /\ total[n] + remaining = aggQty
        /\ \A i \in 1..n : total[i] = total[i - 1] + trades[i].qty
    BY <1>1, SMTT(60)
  <1>6. remaining > 0 => \A p \in DOMAIN before : LeftAt(p) = 0
    BY DEF OBInv, SweepComplete, LeftAt
  <1> HIDE DEF n
  \* what rests ahead of the i-th level to trade
  <1>7. ASSUME NEW i \in 1..n
        PROVE  SumOver(before, First(Traded, i - 1)) = total[i - 1]
    <2>1. i - 1 \in Nat /\ i - 1 \in 0..(i - 1) /\ \A j \in 1..(i - 1) : j \in 1..n /\ j < i
      BY <1>1
    <2>2. \A j, k \in 1..(i - 1) : Traded[j] = Traded[k] => j = k
      BY <1>3, <2>1
    <2>3. \A j \in 1..(i - 1) : /\ before[Traded[j]] \in Nat
                                /\ total[j] = total[j - 1] + before[Traded[j]]
      BY <1>2, <1>3, <1>4, <1>5, <2>1
    <2>4. PICK m \in Nat : m = i - 1
      BY <2>1
    <2>5. Accumulates(total, before, Traded, m)
      BY <1>5, <2>2, <2>3, <2>4 DEF Accumulates
    <2>6. IsSum(total, before, Traded, m)
      BY <2>5, RunningTotal
    <2> QED
      BY <2>4, <2>6 DEF IsSum
  <1>8. ASSUME NEW p \in DOMAIN before
        PROVE  /\ Ahead(p) \in Nat
               /\ Owed[p] = IF before[p] =< aggQty - Ahead(p)
                            THEN before[p]
                            ELSE IF aggQty - Ahead(p) =< 0 THEN 0 ELSE aggQty - Ahead(p)
    <2>1. Ahead(p) \in Nat
      <3> DEFINE A == {q \in DOMAIN before : Better(aggSide, q, p)}
      <3>1. IsFiniteSet(A) /\ \A x \in A : before[x] \in Nat
        BY <1>1, <1>4, FS_Subset DEF Levels
      <3> QED
        BY <3>1, SumNat DEF Ahead
    <2>2. Owed[p] = Max({0, Min({before[p], aggQty - Ahead(p)})})
      BY DEF Owed
    <2>3. before[p] \in Nat /\ before[p] # 0 /\ aggQty - Ahead(p) \in Int
      BY <1>1, <1>4, <2>1
    <2>4. PICK b \in Int : b = aggQty - Ahead(p)
      BY <2>3
    <2>5. PICK a \in Int : a = before[p]
      BY <2>3
    <2>6. Max({0, Min({a, b})}) = IF a =< b THEN (IF a =< 0 THEN 0 ELSE a)
                                           ELSE (IF b =< 0 THEN 0 ELSE b)
      BY CutAtZero
    <2>7. Owed[p] = Max({0, Min({a, b})})
      BY <2>2, <2>4, <2>5
    <2> QED
      BY <2>1, <2>3, <2>4, <2>5, <2>6, <2>7
  <1>9. ASSUME NEW i \in 1..n PROVE Owed[Traded[i]] = trades[i].qty
    <2>1. Traded[i] \in DOMAIN before /\ Ahead(Traded[i]) = total[i - 1]
      BY <1>2, <1>7, AheadOfTrade DEF Ahead, n
    <2>2. /\ i - 1 \in 0..n /\ i \in 0..n /\ total[i] = total[i - 1] + trades[i].qty
          /\ total[i] \in Nat /\ total[i - 1] \in Nat /\ total[i] =< aggQty
      BY <1>1, <1>5
    <2>3. trades[i].qty = before[Traded[i]] \/ total[i] = aggQty
      <3>1. CASE i < n
        <4>1. n \in 1..n
          BY <1>1, <3>1
        <4> QED
          BY <1>3, <3>1, <4>1
      <3>2. CASE i = n /\ remaining > 0
        BY <1>2, <1>6, <3>2, <2>1 DEF Positive
      <3>3. CASE i = n /\ remaining = 0
        BY <1>1, <1>5, <2>2, <3>3
      <3> QED
        BY <1>1, <3>1, <3>2, <3>3
    <2>4. trades[i].qty \in Nat /\ trades[i].qty # 0 /\ trades[i].qty =< before[Traded[i]]
      BY <1>2 DEF Positive
    <2>5. PICK q \in DOMAIN before : q = Traded[i]
      BY <2>1
    <2>6. PICK b : b = aggQty - Ahead(q)
      OBVIOUS
    <2>7. /\ Owed[q] = IF before[q] =< b THEN before[q] ELSE IF b =< 0 THEN 0 ELSE b
          /\ b = aggQty - total[i - 1] /\ before[q] \in Nat
      BY <1>4, <1>8, <2>1, <2>5, <2>6
    <2>8. Owed[q] = trades[i].qty
      <3>1. /\ b = aggQty - total[i - 1] /\ aggQty \in Nat /\ total[i - 1] \in Nat
            /\ total[i - 1] + trades[i].qty =< aggQty
        BY <1>1, <2>2, <2>7
      <3>2. CASE trades[i].qty = before[q]
        BY <2>4, <2>7, <3>1, <3>2
      <3>3. CASE total[i] = aggQty
        <4>1. b = trades[i].qty
          BY <2>2, <2>4, <3>1, <3>3
        <4> QED
          BY <2>4, <2>5, <2>7, <4>1
      <3> QED
        BY <2>3, <2>5, <3>2, <3>3
    <2> QED
      BY <2>5, <2>8
  <1>10. ASSUME NEW p \in DOMAIN before, p \notin First(Traded, n) PROVE Owed[p] = 0
    <2>1. \A i \in 1..n : trades[i].price # p
      BY <1>2, <1>10 DEF First
    <2>2. LeftAt(p) = before[p]
      BY <1>1, <2>1 DEF OBInv, LevelsConserved
    <2>3. remaining = 0 /\ total[n] = aggQty
      BY <1>1, <1>4, <1>5, <1>6, <2>2
    <2>4. \A i \in 1..n : Better(aggSide, Traded[i], p)
      <3> SUFFICES ASSUME NEW i \in 1..n PROVE Better(aggSide, Traded[i], p)
        OBVIOUS
      <3>1. ~Better(aggSide, p, trades[i].price)
        <4> SUFFICES ASSUME Better(aggSide, p, trades[i].price) PROVE FALSE
          OBVIOUS
        <4>1. i \in DOMAIN trades
          BY <1>1
        <4>2. PICK j \in DOMAIN trades : trades[j].price = p
          BY <4>1, PriorityOf
        <4> QED
          BY <1>1, <2>1, <4>2
      <3> QED
        BY <1>2, <1>4, <2>1, <3>1 DEF Better, Positive
    <2> DEFINE A == {q \in DOMAIN before : Better(aggSide, q, p)}
    <2>5. IsFiniteSet(A) /\ (\A x \in A : before[x] \in Nat) /\ First(Traded, n) \subseteq A
      <3>1. First(Traded, n) \subseteq A
        BY <1>2, <2>4 DEF First
      <3> QED
        BY <1>1, <1>4, <3>1, FS_Subset DEF Levels
    <2>6. Ahead(p) \in Nat /\ SumOver(before, First(Traded, n)) =< Ahead(p)
          /\ SumOver(before, First(Traded, n)) \in Nat
      BY <2>5, SumSubset DEF Ahead
    <2>7. aggQty =< Ahead(p)
      <3>1. CASE n = 0
        BY <1>5, <2>3, <2>6, <3>1
      <3>2. CASE n # 0
        <4>1. n \in 1..n /\ n - 1 \in 0..n
          BY <1>1, <3>2
        <4>2. Traded[n] \in First(Traded, n) /\ First(Traded, n) \ {Traded[n]} = First(Traded, n - 1)
          <5>1. 1..n = 1..(n - 1) \cup {n} /\ n \notin 1..(n - 1)
            BY <1>1, <4>1
          <5>2. \A j \in 1..(n - 1) : Traded[j] # Traded[n]
            BY <1>3, <4>1, <5>1
          <5> QED
            BY <5>1, <5>2 DEF First
        <4>3. IsFiniteSet(First(Traded, n)) /\ \A x \in First(Traded, n) : before[x] \in Nat
          BY <2>5, FS_Subset
        <4>4. SumOver(before, First(Traded, n))
                = before[Traded[n]] + SumOver(before, First(Traded, n - 1))
          <5>1. PICK T : T = First(Traded, n)
            OBVIOUS
          <5>2. PICK a \in T : a = Traded[n]
            BY <4>2, <5>1
          <5>3. Summable(before, T)
            BY <4>3, <5>1 DEF Summable
          <5>4. SumOver(before, T) = before[a] + SumOver(before, T \ {a})
            BY <5>3, SumWithout
          <5> QED
            BY <4>2, <5>1, <5>2, <5>4
        <4>5. SumOver(before, First(Traded, n - 1)) = total[n - 1]
          BY <1>7, <4>1
        <4>6. total[n] = total[n - 1] + trades[n].qty /\ total[n - 1] \in Nat
              /\ trades[n].qty \in Nat /\ before[Traded[n]] \in Nat
              /\ trades[n].qty =< before[Traded[n]]
          <5>1. /\ trades[n].qty \in Positive /\ before[Traded[n]] \in Positive
                /\ trades[n].qty + LeftAt(Traded[n]) = before[Traded[n]]
                /\ LeftAt(Traded[n]) \in Nat
            BY <1>2, <4>1
          <5>2. total[n] = total[n - 1] + trades[n].qty /\ total[n - 1] \in Nat
            BY <1>5, <4>1
          <5> QED
            BY <5>1, <5>2 DEF Positive
        <4> QED
          BY <1>1, <2>3, <2>6, <4>4, <4>5, <4>6
      <3> QED
        BY <3>1, <3>2
    <2> QED
      BY <1>1, <1>4, <1>8, <2>6, <2>7
  <1> QED
    BY <1>9, <1>10 DEF n

(* The trades returned are the positive entries of the allocation.          *)
LEMMA ReferenceMet == ASSUME OBInv PROVE FillsMatchReference
  <1> SUFFICES ASSUME phase = "return" PROVE FillsMatchReference
    BY DEF FillsMatchReference
  <1> DEFINE n == Len(trades)
  <1>1. PICK total \in [0..n -> 0..aggQty] :
          /\ total[0] = 0
          /\ \A i \in 1..n : total[i] = total[i - 1] + trades[i].qty
          /\ total[n] + remaining = aggQty
    BY DEF OBInv, FillsAddUp
  <1>2. /\ n \in Nat /\ DOMAIN trades = 1..n /\ remaining \in Nat /\ aggQty \in Nat
        /\ IsFiniteSet(DOMAIN before)
    BY TradesInOrder, OBTypeLevels DEF OBInv, OBTypeOK, Levels
  <1>3. \A i \in 1..n : /\ trades[i] \in [price : Positive, qty : Positive]
                        /\ Traded[i] = trades[i].price /\ Traded[i] \in DOMAIN before
    BY TradesInOrder
  <1>4. \A i, j \in 1..n : Traded[i] = Traded[j] => i = j
    BY TradesInOrder
  <1>5. /\ \A i \in 1..n : Owed[Traded[i]] = trades[i].qty
        /\ \A p \in DOMAIN before \ First(Traded, n) : Owed[p] = 0
    BY <1>1, OwedIsTraded
  <1> HIDE DEF n
  <1>6. {trades[i] : i \in DOMAIN trades}
          = {[price |-> p, qty |-> Owed[p]] : p \in {q \in DOMAIN before : Owed[q] > 0}}
    <2>1. ASSUME NEW i \in 1..n
          PROVE  /\ Traded[i] \in DOMAIN before /\ Owed[Traded[i]] > 0
                 /\ trades[i] = [price |-> Traded[i], qty |-> Owed[Traded[i]]]
      BY <1>3, <1>5 DEF Positive
    <2>2. ASSUME NEW p \in DOMAIN before, Owed[p] > 0
          PROVE  \E i \in 1..n : trades[i] = [price |-> p, qty |-> Owed[p]]
      <3>1. p \in First(Traded, n)
        <4>1. ~(0 > 0)
          OBVIOUS
        <4> QED
          BY <1>5, <2>2, <4>1, Zenon
      <3>2. PICK i \in 1..n : p = Traded[i]
        BY <3>1 DEF First
      <3> QED
        BY <2>1, <3>2
    <2> DEFINE B == {q \in DOMAIN before : Owed[q] > 0}
    <2>3. ASSUME NEW x \in {trades[i] : i \in DOMAIN trades}
          PROVE  x \in {[price |-> p, qty |-> Owed[p]] : p \in B}
      <3>1. PICK i \in 1..n : x = trades[i]
        BY <1>2
      <3>2. Traded[i] \in B /\ x = [price |-> Traded[i], qty |-> Owed[Traded[i]]]
        BY <2>1, <3>1
      <3> HIDE DEF B
      <3> QED
        BY <3>2
    <2>4. ASSUME NEW x \in {[price |-> p, qty |-> Owed[p]] : p \in B}
          PROVE  x \in {trades[i] : i \in DOMAIN trades}
      <3>1. PICK p \in B : x = [price |-> p, qty |-> Owed[p]]
        OBVIOUS
      <3>2. PICK i \in 1..n : trades[i] = [price |-> p, qty |-> Owed[p]]
        BY <2>2
      <3>3. i \in DOMAIN trades /\ x = trades[i]
        BY <1>2, <3>1, <3>2
      <3> QED
        BY <3>3
    <2> HIDE DEF B
    <2>5. {trades[i] : i \in DOMAIN trades} = {[price |-> p, qty |-> Owed[p]] : p \in B}
      BY <2>3, <2>4
    <2> QED
      BY <2>5 DEF B
  <1>7. remaining = aggQty - SumOver(Owed, DOMAIN before)
    <2>1. \A p \in DOMAIN before : Owed[p] \in Nat
      <3> SUFFICES ASSUME NEW p \in DOMAIN before PROVE Owed[p] \in Nat
        OBVIOUS
      <3>1. CASE p \in First(Traded, n)
        BY <1>3, <1>5, <3>1 DEF First, Positive
      <3>2. CASE p \notin First(Traded, n)
        BY <1>5, <3>2
      <3> QED
        BY <3>1, <3>2
    <2>2. \A i \in 1..n : Owed[Traded[i]] \in Nat /\ total[i] = total[i - 1] + Owed[Traded[i]]
      BY <1>1, <1>3, <1>5, <2>1
    <2>3. \A k \in 0..n : SumOver(Owed, First(Traded, k)) = total[k]
      <3>1. Accumulates(total, Owed, Traded, n)
        BY <1>1, <1>4, <2>2 DEF Accumulates
      <3>2. \A k \in 0..n : IsSum(total, Owed, Traded, k)
        BY <1>2, <3>1, RunningTotal
      <3> QED
        BY <3>2 DEF IsSum
    <2>4. First(Traded, n) \subseteq DOMAIN before
      BY <1>3 DEF First
    <2>5. SumOver(Owed, First(Traded, n)) = SumOver(Owed, DOMAIN before)
      BY <1>2, <1>5, <2>1, <2>4, SumSubset
    <2>6. total[n] \in Nat /\ n \in 0..n
      BY <1>1, <1>2
    <2> QED
      BY <1>1, <1>2, <2>3, <2>5, <2>6
  <1> QED
    BY <1>6, <1>7 DEF FillsMatchReference

-----------------------------------------------------------------------------
(* The inductive invariant holds in every reachable state of the book. *)
THEOREM OBInvariant == OBSpec => []OBInv
  <1>1. OBInit => OBInv
    BY OBInitInv
  <1>2. OBInv /\ [OBNext]_obVars => OBInv'
    <2> SUFFICES ASSUME OBInv, [OBNext]_obVars PROVE OBInv'
      OBVIOUS
    <2>1. CASE Call
      BY <2>1, CallInv
    <2>2. CASE MatchLevel
      BY <2>2, MatchLevelInv
    <2>3. CASE MatchEnd
      BY <2>3, MatchEndInv
    <2>4. CASE MatchReturn
      BY <2>4, MatchReturnInv
    <2>5. CASE UNCHANGED obVars
      BY <2>5, OBStutterInv
    <2> QED
      BY <2>1, <2>2, <2>3, <2>4, <2>5 DEF OBNext
  <1> QED
    BY <1>1, <1>2, PTL DEF OBSpec

(* No level is ever empty, and remaining never becomes negative. *)
THEOREM OBTypeCorrect == OBSpec => []OBTypeOK
  BY OBInvariant, PTL DEF OBInv

(* addMarketOrder neither creates nor loses quantity at any level. *)
THEOREM MatchConserves == OBSpec => []LevelsConserved
  BY OBInvariant, PTL DEF OBInv

(* addMarketOrder never trades through a better level. *)
THEOREM MatchHasPriority == OBSpec => []PricePriority
  BY OBInvariant, PTL DEF OBInv

(* addMarketOrder returns unfilled quantity only from an empty side. *)
THEOREM MatchSweeps == OBSpec => []SweepComplete
  BY OBInvariant, PTL DEF OBInv

(* The trades of addMarketOrder add up: together they are exactly the part  *)
(* of the order that remaining no longer counts, so they never exceed it.   *)
THEOREM MatchAddsUp == OBSpec => []FillsAddUp
  BY OBInvariant, PTL DEF OBInv

(* addMarketOrder computes the closed-form allocation: the trades it        *)
(* returns are exactly what price priority owes each level of the book it   *)
(* met, and the quantity it does not fill is what no level owed.            *)
THEOREM MatchMeetsReference == OBSpec => []FillsMatchReference
  BY OBInvariant, ReferenceMet, PTL

\* An iteration that goes on has used up a level
WalkDescends ==
    phase = "loop" /\ phase' = "loop" =>
      Cardinality(DOMAIN Contra(aggSide)') < Cardinality(DOMAIN Contra(aggSide))

(* The loop of addMarketOrder terminates: the number of levels it can still *)
(* match is a natural number, and every iteration that does not leave the   *)
(* loop makes it smaller, however large the order.                          *)
THEOREM WalkTerminates ==
    OBSpec => /\ [](Cardinality(DOMAIN Contra(aggSide)) \in Nat)
              /\ [][WalkDescends]_obVars
  <1>1. OBInv => Cardinality(DOMAIN Contra(aggSide)) \in Nat
    BY ContraLevels, FS_CardinalityType DEF OBInv, OBTypeOK, Levels
  <1>2. OBInv /\ [OBNext]_obVars => [WalkDescends]_obVars
    <2> SUFFICES ASSUME OBInv, OBNext, phase = "loop", phase' = "loop"
                 PROVE  Cardinality(DOMAIN Contra(aggSide)')
                          < Cardinality(DOMAIN Contra(aggSide))
      BY DEF WalkDescends
    <2>1. MatchLevel
      BY DEF OBNext, Call, MatchEnd, MatchReturn
    <2>2. PICK p \in DOMAIN Contra(aggSide) :
            LET level == Contra(aggSide)[p]
                fill  == IF remaining < level THEN remaining ELSE level
                left  == TakeFrom(Contra(aggSide), p, fill)
            IN  /\ asks' = IF aggSide = "BUY"  THEN left ELSE asks
                /\ bids' = IF aggSide = "SELL" THEN left ELSE bids
                /\ NextOrBreak(p, fill)
      BY <2>1 DEF MatchLevel
    <2> DEFINE level == Contra(aggSide)[p]
    <2>3. Levels(Contra(aggSide)) /\ aggSide \in Sides /\ aggSide' = aggSide
      BY <2>1, ContraLevels DEF OBInv, OBTypeOK, MatchLevel
    <2>4. level \in Nat
      BY <2>3 DEF Levels, Positive
    <2>5. /\ asks' = IF aggSide = "BUY"  THEN TakeFrom(Contra(aggSide), p, level) ELSE asks
          /\ bids' = IF aggSide = "SELL" THEN TakeFrom(Contra(aggSide), p, level) ELSE bids
      BY <2>2 DEF NextOrBreak
    <2>6. DOMAIN Contra(aggSide)' = DOMAIN Contra(aggSide) \ {p}
      <3>1. TakeFrom(Contra(aggSide), p, level) = Erase(Contra(aggSide), p)
        BY <2>4 DEF TakeFrom
      <3>2. DOMAIN Erase(Contra(aggSide), p) = DOMAIN Contra(aggSide) \ {p}
        BY DEF Erase
      <3>3. Contra(aggSide)' = TakeFrom(Contra(aggSide), p, level)
        BY <2>3, <2>5 DEF Contra, Sides
      <3> QED
        BY <3>1, <3>2, <3>3
    <2> HIDE DEF level
    <2>7. PICK D : D = DOMAIN Contra(aggSide)
      OBVIOUS
    <2>8. IsFiniteSet(D) /\ p \in D
      BY <2>3, <2>7 DEF Levels
    <2>9. Cardinality(D \ {p}) = Cardinality(D) - 1 /\ Cardinality(D) \in Nat
      BY <2>8, FS_RemoveElement, FS_CardinalityType
    <2> QED
      BY <2>6, <2>7, <2>9
  <1> QED
    BY <1>1, <1>2, OBInvariant, PTL DEF OBSpec
=============================================================================
