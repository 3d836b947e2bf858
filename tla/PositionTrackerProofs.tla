------------------------ MODULE PositionTrackerProofs ------------------------
(***************************************************************************)
(* PositionTracker keeps exact accounts, for all traders, prices and       *)
(* quantities and any number of fills.  EquityExact speaks of the mark     *)
(* prices in Prices only and is not inductive; CashExact, which mentions   *)
(* no mark price, is.                                                      *)
(***************************************************************************)
EXTENDS PositionTracker, TLAPS

Account == [cash : Int, shares : Int]

\* realised_pnl less the cost of what is held is the cash the fills moved
CashIdentity(pnl, cost, net, den, cash) == pnl - cost * net = den * cash
CashExact(p, a) == CashIdentity(p.pnl, p.cost, p.net, p.den, a.cash)

CostBetween(p, lo, hi) == lo * p.den =< p.cost /\ p.cost =< hi * p.den

\* A position and the sums of the fills, at prices in P, that led to it
Agrees(p, a, P) ==
    /\ p \in Position
    /\ p.net = a.shares
    /\ CashExact(p, a)
    /\ p.net # 0 => \E lo, hi \in P : CostBetween(p, lo, hi)

PTInv(P) ==
    /\ PTTypeOK
    /\ \A t \in Traders : Agrees(PositionOf(t), ledger[t], P)

\* The sums after one more fill
AccountAfter(a, s, price, qty) ==
    [cash |-> a.cash - s * price * qty, shares |-> a.shares + s * qty]

-----------------------------------------------------------------------------
(* Products of integers: what the provers need to be told. *)
LEMMA MulMono ==
    ASSUME NEW a \in Int, NEW b \in Int, NEW c \in Nat, a =< b
    PROVE  a * c =< b * c
  OBVIOUS

(* A product of positive numbers is positive. *)
LEMMA MulPos ==
    ASSUME NEW a \in Nat \ {0}, NEW b \in Nat \ {0}
    PROVE  a * b \in Nat \ {0}
  OBVIOUS

(* The sign of a fill, applied twice, is nothing. *)
LEMMA SignTwice ==
    ASSUME NEW s \in {1, -1}, NEW n \in Int
    PROVE  s * n \in Int /\ s * (s * n) = n /\ s * (0 - n) = 0 - s * n
  <1>1. CASE s = 1
    BY <1>1
  <1>2. CASE s = -1
    BY <1>2
  <1> QED
    BY <1>1, <1>2

(* Of two prices that bound the average, and a new fill price, some two     *)
(* bound the average after adding to the position.                          *)
LEMMA WeightedCost ==
    ASSUME NEW P, P \subseteq Nat \ {0}, NEW c \in Int, NEW d \in Nat \ {0},
           NEW h \in Nat, NEW q \in Nat \ {0}, NEW x \in P, NEW lo \in P, NEW hi \in P,
           lo * d =< c, c =< hi * d
    PROVE  \E l, u \in P : /\ l * (d * (h + q)) =< c * h + x * q * d
                                /\ c * h + x * q * d =< u * (d * (h + q))
  <1> DEFINE l == IF lo < x THEN lo ELSE x
             u == IF hi > x THEN hi ELSE x
  <1>0. /\ x \in Int /\ lo \in Int /\ hi \in Int /\ l \in P /\ u \in P
        /\ l \in Int /\ u \in Int /\ l =< lo /\ l =< x /\ hi =< u /\ x =< u
    OBVIOUS
  <1> HIDE DEF l, u
  <1>1. q * d \in Nat /\ l * d \in Int /\ u * d \in Int /\ lo * d \in Int /\ hi * d \in Int
    BY <1>0
  <1>2. l * d =< lo * d /\ hi * d =< u * d
    BY <1>0, MulMono
  <1>3. l * d =< c /\ c =< u * d
    BY <1>0, <1>1, <1>2
  <1>4. (l * d) * h =< c * h /\ c * h =< (u * d) * h
    BY <1>1, <1>3, MulMono
  <1>5. l * (q * d) =< x * (q * d) /\ x * (q * d) =< u * (q * d)
    BY <1>0, <1>1, MulMono
  <1>6. /\ l * (d * (h + q)) = (l * d) * h + l * (q * d)
        /\ u * (d * (h + q)) = (u * d) * h + u * (q * d)
        /\ x * q * d = x * (q * d)
    BY <1>0
  <1>7. /\ l * (d * (h + q)) =< c * h + x * q * d
        /\ c * h + x * q * d =< u * (d * (h + q))
    BY <1>0, <1>1, <1>4, <1>5, <1>6
  <1> QED
    BY <1>0, <1>7

(* The cash identity survives an extension: both sides grow by the factor   *)
(* h + q, and the new cost is what was paid.                                *)
LEMMA ExtendCash ==
    ASSUME NEW g \in Int, NEW c \in Int, NEW d \in Int, NEW m \in Int,
           NEW h \in Int, NEW q \in Int, NEW x \in Int, NEW s \in {1, -1},
           CashIdentity(g, c, s * h, d, m)
    PROVE  CashIdentity(g * (h + q), c * h + x * q * d, s * h + s * q,
                        d * (h + q), m - s * x * q)
  <1>1. (g - c * (s * h)) * (h + q) = (d * m) * (h + q)
    BY DEF CashIdentity
  <1>2. CASE s = 1
    BY <1>1, <1>2 DEF CashIdentity
  <1>3. CASE s = -1
    BY <1>1, <1>3 DEF CashIdentity
  <1> QED
    BY <1>2, <1>3

(* The cash identity survives a partial close, a close and a flip. *)
LEMMA ReduceCash ==
    ASSUME NEW g \in Int, NEW c \in Int, NEW d \in Int, NEW m \in Int,
           NEW n \in Int, NEW q \in Int, NEW x \in Int, NEW s \in {1, -1},
           CashIdentity(g, c, n, d, m)
    PROVE  CashIdentity(g + s * (c - x * d) * q, c, n + s * q, d, m - s * x * q)
  <1>1. CASE s = 1
    BY <1>1 DEF CashIdentity
  <1>2. CASE s = -1
    BY <1>2 DEF CashIdentity
  <1> QED
    BY <1>1, <1>2

(* The arithmetic of closing a position, for the accounting identity. *)
LEMMA CloseCash ==
    ASSUME NEW g \in Int, NEW c \in Int, NEW d \in Int, NEW m \in Int,
           NEW o \in Int, NEW q \in Int, NEW x \in Int, NEW s \in {1, -1},
           CashIdentity(g, c, 0 - s * o, d, m)
    PROVE  /\ CashIdentity(g + s * (c - x * d) * o, x * d, s * (q - o), d, m - s * x * q)
           /\ q = o => CashIdentity(g + s * (c - x * d) * o, c, s * (q - o), d, m - s * x * q)
  <1>1. CASE s = 1
    BY <1>1 DEF CashIdentity
  <1>2. CASE s = -1
    BY <1>2 DEF CashIdentity
  <1> QED
    BY <1>1, <1>2

-----------------------------------------------------------------------------
(* Opening and adding agree with the ledger. *)
LEMMA ExtendAgrees ==
    ASSUME NEW P, P \subseteq Nat \ {0}, NEW p \in Position, NEW a \in Account,
           Agrees(p, a, P), NEW s \in {1, -1}, NEW x \in P, NEW q \in Nat \ {0}, s * p.net >= 0
    PROVE  Agrees(Extend(p, s, x, q), AccountAfter(a, s, x, q), P)
  <1> DEFINE h == s * p.net
             e == Extend(p, s, x, q)
  <1>1. /\ x \in Nat \ {0} /\ q \in Nat \ {0} /\ a.cash \in Int /\ a.shares \in Int
        /\ p.net \in Int /\ p.cost \in Int /\ p.pnl \in Int /\ p.den \in Nat \ {0}
        /\ p.fills \in Nat /\ p.net = a.shares
        /\ CashIdentity(p.pnl, p.cost, p.net, p.den, a.cash)
    BY DEF Agrees, Position, Account, CashExact
  <1>2. h \in Nat /\ s * h = p.net /\ h + q \in Nat \ {0}
    BY <1>1, SignTwice
  <1>3. p.den * (h + q) \in Nat \ {0}
    BY <1>1, <1>2, MulPos
  <1>4. /\ e.net = p.net + s * q /\ e.cost = p.cost * h + x * q * p.den
        /\ e.pnl = p.pnl * (h + q) /\ e.den = p.den * (h + q) /\ e.fills = p.fills + 1
    BY DEF Extend
  <1>5. e \in Position
    <2>1. /\ p.net + s * q \in Int /\ p.cost * h + x * q * p.den \in Int
          /\ p.pnl * (h + q) \in Int /\ p.fills + 1 \in Nat
      BY <1>1, <1>2
    <2> QED
      BY <2>1, <1>3 DEF Extend, Position
  <1>6. e.net = AccountAfter(a, s, x, q).shares
    BY <1>1, <1>4 DEF AccountAfter
  <1>7. CashExact(e, AccountAfter(a, s, x, q))
    <2>1. CashIdentity(p.pnl, p.cost, s * h, p.den, a.cash)
      BY <1>1, <1>2
    <2> HIDE DEF h
    <2>2. CashIdentity(p.pnl * (h + q), p.cost * h + x * q * p.den, s * h + s * q,
                       p.den * (h + q), a.cash - s * x * q)
      <3>1. /\ p.pnl \in Int /\ p.cost \in Int /\ p.den \in Int /\ a.cash \in Int
            /\ h \in Int /\ q \in Int /\ x \in Int
        BY <1>1, <1>2
      <3> QED
        BY <3>1, <2>1, ExtendCash, Zenon
    <2>3. e.net = s * h + s * q
      BY <1>2, <1>4
    <2> HIDE DEF e
    <2> QED
      BY <2>2, <2>3, <1>4 DEF CashExact, AccountAfter
  <1>8. \E lo, hi \in P : CostBetween(e, lo, hi)
    <2>1. CASE h = 0
      <3>1. /\ e.cost = p.cost * 0 + x * q * p.den /\ e.den = p.den * (0 + q)
        BY <1>4, <2>1
      <3>2. p.cost * 0 + x * q * p.den = x * (p.den * (0 + q))
        BY <1>1
      <3>3. e.cost = x * e.den
        BY <3>1, <3>2
      <3> QED
        BY <3>3, <1>1, <1>5 DEF CostBetween, Position
    <2>2. CASE h # 0
      <3>1. p.net # 0
        BY <1>1, <1>2, <2>2
      <3>2. PICK lo, hi \in P : lo * p.den =< p.cost /\ p.cost =< hi * p.den
        BY <3>1 DEF Agrees, CostBetween
      <3> HIDE DEF h, e
      <3>3. \E l, u \in P : /\ l * (p.den * (h + q)) =< p.cost * h + x * q * p.den
                                 /\ p.cost * h + x * q * p.den =< u * (p.den * (h + q))
        BY <3>2, <1>1, <1>2, WeightedCost
      <3> QED
        BY <3>3, <1>4 DEF CostBetween
    <2> QED
      BY <2>1, <2>2
  <1> QED
    BY <1>5, <1>6, <1>7, <1>8 DEF Agrees

(* A partial close agrees with the ledger. *)
LEMMA ReduceAgrees ==
    ASSUME NEW P, P \subseteq Nat \ {0}, NEW p \in Position, NEW a \in Account,
           Agrees(p, a, P), NEW s \in {1, -1}, NEW x \in P, NEW q \in Nat \ {0}, s * p.net < 0, q < 0 - s * p.net
    PROVE  Agrees(Reduce(p, s, x, q), AccountAfter(a, s, x, q), P)
  <1> DEFINE e == Reduce(p, s, x, q)
  <1>1. /\ x \in Nat \ {0} /\ q \in Nat \ {0} /\ a.cash \in Int /\ a.shares \in Int
        /\ p.net \in Int /\ p.cost \in Int /\ p.pnl \in Int /\ p.den \in Nat \ {0}
        /\ p.fills \in Nat /\ p.net = a.shares
        /\ CashIdentity(p.pnl, p.cost, p.net, p.den, a.cash)
    BY DEF Agrees, Position, Account, CashExact
  <1>2. /\ e.net = p.net + s * q /\ e.cost = p.cost /\ e.den = p.den
        /\ e.pnl = p.pnl + s * (p.cost - x * p.den) * q
    BY DEF Reduce, Agrees, Position
  <1>3. e \in Position
    <2>1. /\ p.net + s * q \in Int /\ p.pnl + s * (p.cost - x * p.den) * q \in Int
          /\ p.fills + 1 \in Nat
      BY <1>1
    <2> QED
      BY <2>1 DEF Reduce, Agrees, Position
  <1>4. e.net = AccountAfter(a, s, x, q).shares
    BY <1>1, <1>2 DEF AccountAfter
  <1>5. CashExact(e, AccountAfter(a, s, x, q))
    <2>1. CashIdentity(p.pnl + s * (p.cost - x * p.den) * q, p.cost, p.net + s * q,
                       p.den, a.cash - s * x * q)
      <3>1. /\ p.pnl \in Int /\ p.cost \in Int /\ p.den \in Int /\ a.cash \in Int
            /\ p.net \in Int /\ q \in Int /\ x \in Int
            /\ CashIdentity(p.pnl, p.cost, p.net, p.den, a.cash)
        BY <1>1
      <3> QED
        BY <3>1, ReduceCash, Zenon
    <2> HIDE DEF e
    <2> QED
      BY <1>2, <2>1 DEF CashExact, AccountAfter
  <1>6. \E lo, hi \in P : CostBetween(e, lo, hi)
    BY <1>1, <1>2 DEF Agrees, CostBetween
  <1> QED
    BY <1>3, <1>4, <1>5, <1>6 DEF Agrees

(* Closing and flipping agree with the ledger. *)
LEMMA CloseAgrees ==
    ASSUME NEW P, P \subseteq Nat \ {0}, NEW p \in Position, NEW a \in Account,
           Agrees(p, a, P), NEW s \in {1, -1}, NEW x \in P, NEW q \in Nat \ {0}, s * p.net < 0, q >= 0 - s * p.net
    PROVE  Agrees(CloseOrFlip(p, s, x, q), AccountAfter(a, s, x, q), P)
  <1> DEFINE e == CloseOrFlip(p, s, x, q)
             o == 0 - s * p.net
  <1>1. /\ x \in Nat \ {0} /\ q \in Nat \ {0} /\ a.cash \in Int /\ a.shares \in Int
        /\ p.net \in Int /\ p.cost \in Int /\ p.pnl \in Int /\ p.den \in Nat \ {0}
        /\ p.fills \in Nat /\ p.net = a.shares
        /\ CashIdentity(p.pnl, p.cost, p.net, p.den, a.cash)
    BY DEF Agrees, Position, Account, CashExact
  <1>2. o \in Nat /\ p.net = 0 - s * o /\ q - o \in Nat
    BY <1>1, SignTwice
  <1>3. /\ e.net = s * (q - o) /\ e.den = p.den
        /\ e.cost = IF q - o > 0 THEN x * p.den ELSE p.cost
        /\ e.pnl = p.pnl + s * (p.cost - x * p.den) * o
    BY DEF CloseOrFlip, Agrees, Position
  <1>4. e \in Position
    <2>1. /\ s * (q - o) \in Int /\ p.pnl + s * (p.cost - x * p.den) * o \in Int
          /\ x * p.den \in Int /\ p.fills + 1 \in Nat
      BY <1>1, <1>2
    <2> QED
      BY <2>1, <1>1 DEF CloseOrFlip, Agrees, Position
  <1>5. e.net = p.net + s * q
    BY <1>1, <1>2, <1>3
  <1>6. CashExact(e, AccountAfter(a, s, x, q))
    <2> HIDE DEF o, e
    <2>1. CashIdentity(p.pnl, p.cost, 0 - s * o, p.den, a.cash)
      BY <1>1, <1>2
    <2>2. /\ CashIdentity(p.pnl + s * (p.cost - x * p.den) * o, x * p.den,
                          s * (q - o), p.den, a.cash - s * x * q)
          /\ q = o => CashIdentity(p.pnl + s * (p.cost - x * p.den) * o, p.cost,
                                   s * (q - o), p.den, a.cash - s * x * q)
      <3>1. /\ p.pnl \in Int /\ p.cost \in Int /\ p.den \in Int /\ a.cash \in Int
            /\ o \in Int /\ q \in Int /\ x \in Int
        BY <1>1, <1>2
      <3> QED
        BY <3>1, <2>1, CloseCash, ZenonT(60)
    <2>3. CASE q - o > 0
      BY <1>3, <2>2, <2>3 DEF CashExact, AccountAfter
    <2>4. CASE q = o
      BY <1>1, <1>3, <2>2, <2>4 DEF CashExact, AccountAfter
    <2> QED
      BY <1>1, <1>2, <2>3, <2>4
  <1>7. e.net # 0 => \E lo, hi \in P : CostBetween(e, lo, hi)
    <2> SUFFICES ASSUME e.net # 0 PROVE CostBetween(e, x, x)
      OBVIOUS
    <2> HIDE DEF o, e
    <2>1. e.cost = x * p.den /\ x * p.den \in Int
      BY <1>1, <1>2, <1>3
    <2> QED
      BY <2>1, <1>3 DEF CostBetween
  <1> QED
    BY <1>1, <1>4, <1>5, <1>6, <1>7 DEF Agrees, AccountAfter

(* Every branch of recordFill agrees with the ledger. *)
LEMMA FillAgrees ==
    ASSUME NEW P, P \subseteq Nat \ {0}, NEW p \in Position, NEW a \in Account,
           Agrees(p, a, P), NEW s \in {1, -1}, NEW x \in P, NEW q \in Nat \ {0}
    PROVE  Agrees(AfterFill(p, s, x, q), AccountAfter(a, s, x, q), P)
  <1>1. s * p.net \in Int /\ q \in Int
    BY DEF Agrees, Position
  <1>2. CASE s * p.net >= 0
    BY <1>2, ExtendAgrees DEF AfterFill
  <1>3. CASE s * p.net < 0 /\ q >= 0 - s * p.net
    <2>1. AfterFill(p, s, x, q) = CloseOrFlip(p, s, x, q)
      BY <1>1, <1>3 DEF AfterFill
    <2> QED
      BY <1>3, <2>1, CloseAgrees
  <1>4. CASE s * p.net < 0 /\ q < 0 - s * p.net
    <2>1. AfterFill(p, s, x, q) = Reduce(p, s, x, q)
      BY <1>1, <1>4 DEF AfterFill
    <2> QED
      BY <1>4, <2>1, ReduceAgrees
  <1> QED
    BY <1>1, <1>2, <1>3, <1>4

-----------------------------------------------------------------------------
(* The invariant holds before the first fill. *)
LEMMA PTInitInv == ASSUME NEW P, PTInit PROVE PTInv(P)
  <1>1. Flat \in Position
    BY DEF Flat, Position
  <1>2. PTTypeOK
    BY DEF PTInit, PTTypeOK
  <1>3. ASSUME NEW t \in Traders PROVE Agrees(PositionOf(t), ledger[t], P)
    BY <1>1 DEF PTInit, PositionOf, Agrees, CashExact, CashIdentity, Flat
  <1> QED
    BY <1>2, <1>3 DEF PTInv

(* recordFill preserves the invariant: this is the step the engine takes    *)
(* for every trade it reports.                                              *)
LEMMA RecordFillInv ==
    ASSUME NEW P, P \subseteq Nat \ {0}, PTInv(P), NEW t \in Traders, NEW side \in Sides,
           NEW x \in P, NEW q \in Nat \ {0}, RecordFill(t, side, x, q)
    PROVE  PTInv(P)'
  <1> DEFINE s == Sign(side)
             p == AfterFill(PositionOf(t), s, x, q)
             a == AccountAfter(ledger[t], s, x, q)
  <1>1. /\ s \in {1, -1} /\ ledger[t] \in Account
        /\ Agrees(PositionOf(t), ledger[t], P) /\ PositionOf(t) \in Position
    BY DEF PTInv, PTTypeOK, Sign, Account, Agrees
  <1>2. Agrees(p, a, P)
    BY <1>1, FillAgrees
  <1>3. /\ DOMAIN positions' = DOMAIN positions \cup {t} /\ positions'[t] = p
        /\ \A u \in DOMAIN positions \ {t} : positions'[u] = positions[u]
        /\ positions' = [u \in DOMAIN positions' |-> positions'[u]]
    BY DEF RecordFill
  <1>4. /\ ledger' = [ledger EXCEPT ![t] = a] /\ a \in Account
    <2>1. x \in Int /\ q \in Int
      OBVIOUS
    <2> QED
      BY <1>1, <2>1 DEF RecordFill, AccountAfter, Account
  <1>5. PTTypeOK'
    <2>1. p \in Position
      BY <1>2 DEF Agrees
    <2>2. ledger' \in [Traders -> [cash : Int, shares : Int]]
      BY <1>4 DEF PTInv, PTTypeOK, Account
    <2>3. DOMAIN positions' \subseteq Traders
      BY <1>3 DEF PTInv, PTTypeOK
    <2>4. positions' \in [DOMAIN positions' -> Position]
      BY <1>3, <2>1 DEF PTInv, PTTypeOK
    <2> QED
      BY <2>2, <2>3, <2>4 DEF PTTypeOK
  <1>6. ASSUME NEW u \in Traders PROVE Agrees(PositionOf(u), ledger[u], P)'
    <2>1. CASE u = t
      <3>1. PositionOf(u)' = p /\ ledger'[u] = a
        BY <1>3, <1>4, <2>1 DEF PositionOf, PTInv, PTTypeOK
      <3> QED
        BY <3>1, <1>2 DEF Agrees, CashExact
    <2>2. CASE u # t
      <3>1. PositionOf(u)' = PositionOf(u) /\ ledger'[u] = ledger[u]
        BY <1>3, <1>4, <2>2 DEF PositionOf, PTInv, PTTypeOK
      <3> QED
        BY <3>1 DEF PTInv, Agrees, CashExact
    <2> QED
      BY <2>1, <2>2
  <1> QED
    BY <1>5, <1>6 DEF PTInv

(* The invariant gives the lots held, and the accounting identity. *)
LEMMA InvNet == ASSUME NEW P, PTInv(P) PROVE NetMatchesFills
  BY DEF PTInv, Agrees, NetMatchesFills

(* The accounting identity holds at every mark price, whatever the prices   *)
(* the fills had.                                                           *)
LEMMA InvEquity == ASSUME NEW P, PTInv(P) PROVE EquityExact
  <1> SUFFICES ASSUME NEW t \in Traders, NEW mark \in Prices
               PROVE  PositionOf(t).pnl + UnrealisedPnL(PositionOf(t), mark)
                        = PositionOf(t).den * (ledger[t].cash + mark * ledger[t].shares)
    BY DEF EquityExact
  <1> DEFINE p == PositionOf(t)
             a == ledger[t]
  <1>1. /\ p.net \in Int /\ p.cost \in Int /\ p.pnl \in Int /\ p.den \in Int
        /\ a.cash \in Int /\ p.net = a.shares /\ mark \in Int
        /\ p.pnl - p.cost * p.net = p.den * a.cash
    BY OrderAssumption DEF PTInv, PTTypeOK, Agrees, Position, CashExact, CashIdentity
  <1> HIDE DEF p, a
  <1>2. p.den * a.cash + mark * p.den * p.net = p.den * (a.cash + mark * p.net)
    BY <1>1
  <1>3. (mark * p.den - p.cost) * p.net = mark * p.den * p.net - p.cost * p.net
    BY <1>1
  <1>4. p.pnl + (mark * p.den - p.cost) * p.net = p.den * (a.cash + mark * a.shares)
    BY <1>1, <1>2, <1>3
  <1> QED
    BY <1>4 DEF UnrealisedPnL, p, a

(* The accounts are exact in every reachable state. *)
THEOREM PTInvariant == PTSpec => []PTInv(Prices)
  <1>1. PTInit => PTInv(Prices)
    BY PTInitInv
  <1>2. PTInv(Prices) /\ [PTNext]_ptVars => PTInv(Prices)'
    <2> SUFFICES ASSUME PTInv(Prices), [PTNext]_ptVars PROVE PTInv(Prices)'
      OBVIOUS
    <2>1. CASE PTNext
      BY <2>1, RecordFillInv, OrderAssumption DEF PTNext
    <2>2. CASE UNCHANGED ptVars
      BY <2>2 DEF ptVars, PTInv, PTTypeOK, PositionOf, Agrees, CashExact
    <2> QED
      BY <2>1, <2>2
  <1> QED
    BY <1>1, <1>2, PTL DEF PTSpec

(* positions_ stays well-typed; no average cost has a zero denominator. *)
THEOREM PTTypeCorrect == PTSpec => []PTTypeOK
  BY PTInvariant, PTL DEF PTInv

(* net_qty is the signed sum of the fills. *)
THEOREM NetIsSumOfFills == PTSpec => []NetMatchesFills
  <1>1. PTInv(Prices) => NetMatchesFills
    BY InvNet
  <1> QED
    BY <1>1, PTInvariant, PTL

(* Realised plus unrealised P&L is cash plus market value, at every mark. *)
THEOREM EquityIsExact == PTSpec => []EquityExact
  <1>1. PTInv(Prices) => EquityExact
    BY InvEquity
  <1> QED
    BY <1>1, PTInvariant, PTL

(* While a position is open its average cost lies between filled prices. *)
THEOREM AvgCostIsAverage == PTSpec => []AvgCostInRange
  <1>1. PTInv(Prices) => AvgCostInRange
    BY DEF PTInv, Agrees, AvgCostInRange, CostBetween
  <1> QED
    BY <1>1, PTInvariant, PTL
=============================================================================
