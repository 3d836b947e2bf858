---------------------------- MODULE RelayProofs ----------------------------
(***************************************************************************)
(* What the relay guarantees for any number of sandboxes, any capacity of  *)
(* outCh, and any limit and window of the rate limiter.                    *)
(*                                                                         *)
(* Routing: the numbers of the engine's events between fanOut and a        *)
(* container rise, from what has been written up to what has been sent; an *)
(* event whose channel has been looked up is newer than all of them.       *)
(* Context: a sandbox about to be sent lt has read the newest tick, or has *)
(* been offered it since it registered.  Rate limiter: the orders that     *)
(* rlCount counts were forwarded in the current window, the first of them  *)
(* at its very start, and at most Limit - 1 of those before it in the      *)
(* length of a window before that start.                                   *)
(***************************************************************************)
EXTENDS Relay, TLAPS

\* The number of the last event that fanOut is done with
High == IF found = NoRoute THEN received ELSE received - 1

\* The engine's events in way rise, above last and up to high, and are for t
InOrder(way, last, high, t) ==
    /\ last =< high
    /\ \A i \in 1..Len(way) : way[i].kind \in EngineEvent =>
         /\ way[i].n > last /\ way[i].n =< high
         /\ \A j \in 1..(i - 1) : way[j].kind \in EngineEvent => way[j].n < way[i].n
         /\ way[i].kind = "fill" => way[i].to = t

\* fanOut has an event in hand only for the trader whose channel it looked up
FoundOwn == found # NoRoute => found.ch = found.to /\ received > 0

\* The writer holds a message exactly while it writes
InHandOK(t) == /\ writer[t] = "write" => Len(inHand[t]) = 1
               /\ writer[t] # "write" => inHand[t] = <<>>

RouteOK(t) == InHandOK(t) /\ InOrder(inHand[t] \o outCh[t], written[t], High, t)

\* A sandbox on its way to the scan loop has no writer yet, and has seen the
\* newest tick, or will
ContextOK(t) ==
    /\ t \in conns <=> handler[t] \in {"read", "send", "scan", "wait"}
    /\ handler[t] \in {"none", "register", "read", "send"} => writer[t] = "none"
    /\ context[t] =< lastTick /\ offered[t] =< lastTick
    /\ handler[t] = "send" => context[t] = lastTick \/ offered[t] = lastTick
    /\ handler[t] \in {"scan", "wait"} => offered[t] = lastTick

RelayRouteInv ==
    /\ RelayTypeOK /\ FoundOwn /\ lastTick =< received
    /\ \A t \in Sandboxes : RouteOK(t) /\ ContextOK(t)

\* A limiter with count and window that has let orders through at the times
\* of sent; the last k of them are in its window
Limiter(sent, k, window) ==
    /\ k =< Len(sent) /\ k =< Limit
    /\ \A i, j \in 1..Len(sent) : i =< j => sent[i] =< sent[j]
    /\ k = 0 => Len(sent) = 0 /\ window < 0
    /\ k > 0 => sent[Len(sent) - k + 1] = window - Window
    /\ \A i \in 1..Len(sent) : i + k + Limit =< Len(sent) + 1 =>
         sent[i] + Window < window - Window
    /\ \A i, j \in 1..Len(sent) : j >= i + 2 * Limit - 1 => sent[j] > sent[i] + Window

\* The number of orders forwarded in the current window
InWindow(t) == IF rlCount[t] < Limit THEN rlCount[t] ELSE Limit

LimiterOK(t) ==
    /\ Limiter(forwarded[t], InWindow(t), rlWindow[t])
    /\ \A i \in 1..Len(forwarded[t]) : forwarded[t][i] =< clock

RelayLimitInv == RelayTypeOK /\ \A t \in Sandboxes : LimiterOK(t)

-----------------------------------------------------------------------------
(* Channels of messages *)

(* The fields of a message.                                                 *)
LEMMA MessageFields ==
    ASSUME NEW k \in {"tick", "fill", "context", "limited"}, NEW n \in Nat,
           NEW to \in Traders \cup {Nobody}
    PROVE  /\ Msg(k, n, to) \in Message
           /\ Msg(k, n, to).kind = k /\ Msg(k, n, to).n = n /\ Msg(k, n, to).to = to
  BY DEF Msg, Message

(* The number of a message is one.                                          *)
LEMMA MessageNumber ==
    ASSUME NEW ch \in Seq(Message)
    PROVE  Len(ch) \in Nat /\ \A i \in 1..Len(ch) : ch[i] \in Message /\ ch[i].n \in Nat
  <1>1. Len(ch) \in Nat /\ \A i \in 1..Len(ch) : ch[i] \in Message
    OBVIOUS
  <1>2. \A m \in Message : m.n \in Nat
    BY DEF Message
  <1> QED
    BY <1>1, <1>2

(* A channel stays one, within its capacity.                                *)
LEMMA OfferType ==
    ASSUME NEW ch \in Seq(Message), NEW m \in Message, Len(ch) =< OutCap
    PROVE  Offer(ch, m) \in Seq(Message) /\ Len(Offer(ch, m)) =< OutCap
  <1>1. Append(ch, m) \in Seq(Message) /\ Len(Append(ch, m)) = Len(ch) + 1 /\ Len(ch) \in Nat
    OBVIOUS
  <1> QED
    BY <1>1, RelayAssumption DEF Offer

(* A message is added: an event of the engine only after all of them.       *)
LEMMA OfferInOrder ==
    ASSUME NEW h \in Seq(Message), NEW ch \in Seq(Message), NEW m \in Message,
           NEW last \in Nat, NEW high \in Nat, NEW top \in Nat, high =< top, NEW t,
           InOrder(h \o ch, last, high, t),
           m.kind \in EngineEvent => m.n > high /\ m.n =< top,
           m.kind = "fill" => m.to = t
    PROVE  InOrder(h \o Offer(ch, m), last, top, t)
  <1> DEFINE way == h \o ch
             new == h \o Append(ch, m)
  <1>1. /\ way \in Seq(Message) /\ Len(new) = Len(way) + 1 /\ Len(way) \in Nat
        /\ \A i \in 1..Len(way) : new[i] = way[i]
        /\ new[Len(way) + 1] = m
    OBVIOUS
  <1>2. \A i \in 1..Len(way) : way[i].n \in Nat
    BY <1>1, MessageNumber
  <1>3. InOrder(way, last, high, t)
    OBVIOUS
  <1> HIDE DEF way, new
  <1>4. InOrder(way, last, top, t)
    BY <1>2, <1>3 DEF InOrder
  <1>5. InOrder(new, last, top, t)
    <2>1. m.n \in Nat
      BY DEF Message
    <2>2. SUFFICES ASSUME NEW i \in 1..Len(new), new[i].kind \in EngineEvent
                   PROVE  /\ new[i].n > last /\ new[i].n =< top
                          /\ \A j \in 1..(i - 1) :
                               new[j].kind \in EngineEvent => new[j].n < new[i].n
                          /\ new[i].kind = "fill" => new[i].to = t
      BY <1>4 DEF InOrder
    <2>3. CASE i \in 1..Len(way)
      <3>1. new[i] = way[i] /\ \A j \in 1..(i - 1) : new[j] = way[j]
        BY <1>1, <2>3
      <3> QED
        BY <1>4, <2>2, <2>3, <3>1 DEF InOrder
    <2>4. CASE i = Len(way) + 1
      <3>1. new[i] = m /\ \A j \in 1..(i - 1) : j \in 1..Len(way) /\ new[j] = way[j]
        BY <1>1, <2>4
      <3>2. m.n > high /\ m.n =< top /\ last =< high /\ (m.kind = "fill" => m.to = t)
        BY <1>3, <2>2, <3>1 DEF InOrder
      <3>3. \A j \in 1..Len(way) : way[j].kind \in EngineEvent => way[j].n =< high
        BY <1>3 DEF InOrder
      <3>4. \A j \in 1..(i - 1) : new[j].kind \in EngineEvent => new[j].n < m.n
        BY <1>2, <2>1, <3>1, <3>2, <3>3, SMTT(60)
      <3> QED
        BY <2>1, <3>1, <3>2, <3>4
    <2> QED
      BY <1>1, <2>3, <2>4
  <1> QED
    BY <1>4, <1>5 DEF Offer, way, new

(* More has been received.                                                  *)
LEMMA RaiseInOrder ==
    ASSUME NEW way \in Seq(Message), NEW last \in Nat, NEW high \in Nat, NEW top \in Nat,
           high =< top, NEW t, InOrder(way, last, high, t)
    PROVE  InOrder(way, last, top, t)
  BY MessageNumber DEF InOrder

(* The writer takes a message from the channel.                             *)
LEMMA TakeInOrder ==
    ASSUME NEW ch \in Seq(Message), ch # <<>>
    PROVE  /\ <<Head(ch)>> \in Seq(Message) /\ Len(<<Head(ch)>>) = 1
           /\ Tail(ch) \in Seq(Message) /\ Len(Tail(ch)) = Len(ch) - 1 /\ Len(ch) \in Nat
           /\ <<Head(ch)>> \o Tail(ch) = <<>> \o ch
  OBVIOUS

(* What is in hand and what is in the channel, together.                    *)
LEMMA WayProperties ==
    ASSUME NEW h \in Seq(Message), NEW ch \in Seq(Message)
    PROVE  /\ <<>> \o ch = ch /\ h \o ch \in Seq(Message) /\ Len(h \o ch) = Len(h) + Len(ch)
           /\ \A i \in 1..Len(h) + Len(ch) :
                (h \o ch)[i] = IF i =< Len(h) THEN h[i] ELSE ch[i - Len(h)]
  OBVIOUS

(* What is left when the message in hand is gone.                           *)
LEMMA AfterInHand ==
    ASSUME NEW h \in Seq(Message), NEW ch \in Seq(Message), Len(h) = 1
    PROVE  /\ h \o ch \in Seq(Message) /\ <<>> \o ch \in Seq(Message)
           /\ Len(<<>> \o ch) \in Nat /\ Len(h \o ch) = Len(<<>> \o ch) + 1
           /\ \A i \in 1..Len(<<>> \o ch) : (<<>> \o ch)[i] = (h \o ch)[i + 1]
           /\ (h \o ch)[1] = Head(h)
  <1> DEFINE way == h \o ch
             n == Len(ch)
  <1>1. Head(h) = h[1] /\ n \in Nat
    OBVIOUS
  <1>2. <<>> \o ch = ch /\ way \in Seq(Message) /\ Len(way) = Len(h) + n
    BY WayProperties
  <1>3. \A i \in 1..Len(h) + n : way[i] = IF i =< Len(h) THEN h[i] ELSE ch[i - Len(h)]
    BY WayProperties
  <1> HIDE DEF way, n
  <1>4. /\ 1 \in 1..Len(h) + n /\ 1 =< Len(h)
        /\ \A i \in 1..n : i + 1 \in 1..Len(h) + n /\ ~(i + 1 =< Len(h)) /\ (i + 1) - Len(h) = i
    BY <1>1
  <1>5. way[1] = h[1] /\ \A i \in 1..n : way[i + 1] = ch[i]
    BY <1>3, <1>4
  <1> QED
    BY <1>1, <1>2, <1>5 DEF way, n

(* The writer is done with the message it had in hand, which was written if *)
(* got has its number.                                                      *)
LEMMA WriteInOrder ==
    ASSUME NEW h \in Seq(Message), NEW ch \in Seq(Message), Len(h) = 1, NEW t,
           NEW last \in Nat, NEW high \in Nat, InOrder(h \o ch, last, high, t),
           NEW got, got = last \/ (Head(h).kind \in EngineEvent /\ got = Head(h).n)
    PROVE  InOrder(<<>> \o ch, got, high, t) /\ got \in Nat
  <1> DEFINE way == h \o ch
             rest == <<>> \o ch
  <1>1. /\ way \in Seq(Message) /\ rest \in Seq(Message) /\ Len(rest) \in Nat
        /\ Len(way) = Len(rest) + 1
        /\ \A i \in 1..Len(rest) : rest[i] = way[i + 1]
        /\ way[1] = Head(h)
    BY AfterInHand
  <1>2. \A i \in 1..Len(way) : way[i].n \in Nat
    BY <1>1, MessageNumber
  <1>3. InOrder(way, last, high, t)
    OBVIOUS
  <1> HIDE DEF way, rest
  <1>4. got \in Nat /\ got =< high
    BY <1>1, <1>2, <1>3 DEF InOrder
  <1>5. ASSUME NEW i \in 1..Len(rest), rest[i].kind \in EngineEvent
        PROVE  /\ rest[i].n > got /\ rest[i].n =< high
               /\ \A j \in 1..(i - 1) : rest[j].kind \in EngineEvent => rest[j].n < rest[i].n
               /\ rest[i].kind = "fill" => rest[i].to = t
    <2>1. /\ rest[i] = way[i + 1] /\ i + 1 \in 1..Len(way) /\ 1 \in 1..((i + 1) - 1)
          /\ \A j \in 1..(i - 1) : rest[j] = way[j + 1] /\ j + 1 \in 1..((i + 1) - 1)
      BY <1>1
    <2>2. /\ way[i + 1].n > last /\ way[i + 1].n =< high
          /\ \A j \in 1..((i + 1) - 1) : way[j].kind \in EngineEvent => way[j].n < way[i + 1].n
          /\ way[i + 1].kind = "fill" => way[i + 1].to = t
      BY <1>3, <1>5, <2>1 DEF InOrder
    <2> QED
      BY <1>1, <2>1, <2>2
  <1> QED
    BY <1>4, <1>5 DEF InOrder, rest

-----------------------------------------------------------------------------
(* The rate limiter *)

(* An order at time now is added to those that were forwarded.              *)
LEMMA SentAppended ==
    ASSUME NEW Times, NEW sent \in Seq(Times), NEW now \in Times
    PROVE  /\ Append(sent, now) \in Seq(Times) /\ Len(sent) \in Nat
           /\ Len(Append(sent, now)) = Len(sent) + 1
           /\ \A i \in 1..Len(sent) : Append(sent, now)[i] = sent[i] /\ sent[i] \in Times
           /\ Append(sent, now)[Len(sent) + 1] = now
  OBVIOUS

(* An order within the window, below the limit.                             *)
LEMMA LimiterCounts ==
    ASSUME NEW sent \in Seq(0..MaxTime), NEW now \in 0..MaxTime, NEW k \in Nat,
           NEW window \in Int, Limiter(sent, k, window), k < Limit, now =< window,
           \A i \in 1..Len(sent) : sent[i] =< now
    PROVE  Limiter(Append(sent, now), k + 1, window)
  <1> DEFINE new == Append(sent, now)
             n == Len(sent)
  <1>1. /\ n \in Nat /\ Len(new) = n + 1 /\ new[n + 1] = now
        /\ \A i \in 1..n : new[i] = sent[i] /\ sent[i] \in 0..MaxTime
    BY SentAppended, ZenonT(60)
  <1>2. /\ k =< n /\ k > 0 /\ sent[n - k + 1] = window - Window
        /\ Limit \in Nat /\ Window \in Nat /\ now \in Nat /\ MaxTime \in Nat
    BY RelayAssumption DEF Limiter
  <1>3. /\ \A i, j \in 1..n : i =< j => sent[i] =< sent[j]
        /\ \A i \in 1..n : i + k + Limit =< n + 1 => sent[i] + Window < window - Window
        /\ \A i, j \in 1..n : j >= i + 2 * Limit - 1 => sent[j] > sent[i] + Window
    BY DEF Limiter
  <1>4. \A i \in 1..n : sent[i] =< now
    OBVIOUS
  <1> HIDE DEF new, n
  <1>5. window - Window =< now
    <2>1. n - k + 1 \in 1..n
      BY <1>1, <1>2
    <2> QED
      BY <1>2, <1>4, <2>1
  <1>6. new[(n + 1) - (k + 1) + 1] = window - Window
    <2>1. (n + 1) - (k + 1) + 1 = n - k + 1 /\ n - k + 1 \in 1..n
      BY <1>1, <1>2
    <2> QED
      BY <1>1, <1>2, <2>1
  <1>7. ASSUME NEW i \in 1..(n + 1), NEW j \in 1..(n + 1), i =< j PROVE new[i] =< new[j]
    <2>1. CASE j \in 1..n
      BY <1>1, <1>3, <1>7, <2>1
    <2>2. CASE j = n + 1 /\ i \in 1..n
      BY <1>1, <1>4, <2>2
    <2>3. CASE i = n + 1 /\ j = n + 1
      BY <1>1, <1>2, <2>3
    <2> QED
      BY <1>1, <1>7, <2>1, <2>2, <2>3
  <1>8. ASSUME NEW i \in 1..(n + 1), i + (k + 1) + Limit =< (n + 1) + 1
        PROVE  new[i] + Window < window - Window
    <2>1. i \in 1..n /\ i + k + Limit =< n + 1
      BY <1>1, <1>2, <1>8
    <2> QED
      BY <1>1, <1>3, <2>1
  <1>9. ASSUME NEW i \in 1..(n + 1), NEW j \in 1..(n + 1), j >= i + 2 * Limit - 1
        PROVE  new[j] > new[i] + Window
    <2>1. CASE j \in 1..n
      <3>1. i \in 1..n
        BY <1>1, <1>2, <1>9, <2>1
      <3> QED
        BY <1>1, <1>3, <1>9, <2>1, <3>1
    <2>2. CASE j = n + 1
      <3>1. i \in 1..n /\ i + k + Limit =< n + 1
        BY <1>1, <1>2, <1>9, <2>2
      <3>2. sent[i] + Window < window - Window /\ sent[i] \in Nat
        BY <1>1, <1>2, <1>3, <3>1, SMTT(60)
      <3> QED
        BY <1>1, <1>2, <1>5, <2>2, <3>1, <3>2
    <2> QED
      BY <1>1, <2>1, <2>2
  <1>10. k + 1 =< n + 1 /\ k + 1 =< Limit /\ k + 1 > 0
    BY <1>1, <1>2
  <1>11. Limiter(new, k + 1, window)
    BY <1>1, <1>6, <1>7, <1>8, <1>9, <1>10 DEF Limiter
  <1> QED
    BY <1>11 DEF new

(* The first order after the window has expired.                            *)
LEMMA LimiterOpens ==
    ASSUME NEW sent \in Seq(0..MaxTime), NEW now \in 0..MaxTime, NEW k \in Nat,
           NEW window \in Int, Limiter(sent, k, window), now > window,
           \A i \in 1..Len(sent) : sent[i] =< now
    PROVE  Limiter(Append(sent, now), 1, now + Window)
  <1> DEFINE new == Append(sent, now)
             n == Len(sent)
  <1>1. /\ n \in Nat /\ Len(new) = n + 1 /\ new[n + 1] = now
        /\ \A i \in 1..n : new[i] = sent[i] /\ sent[i] \in 0..MaxTime
    BY SentAppended, ZenonT(60)
  <1>2. /\ k =< n /\ k =< Limit /\ (k = 0 => n = 0)
        /\ k > 0 => sent[n - k + 1] = window - Window
        /\ Limit \in Nat \ {0} /\ Window \in Nat /\ now \in Nat /\ MaxTime \in Nat
    BY RelayAssumption DEF Limiter
  <1>3. /\ \A i, j \in 1..n : i =< j => sent[i] =< sent[j]
        /\ \A i, j \in 1..n : j >= i + 2 * Limit - 1 => sent[j] > sent[i] + Window
    BY DEF Limiter
  <1>4. \A i \in 1..n : sent[i] =< now
    OBVIOUS
  <1> HIDE DEF new, n
  <1>5. ASSUME NEW i \in 1..n, i + Limit =< n + 1 PROVE sent[i] + Window < now
    <2>1. k > 0 /\ n - k + 1 \in 1..n /\ i =< n - k + 1
      BY <1>1, <1>2, <1>5
    <2>2. sent[i] =< window - Window
      BY <1>2, <1>3, <2>1
    <2>3. sent[i] \in Nat
      BY <1>1, <1>2
    <2> QED
      BY <1>2, <2>2, <2>3
  <1>6. new[(n + 1) - 1 + 1] = (now + Window) - Window
    BY <1>1, <1>2
  <1>7. ASSUME NEW i \in 1..(n + 1), NEW j \in 1..(n + 1), i =< j PROVE new[i] =< new[j]
    <2>1. CASE j \in 1..n
      BY <1>1, <1>3, <1>7, <2>1
    <2>2. CASE j = n + 1 /\ i \in 1..n
      BY <1>1, <1>4, <2>2
    <2>3. CASE i = n + 1 /\ j = n + 1
      BY <1>1, <1>2, <2>3
    <2> QED
      BY <1>1, <1>7, <2>1, <2>2, <2>3
  <1>8. ASSUME NEW i \in 1..(n + 1), i + 1 + Limit =< (n + 1) + 1
        PROVE  new[i] + Window < (now + Window) - Window
    <2>1. i \in 1..n /\ i + Limit =< n + 1
      BY <1>1, <1>2, <1>8
    <2> QED
      BY <1>1, <1>2, <1>5, <2>1, SMTT(60)
  <1>9. ASSUME NEW i \in 1..(n + 1), NEW j \in 1..(n + 1), j >= i + 2 * Limit - 1
        PROVE  new[j] > new[i] + Window
    <2>1. CASE j \in 1..n
      <3>1. i \in 1..n
        BY <1>1, <1>2, <1>9, <2>1
      <3> QED
        BY <1>1, <1>3, <1>9, <2>1, <3>1
    <2>2. CASE j = n + 1 /\ i \in 1..n
      <3>1. i + Limit =< n + 1
        BY <1>1, <1>2, <1>9, <2>2
      <3> QED
        BY <1>1, <1>2, <1>5, <2>2, <3>1
    <2> QED
      BY <1>1, <1>2, <1>9, <2>1, <2>2
  <1>10. Limiter(new, 1, now + Window)
    BY <1>1, <1>2, <1>6, <1>7, <1>8, <1>9 DEF Limiter
  <1> QED
    BY <1>10 DEF new

-----------------------------------------------------------------------------
(* Routing and context *)

(* What the type invariant says about one sandbox.                          *)
LEMMA SandboxTypes ==
    ASSUME RelayTypeOK, NEW t \in Sandboxes
    PROVE  /\ outCh[t] \in Seq(Message) /\ Len(outCh[t]) =< OutCap /\ inHand[t] \in Seq(Message)
           /\ context[t] \in Nat /\ offered[t] \in Nat /\ written[t] \in Nat
           /\ rlCount[t] \in Nat /\ orders[t] \in Nat /\ rlWindow[t] \in Int
           /\ forwarded[t] \in Seq(0..MaxTime)
           /\ context \in [Sandboxes -> Nat] /\ offered \in [Sandboxes -> Nat]
           /\ written \in [Sandboxes -> Nat] /\ rlCount \in [Sandboxes -> Nat]
           /\ orders \in [Sandboxes -> Nat]
  BY DEF RelayTypeOK

(* The number of the last event done with is one.                           *)
LEMMA HighType == ASSUME RelayTypeOK, FoundOwn PROVE High \in Nat /\ High =< received
  BY DEF RelayTypeOK, FoundOwn, High

(* A sandbox whose channel, writer and written events stay as they are.     *)
LEMMA RouteKept ==
    ASSUME NEW t, RouteOK(t), writer'[t] = writer[t], inHand'[t] = inHand[t],
           outCh'[t] = outCh[t], written'[t] = written[t], High' = High
    PROVE  RouteOK(t)'
  BY DEF RouteOK, InHandOK, InOrder

(* A sandbox whose channel has changed.                                     *)
LEMMA RouteMade ==
    ASSUME NEW t, InHandOK(t)', InOrder(inHand'[t] \o outCh'[t], written'[t], High', t)
    PROVE  RouteOK(t)'
  BY DEF RouteOK, InOrder

(* A sandbox whose attachment and context stay as they are.                 *)
LEMMA ContextKept ==
    ASSUME NEW t, ContextOK(t), (t \in conns') = (t \in conns), handler'[t] = handler[t],
           writer'[t] = writer[t], context'[t] = context[t], offered'[t] = offered[t], lastTick' = lastTick
    PROVE  ContextOK(t)'
  BY DEF ContextOK

(* The initial state.                                                       *)
LEMMA RouteInit == ASSUME RelayInit PROVE RelayRouteInv
  <1>1. RelayTypeOK
    <2>1. /\ outCh \in [Sandboxes -> Seq(Message)] /\ inHand \in [Sandboxes -> Seq(Message)]
          /\ forwarded \in [Sandboxes -> Seq(0..MaxTime)]
          /\ \A t \in Sandboxes : Len(outCh[t]) =< OutCap
      BY RelayAssumption DEF RelayInit
    <2>2. /\ handler \in [Sandboxes -> {"none", "register", "read", "send", "scan", "wait", "done"}]
          /\ writer \in [Sandboxes -> {"none", "select", "write", "done"}]
          /\ \A f \in {context, rlCount, orders, written, offered} : f \in [Sandboxes -> Nat]
          /\ rlWindow \in [Sandboxes -> Int]
          /\ ctxDone \in [Sandboxes -> BOOLEAN] /\ gone \in [Sandboxes -> BOOLEAN]
      BY DEF RelayInit
    <2> QED
      BY <2>1, <2>2, RelayAssumption DEF RelayInit, RelayTypeOK
  <1>2. FoundOwn /\ lastTick =< received /\ High = 0
    BY DEF RelayInit, FoundOwn, High
  <1>3. ASSUME NEW t \in Sandboxes PROVE RouteOK(t) /\ ContextOK(t)
    <2>1. /\ inHand[t] = <<>> /\ Len(inHand[t] \o outCh[t]) = 0 /\ written[t] = 0
          /\ writer[t] = "none"
      BY DEF RelayInit
    <2>2. RouteOK(t)
      BY <1>2, <2>1 DEF RouteOK, InHandOK, InOrder
    <2>3. ContextOK(t)
      BY DEF RelayInit, ContextOK
    <2> QED
      BY <2>2, <2>3
  <1> QED
    BY <1>1, <1>2, <1>3 DEF RelayRouteInv

(* fanOut gets a tick.                                                      *)
LEMMA FanTickRoute == ASSUME RelayRouteInv, FanTick PROVE RelayRouteInv'
  <1> DEFINE m == Msg("tick", received + 1, Nobody)
  <1>1. /\ found = NoRoute /\ found' = found /\ received' = received + 1
        /\ lastTick' = received + 1 /\ received \in Nat
        /\ outCh' = [t \in Sandboxes |-> IF t \in conns THEN Offer(outCh[t], m) ELSE outCh[t]]
        /\ offered' = [t \in Sandboxes |-> IF t \in conns THEN received + 1 ELSE offered[t]]
        /\ UNCHANGED <<conns, handler, context, writer, inHand, written, ctxDone, gone>>
        /\ UNCHANGED <<clock, rlCount, rlWindow, forwarded, orders>>
    BY DEF FanTick, FanOther, handlerVars, writerVars, limitVars, RelayRouteInv, RelayTypeOK
  <1>2. m \in Message /\ m.kind = "tick" /\ m.n = received + 1
    BY <1>1, MessageFields
  <1> HIDE DEF m
  <1>3. /\ High = received /\ High' = received + 1 /\ FoundOwn' /\ lastTick' =< received'
        /\ RelayTypeOK /\ lastTick =< received
    BY <1>1 DEF High, FoundOwn, RelayRouteInv
  <1>4. RelayTypeOK'
    <2>1. ASSUME NEW t \in Sandboxes
          PROVE  outCh'[t] \in Seq(Message) /\ Len(outCh'[t]) =< OutCap /\ offered'[t] \in Nat
      BY <1>1, <1>2, <1>3, SandboxTypes, OfferType
    <2>2. /\ outCh' \in [Sandboxes -> Seq(Message)] /\ offered' \in [Sandboxes -> Nat]
          /\ \A t \in Sandboxes : Len(outCh'[t]) =< OutCap
      BY <1>1, <2>1
    <2> QED
      BY <1>1, <1>3, <2>2 DEF RelayTypeOK
  <1>5. ASSUME NEW t \in Sandboxes PROVE RouteOK(t)' /\ ContextOK(t)'
    <2>1. /\ RouteOK(t) /\ ContextOK(t) /\ outCh[t] \in Seq(Message) /\ inHand[t] \in Seq(Message)
          /\ written[t] \in Nat /\ context[t] \in Nat /\ offered[t] \in Nat
      BY <1>3, SandboxTypes DEF RelayRouteInv
    <2>2. InOrder(inHand[t] \o outCh'[t], written[t], received + 1, t)
      <3>1. InOrder(inHand[t] \o outCh[t], written[t], received, t)
        BY <1>3, <2>1 DEF RouteOK
      <3>t. received \in Nat /\ received + 1 \in Nat /\ received =< received + 1
        BY <1>1
      <3>2. CASE t \in conns
        <4>1. outCh'[t] = Offer(outCh[t], m)
          BY <1>1, <3>2
        <4>2. InOrder(inHand[t] \o Offer(outCh[t], m), written[t], received + 1, t)
          <5>1. /\ m.kind \in EngineEvent => m.n > received /\ m.n =< received + 1
                /\ m.kind = "fill" => m.to = t
            BY <1>1, <1>2
          <5> QED
            BY <1>2, <2>1, <3>1, <3>t, <5>1, OfferInOrder
        <4> QED
          BY <4>1, <4>2
      <3>3. CASE t \notin conns
        <4>1. inHand[t] \o outCh[t] \in Seq(Message) /\ outCh'[t] = outCh[t]
          BY <1>1, <2>1, <3>3, WayProperties
        <4>2. InOrder(inHand[t] \o outCh[t], written[t], received + 1, t)
          BY <2>1, <3>1, <3>t, <4>1, RaiseInOrder
        <4> QED
          BY <4>1, <4>2
      <3> QED
        BY <3>2, <3>3
    <2>3. RouteOK(t)'
      BY <1>1, <1>3, <2>1, <2>2 DEF RouteOK, InHandOK, InOrder
    <2>4. ContextOK(t)'
      BY <1>1, <1>3, <2>1 DEF ContextOK, RelayTypeOK
    <2> QED
      BY <2>3, <2>4
  <1> QED
    BY <1>3, <1>4, <1>5 DEF RelayRouteInv

(* fanOut gets a fill or a rejection and looks its channel up.              *)
LEMMA FanLookupRoute ==
    ASSUME RelayRouteInv, NEW to \in Traders, FanLookup(to) PROVE RelayRouteInv'
  <1>1. /\ found = NoRoute /\ received' = received + 1 /\ received \in Nat
        /\ UNCHANGED <<lastTick, outCh, offered>>
        /\ UNCHANGED <<conns, handler, context, writer, inHand, written, ctxDone, gone>>
        /\ UNCHANGED <<clock, rlCount, rlWindow, forwarded, orders>>
    BY DEF FanLookup, FanOther, handlerVars, writerVars, limitVars, RelayRouteInv, RelayTypeOK
  <1>2. found' = NoRoute \/ (to \in conns /\ found' = [ch |-> to, to |-> to])
    BY DEF FanLookup, Route
  <1>3. RelayTypeOK /\ lastTick =< received /\ lastTick \in Nat /\ conns \subseteq Sandboxes
    BY DEF RelayRouteInv, RelayTypeOK
  <1>4. RelayTypeOK'
    <2>1. found' \in [ch : Sandboxes, to : Traders] \cup {NoRoute}
      BY <1>2, <1>3
    <2> QED
      BY <1>1, <1>3, <2>1 DEF RelayTypeOK
  <1>5. FoundOwn' /\ lastTick' =< received'
    BY <1>1, <1>2, <1>3 DEF FoundOwn
  <1>6. High = received /\ High' \in {received, received + 1}
    BY <1>1 DEF High
  <1>7. ASSUME NEW t \in Sandboxes PROVE RouteOK(t)' /\ ContextOK(t)'
    <2>1. /\ RouteOK(t) /\ ContextOK(t) /\ outCh[t] \in Seq(Message) /\ inHand[t] \in Seq(Message)
          /\ written[t] \in Nat /\ inHand[t] \o outCh[t] \in Seq(Message)
      BY <1>3, SandboxTypes, WayProperties DEF RelayRouteInv
    <2>2. InOrder(inHand[t] \o outCh[t], written[t], High', t)
      <3>1. received \in Nat /\ High' \in Nat /\ received =< High'
        BY <1>1, <1>6
      <3>2. InOrder(inHand[t] \o outCh[t], written[t], received, t)
        BY <1>6, <2>1 DEF RouteOK
      <3> QED
        BY <2>1, <3>1, <3>2, RaiseInOrder
    <2>3. RouteOK(t)'
      BY <1>1, <2>1, <2>2 DEF RouteOK, InHandOK, InOrder
    <2> QED
      BY <1>1, <2>1, <2>3, ContextKept
  <1> QED
    BY <1>4, <1>5, <1>7 DEF RelayRouteInv

(* fanOut sends it.                                                         *)
LEMMA FanSendRoute == ASSUME RelayRouteInv, FanSend PROVE RelayRouteInv'
  <1> DEFINE c == found.ch
             m == Msg("fill", received, found.to)
  <1>1. /\ found # NoRoute /\ found' = NoRoute /\ outCh' = [outCh EXCEPT ![c] = Offer(@, m)]
        /\ UNCHANGED <<received, lastTick, offered>>
        /\ UNCHANGED <<conns, handler, context, writer, inHand, written, ctxDone, gone>>
        /\ UNCHANGED <<clock, rlCount, rlWindow, forwarded, orders>>
    BY DEF FanSend, FanOther, handlerVars, writerVars, limitVars
  <1>2. /\ RelayTypeOK /\ FoundOwn /\ lastTick =< received /\ received \in Nat
        /\ c \in Sandboxes /\ found.to \in Traders /\ c = found.to /\ received > 0
        /\ outCh \in [Sandboxes -> Seq(Message)]
    BY <1>1 DEF RelayRouteInv, RelayTypeOK, FoundOwn
  <1>3. m \in Message /\ m.kind = "fill" /\ m.n = received /\ m.to = c
    BY <1>2, MessageFields
  <1> HIDE DEF m, c
  <1>4. /\ FoundOwn' /\ lastTick' =< received'
        /\ High = received - 1 /\ High' = received /\ High \in Nat
    BY <1>1, <1>2 DEF FoundOwn, High
  <1>5. \A t \in Sandboxes : outCh'[t] = IF t = c THEN Offer(outCh[t], m) ELSE outCh[t]
    BY <1>1, <1>2
  <1>6. RelayTypeOK'
    <2>1. ASSUME NEW t \in Sandboxes
          PROVE  outCh'[t] \in Seq(Message) /\ Len(outCh'[t]) =< OutCap
      BY <1>2, <1>3, <1>5, SandboxTypes, OfferType
    <2>2. /\ outCh' \in [Sandboxes -> Seq(Message)]
          /\ \A t \in Sandboxes : Len(outCh'[t]) =< OutCap
      BY <1>1, <1>2, <2>1
    <2> QED
      BY <1>1, <1>2, <2>2 DEF RelayTypeOK
  <1>7. ASSUME NEW t \in Sandboxes PROVE RouteOK(t)' /\ ContextOK(t)'
    <2>1. /\ RouteOK(t) /\ ContextOK(t) /\ outCh[t] \in Seq(Message) /\ inHand[t] \in Seq(Message)
          /\ written[t] \in Nat /\ inHand[t] \o outCh[t] \in Seq(Message)
      BY <1>2, SandboxTypes, WayProperties DEF RelayRouteInv
    <2>2. InOrder(inHand[t] \o outCh[t], written[t], High, t)
      BY <2>1 DEF RouteOK
    <2>3. received \in Nat /\ High \in Nat /\ High =< received
      BY <1>2, <1>4
    <2>4. InOrder(inHand[t] \o outCh'[t], written[t], received, t)
      <3>1. CASE t = c
        <4>1. m.kind \in EngineEvent => m.n > High /\ m.n =< received
          BY <1>2, <1>3, <1>4
        <4>2. m.kind = "fill" => m.to = t
          BY <1>3, <3>1
        <4>3. InOrder(inHand[t] \o Offer(outCh[t], m), written[t], received, t)
          BY <1>3, <2>1, <2>2, <2>3, <4>1, <4>2, OfferInOrder
        <4> QED
          BY <1>5, <3>1, <4>3
      <3>2. CASE t # c
        <4>1. InOrder(inHand[t] \o outCh[t], written[t], received, t)
          BY <2>1, <2>2, <2>3, RaiseInOrder
        <4> QED
          BY <1>5, <3>2, <4>1
      <3> QED
        BY <3>1, <3>2
    <2>5. RouteOK(t)'
      BY <1>1, <1>4, <2>1, <2>4 DEF RouteOK, InHandOK, InOrder
    <2> QED
      BY <1>1, <2>1, <2>5, ContextKept
  <1> QED
    BY <1>4, <1>6, <1>7 DEF RelayRouteInv

(* A message of HandleSandbox itself leaves the events in order.            *)
LEMMA OwnMessage ==
    ASSUME RelayTypeOK, FoundOwn, NEW t \in Sandboxes, RouteOK(t), NEW m \in Message,
           m.kind \notin EngineEvent
    PROVE  /\ Offer(outCh[t], m) \in Seq(Message) /\ Len(Offer(outCh[t], m)) =< OutCap
           /\ InOrder(inHand[t] \o Offer(outCh[t], m), written[t], High, t)
  <1>1. /\ outCh[t] \in Seq(Message) /\ inHand[t] \in Seq(Message) /\ written[t] \in Nat
        /\ Len(outCh[t]) =< OutCap
    BY SandboxTypes
  <1>2. High \in Nat /\ High =< High
    BY HighType
  <1>3. InOrder(inHand[t] \o outCh[t], written[t], High, t)
    BY DEF RouteOK
  <1>4. m.kind # "fill"
    BY DEF EngineEvent
  <1> QED
    BY <1>1, <1>2, <1>3, <1>4, OfferType, OfferInOrder

(* The steps of HandleSandbox up to its scan loop.                          *)
LEMMA AttachOrder ==
    /\ Attaching["none"] = "register" /\ Attaching["register"] = "read"
    /\ Attaching["read"] = "send" /\ Attaching["send"] = "scan"
  BY DEF Attaching

(* HandleSandbox attaches, scans and detaches, without touching a channel.  *)
LEMMA HandlerRoute ==
    ASSUME RelayRouteInv, NEW t \in Sandboxes,
           Attach(t) \/ Register(t) \/ ReadContext(t) \/ ScanEnds(t) \/ Detach(t)
    PROVE  RelayRouteInv'
  <1>1. /\ UNCHANGED <<received, found, lastTick, outCh, offered>>
        /\ UNCHANGED <<writer, inHand, written, ctxDone, gone>>
        /\ UNCHANGED <<clock, rlCount, rlWindow, forwarded, orders>>
    BY DEF Attach, Register, ReadContext, ScanEnds, Detach, fanVars, writerVars, limitVars
  <1>2. /\ RelayTypeOK /\ FoundOwn /\ lastTick =< received
        /\ context \in [Sandboxes -> Nat] /\ lastTick \in Nat /\ conns \subseteq Sandboxes
        /\ handler \in [Sandboxes -> {"none", "register", "read", "send", "scan", "wait", "done"}]
    BY SandboxTypes DEF RelayRouteInv, RelayTypeOK
  <1>3. FoundOwn' /\ High' = High
    BY <1>1, <1>2 DEF FoundOwn, High
  <1>4. \A u \in Sandboxes : RouteOK(u)'
    BY <1>1, <1>3, RouteKept DEF RelayRouteInv
  <1>5. ContextOK(t) /\ lastTick =< lastTick
    BY <1>2 DEF RelayRouteInv
  <1> SUFFICES /\ ContextOK(t)'
               /\ \E at \in {"register", "read", "send", "wait", "done"} :
                    handler' = [handler EXCEPT ![t] = at]
               /\ context' \in [Sandboxes -> Nat] /\ conns' \subseteq Sandboxes
               /\ \A u \in Sandboxes \ {t} :
                    context'[u] = context[u] /\ ((u \in conns') = (u \in conns))
    <2>1. ASSUME NEW u \in Sandboxes, u # t PROVE ContextOK(u)'
      <3>1. ContextOK(u) /\ handler'[u] = handler[u]
        BY <1>2, <2>1 DEF RelayRouteInv
      <3> QED
        BY <1>1, <2>1, <3>1, ContextKept
    <2>2. RelayTypeOK'
      BY <1>1, <1>2, SMTT(60) DEF RelayTypeOK
    <2> QED
      BY <1>1, <1>2, <1>3, <1>4, <2>1, <2>2 DEF RelayRouteInv
  <1>6. CASE Attach(t)
    <2>1. /\ handler[t] = "none" /\ handler' = [handler EXCEPT ![t] = "register"]
          /\ UNCHANGED <<context, conns>>
      BY <1>6, AttachOrder DEF Attach, Step
    <2>2. handler'[t] = "register"
      BY <1>2, <2>1
    <2> QED
      BY <1>1, <1>2, <1>5, <2>1, <2>2 DEF ContextOK
  <1>7. CASE Register(t)
    <2>1. /\ handler[t] = "register" /\ handler' = [handler EXCEPT ![t] = "read"]
          /\ conns' = conns \cup {t} /\ context' = context
      BY <1>7, AttachOrder DEF Register, Step
    <2>2. handler'[t] = "read"
      BY <1>2, <2>1
    <2> QED
      BY <1>1, <1>2, <1>5, <2>1, <2>2 DEF ContextOK
  <1>8. CASE ReadContext(t)
    <2>1. /\ handler[t] = "read" /\ handler' = [handler EXCEPT ![t] = "send"]
          /\ context' = [context EXCEPT ![t] = lastTick] /\ conns' = conns
      BY <1>8, AttachOrder DEF ReadContext, Step
    <2>2. handler'[t] = "send" /\ context'[t] = lastTick
      BY <1>2, <2>1
    <2> QED
      BY <1>1, <1>2, <1>5, <2>1, <2>2 DEF ContextOK
  <1>9. CASE ScanEnds(t)
    <2>1. /\ handler[t] = "scan" /\ handler' = [handler EXCEPT ![t] = "wait"]
          /\ UNCHANGED <<context, conns>>
      BY <1>9 DEF ScanEnds
    <2>2. handler'[t] = "wait"
      BY <1>2, <2>1
    <2> QED
      BY <1>1, <1>2, <1>5, <2>1, <2>2 DEF ContextOK
  <1>10. CASE Detach(t)
    <2>1. /\ handler[t] = "wait" /\ handler' = [handler EXCEPT ![t] = "done"]
          /\ conns' = conns \ {t} /\ context' = context
      BY <1>10 DEF Detach
    <2>2. handler'[t] = "done"
      BY <1>2, <2>1
    <2> QED
      BY <1>1, <1>2, <1>5, <2>1, <2>2 DEF ContextOK
  <1> QED
    BY <1>6, <1>7, <1>8, <1>9, <1>10

(* HandleSandbox sends the context tick and starts the writer.              *)
LEMMA SendContextRoute ==
    ASSUME RelayRouteInv, NEW t \in Sandboxes, SendContext(t) PROVE RelayRouteInv'
  <1> DEFINE m == Msg("context", context[t], Nobody)
             newest == IF context[t] > offered[t] THEN context[t] ELSE offered[t]
             new == IF context[t] = 0 THEN outCh[t] ELSE Offer(outCh[t], m)
  <1>1. /\ UNCHANGED <<received, found, lastTick, conns, context, inHand, written>>
        /\ UNCHANGED <<ctxDone, gone, clock, rlCount, rlWindow, forwarded, orders>>
        /\ handler[t] = "send" /\ handler' = [handler EXCEPT ![t] = "scan"]
        /\ outCh' = IF context[t] = 0 THEN outCh ELSE [outCh EXCEPT ![t] = Offer(@, m)]
        /\ offered' = [offered EXCEPT ![t] = newest]
        /\ writer' = [writer EXCEPT ![t] = "select"]
    BY AttachOrder DEF SendContext, Step, fanVars, limitVars
  <1>2. /\ RelayTypeOK /\ FoundOwn /\ lastTick =< received /\ lastTick \in Nat
        /\ outCh \in [Sandboxes -> Seq(Message)] /\ offered \in [Sandboxes -> Nat]
        /\ context[t] \in Nat /\ offered[t] \in Nat /\ RouteOK(t) /\ ContextOK(t)
        /\ handler \in [Sandboxes -> {"none", "register", "read", "send", "scan", "wait", "done"}]
        /\ writer \in [Sandboxes -> {"none", "select", "write", "done"}]
    BY SandboxTypes DEF RelayRouteInv, RelayTypeOK
  <1>3. m \in Message /\ m.kind \notin EngineEvent
    BY <1>2, MessageFields DEF EngineEvent
  <1>4. /\ newest \in Nat /\ newest = lastTick
        /\ writer[t] = "none" /\ inHand[t] = <<>>
    BY <1>1, <1>2 DEF ContextOK, RouteOK, InHandOK
  <1>5. /\ new \in Seq(Message) /\ Len(new) =< OutCap
        /\ InOrder(inHand[t] \o new, written[t], High, t)
    <2> HIDE DEF m
    <2>1. /\ outCh[t] \in Seq(Message) /\ Len(outCh[t]) =< OutCap
          /\ InOrder(inHand[t] \o outCh[t], written[t], High, t)
      BY <1>2, SandboxTypes DEF RouteOK
    <2>2. /\ Offer(outCh[t], m) \in Seq(Message) /\ Len(Offer(outCh[t], m)) =< OutCap
          /\ InOrder(inHand[t] \o Offer(outCh[t], m), written[t], High, t)
      BY <1>2, <1>3, OwnMessage
    <2> QED
      BY <2>1, <2>2
  <1>6. \A u \in Sandboxes : /\ outCh'[u] = IF u = t THEN new ELSE outCh[u]
                             /\ offered'[u] = IF u = t THEN newest ELSE offered[u]
                             /\ handler'[u] = IF u = t THEN "scan" ELSE handler[u]
                             /\ writer'[u] = IF u = t THEN "select" ELSE writer[u]
    BY <1>1, <1>2
  <1>7. outCh' \in [Sandboxes -> Seq(Message)] /\ offered' \in [Sandboxes -> Nat]
    BY <1>1, <1>2, <1>4, <1>5
  <1> HIDE DEF m, new, newest
  <1>8. FoundOwn' /\ High' = High
    BY <1>1, <1>2 DEF FoundOwn, High
  <1>9. RelayTypeOK'
    <2>1. \A u \in Sandboxes : Len(outCh'[u]) =< OutCap
      BY <1>2, <1>5, <1>6 DEF RelayTypeOK
    <2> QED
      BY <1>1, <1>2, <1>7, <2>1, SMTT(60) DEF RelayTypeOK
  <1>10. ASSUME NEW u \in Sandboxes PROVE RouteOK(u)' /\ ContextOK(u)'
    <2>1. CASE u # t
      <3>1. RouteOK(u) /\ ContextOK(u)
        BY DEF RelayRouteInv
      <3> QED
        BY <1>1, <1>6, <1>8, <2>1, <3>1, RouteKept, ContextKept
    <2>2. CASE u = t
      <3>1. RouteOK(u)'
        <4>1. InHandOK(u)'
          BY <1>1, <1>4, <1>6, <2>2 DEF InHandOK
        <4>2. /\ inHand'[u] = inHand[t] /\ outCh'[u] = new /\ written'[u] = written[t]
              /\ High' = High
          BY <1>1, <1>6, <1>8, <2>2
        <4>3. InOrder(inHand'[u] \o outCh'[u], written'[u], High', u)
          BY <1>5, <2>2, <4>2
        <4> QED
          BY <4>1, <4>3, RouteMade
      <3>2. ContextOK(u)'
        BY <1>1, <1>2, <1>4, <1>6, <2>2 DEF ContextOK
      <3> QED
        BY <3>1, <3>2
    <2> QED
      BY <2>1, <2>2
  <1> QED
    BY <1>1, <1>2, <1>8, <1>9, <1>10 DEF RelayRouteInv

(* HandleSandbox gets an order, which it forwards or rejects.               *)
LEMMA OrderLineRoute ==
    ASSUME RelayRouteInv, NEW t \in Sandboxes, OrderLine(t) PROVE RelayRouteInv'
  <1> DEFINE m == Msg("limited", 0, t)
  <1>1. /\ UNCHANGED <<received, found, lastTick, conns, handler, context>>
        /\ UNCHANGED <<writer, inHand, written, ctxDone, gone, clock, offered>>
        /\ orders' = [orders EXCEPT ![t] = @ + 1]
        /\ rlWindow' = [rlWindow EXCEPT ![t] = IF Expired(t) THEN clock + Window ELSE @]
        /\ rlCount' = [rlCount EXCEPT ![t] = Counted(t)]
        /\ \/ outCh' = [outCh EXCEPT ![t] = Offer(@, m)] /\ forwarded' = forwarded
           \/ forwarded' = [forwarded EXCEPT ![t] = Append(@, clock)] /\ outCh' = outCh
    BY DEF OrderLine, fanVars, handlerVars, writerVars
  <1>2. /\ RelayTypeOK /\ FoundOwn /\ lastTick =< received /\ clock \in 0..MaxTime
        /\ outCh \in [Sandboxes -> Seq(Message)] /\ orders \in [Sandboxes -> Nat]
        /\ rlWindow \in [Sandboxes -> Int] /\ rlCount \in [Sandboxes -> Nat]
        /\ forwarded \in [Sandboxes -> Seq(0..MaxTime)]
        /\ RouteOK(t)
    BY SandboxTypes DEF RelayRouteInv, RelayTypeOK
  <1>3. m \in Message /\ m.kind \notin EngineEvent
    BY MessageFields, RelayAssumption DEF EngineEvent
  <1> HIDE DEF m
  <1>4. /\ Offer(outCh[t], m) \in Seq(Message) /\ Len(Offer(outCh[t], m)) =< OutCap
        /\ InOrder(inHand[t] \o Offer(outCh[t], m), written[t], High, t)
    BY <1>2, <1>3, OwnMessage
  <1>5. FoundOwn' /\ High' = High
    BY <1>1, <1>2 DEF FoundOwn, High
  <1>6. /\ orders' \in [Sandboxes -> Nat] /\ rlWindow' \in [Sandboxes -> Int]
        /\ rlCount' \in [Sandboxes -> Nat]
    <2>1. Counted(t) \in Nat
      BY <1>2 DEF Counted, FreshCount
    <2>2. orders[t] + 1 \in Nat
      BY <1>2
    <2>3. (IF Expired(t) THEN clock + Window ELSE rlWindow[t]) \in Int
      BY <1>2, RelayAssumption
    <2> QED
      BY <1>1, <1>2, <2>1, <2>2, <2>3
  <1>7. forwarded' \in [Sandboxes -> Seq(0..MaxTime)]
    <2>1. Append(forwarded[t], clock) \in Seq(0..MaxTime)
      BY <1>2, SentAppended
    <2> QED
      BY <1>1, <1>2, <2>1
  <1>8. /\ outCh' \in [Sandboxes -> Seq(Message)]
        /\ \A u \in Sandboxes : /\ Len(outCh'[u]) =< OutCap
                                /\ u # t => outCh'[u] = outCh[u]
                                /\ outCh'[u] = outCh[u] \/ outCh'[u] = Offer(outCh[u], m)
    <2>1. \A u \in Sandboxes : Len(outCh[u]) =< OutCap
      BY <1>2 DEF RelayTypeOK
    <2> QED
      BY <1>1, <1>2, <1>4, <2>1
  <1>9. RelayTypeOK'
    <2>1. /\ UNCHANGED <<received, found, lastTick, conns, handler, context>>
          /\ UNCHANGED <<writer, inHand, written, ctxDone, gone, clock, offered>>
          /\ \A u \in Sandboxes : Len(outCh'[u]) =< OutCap
      BY <1>1, <1>8
    <2> QED
      BY <1>2, <1>6, <1>7, <1>8, <2>1, SMTT(60) DEF RelayTypeOK
  <1>10. ASSUME NEW u \in Sandboxes PROVE RouteOK(u)' /\ ContextOK(u)'
    <2>1. RouteOK(u) /\ ContextOK(u)
      BY DEF RelayRouteInv
    <2>2. ContextOK(u)'
      BY <1>1, <2>1, ContextKept
    <2>3. CASE outCh'[u] = outCh[u]
      BY <1>1, <1>5, <2>1, <2>2, <2>3, RouteKept
    <2>4. CASE outCh'[u] # outCh[u]
      <3>1. u = t /\ outCh'[u] = Offer(outCh[u], m)
        BY <1>8, <2>4
      <3>2. InHandOK(u)'
        BY <1>1, <2>1 DEF RouteOK, InHandOK
      <3>3. inHand' = inHand /\ written' = written /\ High' = High
        BY <1>1, <1>5
      <3>4. InOrder(inHand'[u] \o outCh'[u], written'[u], High', u)
        BY <1>4, <3>1, <3>3
      <3>5. RouteOK(u)'
        BY <3>2, <3>4, RouteMade
      <3> QED
        BY <2>2, <3>5
    <2> QED
      BY <2>3, <2>4
  <1> QED
    BY <1>1, <1>2, <1>5, <1>9, <1>10 DEF RelayRouteInv

(* The writer takes, writes and drops messages.                             *)
LEMMA WriterRoute == ASSUME RelayRouteInv, NEW t \in Sandboxes, Writer(t) PROVE RelayRouteInv'
  <1>1. /\ UNCHANGED <<received, found, lastTick, conns, handler, context, offered>>
        /\ UNCHANGED <<ctxDone, gone, clock, rlCount, rlWindow, forwarded, orders>>
    BY DEF Writer, WriterTake, WriteOk, WriterEnds, WriterOther, fanVars, handlerVars, limitVars
  <1>2. /\ RelayTypeOK /\ FoundOwn /\ lastTick =< received
        /\ outCh \in [Sandboxes -> Seq(Message)] /\ inHand \in [Sandboxes -> Seq(Message)]
        /\ outCh[t] \in Seq(Message) /\ inHand[t] \in Seq(Message) /\ Len(outCh[t]) =< OutCap
        /\ written \in [Sandboxes -> Nat] /\ written[t] \in Nat
        /\ writer \in [Sandboxes -> {"none", "select", "write", "done"}]
        /\ RouteOK(t) /\ ContextOK(t)
    BY SandboxTypes DEF RelayRouteInv, RelayTypeOK
  <1>3. FoundOwn' /\ High' = High /\ High \in Nat
    BY <1>1, <1>2, HighType DEF FoundOwn, High
  <1>4. InOrder(inHand[t] \o outCh[t], written[t], High, t) /\ InHandOK(t)
    BY <1>2 DEF RouteOK
  <1> SUFFICES ASSUME NEW h \in Seq(Message), NEW ch \in Seq(Message), NEW w \in Nat,
                      NEW at \in {"select", "write", "done"}, writer[t] # "none",
                      inHand' = [inHand EXCEPT ![t] = h], outCh' = [outCh EXCEPT ![t] = ch],
                      written' = [written EXCEPT ![t] = w], writer' = [writer EXCEPT ![t] = at],
                      IF at = "write" THEN Len(h) = 1 ELSE h = <<>>,
                      Len(ch) =< OutCap, InOrder(h \o ch, w, High, t)
               PROVE  RelayRouteInv'
    <2>1. CASE WriterTake(t)
      <3>1. /\ writer[t] = "select" /\ outCh[t] # <<>> /\ inHand[t] = <<>>
            /\ inHand' = [inHand EXCEPT ![t] = <<Head(outCh[t])>>]
            /\ outCh' = [outCh EXCEPT ![t] = Tail(outCh[t])]
            /\ writer' = [writer EXCEPT ![t] = "write"] /\ written' = written
        BY <1>4, <2>1 DEF WriterTake, InHandOK
      <3>2. /\ <<Head(outCh[t])>> \in Seq(Message) /\ Len(<<Head(outCh[t])>>) = 1
            /\ Tail(outCh[t]) \in Seq(Message) /\ Len(Tail(outCh[t])) = Len(outCh[t]) - 1
            /\ Len(outCh[t]) \in Nat
            /\ <<Head(outCh[t])>> \o Tail(outCh[t]) = <<>> \o outCh[t]
        BY <1>2, <3>1, TakeInOrder
      <3>3. InOrder(<<Head(outCh[t])>> \o Tail(outCh[t]), written[t], High, t)
        BY <1>4, <3>1, <3>2
      <3>4. Len(Tail(outCh[t])) =< OutCap
        BY <1>2, <3>2, RelayAssumption
      <3>5. written' = [written EXCEPT ![t] = written[t]]
        BY <1>2, <3>1
      <3> QED
        BY <1>2, <3>1, <3>2, <3>3, <3>4, <3>5
    <2>2. CASE WriteOk(t)
      <3> DEFINE w == IF Head(inHand[t]).kind \in EngineEvent THEN Head(inHand[t]).n
                      ELSE written[t]
      <3>1. /\ writer[t] = "write" /\ Len(inHand[t]) = 1 /\ outCh' = outCh
            /\ inHand' = [inHand EXCEPT ![t] = <<>>] /\ writer' = [writer EXCEPT ![t] = "select"]
            /\ written' = [written EXCEPT ![t] = w]
        BY <1>4, <2>2 DEF WriteOk, InHandOK
      <3>2. w = written[t] \/ (Head(inHand[t]).kind \in EngineEvent /\ w = Head(inHand[t]).n)
        OBVIOUS
      <3> HIDE DEF w
      <3>3. InOrder(<<>> \o outCh[t], w, High, t) /\ w \in Nat
        BY <1>2, <1>3, <1>4, <3>1, <3>2, WriteInOrder
      <3>4. outCh' = [outCh EXCEPT ![t] = outCh[t]] /\ <<>> \in Seq(Message)
        BY <1>2, <3>1
      <3> QED
        BY <1>2, <3>1, <3>3, <3>4
    <2>3. CASE WriterEnds(t)
      <3>1. /\ writer[t] \in {"select", "write"} /\ outCh' = outCh /\ written' = written
            /\ inHand' = [inHand EXCEPT ![t] = <<>>] /\ writer' = [writer EXCEPT ![t] = "done"]
        BY <2>3 DEF WriterEnds
      <3>2. InOrder(<<>> \o outCh[t], written[t], High, t)
        <4>1. CASE writer[t] = "select"
          BY <1>4, <4>1 DEF InHandOK
        <4>2. CASE writer[t] = "write"
          <5>1. Len(inHand[t]) = 1
            BY <1>4, <4>2 DEF InHandOK
          <5> QED
            BY <1>2, <1>3, <1>4, <5>1, WriteInOrder
        <4> QED
          BY <3>1, <4>1, <4>2
      <3>3. /\ outCh' = [outCh EXCEPT ![t] = outCh[t]] /\ <<>> \in Seq(Message)
            /\ written' = [written EXCEPT ![t] = written[t]]
        BY <1>2, <3>1
      <3> QED
        BY <1>2, <3>1, <3>2, <3>3
    <2> QED
      BY <2>1, <2>2, <2>3 DEF Writer
  <1>5. \A u \in Sandboxes : /\ outCh'[u] = IF u = t THEN ch ELSE outCh[u]
                             /\ inHand'[u] = IF u = t THEN h ELSE inHand[u]
                             /\ written'[u] = IF u = t THEN w ELSE written[u]
                             /\ writer'[u] = IF u = t THEN at ELSE writer[u]
    BY <1>2
  <1>6. RelayTypeOK'
    <2>1. /\ outCh' \in [Sandboxes -> Seq(Message)] /\ inHand' \in [Sandboxes -> Seq(Message)]
          /\ written' \in [Sandboxes -> Nat]
          /\ writer' \in [Sandboxes -> {"none", "select", "write", "done"}]
      BY <1>2
    <2>2. \A u \in Sandboxes : Len(outCh'[u]) =< OutCap
      BY <1>2, <1>5 DEF RelayTypeOK
    <2> QED
      BY <1>1, <1>2, <2>1, <2>2, SMTT(60) DEF RelayTypeOK
  <1>7. ASSUME NEW u \in Sandboxes PROVE RouteOK(u)' /\ ContextOK(u)'
    <2>1. CASE u # t
      <3>1. RouteOK(u) /\ ContextOK(u)
        BY DEF RelayRouteInv
      <3> QED
        BY <1>1, <1>3, <1>5, <2>1, <3>1, RouteKept, ContextKept
    <2>2. CASE u = t
      <3>1. InHandOK(u)'
        BY <1>5, <2>2 DEF InHandOK
      <3>2. InOrder(inHand'[u] \o outCh'[u], written'[u], High', u)
        BY <1>3, <1>5, <2>2
      <3>3. RouteOK(u)'
        BY <3>1, <3>2, RouteMade
      <3>4. ContextOK(u)'
        BY <1>1, <1>2, <2>2 DEF ContextOK
      <3> QED
        BY <3>3, <3>4
    <2> QED
      BY <2>1, <2>2
  <1> QED
    BY <1>1, <1>2, <1>3, <1>6, <1>7 DEF RelayRouteInv

(* The manager, the container and the clock.                                *)
LEMMA EnvRoute ==
    ASSUME RelayRouteInv,
           TimePasses \/ (\E t \in Sandboxes : CtxCancel(t) \/ ContainerStops(t))
             \/ UNCHANGED relayVars
    PROVE  RelayRouteInv'
  <1>1. /\ UNCHANGED <<received, found, lastTick, conns, handler, context, offered>>
        /\ UNCHANGED <<writer, inHand, written, outCh, rlCount, rlWindow, forwarded, orders>>
    BY DEF TimePasses, CtxCancel, ContainerStops, EnvOther, relayVars, fanVars, handlerVars,
       writerVars, limitVars
  <1>2. RelayTypeOK /\ FoundOwn /\ lastTick =< received
    BY DEF RelayRouteInv
  <1>3. FoundOwn' /\ High' = High
    BY <1>1, <1>2 DEF FoundOwn, High
  <1>4. \A u \in Sandboxes : RouteOK(u)' /\ ContextOK(u)'
    BY <1>1, <1>3, RouteKept, ContextKept DEF RelayRouteInv
  <1>5. /\ clock' \in 0..MaxTime /\ ctxDone' \in [Sandboxes -> BOOLEAN]
        /\ gone' \in [Sandboxes -> BOOLEAN]
    <2>1. /\ clock \in 0..MaxTime /\ ctxDone \in [Sandboxes -> BOOLEAN]
          /\ gone \in [Sandboxes -> BOOLEAN]
      BY <1>2 DEF RelayTypeOK
    <2>2. CASE TimePasses
      BY <2>1, <2>2, RelayAssumption DEF TimePasses
    <2>3. ASSUME NEW t \in Sandboxes, CtxCancel(t) \/ ContainerStops(t)
          PROVE  /\ clock' = clock /\ ctxDone' \in [Sandboxes -> BOOLEAN]
                 /\ gone' \in [Sandboxes -> BOOLEAN]
      BY <2>1, <2>3 DEF CtxCancel, ContainerStops, limitVars
    <2>4. CASE UNCHANGED relayVars
      BY <2>1, <2>4 DEF relayVars, limitVars
    <2> QED
      BY <2>1, <2>2, <2>3, <2>4
  <1>6. RelayTypeOK'
    BY <1>1, <1>2, <1>5 DEF RelayTypeOK
  <1> QED
    BY <1>1, <1>2, <1>3, <1>4, <1>6 DEF RelayRouteInv

(* Every step keeps routing and context.                                    *)
LEMMA RouteStep == ASSUME RelayRouteInv, [RelayNext]_relayVars PROVE RelayRouteInv'
  BY FanTickRoute, FanLookupRoute, FanSendRoute, HandlerRoute, SendContextRoute,
     OrderLineRoute, WriterRoute, EnvRoute DEF RelayNext, FanOut, HandleSandbox

(* Routing and context hold throughout.                                     *)
LEMMA RouteInvariant == RelaySpec => []RelayRouteInv
  BY RouteInit, RouteStep, PTL DEF RelaySpec

-----------------------------------------------------------------------------
(* The rate limiter's steps *)

(* A sandbox that has sent no order.                                        *)
LEMMA LimiterKept ==
    ASSUME NEW t, RelayTypeOK, t \in Sandboxes, LimiterOK(t), clock' \in Nat, clock' >= clock,
           rlCount'[t] = rlCount[t], rlWindow'[t] = rlWindow[t], forwarded'[t] = forwarded[t]
    PROVE  LimiterOK(t)'
  <1>1. forwarded[t] \in Seq(0..MaxTime) /\ clock \in 0..MaxTime /\ MaxTime \in Nat
    BY RelayAssumption DEF RelayTypeOK
  <1>2. \A i \in 1..Len(forwarded[t]) : forwarded[t][i] \in 0..MaxTime
    BY <1>1, SentAppended
  <1> QED
    <2>1. InWindow(t)' = InWindow(t)
      BY DEF InWindow
    <2>2. Limiter(forwarded[t], InWindow(t), rlWindow[t])'
      BY <2>1 DEF LimiterOK, Limiter
    <2>3. \A i \in 1..Len(forwarded'[t]) : forwarded'[t][i] =< clock'
      BY <1>1, <1>2 DEF LimiterOK
    <2> QED
      BY <2>2, <2>3 DEF LimiterOK

(* A sandbox that has sent an order, forwarded or refused.                  *)
LEMMA LimiterOrder ==
    ASSUME RelayTypeOK, NEW t \in Sandboxes, LimiterOK(t), OrderLine(t)
    PROVE  /\ LimiterOK(t)'
           /\ forwarded'[t] = forwarded[t] =>
                /\ Len(forwarded[t]) >= Limit
                /\ forwarded[t][Len(forwarded[t]) - Limit + 1] >= clock - Window
  <1> DEFINE sent == forwarded[t]
             k == InWindow(t)
  <1>1. /\ clock' = clock /\ clock \in 0..MaxTime /\ MaxTime \in Nat /\ Window \in Nat
        /\ Limit \in Nat \ {0} /\ sent \in Seq(0..MaxTime) /\ rlCount[t] \in Nat
        /\ rlWindow[t] \in Int /\ clock \in Nat
        /\ rlCount \in [Sandboxes -> Nat] /\ rlWindow \in [Sandboxes -> Int]
        /\ forwarded \in [Sandboxes -> Seq(0..MaxTime)]
    <2>1. clock' = clock
      BY DEF OrderLine
    <2>2. /\ sent \in Seq(0..MaxTime) /\ rlCount[t] \in Nat /\ rlWindow[t] \in Int
          /\ rlCount \in [Sandboxes -> Nat]
      BY SandboxTypes
    <2>3. /\ clock \in 0..MaxTime /\ clock \in Nat /\ rlWindow \in [Sandboxes -> Int]
          /\ forwarded \in [Sandboxes -> Seq(0..MaxTime)]
      BY DEF RelayTypeOK
    <2> QED
      BY <2>1, <2>2, <2>3, RelayAssumption
  <1>2. /\ Len(sent) \in Nat /\ Append(sent, clock) \in Seq(0..MaxTime)
        /\ Len(Append(sent, clock)) = Len(sent) + 1
        /\ \A i \in 1..Len(sent) : Append(sent, clock)[i] = sent[i] /\ sent[i] \in 0..MaxTime
        /\ Append(sent, clock)[Len(sent) + 1] = clock
    BY <1>1, SentAppended
  <1>3. /\ Limiter(sent, k, rlWindow[t]) /\ k \in Nat
        /\ \A i \in 1..Len(sent) : sent[i] =< clock
    BY <1>1 DEF LimiterOK, InWindow
  <1>4. /\ rlCount'[t] = 1 + (IF clock > rlWindow[t] THEN 0 ELSE rlCount[t])
        /\ rlWindow'[t] = IF clock > rlWindow[t] THEN clock + Window ELSE rlWindow[t]
    BY <1>1 DEF OrderLine, Counted, Expired, FreshCount
  <1>5. forwarded'[t] = IF Counted(t) > Limit THEN sent ELSE Append(sent, clock)
    BY <1>1 DEF OrderLine
  <1>6. Counted(t) = rlCount'[t]
    BY <1>1, <1>4 DEF Counted, Expired, FreshCount
  <1>7. forwarded'[t] # sent => \A i \in 1..Len(forwarded'[t]) : forwarded'[t][i] =< clock
    <2>1. \A i \in 1..Len(sent) + 1 : Append(sent, clock)[i] =< clock
      BY <1>1, <1>2, <1>3
    <2> QED
      BY <1>2, <1>5, <2>1
  <1>8. Append(sent, clock) # sent
    BY <1>2
  <1> HIDE DEF sent, k
  <1>9. CASE clock > rlWindow[t]
    <2>1. rlCount'[t] = 1 /\ forwarded'[t] = Append(sent, clock) /\ InWindow(t)' = 1
      BY <1>1, <1>4, <1>5, <1>6, <1>9 DEF InWindow
    <2>2. Limiter(Append(sent, clock), 1, clock + Window)
      BY <1>1, <1>3, <1>9, LimiterOpens
    <2>3. Limiter(forwarded'[t], InWindow(t)', rlWindow'[t])
      BY <1>4, <1>9, <2>1, <2>2
    <2> QED
      BY <1>1, <1>7, <1>8, <2>1, <2>3 DEF LimiterOK, Limiter, sent
  <1>10. CASE ~(clock > rlWindow[t]) /\ rlCount[t] + 1 =< Limit
    <2>1. /\ rlCount'[t] = rlCount[t] + 1 /\ forwarded'[t] = Append(sent, clock)
          /\ InWindow(t)' = k + 1 /\ k < Limit /\ rlWindow'[t] = rlWindow[t]
          /\ clock =< rlWindow[t]
      BY <1>1, <1>4, <1>5, <1>6, <1>10 DEF InWindow, k
    <2>2. Limiter(Append(sent, clock), k + 1, rlWindow[t])
      BY <1>1, <1>3, <2>1, LimiterCounts
    <2>3. Limiter(forwarded'[t], InWindow(t)', rlWindow'[t])
      BY <2>1, <2>2
    <2> QED
      BY <1>1, <1>7, <1>8, <2>1, <2>3 DEF LimiterOK, Limiter, sent
  <1>11. CASE ~(clock > rlWindow[t]) /\ ~(rlCount[t] + 1 =< Limit)
    <2>1. /\ forwarded'[t] = sent /\ InWindow(t)' = k /\ k = Limit
          /\ rlWindow'[t] = rlWindow[t] /\ clock =< rlWindow[t]
      BY <1>1, <1>4, <1>5, <1>6, <1>11 DEF InWindow, k
    <2>2. Limiter(forwarded'[t], InWindow(t)', rlWindow'[t])
      BY <1>3, <2>1
    <2>3. LimiterOK(t)'
      BY <1>1, <1>3, <2>1, <2>2 DEF LimiterOK, Limiter
    <2>4. Len(sent) >= Limit /\ sent[Len(sent) - Limit + 1] = rlWindow[t] - Window
      BY <1>1, <1>2, <1>3, <2>1 DEF Limiter
    <2> QED
      BY <1>1, <2>1, <2>3, <2>4 DEF sent
  <1> QED
    BY <1>9, <1>10, <1>11

(* The initial state.                                                       *)
LEMMA LimitInit == ASSUME RelayInit PROVE \A t \in Sandboxes : LimiterOK(t)
  <1>1. ASSUME NEW t \in Sandboxes PROVE LimiterOK(t)
    <2>1. Len(forwarded[t]) = 0 /\ rlWindow[t] = -1 /\ rlCount[t] = 0
      BY DEF RelayInit
    <2>2. InWindow(t) = 0 /\ Limit \in Nat
      BY <2>1, RelayAssumption DEF InWindow
    <2> QED
      BY <2>1, <2>2 DEF LimiterOK, Limiter
  <1> QED
    BY <1>1

(* A step counts the orders of one sandbox, or of none.                     *)
LEMMA LimitStep ==
    ASSUME RelayTypeOK, RelayTypeOK', \A t \in Sandboxes : LimiterOK(t), [RelayNext]_relayVars
    PROVE  /\ \A t \in Sandboxes : LimiterOK(t)'
           /\ \A t \in Sandboxes :
                orders'[t] > orders[t] /\ forwarded'[t] = forwarded[t] =>
                  /\ Len(forwarded[t]) >= Limit
                  /\ forwarded[t][Len(forwarded[t]) - Limit + 1] >= clock - Window
  <1>1. CASE \E t \in Sandboxes : OrderLine(t)
    <2>1. PICK t \in Sandboxes : OrderLine(t)
      BY <1>1
    <2>2. /\ clock' = clock /\ clock \in Nat
          /\ \A u \in Sandboxes \ {t} : /\ rlCount'[u] = rlCount[u] /\ rlWindow'[u] = rlWindow[u]
                                        /\ forwarded'[u] = forwarded[u] /\ orders'[u] = orders[u]
                                        /\ orders[u] \in Nat
      <3>1. /\ rlCount \in [Sandboxes -> Nat] /\ rlWindow \in [Sandboxes -> Int]
            /\ orders \in [Sandboxes -> Nat] /\ clock \in 0..MaxTime
            /\ forwarded \in [Sandboxes -> Seq(0..MaxTime)]
        BY <2>1, SandboxTypes DEF RelayTypeOK
      <3> QED
        BY <2>1, <3>1 DEF OrderLine
    <2> QED
      BY <2>1, <2>2, LimiterKept, LimiterOrder
  <1>2. CASE UNCHANGED <<rlCount, rlWindow, forwarded, orders>> /\ clock' >= clock
    <2>1. clock' \in Nat
      BY DEF RelayTypeOK
    <2>2. \A t \in Sandboxes : orders[t] \in Nat
      BY SandboxTypes
    <2> QED
      BY <1>2, <2>1, <2>2, LimiterKept
  <1>3. clock \in Nat
    BY DEF RelayTypeOK
  <1>4. CASE FanOut
    BY <1>2, <1>3, <1>4 DEF FanOut, FanTick, FanLookup, FanSend, FanOther, limitVars
  <1>5. CASE TimePasses
    BY <1>2, <1>3, <1>5 DEF TimePasses
  <1>6. ASSUME NEW t \in Sandboxes,
               HandleSandbox(t) \/ Writer(t) \/ CtxCancel(t) \/ ContainerStops(t)
        PROVE  \/ OrderLine(t)
               \/ UNCHANGED <<rlCount, rlWindow, forwarded, orders>> /\ clock' >= clock
    BY <1>3, <1>6 DEF HandleSandbox, Attach, Register, ReadContext, SendContext, ScanEnds, Detach,
       Writer, WriterTake, WriteOk, WriterEnds, WriterOther, CtxCancel, ContainerStops, limitVars
  <1>7. CASE UNCHANGED relayVars
    BY <1>2, <1>3, <1>7 DEF relayVars, limitVars
  <1> QED
    BY <1>1, <1>2, <1>4, <1>5, <1>6, <1>7 DEF RelayNext

(* The rate limiter's invariant holds throughout.                           *)
LEMMA LimitInvariant == RelaySpec => []RelayLimitInv
  <1>1. RelayInit => RelayLimitInv
    BY RouteInit, LimitInit DEF RelayRouteInv, RelayLimitInv
  <1>2. RelayRouteInv /\ RelayRouteInv' /\ RelayLimitInv /\ [RelayNext]_relayVars => RelayLimitInv'
    BY LimitStep DEF RelayRouteInv, RelayLimitInv
  <1> QED
    BY <1>1, <1>2, RouteInvariant, PTL DEF RelaySpec

-----------------------------------------------------------------------------
(* The variables keep their types, and outCh stays within its capacity.     *)
THEOREM RelayTypeCorrect == RelaySpec => []RelayTypeOK
  <1>1. RelayRouteInv => RelayTypeOK
    BY DEF RelayRouteInv
  <1> QED
    BY <1>1, RouteInvariant, PTL

(* fanOut and the writers: every sandbox gets the engine's events in order  *)
(* and at most once, and fills and rejections only of its own, although     *)
(* fanOut sends them without the lock under which it found the channel.     *)
THEOREM RelayRoutesInOrder == RelaySpec => []RoutedInOrder
  <1>1. RelayRouteInv => RoutedInOrder
    BY DEF RelayRouteInv, RouteOK, InOrder, RoutedInOrder
  <1> QED
    BY <1>1, RouteInvariant, PTL

(* HandleSandbox registers before it reads lastTick, so that no tick falls  *)
(* between the two: an attached sandbox has been offered the newest one.    *)
THEOREM RelayContextCurrent == RelaySpec => []ContextCurrent
  <1>1. RelayRouteInv => ContextCurrent
    BY DEF RelayRouteInv, RelayTypeOK, ContextOK, ContextCurrent
  <1> QED
    BY <1>1, RouteInvariant, PTL

(* The rate limiter never lets 2 * Limit orders of a sandbox through in the *)
(* length of a window, wherever that begins.                                *)
THEOREM RelayRateBounded == RelaySpec => []RateBounded
  <1>1. RelayLimitInv => RateBounded
    BY DEF RelayLimitInv, LimiterOK, Limiter, RateBounded
  <1> QED
    BY <1>1, LimitInvariant, PTL

(* The rate limiter refuses an order only after Limit orders of the same    *)
(* sandbox in the length of a window before it.                             *)
THEOREM RelayRefusalEarned == RelaySpec => RefusalEarned
  <1>1. RelayRouteInv /\ RelayRouteInv' /\ RelayLimitInv /\ [RelayNext]_relayVars =>
          [\A t \in Sandboxes : orders'[t] > orders[t] /\ forwarded'[t] = forwarded[t] =>
             LET sent == forwarded[t] IN
             Len(sent) >= Limit /\ sent[Len(sent) - Limit + 1] >= clock - Window]_relayVars
    BY LimitStep DEF RelayRouteInv, RelayLimitInv
  <1> QED
    BY <1>1, RouteInvariant, LimitInvariant, PTL DEF RelaySpec, RefusalEarned
=============================================================================
