------------------------------ MODULE HubProofs ------------------------------
(***************************************************************************)
(* Hub.Run never panics and a client never misses a message, for any       *)
(* number of clients and any capacities.  The heart of the first argument  *)
(* is Membership: the client set holds exactly clients whose channel is    *)
(* still open, and a client that has not yet been registered is not in it  *)
(* and has never been closed.  The second rests on h.broadcast holding the *)
(* messages that follow the last one fanned out (BroadcastNext), and on a  *)
(* client starting with nothing queued (ClientGapFree).                    *)
(***************************************************************************)
EXTENDS Hub, TLAPS

Membership ==
    \A c \in Clients :
        /\ c \in clients => ~closed[c] /\ serve[c] \notin {"none", "register"}
        /\ closed[c] => serve[c] \notin {"none", "register"}

\* A writer that is writing holds a message
Writing == \A c \in Clients : write[c] = "write" => inHand[c] # <<>>

HubInv == HubTypeOK /\ HubNeverPanics /\ Membership /\ Writing

(* A non-empty queue of messages: its head is a message, its tail is shorter. *)
LEMMA HeadTail ==
    ASSUME NEW q \in Seq(Nat), q # <<>>
    PROVE  /\ Head(q) \in Nat /\ Tail(q) \in Seq(Nat)
           /\ Len(q) \in Nat /\ Len(Tail(q)) =< Len(q)
  OBVIOUS

(* Appending to a sequence of numbers. *)
LEMMA AppendLen ==
    ASSUME NEW q \in Seq(Nat), NEW m \in Nat
    PROVE  Append(q, m) \in Seq(Nat) /\ Len(Append(q, m)) = Len(q) + 1 /\ Len(q) \in Nat
  OBVIOUS

-----------------------------------------------------------------------------
(* Run's own steps. *)
LEMMA RunInv == ASSUME HubInv, Run PROVE HubInv'
  <1> USE DEF HubInv
  <1>1. ASSUME NEW c \in Clients, RunRegister(c) PROVE HubInv'
    <2>1. HubTypeOK'
      BY <1>1 DEF RunRegister, HubTypeOK
    <2>2. Membership'
      BY <1>1 DEF RunRegister, HubTypeOK, Membership
    <2>3. Writing'
      BY <1>1 DEF RunRegister, HubTypeOK, Writing
    <2> QED
      BY <1>1, <2>1, <2>2, <2>3 DEF RunRegister, HubNeverPanics
  <1>2. ASSUME NEW c \in Clients, RunUnregister(c) PROVE HubInv'
    <2>1. ~crashed'
      BY <1>2 DEF RunUnregister, Leaving, Membership
    <2>2. HubTypeOK'
      BY <1>2, <2>1 DEF RunUnregister, HubTypeOK, Leaving
    <2>3. Membership'
      BY <1>2 DEF RunUnregister, HubTypeOK, Membership, Leaving
    <2>4. Writing'
      BY <1>2 DEF RunUnregister, Writing
    <2> QED
      BY <2>1, <2>2, <2>3, <2>4 DEF HubNeverPanics
  <1>3. ASSUME RunBroadcast PROVE HubInv'
    <2>1. ~crashed'
      BY <1>3 DEF RunBroadcast, FanMessage, Membership, HubTypeOK
    <2>2. /\ Head(broadcast) \in Nat /\ Tail(broadcast) \in Seq(Nat)
          /\ Len(Tail(broadcast)) =< BroadcastCap
      BY <1>3, HeadTail, HubAssumption DEF RunBroadcast, FanMessage, HubTypeOK
    <2>3. ASSUME NEW c \in Clients
          PROVE  send'[c] \in Seq(Nat) /\ Len(send'[c]) =< SendCap
      BY <1>3, <2>2, AppendLen, HubAssumption DEF RunBroadcast, FanMessage, HubTypeOK, Full
    <2>4. HubTypeOK'
      <3>1. send' \in [Clients -> Seq(Nat)]
        BY <1>3, <2>3 DEF RunBroadcast, FanMessage
      <3> QED
        BY <1>3, <2>1, <2>2, <2>3, <3>1 DEF RunBroadcast, FanMessage, HubTypeOK, Evicted
    <2>5. Membership'
      BY <1>3 DEF RunBroadcast, FanMessage, HubTypeOK, Membership, Evicted
    <2>6. Writing'
      BY <1>3 DEF RunBroadcast, FanMessage, Writing
    <2> QED
      BY <2>1, <2>4, <2>5, <2>6 DEF HubNeverPanics
  <1> QED
    BY <1>1, <1>2, <1>3 DEF Run

(* The steps of ServeWS and readPump keep the invariant. *)
LEMMA ReadPumpInv == ASSUME HubInv, NEW c \in Clients, ReadPump(c) PROVE HubInv'
  <1> USE DEF HubInv, ReadOther, runVars
  <1>1. CASE Connect(c)
    BY <1>1 DEF Connect, HubTypeOK, HubNeverPanics, Membership, Writing
  <1>2. CASE ReadPing(c)
    <2>1. HubTypeOK'
      <3>1. CASE closed[c]
        BY <1>2, <3>1 DEF ReadPing, HubTypeOK
      <3>2. CASE ~closed[c]
        <4>1. /\ send' = [send EXCEPT ![c] = IF Full(c) THEN @ ELSE Append(@, Pong)]
              /\ UNCHANGED <<serve, panicked>>
          BY <1>2, <3>2 DEF ReadPing
        <4>2. Pong \in Nat
          BY DEF Pong
        <4>3. ASSUME NEW d \in Clients
              PROVE  send'[d] \in Seq(Nat) /\ Len(send'[d]) =< SendCap
          BY <4>1, <4>2, AppendLen, HubAssumption DEF HubTypeOK, Full
        <4>4. send' \in [Clients -> Seq(Nat)]
          BY <4>1, <4>3 DEF HubTypeOK
        <4> QED
          BY <1>2, <4>1, <4>3, <4>4 DEF ReadPing, HubTypeOK
      <3> QED
        BY <3>1, <3>2
    <2> QED
      BY <1>2, <2>1 DEF ReadPing, HubTypeOK, HubNeverPanics, Membership, Writing
  <1>3. CASE ReadErr(c)
    BY <1>3 DEF ReadErr, HubTypeOK, HubNeverPanics, Membership, Writing
  <1>4. CASE ReadClose(c)
    BY <1>4 DEF ReadClose, HubTypeOK, HubNeverPanics, Membership, Writing
  <1>5. CASE ReadOrder(c)
    BY <1>5 DEF ReadOrder, HubTypeOK, HubNeverPanics, Membership, Writing
  <1>6. CASE OrderSent(c)
    BY <1>6 DEF OrderSent, HubTypeOK, HubNeverPanics, Membership, Writing
  <1> QED
    BY <1>1, <1>2, <1>3, <1>4, <1>5, <1>6 DEF ReadPump

(* The steps of writePump keep the invariant. *)
LEMMA WritePumpInv == ASSUME HubInv, NEW c \in Clients, WritePump(c) PROVE HubInv'
  <1> USE DEF HubInv, WriteOther, runVars
  <1>1. CASE WriteTake(c)
    <2>1. /\ Head(send[c]) \in Nat /\ Tail(send[c]) \in Seq(Nat)
          /\ Len(Tail(send[c])) =< SendCap
      BY <1>1, HeadTail, HubAssumption DEF WriteTake, HubTypeOK
    <2>2. <<Head(send[c])>> \in Seq(Nat) /\ <<Head(send[c])>> # <<>>
      BY <2>1
    <2>3. HubTypeOK'
      BY <1>1, <2>1, <2>2 DEF WriteTake, HubTypeOK
    <2> QED
      BY <1>1, <2>2, <2>3 DEF WriteTake, HubTypeOK, HubNeverPanics, Membership, Writing
  <1>2. CASE WriteOk(c)
    <2>1. Head(inHand[c]) \in Nat
      BY <1>2, HeadTail DEF WriteOk, Writing, HubTypeOK
    <2>2. HubTypeOK'
      BY <1>2, <2>1 DEF WriteOk, HubTypeOK
    <2> QED
      BY <1>2, <2>2 DEF WriteOk, HubTypeOK, HubNeverPanics, Membership, Writing
  <1>3. CASE WriteDone(c)
    BY <1>3, SMTT(60) DEF WriteDone, ConnAfterWriter, HubTypeOK, HubNeverPanics, Membership, Writing
  <1> QED
    BY <1>1, <1>2, <1>3 DEF WritePump

(* Broadcasting, and losing a peer, keep the invariant. *)
LEMMA OtherInv == ASSUME HubInv, Broadcast \/ \E c \in Clients : PeerGone(c) PROVE HubInv'
  <1> USE DEF HubInv, runVars, clientVars
  <1>1. CASE Broadcast
    <2>1. /\ Append(broadcast, accepted + 1) \in Seq(Nat)
          /\ Len(Append(broadcast, accepted + 1)) =< BroadcastCap
      BY <1>1, AppendLen, HubAssumption DEF Broadcast, HubTypeOK
    <2> QED
      BY <1>1, <2>1 DEF Broadcast, HubTypeOK, HubNeverPanics, Membership, Writing
  <1>2. ASSUME NEW c \in Clients, PeerGone(c) PROVE HubInv'
    BY <1>2 DEF PeerGone, HubTypeOK, HubNeverPanics, Membership, Writing
  <1> QED
    BY <1>1, <1>2

(* The inductive invariant holds in every reachable state of the hub. *)
THEOREM HubInvariant == HubSpec => []HubInv
  <1>1. HubInit => HubInv
    <2> SUFFICES ASSUME HubInit PROVE HubInv
      OBVIOUS
    <2>1. HubTypeOK
      <3>1. <<>> \in Seq(Nat) /\ Len(<<>>) =< BroadcastCap /\ Len(<<>>) =< SendCap
        BY HubAssumption
      <3> QED
        BY <3>1 DEF HubInit, HubTypeOK
    <2> QED
      BY <2>1 DEF HubInit, HubInv, HubNeverPanics, Membership, Writing
  <1>2. HubInv /\ [HubNext]_hubVars => HubInv'
    <2> SUFFICES ASSUME HubInv, [HubNext]_hubVars PROVE HubInv'
      OBVIOUS
    <2>1. CASE Run
      BY <2>1, RunInv
    <2>2. ASSUME NEW c \in Clients, ReadPump(c) PROVE HubInv'
      BY <2>2, ReadPumpInv
    <2>3. ASSUME NEW c \in Clients, WritePump(c) PROVE HubInv'
      BY <2>3, WritePumpInv
    <2>4. CASE Broadcast \/ \E c \in Clients : PeerGone(c)
      BY <2>4, OtherInv
    <2>5. CASE UNCHANGED hubVars
      BY <2>5 DEF hubVars, runVars, clientVars, HubInv, HubTypeOK, HubNeverPanics,
                  Membership, Writing
    <2> QED
      BY <2>1, <2>2, <2>3, <2>4, <2>5 DEF HubNext
  <1> QED
    BY <1>1, <1>2, PTL DEF HubSpec

(* The channels stay within their capacities. *)
THEOREM HubTypeCorrect == HubSpec => []HubTypeOK
  BY HubInvariant, PTL DEF HubInv

(* Run never closes a channel twice and never sends on a closed one. *)
THEOREM RunNeverPanics == HubSpec => []HubNeverPanics
  BY HubInvariant, PTL DEF HubInv

-----------------------------------------------------------------------------
(* No gaps *)

\* h.broadcast holds the messages accepted and not yet fanned out
BroadcastNext == /\ accepted = fanned + Len(broadcast)
                 /\ \A i \in 1..Len(broadcast) : broadcast[i] = fanned + i

ClientGapFree(c) ==
    /\ write[c] = "write" => Len(inHand[c]) = 1
    /\ write[c] # "write" => inHand[c] = <<>>
    /\ serve[c] \in {"none", "register"} => send[c] = <<>> /\ write[c] = "none"
    /\ write[c] \in {"take", "write"} =>
         \E high \in last[c]..fanned : /\ Stretch(inHand[c] \o send[c], last[c], high)
                                       /\ c \in clients => high = fanned

GapInv == BroadcastNext /\ \A c \in Clients : ClientGapFree(c)

(* A stretch of messages, number by number.                                 *)
LEMMA StretchMeans ==
    ASSUME NEW way \in Seq(Nat), NEW low \in Nat, NEW high \in Nat
    PROVE  Stretch(way, low, high) <=>
             /\ \A i \in 1..Len(way) : way[i] # Pong => way[i] \in (low + 1)..high
             /\ \A n \in (low + 1)..high : \E i \in 1..Len(way) : way[i] = n
             /\ \A i, j \in 1..Len(way) :
                  way[i] # Pong /\ way[j] # Pong /\ i < j => way[i] < way[j]
  <1> DEFINE msgs == {i \in 1..Len(way) : way[i] # Pong}
  <1>1. {way[i] : i \in msgs} = (low + 1)..high <=>
             /\ \A i \in 1..Len(way) : way[i] # Pong => way[i] \in (low + 1)..high
             /\ \A n \in (low + 1)..high : \E i \in 1..Len(way) : way[i] = n
    <2>1. \A n \in (low + 1)..high : n # Pong
      BY DEF Pong
    <2> QED
      BY <2>1
  <1> QED
    BY <1>1 DEF Stretch

(* Nothing on its way.                                                      *)
LEMMA StretchEmpty == ASSUME NEW low \in Nat PROVE Stretch(<<>> \o <<>>, low, low)
  <1>1. <<>> \o <<>> \in Seq(Nat) /\ Len(<<>> \o <<>>) = 0
    OBVIOUS
  <1>2. \A n \in (low + 1)..low : FALSE
    OBVIOUS
  <1> DEFINE way == <<>> \o <<>>
  <1>3. way \in Seq(Nat) /\ Len(way) = 0
    BY <1>1
  <1> HIDE DEF way
  <1>4. /\ \A i \in 1..Len(way) : way[i] # Pong => way[i] \in (low + 1)..low
        /\ \A n \in (low + 1)..low : \E i \in 1..Len(way) : way[i] = n
        /\ \A i, j \in 1..Len(way) :
             way[i] # Pong /\ way[j] # Pong /\ i < j => way[i] < way[j]
    BY <1>2, <1>3
  <1>5. Stretch(way, low, low)
    BY <1>3, <1>4, StretchMeans
  <1> QED
    BY <1>5 DEF way

(* What is in hand and what is queued, together.                            *)
LEMMA WayProperties ==
    ASSUME NEW h \in Seq(Nat), NEW q \in Seq(Nat)
    PROVE  /\ h \o q \in Seq(Nat) /\ <<>> \o q = q /\ Len(h \o q) = Len(h) + Len(q)
           /\ \A i \in 1..Len(h) + Len(q) :
                (h \o q)[i] = IF i =< Len(h) THEN h[i] ELSE q[i - Len(h)]
           /\ \A m \in Nat : h \o Append(q, m) = Append(h \o q, m)
           /\ q # <<>> => <<Head(q)>> \o Tail(q) = <<>> \o q
  <1>1. /\ h \o q \in Seq(Nat) /\ <<>> \o q = q /\ Len(h \o q) = Len(h) + Len(q)
        /\ \A i \in 1..Len(h) + Len(q) :
             (h \o q)[i] = IF i =< Len(h) THEN h[i] ELSE q[i - Len(h)]
    OBVIOUS
  <1>2. ASSUME NEW m \in Nat PROVE h \o Append(q, m) = Append(h \o q, m)
    OBVIOUS
  <1>3. ASSUME q # <<>> PROVE <<Head(q)>> \o Tail(q) = <<>> \o q
    BY <1>3
  <1> QED
    BY <1>1, <1>2, <1>3

(* The next message, or a pong, is added.                                   *)
LEMMA StretchAppend ==
    ASSUME NEW way \in Seq(Nat), NEW low \in Nat, NEW high \in Nat, low =< high,
           Stretch(way, low, high)
    PROVE  /\ Stretch(Append(way, high + 1), low, high + 1)
           /\ Stretch(Append(way, Pong), low, high)
  <1>1. Len(way) \in Nat /\ Pong \in Nat /\ high + 1 \in Nat /\ high + 1 # Pong
    BY DEF Pong
  <1>2. /\ \A i \in 1..Len(way) : way[i] # Pong => way[i] \in (low + 1)..high
        /\ \A n \in (low + 1)..high : \E i \in 1..Len(way) : way[i] = n
        /\ \A i, j \in 1..Len(way) :
             way[i] # Pong /\ way[j] # Pong /\ i < j => way[i] < way[j]
    BY StretchMeans
  <1>3. ASSUME NEW m \in Nat
        PROVE  /\ Append(way, m) \in Seq(Nat) /\ Len(Append(way, m)) = Len(way) + 1
               /\ \A i \in 1..Len(way) : Append(way, m)[i] = way[i]
               /\ Append(way, m)[Len(way) + 1] = m
    OBVIOUS
  <1>4. ASSUME NEW m \in Nat, NEW top \in Nat,
               (m = Pong /\ top = high) \/ (m = high + 1 /\ top = high + 1)
        PROVE  Stretch(Append(way, m), low, top)
    <2> DEFINE new == Append(way, m)
               k == Len(way)
    <2>1. /\ new \in Seq(Nat) /\ Len(new) = k + 1 /\ k \in Nat /\ new[k + 1] = m
          /\ \A i \in 1..k : new[i] = way[i]
      BY <1>1, <1>3
    <2> HIDE DEF new, k
    <2>2. /\ \A i \in 1..k : way[i] # Pong => way[i] \in (low + 1)..high
          /\ \A n \in (low + 1)..high : \E i \in 1..k : way[i] = n
          /\ \A i, j \in 1..k : way[i] # Pong /\ way[j] # Pong /\ i < j => way[i] < way[j]
      BY <1>2 DEF k
    <2>3. ASSUME NEW i \in 1..k + 1, new[i] # Pong PROVE new[i] \in (low + 1)..top
      <3>1. CASE i \in 1..k
        <4>1. new[i] = way[i] /\ way[i] \in (low + 1)..high
          BY <2>1, <2>2, <2>3, <3>1
        <4>2. high =< top
          BY <1>4
        <4> QED
          BY <4>1, <4>2
      <3>2. CASE i = k + 1
        BY <1>4, <2>1, <2>3, <3>2
      <3> QED
        BY <2>1, <3>1, <3>2
    <2>4. ASSUME NEW n \in (low + 1)..top PROVE \E i \in 1..k + 1 : new[i] = n
      <3>1. CASE n \in (low + 1)..high
        <4>1. PICK i \in 1..k : way[i] = n
          BY <2>2, <3>1
        <4>2. i \in 1..k + 1 /\ new[i] = n
          BY <2>1, <4>1
        <4> QED
          BY <4>2
      <3>2. CASE n \notin (low + 1)..high
        <4>1. n = m /\ k + 1 \in 1..k + 1
          BY <1>4, <2>1, <3>2
        <4> QED
          BY <2>1, <4>1
      <3> QED
        BY <3>1, <3>2
    <2>5. ASSUME NEW i \in 1..k + 1, NEW j \in 1..k + 1, new[i] # Pong, new[j] # Pong, i < j
          PROVE  new[i] < new[j]
      <3>1. i \in 1..k /\ new[i] = way[i] /\ way[i] \in (low + 1)..high
        BY <2>1, <2>2, <2>5
      <3>2. CASE j \in 1..k
        BY <2>1, <2>2, <2>5, <3>1, <3>2
      <3>3. CASE j = k + 1
        BY <1>4, <2>1, <2>5, <3>1, <3>3
      <3> QED
        BY <2>1, <3>2, <3>3
    <2> QED
      BY <2>1, <2>3, <2>4, <2>5, StretchMeans DEF new
  <1>5. Stretch(Append(way, high + 1), low, high + 1)
    BY <1>1, <1>4
  <1>6. Stretch(Append(way, Pong), low, high)
    BY <1>1, <1>4
  <1> QED
    BY <1>5, <1>6

(* The message in hand has been written.                                    *)
LEMMA StretchWritten ==
    ASSUME NEW h \in Seq(Nat), NEW q \in Seq(Nat), Len(h) = 1, NEW low \in Nat,
           NEW high \in Nat, low =< high, Stretch(h \o q, low, high)
    PROVE  \E to \in low..high : /\ to = IF Head(h) = Pong THEN low ELSE Head(h)
                                 /\ Stretch(<<>> \o q, to, high)
  <1> DEFINE way == h \o q
             k == Len(q)
             to == IF way[1] = Pong THEN low ELSE way[1]
  <1>1. /\ way \in Seq(Nat) /\ k \in Nat /\ <<>> \o q = q /\ Len(way) = Len(h) + k
        /\ \A i \in 1..Len(h) + k : way[i] = IF i =< Len(h) THEN h[i] ELSE q[i - Len(h)]
    BY WayProperties, SMTT(30)
  <1>2. Head(h) = h[1] /\ \A i \in 1..Len(way) : way[i] \in Nat
    BY <1>1
  <1>3. /\ \A i \in 1..Len(way) : way[i] # Pong => way[i] \in (low + 1)..high
        /\ \A n \in (low + 1)..high : \E i \in 1..Len(way) : way[i] = n
        /\ \A i, j \in 1..Len(way) :
             way[i] # Pong /\ way[j] # Pong /\ i < j => way[i] < way[j]
    BY <1>1, StretchMeans
  <1> HIDE DEF way, k
  <1>4. /\ Len(way) = k + 1 /\ 1 \in 1..k + 1 /\ way[1] = h[1]
        /\ \A i \in 1..k : i + 1 \in 1..k + 1 /\ way[i + 1] = q[i]
    <2>1. /\ Len(way) = k + 1 /\ 1 \in 1..Len(h) + k /\ 1 =< Len(h)
          /\ \A i \in 1..k : /\ i + 1 \in 1..Len(h) + k /\ ~(i + 1 =< Len(h))
                             /\ (i + 1) - Len(h) = i /\ i + 1 \in 1..k + 1
      BY <1>1
    <2> QED
      BY <1>1, <2>1
  <1>5. to \in low..high /\ to \in Nat /\ Pong = 0
    BY <1>2, <1>3, <1>4 DEF Pong
  <1>6. ASSUME NEW i \in 1..k, q[i] # Pong PROVE q[i] \in (to + 1)..high
    <2>0. way[i + 1] = q[i] /\ i + 1 \in 1..k + 1 /\ 1 < i + 1
      BY <1>1, <1>4
    <2>1. /\ way[i + 1] = q[i] /\ i + 1 \in 1..k + 1 /\ 1 < i + 1
          /\ way[i + 1] \in (low + 1)..high
      BY <1>3, <1>4, <1>6, <2>0
    <2>2. way[1] # Pong => way[1] < way[i + 1]
      BY <1>3, <1>4, <1>6, <2>1
    <2> QED
      BY <1>2, <1>4, <1>5, <2>1, <2>2
  <1>7. ASSUME NEW n \in (to + 1)..high PROVE \E i \in 1..k : q[i] = n
    <2>1. n \in (low + 1)..high /\ n > to /\ n \in Nat
      BY <1>5
    <2>2. PICK i \in 1..k + 1 : way[i] = n
      BY <1>3, <1>4, <2>1
    <2>3. i # 1
      BY <1>5, <2>1, <2>2
    <2>4. i - 1 \in 1..k /\ (i - 1) + 1 = i
      BY <1>1, <2>3
    <2>5. q[i - 1] = n
      BY <1>4, <2>2, <2>4
    <2> QED
      BY <2>4, <2>5
  <1>8. ASSUME NEW i \in 1..k, NEW j \in 1..k, q[i] # Pong, q[j] # Pong, i < j
        PROVE  q[i] < q[j]
    <2>1. /\ way[i + 1] = q[i] /\ way[j + 1] = q[j] /\ i + 1 < j + 1
          /\ i + 1 \in 1..Len(way) /\ j + 1 \in 1..Len(way)
      BY <1>1, <1>4, <1>8
    <2> QED
      BY <1>3, <1>8, <2>1
  <1> HIDE DEF to
  <1>9. Stretch(q, to, high)
    BY <1>5, <1>6, <1>7, <1>8, StretchMeans DEF k
  <1>10. to = IF Head(h) = Pong THEN low ELSE Head(h)
    BY <1>2, <1>4 DEF to
  <1> QED
    BY <1>1, <1>5, <1>9, <1>10

(* A client that a step does not touch.                                     *)
LEMMA ClientKept ==
    ASSUME NEW c, ClientGapFree(c), write'[c] = write[c], inHand'[c] = inHand[c],
           send'[c] = send[c], last'[c] = last[c], fanned' = fanned,
           c \in clients' => c \in clients,
           serve'[c] \in {"none", "register"} => serve[c] \in {"none", "register"}
    PROVE  ClientGapFree(c)'
  BY DEF ClientGapFree, Stretch, Pong

(* A client with a stretch of messages on its way.                          *)
LEMMA ClientMade ==
    ASSUME NEW c, NEW high, serve'[c] \notin {"none", "register"},
           write'[c] = "write" => Len(inHand'[c]) = 1,
           write'[c] # "write" => inHand'[c] = <<>>,
           high \in last'[c]..fanned', Stretch(inHand'[c] \o send'[c], last'[c], high),
           c \in clients' => high = fanned'
    PROVE  ClientGapFree(c)'
  BY DEF ClientGapFree, Stretch, Pong

(* A client whose writer has ended.                                         *)
LEMMA ClientEnded ==
    ASSUME NEW c, write'[c] \in {"none", "done"}, inHand'[c] = <<>>,
           serve'[c] \in {"none", "register"} => send'[c] = <<>> /\ write'[c] = "none"
    PROVE  ClientGapFree(c)'
  BY DEF ClientGapFree

(* What the type invariant says about one client.                           *)
LEMMA ClientTypes ==
    ASSUME HubTypeOK, NEW c \in Clients
    PROVE  /\ send[c] \in Seq(Nat) /\ inHand[c] \in Seq(Nat) /\ last[c] \in Nat /\ fanned \in Nat
           /\ inHand[c] \o send[c] \in Seq(Nat)
           /\ write[c] \in {"none", "take", "write", "done"}
  <1>1. /\ send[c] \in Seq(Nat) /\ inHand[c] \in Seq(Nat) /\ last[c] \in Nat /\ fanned \in Nat
        /\ write[c] \in {"none", "take", "write", "done"}
    BY DEF HubTypeOK
  <1> QED
    BY <1>1, WayProperties

(* The initial state.                                                       *)
LEMMA GapInit == ASSUME HubInit PROVE GapInv
  BY DEF HubInit, GapInv, BroadcastNext, ClientGapFree

(* Run fans a message out: a client gets it, or is evicted.                 *)
LEMMA GapFan == ASSUME HubInv, GapInv, RunBroadcast PROVE GapInv'
  <1> DEFINE m == Head(broadcast)
  <1>1. /\ broadcast # <<>> /\ broadcast' = Tail(broadcast) /\ fanned' = m
        /\ send' = [c \in Clients |-> IF c \in clients /\ ~Full(c)
                                      THEN Append(send[c], m) ELSE send[c]]
        /\ clients' = clients \ {c \in clients : Full(c)}
        /\ UNCHANGED <<accepted, serve, write, inHand, last>>
    BY DEF RunBroadcast, FanMessage, Evicted
  <1>2. HubTypeOK /\ BroadcastNext /\ broadcast \in Seq(Nat) /\ fanned \in Nat
    BY DEF HubInv, HubTypeOK, GapInv
  <1>3. m = fanned + 1 /\ BroadcastNext'
    <2>1. /\ Len(broadcast) \in Nat /\ Len(broadcast) > 0 /\ m = broadcast[1]
          /\ Len(Tail(broadcast)) = Len(broadcast) - 1
          /\ \A i \in 1..Len(broadcast) - 1 : Tail(broadcast)[i] = broadcast[i + 1]
      BY <1>1, <1>2
    <2>2. m = fanned + 1
      BY <1>2, <2>1 DEF BroadcastNext
    <2> HIDE DEF m
    <2> QED
      BY <1>1, <1>2, <2>1, <2>2 DEF BroadcastNext
  <1> HIDE DEF m
  <1>4. ASSUME NEW c \in Clients PROVE ClientGapFree(c)'
    <2>1. /\ ClientGapFree(c) /\ send[c] \in Seq(Nat) /\ inHand[c] \in Seq(Nat) /\ last[c] \in Nat
          /\ inHand[c] \o send[c] \in Seq(Nat) /\ write[c] \in {"none", "take", "write", "done"}
      BY <1>2, ClientTypes DEF GapInv
    <2>2. c \in clients => serve[c] \notin {"none", "register"}
      BY DEF HubInv, Membership
    <2>3. CASE write[c] \in {"none", "done"}
      BY <1>1, <2>1, <2>2, <2>3, ClientEnded DEF ClientGapFree
    <2>4. CASE write[c] \in {"take", "write"}
      <3>1. PICK high \in last[c]..fanned :
                /\ Stretch(inHand[c] \o send[c], last[c], high) /\ (c \in clients => high = fanned)
        BY <2>1, <2>4 DEF ClientGapFree
      <3>2. serve[c] \notin {"none", "register"}
        BY <2>1, <2>4 DEF ClientGapFree
      <3>3. /\ high \in Nat /\ last[c] =< high /\ high =< fanned
        BY <1>2, <2>1, <3>1
      <3>4. CASE c \in clients /\ ~Full(c)
        <4>1. /\ Stretch(Append(inHand[c] \o send[c], high + 1), last[c], high + 1)
              /\ high = fanned
          BY <2>1, <3>1, <3>3, <3>4, StretchAppend
        <4>2. inHand[c] \o send'[c] = Append(inHand[c] \o send[c], high + 1)
          <5>1. send'[c] = Append(send[c], high + 1) /\ high + 1 \in Nat
            BY <1>1, <1>3, <3>3, <3>4, <4>1
          <5>2. \A x \in Nat : inHand[c] \o Append(send[c], x) = Append(inHand[c] \o send[c], x)
            BY <2>1, WayProperties
          <5> QED
            BY <5>1, <5>2, Zenon
        <4>3. high + 1 \in last'[c]..fanned' /\ high + 1 = fanned'
          BY <1>1, <1>2, <1>3, <2>1, <3>3, <4>1
        <4>4. Stretch(inHand'[c] \o send'[c], last'[c], high + 1)
          BY <1>1, <4>1, <4>2
        <4> QED
          BY <1>1, <2>1, <3>2, <4>3, <4>4, ClientMade DEF ClientGapFree
      <3>5. CASE ~(c \in clients /\ ~Full(c))
        <4>1. send'[c] = send[c] /\ c \notin clients'
          BY <1>1, <3>5
        <4>2. high \in last'[c]..fanned'
          BY <1>1, <1>2, <1>3, <2>1, <3>3
        <4>3. Stretch(inHand'[c] \o send'[c], last'[c], high)
          BY <1>1, <3>1, <4>1
        <4> QED
          BY <1>1, <2>1, <3>2, <4>1, <4>2, <4>3, ClientMade DEF ClientGapFree
      <3> QED
        BY <3>4, <3>5
    <2> QED
      BY <2>1, <2>3, <2>4
  <1> QED
    BY <1>3, <1>4 DEF GapInv

(* Run registers a client, or takes one out.                                *)
LEMMA GapRegister ==
    ASSUME HubInv, GapInv, NEW c \in Clients, RunRegister(c) \/ RunUnregister(c)
    PROVE  GapInv'
  <1>1. /\ UNCHANGED <<broadcast, accepted, fanned, send, inHand>> /\ BroadcastNext'
        /\ HubTypeOK /\ fanned \in Nat /\ ClientGapFree(c)
        /\ serve \in [Clients -> {"none", "register", "read", "order", "unregister",
                                  "closing", "done"}]
        /\ write \in [Clients -> {"none", "take", "write", "done"}] /\ last \in [Clients -> Nat]
    BY DEF RunRegister, RunUnregister, HubInv, HubTypeOK, GapInv, BroadcastNext
  <1>2. CASE RunRegister(c)
    <2>1. /\ serve[c] = "register" /\ serve' = [serve EXCEPT ![c] = "read"]
          /\ write' = [write EXCEPT ![c] = "take"] /\ last' = [last EXCEPT ![c] = fanned]
          /\ clients' = clients \cup {c}
      BY <1>2 DEF RunRegister
    <2>2. ClientGapFree(c)'
      <3>1. send'[c] = <<>> /\ inHand'[c] = <<>> /\ last'[c] = fanned
        BY <1>1, <2>1 DEF ClientGapFree
      <3>2. Stretch(inHand'[c] \o send'[c], last'[c], fanned)
        BY <1>1, <3>1, StretchEmpty
      <3>3. fanned \in last'[c]..fanned'
        BY <1>1, <3>1
      <3>4. serve'[c] = "read" /\ write'[c] = "take"
        BY <1>1, <2>1
      <3> QED
        BY <1>1, <3>1, <3>2, <3>3, <3>4, ClientMade
    <2>3. ASSUME NEW d \in Clients, d # c PROVE ClientGapFree(d)'
      <3>1. /\ ClientGapFree(d) /\ serve'[d] = serve[d] /\ write'[d] = write[d]
            /\ last'[d] = last[d] /\ (d \in clients' => d \in clients)
        BY <1>1, <2>1, <2>3 DEF GapInv
      <3> QED
        BY <1>1, <3>1, ClientKept
    <2> QED
      BY <1>1, <2>2, <2>3 DEF GapInv
  <1>3. CASE RunUnregister(c)
    <2>1. /\ serve' = [serve EXCEPT ![c] = "closing"] /\ UNCHANGED <<write, last>>
          /\ clients' \subseteq clients
      BY <1>3 DEF RunUnregister
    <2>2. ASSUME NEW d \in Clients PROVE ClientGapFree(d)'
      <3>1. ClientGapFree(d) /\ (serve'[d] = serve[d] \/ serve'[d] = "closing")
        BY <1>1, <2>1 DEF GapInv
      <3> QED
        BY <1>1, <2>1, <3>1, ClientKept
    <2> QED
      BY <1>1, <2>2 DEF GapInv
  <1> QED
    BY <1>2, <1>3

(* readPump, and the peer: a pong may be queued.                            *)
LEMMA GapRead ==
    ASSUME HubInv, GapInv, NEW c \in Clients, ReadPump(c) \/ PeerGone(c)
    PROVE  GapInv'
  <1>1. /\ UNCHANGED <<broadcast, accepted, clients, fanned, write, inHand, last>>
        /\ BroadcastNext' /\ HubTypeOK /\ fanned \in Nat
        /\ serve \in [Clients -> {"none", "register", "read", "order", "unregister",
                                  "closing", "done"}]
        /\ send \in [Clients -> Seq(Nat)]
    BY DEF ReadPump, Connect, ReadPing, ReadOrder, OrderSent, ReadErr, ReadClose, ReadOther,
       PeerGone, runVars, HubInv, HubTypeOK, GapInv, BroadcastNext
  <1>2. \A d \in Clients : serve'[d] \in {"none", "register"} => serve[d] \in {"none", "register"}
    BY <1>1 DEF ReadPump, Connect, ReadPing, ReadOrder, OrderSent, ReadErr, ReadClose, PeerGone
  <1>3. \/ send' = send
        \/ serve[c] = "read" /\ serve' = serve /\ send' = [send EXCEPT ![c] = Append(@, Pong)]
    <2>1. CASE ReadPing(c)
      <3>1. CASE closed[c] \/ Full(c)
        BY <1>1, <2>1, <3>1 DEF ReadPing
      <3>2. CASE ~closed[c] /\ ~Full(c)
        BY <1>1, <2>1, <3>2 DEF ReadPing
      <3> QED
        BY <3>1, <3>2
    <2>2. CASE ~ReadPing(c)
      BY <2>2 DEF ReadPump, Connect, ReadOrder, OrderSent, ReadErr, ReadClose, PeerGone
    <2> QED
      BY <2>1, <2>2
  <1>4. ASSUME NEW d \in Clients PROVE ClientGapFree(d)'
    <2>1. /\ ClientGapFree(d) /\ send[d] \in Seq(Nat) /\ inHand[d] \in Seq(Nat) /\ last[d] \in Nat
          /\ inHand[d] \o send[d] \in Seq(Nat) /\ write[d] \in {"none", "take", "write", "done"}
      BY <1>1, ClientTypes DEF GapInv
    <2>2. CASE send'[d] = send[d]
      BY <1>1, <1>2, <2>1, <2>2, ClientKept
    <2>3. CASE send'[d] # send[d]
      <3>1. d = c /\ serve'[d] = "read" /\ send'[d] = Append(send[d], Pong)
        BY <1>1, <1>3, <2>3
      <3>2. CASE write[d] \in {"none", "done"}
        BY <1>1, <2>1, <3>1, <3>2, ClientEnded DEF ClientGapFree
      <3>3. CASE write[d] \in {"take", "write"}
        <4>1. PICK high \in last[d]..fanned :
                  /\ Stretch(inHand[d] \o send[d], last[d], high) /\ (d \in clients => high = fanned)
          BY <2>1, <3>3 DEF ClientGapFree
        <4>2. high \in Nat /\ last[d] =< high
          BY <1>1, <2>1, <4>1
        <4>3. Stretch(Append(inHand[d] \o send[d], Pong), last[d], high)
          BY <2>1, <4>1, <4>2, StretchAppend
        <4>4. inHand[d] \o send'[d] = Append(inHand[d] \o send[d], Pong)
          <5>1. /\ \A x \in Nat : inHand[d] \o Append(send[d], x) = Append(inHand[d] \o send[d], x)
                /\ Pong \in Nat
            BY <2>1, WayProperties DEF Pong
          <5> QED
            BY <3>1, <5>1, Zenon
        <4>5. Stretch(inHand'[d] \o send'[d], last'[d], high)
          BY <1>1, <4>3, <4>4
        <4> QED
          BY <1>1, <2>1, <3>1, <4>1, <4>5, ClientMade DEF ClientGapFree
      <3> QED
        BY <2>1, <3>2, <3>3
    <2> QED
      BY <2>2, <2>3
  <1> QED
    BY <1>1, <1>4 DEF GapInv

(* writePump takes a message, writes it, or ends.                           *)
LEMMA GapWrite == ASSUME HubInv, GapInv, NEW c \in Clients, WritePump(c) PROVE GapInv'
  <1>1. /\ UNCHANGED <<broadcast, accepted, clients, fanned, serve>>
        /\ BroadcastNext' /\ HubTypeOK /\ fanned \in Nat
        /\ send \in [Clients -> Seq(Nat)] /\ inHand \in [Clients -> Seq(Nat)]
        /\ write \in [Clients -> {"none", "take", "write", "done"}] /\ last \in [Clients -> Nat]
    BY DEF WritePump, WriteTake, WriteOk, WriteDone, WriteOther, runVars, HubInv, HubTypeOK,
       GapInv, BroadcastNext
  <1>2. /\ ClientGapFree(c) /\ send[c] \in Seq(Nat) /\ inHand[c] \in Seq(Nat) /\ last[c] \in Nat
        /\ inHand[c] \o send[c] \in Seq(Nat) /\ serve[c] \notin {"none", "register"}
        /\ write[c] \in {"take", "write"}
    <2>1. write[c] \in {"take", "write"}
      BY DEF WritePump, WriteTake, WriteOk, WriteDone
    <2> QED
      BY <1>1, <2>1, ClientTypes DEF GapInv, ClientGapFree
  <1>3. PICK high \in last[c]..fanned :
            /\ Stretch(inHand[c] \o send[c], last[c], high) /\ (c \in clients => high = fanned)
    BY <1>2 DEF ClientGapFree
  <1>4. high \in Nat /\ last[c] =< high /\ high =< fanned
    BY <1>1, <1>2, <1>3
  <1>5. ASSUME NEW d \in Clients, d # c PROVE ClientGapFree(d)'
    <2>1. /\ ClientGapFree(d) /\ write'[d] = write[d] /\ inHand'[d] = inHand[d]
          /\ send'[d] = send[d] /\ last'[d] = last[d]
      BY <1>1, <1>5 DEF WritePump, WriteTake, WriteOk, WriteDone, GapInv
    <2> QED
      BY <1>1, <2>1, ClientKept
  <1>6. CASE WriteTake(c)
    <2>1. /\ send[c] # <<>> /\ inHand[c] = <<>> /\ inHand'[c] = <<Head(send[c])>>
          /\ send'[c] = Tail(send[c]) /\ write'[c] = "write" /\ last' = last
      BY <1>1, <1>2, <1>6 DEF WriteTake, ClientGapFree
    <2>2. <<Head(send[c])>> \o Tail(send[c]) = <<>> \o send[c]
      BY <1>2, <2>1, WayProperties
    <2>3. Stretch(inHand'[c] \o send'[c], last'[c], high)
      BY <1>3, <2>1, <2>2
    <2>4. Len(inHand'[c]) = 1
      BY <2>1
    <2>5. ClientGapFree(c)'
      BY <1>1, <1>2, <1>3, <2>1, <2>3, <2>4, ClientMade
    <2> QED
      BY <1>1, <1>5, <2>5 DEF GapInv
  <1>7. CASE WriteOk(c)
    <2>1. /\ Len(inHand[c]) = 1 /\ inHand'[c] = <<>> /\ send' = send /\ write'[c] = "take"
          /\ last'[c] = IF Head(inHand[c]) = Pong THEN last[c] ELSE Head(inHand[c])
      BY <1>1, <1>2, <1>7 DEF WriteOk, ClientGapFree
    <2>2. PICK to \in last[c]..high :
              /\ to = IF Head(inHand[c]) = Pong THEN last[c] ELSE Head(inHand[c])
              /\ Stretch(<<>> \o send[c], to, high)
      BY <1>2, <1>3, <1>4, <2>1, StretchWritten
    <2>3. Stretch(inHand'[c] \o send'[c], last'[c], high) /\ last'[c] = to
      BY <2>1, <2>2
    <2>4. high \in last'[c]..fanned'
      BY <1>1, <1>2, <1>4, <2>2, <2>3
    <2>5. ClientGapFree(c)'
      BY <1>1, <1>2, <1>3, <2>1, <2>3, <2>4, ClientMade
    <2> QED
      BY <1>1, <1>5, <2>5 DEF GapInv
  <1>8. CASE WriteDone(c)
    <2>1. write'[c] = "done" /\ inHand'[c] = <<>>
      BY <1>1, <1>8 DEF WriteDone
    <2>2. ClientGapFree(c)'
      BY <1>1, <1>2, <2>1, ClientEnded
    <2> QED
      BY <1>1, <1>5, <2>2 DEF GapInv
  <1> QED
    BY <1>6, <1>7, <1>8 DEF WritePump

(* Broadcast adds a message to h.broadcast.                                 *)
LEMMA GapBroadcast ==
    ASSUME HubInv, GapInv, Broadcast \/ UNCHANGED hubVars PROVE GapInv'
  <1>1. /\ UNCHANGED <<clients, fanned, send, serve, write, inHand, last>>
        /\ \A c \in Clients : ClientGapFree(c)
    BY DEF Broadcast, hubVars, runVars, clientVars, GapInv
  <1>2. \A c \in Clients : ClientGapFree(c)'
    BY <1>1, ClientKept
  <1>3. BroadcastNext'
    <2>1. /\ broadcast \in Seq(Nat) /\ Len(broadcast) \in Nat /\ accepted \in Nat /\ fanned \in Nat
          /\ BroadcastNext
      BY DEF HubInv, HubTypeOK, GapInv
    <2>2. CASE Broadcast
      <3>1. /\ Len(broadcast') = Len(broadcast) + 1 /\ accepted' = accepted + 1
            /\ \A i \in 1..Len(broadcast) : broadcast'[i] = broadcast[i]
            /\ broadcast'[Len(broadcast) + 1] = accepted + 1
        BY <2>1, <2>2 DEF Broadcast
      <3> QED
        BY <1>1, <2>1, <3>1 DEF BroadcastNext
    <2>3. CASE UNCHANGED hubVars
      BY <2>1, <2>3 DEF hubVars, runVars, BroadcastNext
    <2> QED
      BY <2>2, <2>3
  <1> QED
    BY <1>2, <1>3 DEF GapInv

(* Every client gets a gap-free piece of the event stream, however slow it  *)
(* is, and whenever it joins and leaves: Run, readPump and writePump lose,  *)
(* repeat and reorder nothing.                                              *)
THEOREM HubGapFree == HubSpec => []GapFree
  <1>1. HubInit => GapInv
    BY GapInit
  <1>2. HubInv /\ GapInv /\ [HubNext]_hubVars => GapInv'
    BY GapFan, GapRegister, GapRead, GapWrite, GapBroadcast DEF HubNext, Run
  <1>3. GapInv => GapFree
    BY DEF GapInv, ClientGapFree, GapFree
  <1> QED
    BY <1>1, <1>2, <1>3, HubInvariant, PTL DEF HubSpec

-----------------------------------------------------------------------------
(* Leaving is final *)

\* One step of a client's channel: closed for good, and out of the client set
LeaveStep == \A c \in Clients : closed[c] => closed'[c] /\ c \notin clients'

(* No step of any goroutine reopens a channel or brings its client back. *)
LEMMA LeaveIsFinal == HubInv /\ [HubNext]_hubVars => LeaveStep
  <1> SUFFICES ASSUME HubInv, [HubNext]_hubVars, NEW c \in Clients, closed[c]
               PROVE  closed'[c] /\ c \notin clients'
    BY DEF LeaveStep
  <1>1. c \notin clients /\ serve[c] # "register"
    BY DEF HubInv, Membership
  <1>2. ASSUME NEW d \in Clients, RunRegister(d) PROVE closed'[c] /\ c \notin clients'
    BY <1>1, <1>2 DEF RunRegister
  <1>3. ASSUME NEW d \in Clients, RunUnregister(d) PROVE closed'[c] /\ c \notin clients'
    BY <1>1, <1>3 DEF RunUnregister
  <1>4. CASE RunBroadcast
    BY <1>1, <1>4 DEF RunBroadcast, FanMessage
  <1>5. CASE UNCHANGED <<closed, clients>>
    BY <1>1, <1>5
  <1>6. ASSUME NEW d \in Clients, ReadPump(d) PROVE UNCHANGED <<closed, clients>>
    BY <1>6 DEF ReadPump, Connect, ReadPing, ReadOrder, OrderSent, ReadErr, ReadClose,
                ReadOther, runVars
  <1>7. ASSUME NEW d \in Clients, WritePump(d) \/ PeerGone(d)
        PROVE  UNCHANGED <<closed, clients>>
    BY <1>7 DEF WritePump, WriteTake, WriteOk, WriteDone, WriteOther, PeerGone, runVars
  <1>8. CASE Broadcast \/ UNCHANGED hubVars
    BY <1>5, <1>8 DEF Broadcast, hubVars, runVars, clientVars
  <1> QED
    BY <1>2, <1>3, <1>4, <1>5, <1>6, <1>7, <1>8 DEF HubNext, Run

(* A client that Run has evicted or unregistered is never registered again, *)
(* although its readPump may go on for a while and unregister it a second   *)
(* time: no later step of any goroutine brings it back or reopens send.     *)
THEOREM EvictedForGood == HubSpec => [][LeaveStep]_hubVars
  BY LeaveIsFinal, HubInvariant, PTL DEF HubSpec

\* Who has panicked had been closed by Run, and is on its way out
PanicOnlyAfterClose ==
    \A c \in panicked : /\ closed[c] /\ c \notin clients
                        /\ serve[c] \in {"unregister", "closing", "done"}

(* How far the panic of readPump goes: it hits only a client that Run has   *)
(* already closed and dropped, and leaves it in, or past, the deferred      *)
(* calls; no registered client ever panics.                                 *)
THEOREM PanicIsContained == HubSpec => []PanicOnlyAfterClose
  <1>1. HubInit => PanicOnlyAfterClose
    BY DEF HubInit, PanicOnlyAfterClose
  <1>2. /\ HubInv /\ PanicOnlyAfterClose /\ [HubNext]_hubVars /\ LeaveStep
        => PanicOnlyAfterClose'
    <2> SUFFICES ASSUME HubInv, PanicOnlyAfterClose, [HubNext]_hubVars, LeaveStep
                 PROVE  PanicOnlyAfterClose'
      OBVIOUS
    <2>1. /\ panicked \subseteq Clients
          /\ serve \in [Clients -> {"none", "register", "read", "order", "unregister",
                                    "closing", "done"}]
          /\ \A c \in Clients : closed[c] => closed'[c] /\ c \notin clients'
      BY DEF HubInv, HubTypeOK, LeaveStep
    <2>2. CASE UNCHANGED <<serve, panicked>>
      BY <2>1, <2>2 DEF PanicOnlyAfterClose
    <2>3. ASSUME NEW d \in Clients, RunRegister(d) \/ RunUnregister(d)
          PROVE  PanicOnlyAfterClose'
      BY <2>1, <2>3 DEF RunRegister, RunUnregister, PanicOnlyAfterClose
    <2>4. ASSUME NEW d \in Clients, ReadPump(d) PROVE PanicOnlyAfterClose'
      <3>1. CASE ReadPing(d)
        BY <2>1, <2>2, <3>1 DEF ReadPing, PanicOnlyAfterClose
      <3>2. CASE Connect(d) \/ ReadOrder(d) \/ OrderSent(d) \/ ReadErr(d) \/ ReadClose(d)
        BY <2>1, <3>2 DEF Connect, ReadOrder, OrderSent, ReadErr, ReadClose,
                          PanicOnlyAfterClose
      <3> QED
        BY <2>4, <3>1, <3>2 DEF ReadPump
    <2>5. ASSUME NEW d \in Clients, WritePump(d) \/ PeerGone(d)
          PROVE  UNCHANGED <<serve, panicked>>
      BY <2>5 DEF WritePump, WriteTake, WriteOk, WriteDone, WriteOther, PeerGone
    <2>6. CASE RunBroadcast \/ Broadcast \/ UNCHANGED hubVars
      BY <2>2, <2>6 DEF RunBroadcast, FanMessage, Broadcast, hubVars, clientVars
    <2> QED
      BY <2>2, <2>3, <2>4, <2>5, <2>6 DEF HubNext, Run
  <1> QED
    BY <1>1, <1>2, LeaveIsFinal, HubInvariant, PTL DEF HubSpec
=============================================================================
