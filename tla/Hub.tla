--------------------------------- MODULE Hub ---------------------------------
(***************************************************************************)
(* The WebSocket hub (src/server/ws/hub.go): the goroutine Hub.Run, which  *)
(* owns the client set, and for each client a readPump and a writePump.    *)
(* Run hands messages to a client through its buffered channel send, and   *)
(* closes that channel when the client leaves or is too slow.              *)
(*                                                                         *)
(* Fan-out to all clients is one step: Run touches each client's channel   *)
(* separately, and steps of different clients' pumps commute.  An order    *)
(* that readPump forwards keeps it busy until Runner.SendOrder returns.    *)
(***************************************************************************)
EXTENDS Integers, Sequences, FiniteSets

CONSTANTS Clients,        \* Client objects, one per accepted connection
          BroadcastCap,   \* capacity of h.broadcast (256)
          SendCap,        \* capacity of c.send (256)
          MaxMsgs         \* bound on the messages broadcast

ASSUME HubAssumption == /\ BroadcastCap \in Nat \ {0}
                        /\ SendCap \in Nat \ {0}
                        /\ MaxMsgs \in Nat

VARIABLES
    clients,     \* h.clients
    broadcast,   \* h.broadcast: numbered messages
    accepted,    \* number of messages h.broadcast has accepted
    fanned,      \* number of messages Run has fanned out
    crashed,     \* Run closed or sent on a closed channel: the server is down
    send,        \* c.send: message numbers, or Pong
    closed,      \* c.send has been closed
    serve,       \* goroutine of ServeWS and readPump
    write,       \* goroutine of writePump
    inHand,      \* the message writePump is writing, as a sequence
    conn,        \* c.conn: "open", "broken" by the peer, or "closed" by the server
    last,        \* history: last message written, or fanned out before joining
    panicked     \* clients whose readPump has sent on a closed channel

runVars    == <<clients, fanned, crashed>>
clientVars == <<send, closed, serve, write, inHand, conn, last, panicked>>
hubVars    == <<broadcast, accepted, runVars, clientVars>>

Pong == 0

HubInit ==
    /\ clients = {} /\ broadcast = <<>> /\ accepted = 0 /\ fanned = 0
    /\ crashed = FALSE /\ panicked = {}
    /\ send   = [c \in Clients |-> <<>>]
    /\ closed = [c \in Clients |-> FALSE]
    /\ serve  = [c \in Clients |-> "none"]
    /\ write  = [c \in Clients |-> "none"]
    /\ inHand = [c \in Clients |-> <<>>]
    /\ conn   = [c \in Clients |-> "open"]
    /\ last   = [c \in Clients |-> 0]

-----------------------------------------------------------------------------
(* Hub.Broadcast, called by the fan-out goroutine of main                   *)
Broadcast ==
    /\ ~crashed /\ accepted < MaxMsgs
    /\ Len(broadcast) < BroadcastCap       \* otherwise the message is dropped
    /\ accepted' = accepted + 1
    /\ broadcast' = Append(broadcast, accepted')
    /\ UNCHANGED <<runVars, clientVars>>

-----------------------------------------------------------------------------
(* Hub.Run                                                                  *)

\* case c := <-h.register, and ServeWS goes on to start the pumps
RunRegister(c) ==
    /\ ~crashed /\ serve[c] = "register"
    /\ clients' = clients \cup {c}
    /\ last'  = [last  EXCEPT ![c] = fanned]
    /\ serve' = [serve EXCEPT ![c] = "read"]
    /\ write' = [write EXCEPT ![c] = "take"]
    /\ UNCHANGED <<broadcast, accepted, fanned, crashed, send, closed, inHand,
                   conn, panicked>>

\* Fault: the membership test is missing.
AlwaysLeave(c) == {c}

\* if _, ok := h.clients[c]; ok
Leaving(c) == clients \cap {c}

\* case c := <-h.unregister
RunUnregister(c) ==
    /\ ~crashed /\ serve[c] = "unregister"
    /\ clients' = clients \ Leaving(c)
    /\ crashed' = \E d \in Leaving(c) : closed[d]
    /\ closed' = [d \in Clients |-> closed[d] \/ d \in Leaving(c)]
    /\ serve' = [serve EXCEPT ![c] = "closing"]
    /\ UNCHANGED <<broadcast, accepted, fanned, send, write, inHand, conn, last,
                   panicked>>

\* Fault: the channel is taken to hold one message more than it does.
OverFull(c) == Len(send[c]) > SendCap

Full(c) == Len(send[c]) = SendCap

\* Fault: a message for a full channel is dropped and the client kept.
DropForSlow == {}

\* default: slow client
Evicted == {c \in clients : Full(c)}

\* for c := range h.clients
FanMessage ==
    /\ ~crashed /\ broadcast # <<>>
    /\ broadcast' = Tail(broadcast)
    /\ fanned' = Head(broadcast)
    /\ crashed' = \E c \in clients : closed[c]
    /\ send' = [c \in Clients |-> IF c \in clients /\ ~Full(c)
                                  THEN Append(send[c], Head(broadcast)) ELSE send[c]]
    /\ closed' = [c \in Clients |-> closed[c] \/ c \in Evicted]
    /\ clients' = clients \ Evicted
    /\ UNCHANGED <<accepted, serve, write, inHand, conn, last, panicked>>

\* Fault: the send to a client has no default case.
WaitForSlow == (\A c \in clients : ~Full(c)) /\ FanMessage

\* case msg := <-h.broadcast
RunBroadcast == FanMessage

-----------------------------------------------------------------------------
(* ServeWS and readPump                                                     *)

ReadOther(c) == UNCHANGED <<broadcast, accepted, runVars, closed, write, inHand, last>>

\* The upgrade succeeded; blocked on h.register <- c
Connect(c) ==
    /\ ~crashed /\ serve[c] = "none"
    /\ serve' = [serve EXCEPT ![c] = "register"]
    /\ UNCHANGED <<send, conn, panicked>> /\ ReadOther(c)

\* case "ping"; the send panics on a closed channel, and the deferred calls run
ReadPing(c) ==
    /\ ~crashed /\ serve[c] = "read" /\ conn[c] = "open"
    /\ IF closed[c]
       THEN /\ panicked' = panicked \cup {c}
            /\ serve' = [serve EXCEPT ![c] = "unregister"]
            /\ UNCHANGED send
       ELSE /\ send' = [send EXCEPT ![c] = IF Full(c) THEN @ ELSE Append(@, Pong)]
            /\ UNCHANGED <<serve, panicked>>
    /\ UNCHANGED conn /\ ReadOther(c)

\* case "order", if it passes validateOrder: SendOrder, which may wait for r.mu
\* and for the engine.  Other messages are skipped.
ReadOrder(c) ==
    /\ ~crashed /\ serve[c] = "read" /\ conn[c] = "open"
    /\ serve' = [serve EXCEPT ![c] = "order"]
    /\ UNCHANGED <<send, conn, panicked>> /\ ReadOther(c)

\* SendOrder returns; an error is only logged
OrderSent(c) ==
    /\ ~crashed /\ serve[c] = "order"
    /\ serve' = [serve EXCEPT ![c] = "read"]
    /\ UNCHANGED <<send, conn, panicked>> /\ ReadOther(c)

\* Fault: the deferred function forgets to unregister.
SkipUnregister(c) ==
    /\ ~crashed /\ serve[c] = "read" /\ conn[c] # "open"
    /\ serve' = [serve EXCEPT ![c] = "closing"]
    /\ UNCHANGED <<send, conn, panicked>> /\ ReadOther(c)

\* ReadMessage returns an error: blocked on h.unregister <- c
ReadErr(c) ==
    /\ ~crashed /\ serve[c] = "read" /\ conn[c] # "open"
    /\ serve' = [serve EXCEPT ![c] = "unregister"]
    /\ UNCHANGED <<send, conn, panicked>> /\ ReadOther(c)

\* c.conn.Close() after h.unregister <- c
ReadClose(c) ==
    /\ ~crashed /\ serve[c] = "closing"
    /\ serve' = [serve EXCEPT ![c] = "done"]
    /\ conn'  = [conn  EXCEPT ![c] = "closed"]
    /\ UNCHANGED <<send, panicked>> /\ ReadOther(c)

-----------------------------------------------------------------------------
(* writePump                                                                *)

WriteOther == UNCHANGED <<broadcast, accepted, runVars, closed, serve, panicked>>

\* msg := <-c.send
WriteTake(c) ==
    /\ ~crashed /\ write[c] = "take" /\ send[c] # <<>>
    /\ inHand' = [inHand EXCEPT ![c] = <<Head(send[c])>>]
    /\ send'   = [send   EXCEPT ![c] = Tail(@)]
    /\ write'  = [write  EXCEPT ![c] = "write"]
    /\ UNCHANGED <<conn, last>> /\ WriteOther

\* WriteMessage returns: the peer has taken the message
WriteOk(c) ==
    /\ ~crashed /\ write[c] = "write" /\ conn[c] = "open"
    /\ last'   = [last   EXCEPT ![c] = IF Head(inHand[c]) = Pong THEN @ ELSE Head(inHand[c])]
    /\ inHand' = [inHand EXCEPT ![c] = <<>>]
    /\ write'  = [write  EXCEPT ![c] = "take"]
    /\ UNCHANGED <<send, conn>> /\ WriteOther

\* Fault: the goroutine returns without closing the connection.
LeaveOpen(c) == conn

\* defer c.conn.Close()
ConnAfterWriter(c) == [conn EXCEPT ![c] = "closed"]

\* WriteMessage fails, or send is closed and drained
WriteDone(c) ==
    /\ ~crashed
    /\ \/ write[c] = "write" /\ conn[c] # "open"
       \/ write[c] = "take" /\ closed[c] /\ send[c] = <<>>
    /\ write' = [write EXCEPT ![c] = "done"]
    /\ conn'  = ConnAfterWriter(c)
    /\ inHand' = [inHand EXCEPT ![c] = <<>>]
    /\ UNCHANGED <<send, last>> /\ WriteOther

-----------------------------------------------------------------------------
\* The peer goes away
PeerGone(c) ==
    /\ ~crashed /\ conn[c] = "open" /\ serve[c] \in {"read", "order"}
    /\ conn' = [conn EXCEPT ![c] = "broken"]
    /\ UNCHANGED <<broadcast, accepted, runVars, send, closed, serve, write,
                   inHand, last, panicked>>

Run == RunBroadcast \/ \E c \in Clients : RunRegister(c) \/ RunUnregister(c)
ReadPump(c)  == \/ Connect(c) \/ ReadPing(c) \/ ReadOrder(c) \/ OrderSent(c)
                \/ ReadErr(c) \/ ReadClose(c)
WritePump(c) == WriteTake(c) \/ WriteOk(c) \/ WriteDone(c)

HubNext == \/ Broadcast \/ Run
           \/ \E c \in Clients : ReadPump(c) \/ WritePump(c) \/ PeerGone(c)

HubSpec == HubInit /\ [][HubNext]_hubVars

\* Goroutines that can run do.  Peers owe nothing: not to connect, to ping, to
\* leave, nor to take what is written to them (no fairness on WriteOk).
\* SendOrder returns (Runner's CallsReturn).
HubFairSpec ==
    /\ HubSpec
    /\ WF_hubVars(Run)
    /\ \A c \in Clients : /\ WF_hubVars(OrderSent(c) \/ ReadErr(c) \/ ReadClose(c))
                          /\ WF_hubVars(WriteTake(c) \/ WriteDone(c))

-----------------------------------------------------------------------------
(* Type invariant; the channels never exceed their capacities. *)
HubTypeOK ==
    /\ clients \subseteq Clients /\ panicked \subseteq Clients
    /\ broadcast \in Seq(Nat) /\ Len(broadcast) =< BroadcastCap
    /\ accepted \in Nat /\ fanned \in Nat /\ crashed \in BOOLEAN
    /\ send \in [Clients -> Seq(Nat)]
    /\ \A c \in Clients : Len(send[c]) =< SendCap
    /\ closed \in [Clients -> BOOLEAN]
    /\ serve \in [Clients -> {"none", "register", "read", "order", "unregister",
                           "closing", "done"}]
    /\ write \in [Clients -> {"none", "take", "write", "done"}]
    /\ inHand \in [Clients -> Seq(Nat)]
    /\ conn \in [Clients -> {"open", "broken", "closed"}]
    /\ last \in [Clients -> Nat]

(* Hub.Run never closes a client's channel twice and never sends on one it  *)
(* has closed, although a client can leave through two doors, eviction and  *)
(* unregister, in either order.  Either mistake would panic the goroutine   *)
(* and take the whole server down.                                          *)
HubNeverPanics == ~crashed

\* Pongs aside, way holds the messages from low + 1 to high, in order and once
Stretch(way, low, high) ==
    LET msgs == {i \in 1..Len(way) : way[i] # Pong} IN
    /\ {way[i] : i \in msgs} = (low + 1)..high
    /\ \A i, j \in msgs : i < j => way[i] < way[j]

(* A client sees a gap-free piece of the event stream: from the moment it   *)
(* is registered it is sent every message fanned out, in order and once,    *)
(* pongs aside, until it is removed; a slow client loses its connection,    *)
(* never a message in the middle.                                           *)
GapFree ==
    \A c \in Clients :
      write[c] \in {"take", "write"} =>
        \E high \in last[c]..fanned :
          /\ Stretch(inHand[c] \o send[c], last[c], high)
          /\ c \in clients => high = fanned

(* No slow, stalled or departing client blocks the broadcaster: Run catches *)
(* up with what h.broadcast accepted as soon as no more comes.              *)
BroadcastProgress == fanned < accepted ~> fanned = accepted

(* A lost peer leaves nothing behind: it is removed from the client set and *)
(* both of its goroutines end, whatever they were doing.                    *)
LostPeerCleanedUp ==
    \A c \in Clients :
        conn[c] = "broken" ~> c \notin clients /\ serve[c] = "done" /\ write[c] = "done"

(* Eviction is a full teardown if the peer goes on reading what is written  *)
(* to it: a client whose channel Run has closed gets what is still queued,  *)
(* then loses its connection, and both of its goroutines end, though only   *)
(* writePump sees the closing.                                              *)
EvictedTornDown ==
    \A c \in Clients :
        WF_hubVars(WriteOk(c)) => (closed[c] ~> serve[c] = "done" /\ write[c] = "done")

(* readPump "exits on disconnect": it does not end by panicking.            *)
ReadPumpNeverPanics == panicked = {}
=============================================================================
