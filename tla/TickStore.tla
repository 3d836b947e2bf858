------------------------------ MODULE TickStore ------------------------------
(***************************************************************************)
(* The tick history (src/server/db/store.go) and GET /api/history          *)
(* (src/server/api/handlers.go).  A statement is one step, as SQLite runs  *)
(* it in a transaction of its own; any statement may fail.  What has been  *)
(* inserted survives the server.                                           *)
(***************************************************************************)
EXTENDS Integers, SequencesExt

CONSTANTS Keep,          \* rows a trim leaves (10 000)
          DefaultLimit,  \* rows a request gets that does not say (200)
          MaxLimit       \* rows a request gets at most (1000)

ASSUME StoreAssumption ==
    /\ Keep \in Nat /\ MaxLimit \in 1..Keep /\ DefaultLimit \in 1..MaxLimit

VARIABLES
    rows,     \* the table ticks
    lastId,   \* the last id AUTOINCREMENT has given
    trims,    \* goroutines in trimOldTicks
    db,       \* "open" or "closed"
    stored,   \* history: the ticks inserted, in this order
    overdue   \* history: the last trim to end has failed, or was lost with the server

storeVars == <<rows, lastId, trims, db, stored, overdue>>

StoreInit ==
    /\ rows = {} /\ lastId = 0 /\ trims = 0 /\ db = "open"
    /\ stored = <<>> /\ overdue = FALSE

\* SELECT ... FROM table ORDER BY id DESC LIMIT n
Newest(table, n) == {r \in table : Cardinality({s \in table : s.id > r.id}) < n}

\* Store.StoreTick of an event that is a tick: INSERT, then go s.trimOldTicks()
StoreTick(e) ==
    \/ /\ db = "open"
       /\ lastId' = lastId + 1
       /\ rows' = rows \cup {[id |-> lastId', ts |-> e.ts, raw |-> e.n]}
       /\ trims' = trims + 1
       /\ stored' = Append(stored, e)
       /\ UNCHANGED <<db, overdue>>
    \/ UNCHANGED storeVars                 \* "insert tick: ...", logged by main

\* Fault: off by one.
KeepOneMore == Newest(rows, Keep + 1)

\* DELETE FROM ticks WHERE id NOT IN (...)
Trimmed == Newest(rows, Keep)

\* Store.trimOldTicks; its error is ignored
Trim ==
    /\ trims > 0
    /\ trims' = trims - 1
    /\ \/ db = "open" /\ rows' = Trimmed /\ overdue' = FALSE
       \/ UNCHANGED rows /\ overdue' = TRUE
    /\ UNCHANGED <<lastId, db, stored>>

\* Store.Close
CloseStore ==
    /\ db = "open" /\ db' = "closed"
    /\ UNCHANGED <<rows, lastId, trims, stored, overdue>>

\* The server ends with its goroutines, and NewStore opens the database again
ReopenStore ==
    /\ db' = "open" /\ trims' = 0
    /\ overdue' = (overdue \/ trims > 0)
    /\ UNCHANGED <<rows, lastId, stored>>

\* Fault: ORDER BY ts ASC; rows of one second stay in the order of the subquery.
ByTimeOnly(r, s) == r.ts < s.ts \/ (r.ts = s.ts /\ r.id > s.id)

\* ORDER BY ts ASC, id ASC
OldestFirst(r, s) == r.ts < s.ts \/ (r.ts = s.ts /\ r.id < s.id)

\* Store.History, as the events of its rows
History(limit) ==
    LET sorted == CHOOSE s \in SetToSeqs(Newest(rows, limit)) :
                    \A i, j \in DOMAIN s : i < j => OldestFirst(s[i], s[j])
    IN  [i \in DOMAIN sorted |-> [n |-> sorted[i].raw, ts |-> sorted[i].ts]]

\* HistoryHandler: q is the limit asked for, 0 if there is none or it makes no sense
Limit(q) == IF q = 0 THEN DefaultLimit ELSE IF q > MaxLimit THEN MaxLimit ELSE q

-----------------------------------------------------------------------------
(* Type invariant of the store. *)
StoreTypeOK ==
    /\ \A r \in rows : r.id \in 1..lastId
    /\ lastId \in Nat /\ trims \in Nat
    /\ db \in {"open", "closed"} /\ overdue \in BOOLEAN

(* The table is bounded although every insert starts a trim of its own and  *)
(* they end in any order: when none is left, at most Keep rows are, unless  *)
(* the last one failed or died with the server.                             *)
RowsBounded == trims = 0 /\ ~overdue => Cardinality(rows) =< Keep

\* The last n elements of s
LastOf(s, n) == SubSeq(s, Max({1, Len(s) - n + 1}), Len(s))

(* GET /api/history answers with the last ticks stored, as many as asked    *)
(* for up to the maximum, and in the order in which the engine printed them *)
(* as long as its clock was not set back, whatever inserts, trims, failures *)
(* and restarts came before.                                                *)
HistoryIsNewest ==
    \A q \in 0..(MaxLimit + 1) :
        LET answer == History(Limit(q))
            last   == [i \in DOMAIN LastOf(stored, Limit(q)) |->
                         [n |-> LastOf(stored, Limit(q))[i].n,
                          ts |-> LastOf(stored, Limit(q))[i].ts]]
            steady == \A i \in 1..(Len(last) - 1) : last[i].ts =< last[i + 1].ts
        IN  /\ ToSet(answer) = ToSet(last)
            /\ steady => answer = last
=============================================================================
