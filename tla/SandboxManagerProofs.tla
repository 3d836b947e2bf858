------------------------ MODULE SandboxManagerProofs ------------------------
(***************************************************************************)
(* What the sandbox manager guarantees for any set of trader ids, any      *)
(* number of handlers and any cap, with failing disk and Docker calls.     *)
(* Everything rests on the context: it is cancelled before anything of a   *)
(* sandbox is taken down (CancelledFirst), and a spawn whose context is    *)
(* not cancelled still owns its slot (SlotOwned).                          *)
(***************************************************************************)
EXTENDS SandboxManager, FiniteSetTheorems, TLAPS

InFlight == {"write", "note", "create", "attach", "start", "publish", "failed"}

\* Whoever is taking a sandbox down, or has done so, has cancelled its context
CancelledFirst ==
    /\ \A c \in calls : cancelled[c.of] /\ (c.by \in Traders => c.of = c.by)
    /\ \A t \in Traders : \/ mon[t] \in {"kill", "mark", "cleanup"}
                          \/ status[t] \in {"error", "stopped"}
                          \/ spawn[t] = "failed"
                          => cancelled[t]

\* A spawn under way that has not been cancelled holds its slot and its script
SlotOwned ==
    \A t \in Traders :
        /\ status[t] = "absent" <=> spawn[t] = "none"
        /\ status[t] = "absent" => box[t] = "none" /\ mon[t] = "off" /\ ~cancelled[t]
        /\ spawn[t] \in InFlight /\ ~cancelled[t] => status[t] = "spawning"
        /\ spawn[t] \in InFlight \ {"write"} /\ ~cancelled[t] => files[t]

\* With a disk that works, a script on disk has been noted in its entry, or is
\* just about to be, and a stopped sandbox that has one is about to be cleaned up
CleanupDue ==
    \A t \in Traders \ (BadWrite \cup BadRemove) :
        /\ files[t] => dir[t] \/ spawn[t] = "note"
        /\ status[t] = "stopped" /\ files[t] =>
             \/ spawn[t] \in InFlight
             \/ mon[t] = "cleanup"
             \/ \E c \in calls : c.of = t /\ c.at = "cleanup"

Live == {t \in Traders : status[t] \in {"running", "spawning"} /\ ~cancelled[t]}

SlotCap == Cardinality(Live) =< MaxConcurrentSandboxes

SMInv == /\ SMTypeOK /\ CancelledFirst /\ SlotOwned /\ LiveSupported /\ CleanupDue
         /\ SlotCap

-----------------------------------------------------------------------------
(* A step that adds no live sandbox keeps the cap. *)
LEMMA LiveShrinks == ASSUME SMInv, Live' \subseteq Live PROVE SlotCap'
  <1>1. Live \subseteq Traders /\ IsFiniteSet(Live) /\ IsFiniteSet(Live')
    BY SandboxAssumption, FS_Subset DEF Live
  <1>2. /\ Cardinality(Live') =< Cardinality(Live)
        /\ Cardinality(Live') \in Nat /\ Cardinality(Live) \in Nat
    BY <1>1, FS_Subset, FS_CardinalityType
  <1>3. Cardinality(Live') =< MaxConcurrentSandboxes
    BY <1>2, SandboxAssumption DEF SMInv, SlotCap
  <1> QED
    BY <1>3 DEF SlotCap

(* Reserving a slot: Active, which Spawn counts, includes everything live. *)
LEMMA SpawnReserveInv == ASSUME SMInv, NEW t \in Traders, SpawnReserve(t) PROVE SMInv'
  <1> USE DEF SMInv
  <1>1. /\ status[t] = "absent" /\ Cardinality(Active) < MaxConcurrentSandboxes
        /\ status' = [status EXCEPT ![t] = "spawning"]
        /\ spawn' = [spawn EXCEPT ![t] = "write"]
        /\ UNCHANGED <<cid, dir, cancelled, mon, calls, files, box, main, victims, requests>>
    BY DEF SpawnReserve, worldVars
  <1>2. SMTypeOK'
    BY <1>1 DEF SMTypeOK
  <1>3. CancelledFirst' /\ SlotOwned' /\ LiveSupported' /\ CleanupDue'
    BY <1>1 DEF SMTypeOK, CancelledFirst, SlotOwned, LiveSupported, CleanupDue, InFlight
  <1>4. SlotCap'
    <2>1. IsFiniteSet(Active)
      BY SandboxAssumption, FS_Subset DEF Active
    <2>2. /\ IsFiniteSet(Active \cup {t})
          /\ Cardinality(Active \cup {t}) = IF t \in Active THEN Cardinality(Active)
                                            ELSE Cardinality(Active) + 1
      BY <2>1, FS_AddElement
    <2>3. Live' \subseteq Active \cup {t}
      BY <1>1 DEF Live, Active, SMTypeOK
    <2>4. /\ Cardinality(Live') =< Cardinality(Active \cup {t})
          /\ Cardinality(Live') \in Nat /\ Cardinality(Active) \in Nat
      BY <2>1, <2>2, <2>3, FS_Subset, FS_CardinalityType
    <2>5. Cardinality(Live') =< MaxConcurrentSandboxes
      BY <1>1, <2>2, <2>4, SandboxAssumption
    <2> QED
      BY <2>5 DEF SlotCap
  <1> QED
    BY <1>2, <1>3, <1>4

(* The other steps of Spawn, among them the unconditional publication. *)
LEMMA SpawnInv ==
    ASSUME SMInv, NEW t \in Traders,
           \/ SpawnWrite(t) \/ SpawnNote(t) \/ SpawnCreate(t) \/ SpawnAttach(t)
           \/ SpawnStart(t) \/ SpawnPublish(t) \/ SpawnSetError(t)
    PROVE  SMInv'
  <1> USE DEF SMInv, entryVars, worldVars, SpawnOther, InFlight
  <1>0. ASSUME SMTypeOK', CancelledFirst', SlotOwned', LiveSupported', CleanupDue',
               Live' \subseteq Live
        PROVE  SMInv'
    BY <1>0, LiveShrinks
  <1>1. CASE SpawnWrite(t)
    <2>1. SMTypeOK'
      <3>1. /\ UNCHANGED <<status, cid, dir, mon, calls, box, main, victims, requests>>
            /\ \E to \in {"note", "failed"} : spawn' = [spawn EXCEPT ![t] = to]
            /\ \E left \in BOOLEAN : files' = [files EXCEPT ![t] = left]
            /\ cancelled' = cancelled \/ cancelled' = [cancelled EXCEPT ![t] = TRUE]
        BY <1>1 DEF SpawnWrite, Goes, Fails
      <3>2. spawn' \in [Traders -> {"none", "write", "note", "create", "attach", "start",
                                    "publish", "failed", "done"}]
        BY <3>1 DEF SMTypeOK
      <3>3. files' \in [Traders -> BOOLEAN] /\ cancelled' \in [Traders -> BOOLEAN]
        BY <3>1 DEF SMTypeOK
      <3> QED
        BY <3>1, <3>2, <3>3 DEF SMTypeOK
    <2>2. CancelledFirst'
      BY <1>1 DEF SpawnWrite, Goes, Fails, SMTypeOK, CancelledFirst
    <2>3. SlotOwned'
      BY <1>1 DEF SpawnWrite, Goes, Fails, SMTypeOK, SlotOwned
    <2>4. LiveSupported'
      BY <1>1 DEF SpawnWrite, Goes, Fails, SMTypeOK, SlotOwned, LiveSupported
    <2>5. CleanupDue'
      BY <1>1 DEF SpawnWrite, Goes, Fails, SMTypeOK, CleanupDue
    <2>6. Live' \subseteq Live
      BY <1>1 DEF SpawnWrite, Goes, Fails, SMTypeOK, Live
    <2> QED
      BY <2>1, <2>2, <2>3, <2>4, <2>5, <2>6, <1>0
  <1>2. CASE SpawnNote(t)
    <2>1. SMTypeOK' /\ CancelledFirst' /\ SlotOwned'
      BY <1>2 DEF SpawnNote, Goes, SMTypeOK, CancelledFirst, SlotOwned
    <2>2. LiveSupported' /\ CleanupDue' /\ Live' \subseteq Live
      BY <1>2 DEF SpawnNote, Goes, SMTypeOK, SlotOwned, LiveSupported, CleanupDue, Live
    <2> QED
      BY <2>1, <2>2, <1>0
  <1>3. ASSUME NEW from \in {"create", "attach", "start"},
               NEW to \in {"attach", "start", "publish"},
               NEW effect \in {"none", "created", "running", "gone"},
               DockerCall(t, from, to, effect)
        PROVE  SMInv'
    <2>1. SMTypeOK'
      <3>1. CASE Goes(t, from, to) /\ ~cancelled[t] /\ box' = [box EXCEPT ![t] = effect]
                 /\ UNCHANGED <<entryVars, files>>
        BY <3>1 DEF Goes, SMTypeOK
      <3>2. CASE Fails(t, from) /\ UNCHANGED <<box, files>>
        BY <3>2 DEF Fails, SMTypeOK
      <3>3. CASE Fails(t, from) /\ box' = [box EXCEPT ![t] = effect] /\ UNCHANGED files
        BY <3>3 DEF Fails, SMTypeOK
      <3> QED
        BY <1>3, <3>1, <3>2, <3>3 DEF DockerCall
    <2>2. CancelledFirst'
      BY <1>3 DEF DockerCall, Goes, Fails, SMTypeOK, CancelledFirst
    <2>3. SlotOwned'
      BY <1>3 DEF DockerCall, Goes, Fails, SMTypeOK, SlotOwned
    <2>4. LiveSupported'
      BY <1>3 DEF DockerCall, Goes, Fails, SMTypeOK, LiveSupported
    <2>5. CleanupDue'
      BY <1>3 DEF DockerCall, Goes, Fails, SMTypeOK, CleanupDue
    <2>6. Live' \subseteq Live
      BY <1>3 DEF DockerCall, Goes, Fails, SMTypeOK, Live
    <2> QED
      BY <2>1, <2>2, <2>3, <2>4, <2>5, <2>6, <1>0
  <1>4. CASE SpawnCreate(t) \/ SpawnAttach(t) \/ SpawnStart(t)
    BY <1>3, <1>4 DEF SpawnCreate, SpawnAttach, SpawnStart, SMTypeOK
  <1>5. CASE SpawnPublish(t)
    <2>1. SMTypeOK' /\ CancelledFirst' /\ SlotOwned'
      BY <1>5 DEF SpawnPublish, SMTypeOK, CancelledFirst, SlotOwned
    <2>2. LiveSupported' /\ CleanupDue' /\ Live' \subseteq Live
      BY <1>5 DEF SpawnPublish, SMTypeOK, SlotOwned, LiveSupported, CleanupDue, Live
    <2> QED
      BY <2>1, <2>2, <1>0
  <1>6. CASE SpawnSetError(t)
    <2>1. SMTypeOK' /\ CancelledFirst' /\ SlotOwned'
      BY <1>6 DEF SpawnSetError, Goes, SMTypeOK, CancelledFirst, SlotOwned
    <2>2. LiveSupported' /\ CleanupDue' /\ Live' \subseteq Live
      BY <1>6 DEF SpawnSetError, Goes, SMTypeOK, LiveSupported, CleanupDue, Live
    <2> QED
      BY <2>1, <2>2, <1>0
  <1> QED
    BY <1>1, <1>2, <1>4, <1>5, <1>6

-----------------------------------------------------------------------------
(* Beginning a Kill: the context goes first.  A monitor kills only its own  *)
(* sandbox, and gives up its watch.                                         *)
LEMMA KillBeginInv ==
    ASSUME SMInv, NEW t \in Traders, NEW k \in Killers, KillBegin(k, t),
           k \in Traders => k = t,
           mon' = mon \/ (mon[t] = "select" /\ mon' = [mon EXCEPT ![t] = "kill"]),
           main' = main, victims' \subseteq victims, requests' \subseteq requests
    PROVE  SMInv'
  <1> USE DEF SMInv, worldVars
  <1>1. /\ cancelled' = [cancelled EXCEPT ![t] = TRUE] /\ status[t] # "absent"
        /\ calls' = calls \cup {[by |-> k, of |-> t, at |-> "stop"]}
        /\ UNCHANGED <<status, cid, dir, spawn, files, box>>
    BY DEF KillBegin, CancelFirst, Cancel
  <1>2. SMTypeOK'
    BY <1>1 DEF SMTypeOK
  <1>3. CancelledFirst'
    BY <1>1 DEF SMTypeOK, CancelledFirst
  <1>4. SlotOwned' /\ LiveSupported' /\ Live' \subseteq Live
    BY <1>1 DEF SMTypeOK, SlotOwned, LiveSupported, Live
  <1>5. CleanupDue'
    <2> SUFFICES ASSUME NEW u \in Traders \ (BadWrite \cup BadRemove), files[u]
                 PROVE  /\ dir[u] \/ spawn[u] = "note"
                        /\ status[u] = "stopped" =>
                             \/ spawn[u] \in InFlight \/ mon'[u] = "cleanup"
                             \/ \E c \in calls' : c.of = u /\ c.at = "cleanup"
      BY <1>1 DEF CleanupDue
    <2>1. mon[u] = "cleanup" => mon'[u] = "cleanup"
      BY DEF SMTypeOK
    <2>2. calls \subseteq calls'
      BY <1>1
    <2> QED
      BY <2>1, <2>2 DEF CleanupDue
  <1> QED
    BY <1>2, <1>3, <1>4, <1>5, LiveShrinks

(* The rest of a Kill touches only a sandbox that has been cancelled. *)
LEMMA KillStepInv == ASSUME SMInv, NEW c \in calls, KillStep(c) PROVE SMInv'
  <1> USE DEF SMInv, entryVars, worldVars
  <1>0. /\ c.of \in Traders /\ c.by \in Killers /\ cancelled[c.of]
        /\ c.by \in Traders => c.of = c.by
        /\ c \in [by : Killers, of : Traders, at : {"stop", "mark", "cleanup"}]
    BY DEF SMTypeOK, CancelledFirst
  <1>1. ASSUME NEW to \in {"mark", "cleanup"}, Proceed(c, to), c.at # "cleanup"
        PROVE  /\ calls' \subseteq [by : Killers, of : Traders, at : {"stop", "mark", "cleanup"}]
               /\ \A d \in calls' : cancelled[d.of] /\ (d.by \in Traders => d.of = d.by)
               /\ \A d \in calls : d.at = "cleanup" => d \in calls'
               /\ to = "cleanup" => \E d \in calls' : d.of = c.of /\ d.at = "cleanup"
    <2> DEFINE d == [c EXCEPT !.at = to]
    <2>1. /\ d \in [by : Killers, of : Traders, at : {"stop", "mark", "cleanup"}]
          /\ d.by = c.by /\ d.of = c.of /\ d.at = to
      BY <1>0
    <2>2. calls' = (calls \ {c}) \cup {d}
      BY <1>1 DEF Proceed
    <2> HIDE DEF d
    <2> QED
      BY <1>0, <1>1, <2>1, <2>2 DEF SMTypeOK, CancelledFirst
  <1>2. CASE KillStop(c)
    <2>1. /\ Proceed(c, "mark") /\ c.at = "stop"
          /\ UNCHANGED <<status, cid, dir, cancelled, spawn, mon, files, main, victims, requests>>
          /\ box' \in [Traders -> {"none", "created", "running", "gone"}]
          /\ \A t \in Traders : box[t] = "none" => box'[t] = "none"
      BY <1>2, <1>0 DEF KillStop, ContainerStop, Stopped, SMTypeOK
    <2>2. SMTypeOK' /\ CancelledFirst'
      BY <1>1, <2>1 DEF SMTypeOK, CancelledFirst
    <2>3. SlotOwned' /\ LiveSupported' /\ Live' \subseteq Live
      BY <2>1 DEF SlotOwned, LiveSupported, Live
    <2>4. CleanupDue'
      BY <1>1, <2>1 DEF CleanupDue
    <2> QED
      BY <2>2, <2>3, <2>4, LiveShrinks
  <1>3. CASE KillMark(c)
    <2>1. /\ Proceed(c, "cleanup") /\ c.at = "mark"
          /\ status' = [status EXCEPT ![c.of] = "stopped"]
          /\ UNCHANGED <<cid, dir, cancelled, spawn, mon, files, box, main, victims, requests>>
      BY <1>3 DEF KillMark, MarkStopped
    <2>0. spawn[c.of] # "none" /\ status[c.of] # "absent"
      BY <1>0 DEF CancelledFirst, SlotOwned, SMTypeOK
    <2>2. SMTypeOK' /\ CancelledFirst'
      BY <1>0, <1>1, <2>1 DEF SMTypeOK, CancelledFirst
    <2>3. SlotOwned' /\ LiveSupported' /\ Live' \subseteq Live
      BY <1>0, <2>0, <2>1 DEF SMTypeOK, SlotOwned, LiveSupported, Live
    <2>4. CleanupDue'
      BY <1>0, <1>1, <2>1 DEF SMTypeOK, CleanupDue
    <2> QED
      BY <2>2, <2>3, <2>4, LiveShrinks
  <1>4. CASE KillReturn(c)
    <2>1. /\ \/ files' = [files EXCEPT ![c.of] = @ /\ ~dir[c.of]]
             \/ c.of \in BadRemove /\ files' = files
          /\ calls' = calls \ {c}
          /\ mon' = [t \in Traders |-> IF c.by = t THEN "done" ELSE mon[t]]
          /\ UNCHANGED <<status, cid, dir, cancelled, spawn, box, main, victims, requests>>
      BY <1>4 DEF KillReturn, Cleanup
    <2>2. SMTypeOK'
      BY <1>0, <2>1 DEF SMTypeOK
    <2>3. CancelledFirst'
      BY <1>0, <2>1 DEF SMTypeOK, CancelledFirst
    <2>4. SlotOwned' /\ LiveSupported' /\ Live' \subseteq Live
      BY <1>0, <2>1 DEF SMTypeOK, SlotOwned, LiveSupported, Live
    <2>5. CleanupDue'
      <3> SUFFICES ASSUME NEW u \in Traders \ (BadWrite \cup BadRemove), files'[u]
                   PROVE  /\ dir[u] \/ spawn[u] = "note"
                          /\ status[u] = "stopped" =>
                               \/ spawn[u] \in InFlight \/ mon'[u] = "cleanup"
                               \/ \E d \in calls' : d.of = u /\ d.at = "cleanup"
        BY <2>1 DEF CleanupDue
      <3>0. files \in [Traders -> BOOLEAN]
        BY DEF SMTypeOK
      <3>1. files[u] /\ (u = c.of => ~dir[u])
        BY <2>1, <3>0
      <3>2. CASE u = c.of
        BY <3>1, <3>2 DEF CleanupDue, InFlight
      <3>3. CASE u # c.of
        <4>1. c.by # u /\ mon'[u] = mon[u]
          BY <1>0, <2>1, <3>3
        <4>2. \A d \in calls : d.of = u => d \in calls'
          BY <2>1, <3>3
        <4> QED
          BY <3>1, <4>1, <4>2 DEF CleanupDue
      <3> QED
        BY <3>2, <3>3
    <2> QED
      BY <2>2, <2>3, <2>4, <2>5, LiveShrinks
  <1> QED
    BY <1>2, <1>3, <1>4 DEF KillStep

(* The steps of monitor keep the invariant. *)
LEMMA MonitorInv == ASSUME SMInv, NEW t \in Traders, MonitorStep(t) PROVE SMInv'
  <1> USE DEF SMInv, entryVars, worldVars, InFlight
  <1>1. CASE MonCtxDone(t)
    <2>1. SMTypeOK' /\ CancelledFirst' /\ SlotOwned' /\ Live' \subseteq Live
      BY <1>1 DEF MonCtxDone, SMTypeOK, CancelledFirst, SlotOwned, Live
    <2>2. LiveSupported' /\ CleanupDue'
      BY <1>1 DEF MonCtxDone, SMTypeOK, LiveSupported, CleanupDue
    <2> QED
      BY <2>1, <2>2, LiveShrinks
  <1>2. CASE MonInspect(t)
    <2>0. status[t] # "absent"
      BY <1>2 DEF MonInspect, SlotOwned
    <2>1. SMTypeOK' /\ CancelledFirst' /\ Live' \subseteq Live
      BY <1>2 DEF MonInspect, Cancel, SMTypeOK, CancelledFirst, Live
    <2>3. SlotOwned'
      BY <1>2, <2>0 DEF MonInspect, Cancel, SMTypeOK, SlotOwned
    <2>2. LiveSupported' /\ CleanupDue'
      BY <1>2 DEF MonInspect, Cancel, SMTypeOK, LiveSupported, CleanupDue
    <2> QED
      BY <2>1, <2>2, <2>3, LiveShrinks
  <1>3. CASE MonMark(t)
    <2>1. SMTypeOK' /\ CancelledFirst' /\ Live' \subseteq Live
      BY <1>3 DEF MonMark, MarkStopped, SMTypeOK, CancelledFirst, Live
    <2>2. LiveSupported' /\ CleanupDue'
      BY <1>3 DEF MonMark, MarkStopped, SMTypeOK, LiveSupported, CleanupDue
    <2>3. SlotOwned'
      BY <1>3 DEF MonMark, MarkStopped, SMTypeOK, SlotOwned, CancelledFirst
    <2> QED
      BY <2>1, <2>2, <2>3, LiveShrinks
  <1>4. CASE MonCleanup(t)
    <2>1. SMTypeOK' /\ CancelledFirst' /\ Live' \subseteq Live
      BY <1>4 DEF MonCleanup, Cleanup, SMTypeOK, CancelledFirst, Live
    <2>2. LiveSupported'
      BY <1>4 DEF MonCleanup, Cleanup, SMTypeOK, LiveSupported
    <2>3. CleanupDue'
      <3>1. /\ UNCHANGED <<status, dir, spawn, calls>>
            /\ \/ files' = [files EXCEPT ![t] = @ /\ ~dir[t]]
               \/ t \in BadRemove /\ files' = files
            /\ mon' = [mon EXCEPT ![t] = "done"]
        BY <1>4 DEF MonCleanup, Cleanup
      <3>2. files \in [Traders -> BOOLEAN] /\ DOMAIN mon = Traders /\ CleanupDue
        BY DEF SMTypeOK
      <3>3. t \notin BadRemove /\ files'[t] => files[t] /\ ~dir[t]
        BY <3>1, <3>2
      <3>4. ASSUME NEW u \in Traders, u # t
            PROVE  files'[u] = files[u] /\ mon'[u] = mon[u]
        BY <3>1, <3>2, <3>4
      <3> QED
        BY <3>1, <3>2, <3>3, <3>4 DEF CleanupDue
    <2>4. SlotOwned'
      BY <1>4 DEF MonCleanup, Cleanup, SMTypeOK, SlotOwned, CancelledFirst
    <2> QED
      BY <2>1, <2>2, <2>3, <2>4, LiveShrinks
  <1> QED
    BY <1>1, <1>2, <1>3, <1>4 DEF MonitorStep

(* main's shutdown, and containers that exit, keep the invariant. *)
LEMMA ShutdownInv ==
    ASSUME SMInv, KillAllBegin \/ KillAllEnd \/ Exit \/ \E t \in Traders : ContainerExit(t)
    PROVE  SMInv'
  <1> USE DEF SMInv, entryVars, worldVars, ShutOther
  <1>1. /\ UNCHANGED <<status, cid, dir, cancelled, spawn, mon, calls, files>>
        /\ box' \in [Traders -> {"none", "created", "running", "gone"}]
        /\ \A t \in Traders : box[t] = "none" => box'[t] = "none"
        /\ main' \in {"serving", "killall", "shutdown", "exited"} /\ victims' \subseteq Traders
        /\ requests' = requests
    BY DEF KillAllBegin, KillAllEnd, Exit, ContainerExit, SMTypeOK
  <1>2. SMTypeOK' /\ CancelledFirst' /\ SlotOwned' /\ LiveSupported' /\ CleanupDue'
    BY <1>1 DEF SMTypeOK, CancelledFirst, SlotOwned, LiveSupported, CleanupDue
  <1>3. Live' \subseteq Live
    BY <1>1 DEF Live
  <1> QED
    BY <1>2, <1>3, LiveShrinks

-----------------------------------------------------------------------------
(* The inductive invariant holds in every reachable state of the manager. *)
THEOREM SMInvariant == SMSpec => []SMInv
  <1>1. SMInit => SMInv
    <2> SUFFICES ASSUME SMInit PROVE SMInv
      OBVIOUS
    <2>1. SMTypeOK /\ CancelledFirst /\ SlotOwned /\ LiveSupported /\ CleanupDue
      BY DEF SMInit, SMTypeOK, CancelledFirst, SlotOwned, LiveSupported, CleanupDue, InFlight
    <2>2. Live = {}
      BY DEF SMInit, Live
    <2>3. SlotCap
      BY <2>2, FS_EmptySet, SandboxAssumption DEF SlotCap
    <2> QED
      BY <2>1, <2>3 DEF SMInv
  <1>2. SMInv /\ [SMNext]_smVars => SMInv'
    <2> SUFFICES ASSUME SMInv, [SMNext]_smVars PROVE SMInv'
      OBVIOUS
    <2>1. ASSUME NEW t \in Traders, Spawn(t) PROVE SMInv'
      BY <2>1, SpawnReserveInv, SpawnInv DEF Spawn, Post
    <2>2. ASSUME NEW t \in Traders, MonitorStep(t) PROVE SMInv'
      BY <2>2, MonitorInv
    <2>3. ASSUME NEW t \in Traders, MonAutoKill(t) PROVE SMInv'
      BY <2>3, KillBeginInv DEF MonAutoKill, Killers
    <2>4. ASSUME NEW t \in Traders, KillAllNext(t) PROVE SMInv'
      BY <2>4, KillBeginInv, SandboxAssumption DEF KillAllNext, Killers
    <2>5. ASSUME NEW t \in Traders, NEW k \in Deleters, Delete(k, t) PROVE SMInv'
      BY <2>5, KillBeginInv, SandboxAssumption DEF Delete, Killers
    <2>6. ASSUME NEW c \in calls, KillStep(c) PROVE SMInv'
      BY <2>6, KillStepInv
    <2>7. CASE KillAllBegin \/ KillAllEnd \/ Exit \/ \E t \in Traders : ContainerExit(t)
      BY <2>7, ShutdownInv
    <2>8. CASE UNCHANGED smVars
      BY <2>8 DEF smVars, entryVars, worldVars, SMInv, SMTypeOK, CancelledFirst, SlotOwned,
                  LiveSupported, CleanupDue, SlotCap, Live
    <2> QED
      BY <2>1, <2>2, <2>3, <2>4, <2>5, <2>6, <2>7, <2>8 DEF SMNext
  <1> QED
    BY <1>1, <1>2, PTL DEF SMSpec

(* The manager's records stay well-typed, whatever fails. *)
THEOREM SMTypeCorrect == SMSpec => []SMTypeOK
  BY SMInvariant, PTL DEF SMInv

(* No more containers run that nobody has asked to stop than the cap allows. *)
THEOREM CapHoldsForLive == SMSpec => []LiveCap
  <1>1. SMInv => LiveCap
    <2> SUFFICES ASSUME SMInv PROVE LiveCap
      OBVIOUS
    <2> DEFINE R == {t \in Traders : box[t] = "running" /\ ~cancelled[t]}
    <2>1. R \subseteq Live
      BY DEF SMInv, SMTypeOK, CancelledFirst, SlotOwned, Live
    <2>2. IsFiniteSet(Live)
      BY SandboxAssumption, FS_Subset DEF Live
    <2>3. /\ Cardinality(R) =< Cardinality(Live)
          /\ Cardinality(R) \in Nat /\ Cardinality(Live) \in Nat
      BY <2>1, <2>2, FS_Subset, FS_CardinalityType
    <2>4. Cardinality(R) =< MaxConcurrentSandboxes
      BY <2>3, SandboxAssumption DEF SMInv, SlotCap
    <2> QED
      BY <2>4 DEF LiveCap
  <1> QED
    BY <1>1, SMInvariant, PTL

(* A running sandbox that nobody has asked to stop is watched and complete. *)
THEOREM LiveIsSupported == SMSpec => []LiveSupported
  BY SMInvariant, PTL DEF SMInv

(* A sandbox that has come to rest as stopped has left no script behind, if *)
(* its script could be written and its directory be removed, whatever else  *)
(* failed.                                                                  *)
THEOREM StoppedIsClean == SMSpec => []StoppedClean
  <1>1. SMInv => StoppedClean
    BY DEF SMInv, CleanupDue, StoppedClean, LeftClean, Quiet, InFlight
  <1> QED
    BY <1>1, SMInvariant, PTL

-----------------------------------------------------------------------------
(* What KillAll reaches, and what a stopped sandbox can still become        *)

\* Spawn sets the container id in its last step
Published == \A t \in Traders : cid[t] => spawn[t] = "done"

\* KillAll has not begun, or still has this sandbox to stop, or it is not running
Reached(t) ==
    \/ main = "serving"
    \/ box[t] # "running"
    \/ main = "killall" /\ \/ t \in victims
                           \/ \E c \in calls : c.by = Main /\ c.of = t /\ c.at = "stop"

(* The steps of Spawn, for its own id and for the others. *)
LEMMA SpawnTouches ==
    ASSUME SMInv, NEW u \in Traders, Spawn(u)
    PROVE  /\ spawn[u] # "done" /\ UNCHANGED <<calls, main, victims>>
           /\ \A t \in Traders : t # u => /\ status'[t] = status[t] /\ cid'[t] = cid[t]
                                         /\ spawn'[t] = spawn[t] /\ box'[t] = box[t]
           /\ cid'[u] => cid[u] \/ spawn'[u] = "done"
           /\ status'[u] # status[u] =>
                 \/ status[u] = "absent" /\ status'[u] = "spawning"
                 \/ /\ spawn[u] = "publish" /\ status'[u] = "running" /\ mon'[u] = "select"
                    /\ UNCHANGED cancelled
                 \/ spawn[u] = "failed" /\ status'[u] = "error"
  <1> USE DEF SMInv, SMTypeOK, entryVars, worldVars, SpawnOther
  <1>1. CASE Post(u)
    BY <1>1 DEF Post, SpawnReserve, SlotOwned
  <1>2. CASE SpawnWrite(u)
    BY <1>2 DEF SpawnWrite, Goes, Fails
  <1>3. CASE SpawnNote(u)
    BY <1>3 DEF SpawnNote, Goes
  <1>4. ASSUME NEW from \in {"create", "attach", "start"}, NEW to, NEW effect,
               DockerCall(u, from, to, effect)
        PROVE  /\ spawn[u] # "done" /\ UNCHANGED <<calls, main, victims, status, cid>>
               /\ \A t \in Traders : t # u => spawn'[t] = spawn[t] /\ box'[t] = box[t]
    BY <1>4 DEF DockerCall, Goes, Fails
  <1>5. CASE SpawnCreate(u) \/ SpawnAttach(u) \/ SpawnStart(u)
    <2>1. /\ spawn[u] # "done" /\ UNCHANGED <<calls, main, victims, status, cid>>
          /\ \A t \in Traders : t # u => spawn'[t] = spawn[t] /\ box'[t] = box[t]
      BY <1>4, <1>5 DEF SpawnCreate, SpawnAttach, SpawnStart
    <2> QED
      BY <2>1
  <1>6. CASE SpawnPublish(u)
    BY <1>6 DEF SpawnPublish
  <1>7. CASE SpawnSetError(u)
    BY <1>7 DEF SpawnSetError, Goes
  <1> QED
    BY <1>1, <1>2, <1>3, <1>5, <1>6, <1>7 DEF Spawn

(* The steps of everyone else leave Spawn's variables alone, and set no     *)
(* status but stopped.                                                      *)
LEMMA OthersTouch ==
    ASSUME SMInv, [SMNext]_smVars, ~\E u \in Traders : Spawn(u)
    PROVE  /\ UNCHANGED <<cid, spawn>>
           /\ \A t \in Traders : status'[t] # status[t] =>
                 status'[t] = "stopped" /\ cancelled[t]
           /\ \A t \in Traders : box'[t] # box[t] => box'[t] = "gone"
  <1> USE DEF SMInv, SMTypeOK, entryVars, worldVars, ShutOther
  <1>1. ASSUME NEW u \in Traders, MonitorStep(u)
        PROVE  /\ UNCHANGED <<cid, spawn, box>>
               /\ \A t \in Traders : status'[t] # status[t] =>
                     status'[t] = "stopped" /\ cancelled[t]
    BY <1>1 DEF MonitorStep, MonCtxDone, MonInspect, MonMark, MonCleanup, MarkStopped,
                CancelledFirst
  <1>2. ASSUME NEW u \in Traders,
               \/ MonAutoKill(u) \/ KillAllNext(u) \/ \E k \in Deleters : Delete(k, u)
        PROVE  UNCHANGED <<cid, spawn, box, status>>
    BY <1>2 DEF MonAutoKill, KillAllNext, Delete, KillBegin
  <1>3. ASSUME NEW c \in calls, KillStep(c)
        PROVE  /\ UNCHANGED <<cid, spawn>>
               /\ \A t \in Traders : status'[t] # status[t] =>
                     status'[t] = "stopped" /\ cancelled[t]
               /\ \A t \in Traders : box'[t] # box[t] => box'[t] = "gone"
    <2>1. c.of \in Traders /\ cancelled[c.of]
      BY DEF CancelledFirst
    <2>2. CASE KillStop(c)
      BY <2>1, <2>2 DEF KillStop, ContainerStop, Stopped
    <2>3. CASE KillMark(c)
      BY <2>1, <2>3 DEF KillMark, MarkStopped
    <2>4. CASE KillReturn(c)
      BY <2>4 DEF KillReturn
    <2> QED
      BY <1>3, <2>2, <2>3, <2>4 DEF KillStep
  <1>4. CASE KillAllBegin \/ KillAllEnd \/ Exit
    BY <1>4 DEF KillAllBegin, KillAllEnd, Exit
  <1>5. ASSUME NEW u \in Traders, ContainerExit(u)
        PROVE  /\ UNCHANGED <<cid, spawn, status>>
               /\ \A t \in Traders : box'[t] # box[t] => box'[t] = "gone"
    BY <1>5 DEF ContainerExit
  <1>6. CASE UNCHANGED smVars
    BY <1>6 DEF smVars
  <1>7. CASE \E u \in Traders : MonitorStep(u) \/ ContainerExit(u)
    BY <1>1, <1>5, <1>7
  <1>8. CASE \E u \in Traders : \/ MonAutoKill(u) \/ KillAllNext(u)
                                \/ \E k \in Deleters : Delete(k, u)
    BY <1>2, <1>8
  <1>9. CASE \E c \in calls : KillStep(c)
    BY <1>3, <1>9
  <1> QED
    BY <1>4, <1>6, <1>7, <1>8, <1>9 DEF SMNext

(* A container id, once set, stays, and Spawn is over. *)
LEMMA PublishedStep == ASSUME SMInv, Published, [SMNext]_smVars PROVE Published'
  <1>1. ASSUME NEW u \in Traders, Spawn(u) PROVE Published'
    BY <1>1, SpawnTouches DEF Published
  <1> QED
    BY <1>1, OthersTouch DEF Published

(* No step lets a published sandbox escape KillAll. *)
LEMMA ReachedStep ==
    ASSUME SMInv, Published, NEW t \in Traders \ BadDocker, cid[t], Reached(t),
           [SMNext]_smVars
    PROVE  cid'[t] /\ Reached(t)'
  <1>1. spawn[t] = "done" /\ t \in Traders /\ t \notin BadDocker /\ status[t] # "absent"
    BY DEF Published, SMInv, SlotOwned
  <1>2. CASE \E u \in Traders : Spawn(u)
    <2>1. PICK u \in Traders : Spawn(u)
      BY <1>2
    <2>2. u # t /\ UNCHANGED <<calls, main, victims>> /\ cid'[t] = cid[t] /\ box'[t] = box[t]
      BY <1>1, <2>1, SpawnTouches
    <2> QED
      BY <2>2 DEF Reached
  <1>3. CASE ~\E u \in Traders : Spawn(u)
    <2>1. cid'[t] /\ (box[t] # "running" => box'[t] # "running")
      BY <1>1, <1>3, OthersTouch
    <2> SUFFICES ASSUME box[t] = "running" PROVE Reached(t)'
      BY <2>1 DEF Reached
    <2>2. CASE UNCHANGED <<main, victims>> /\ calls \subseteq calls'
      BY <2>2 DEF Reached
    <2>3. ASSUME NEW u \in Traders, MonitorStep(u) \/ ContainerExit(u) PROVE Reached(t)'
      BY <2>2, <2>3 DEF MonitorStep, MonCtxDone, MonInspect, MonMark, MonCleanup,
                        ContainerExit
    <2>4. ASSUME NEW u \in Traders, MonAutoKill(u) \/ \E k \in Deleters : Delete(k, u)
          PROVE  Reached(t)'
      BY <2>2, <2>4 DEF MonAutoKill, Delete, KillBegin
    <2>5. ASSUME NEW u \in Traders, KillAllNext(u) PROVE Reached(t)'
      <3>1. /\ main' = "killall" /\ victims' = victims \ {u} /\ main = "killall"
            /\ calls' = calls \cup {[by |-> Main, of |-> u, at |-> "stop"]}
        BY <2>5 DEF KillAllNext, KillBegin
      <3>2. CASE u = t
        <4> DEFINE c == [by |-> Main, of |-> t, at |-> "stop"]
        <4>1. c \in calls' /\ c.by = Main /\ c.of = t /\ c.at = "stop"
          BY <3>1, <3>2
        <4> HIDE DEF c
        <4> QED
          BY <3>1, <4>1 DEF Reached
      <3>3. CASE u # t
        BY <3>1, <3>3 DEF Reached
      <3> QED
        BY <3>2, <3>3
    <2>6. ASSUME NEW c \in calls, KillStep(c) PROVE Reached(t)'
      <3>1. UNCHANGED <<main, victims>> /\ calls \ {c} \subseteq calls'
        BY <2>6 DEF KillStep, KillStop, KillMark, KillReturn, Proceed
      <3>2. CASE c.by = Main /\ c.of = t /\ c.at = "stop"
        <4>1. KillStop(c)
          BY <2>6, <3>2 DEF KillStep, KillMark, KillReturn
        <4>2. box'[t] = "gone"
          BY <1>1, <3>2, <4>1 DEF KillStop, ContainerStop, Stopped, SMInv, SMTypeOK
        <4> QED
          BY <4>2 DEF Reached
      <3>3. CASE ~(c.by = Main /\ c.of = t /\ c.at = "stop")
        BY <3>1, <3>3 DEF Reached
      <3> QED
        BY <3>2, <3>3
    <2>7. CASE KillAllBegin
      BY <1>1, <2>7 DEF KillAllBegin, Reached
    <2>8. CASE KillAllEnd
      BY <2>8 DEF KillAllEnd, Busy, Reached
    <2>9. CASE Exit
      BY <2>9 DEF Exit, Reached
    <2>10. CASE UNCHANGED smVars
      BY <2>2, <2>10 DEF smVars
    <2> QED
      BY <1>3, <2>3, <2>4, <2>5, <2>6, <2>7, <2>8, <2>9, <2>10 DEF SMNext
  <1> QED
    BY <1>2, <1>3

(* What is true of "KillAll stops all running sandboxes": a sandbox whose   *)
(* Spawn had published it when the signal came, and whose container Docker  *)
(* can stop, is not running when the server has exited, however many        *)
(* requests and monitors were at work on it at the time.                    *)
THEOREM KillAllStopsPublished == SMSpec => ShutdownStops
  <1> SUFFICES ASSUME NEW t \in Traders \ BadDocker
               PROVE  SMSpec => [](cid[t] /\ main = "serving" =>
                                     [](main = "exited" => box[t] # "running"))
    BY DEF ShutdownStops
  <1>1. SMInit => Published
    BY DEF SMInit, Published
  <1>2. SMInv /\ Published /\ [SMNext]_smVars => Published'
    BY PublishedStep
  <1>3. SMInv /\ Published /\ (cid[t] /\ Reached(t)) /\ [SMNext]_smVars
          => (cid[t] /\ Reached(t))'
    BY ReachedStep
  <1>4. cid[t] /\ main = "serving" => cid[t] /\ Reached(t)
    BY DEF Reached
  <1>5. cid[t] /\ Reached(t) => (main = "exited" => box[t] # "running")
    BY DEF Reached
  <1> QED
    BY <1>1, <1>2, <1>3, <1>4, <1>5, SMInvariant, PTL DEF SMSpec

\* One step of a sandbox's status: a sandbox that is stopped stays so once Spawn
\* is over; what has ended can only come back through the publication of a Spawn
\* whose context was cancelled, and then with a monitor
StatusStep ==
    \A t \in Traders :
      /\ status[t] = "stopped" /\ spawn[t] = "done" => status'[t] = "stopped"
      /\ status[t] \in {"stopped", "error"} /\ status'[t] \notin {"stopped", "error"} =>
           cancelled[t] /\ status'[t] = "running" /\ mon'[t] = "select"

(* A stopped sandbox stays stopped, except that a Spawn overtaken by Kill   *)
(* still publishes it as running: its context is cancelled by then, and the *)
(* monitor it starts finds it so.                                           *)
THEOREM StoppedStays == SMSpec => [][StatusStep]_smVars
  <1>1. SMInv /\ [SMNext]_smVars => StatusStep
    <2> SUFFICES ASSUME SMInv, [SMNext]_smVars PROVE StatusStep
      OBVIOUS
    <2>1. ASSUME NEW u \in Traders, Spawn(u) PROVE StatusStep
      <3>1. \A t \in Traders : status[t] \in {"stopped", "error"} => cancelled[t]
        BY DEF SMInv, CancelledFirst
      <3> QED
        BY <2>1, <3>1, SpawnTouches DEF StatusStep
    <2>2. CASE ~\E u \in Traders : Spawn(u)
      BY <2>2, OthersTouch DEF StatusStep
    <2> QED
      BY <2>1, <2>2
  <1> QED
    BY <1>1, SMInvariant, PTL DEF SMSpec
=============================================================================
