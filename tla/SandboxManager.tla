--------------------------- MODULE SandboxManager ---------------------------
(***************************************************************************)
(* The life of the Docker sandboxes (src/server/sandbox/manager.go): Spawn *)
(* and Kill run in HTTP handlers, monitor in a goroutine of its own for    *)
(* each sandbox, and KillAll in main at shutdown, all at the same time.    *)
(* m.mu protects the map for a few lines only, so every stretch between    *)
(* two lock regions or two calls to Docker is a step of its own.           *)
(*                                                                         *)
(* An entry is never removed from m.sandboxes, so a trader id is spawned   *)
(* at most once.  The read-only List, Get and ContainerLogs, and the       *)
(* checks of the id's syntax and the script's size, change nothing.        *)
(***************************************************************************)
EXTENDS Integers, FiniteSets

CONSTANTS Traders,                 \* trader ids
          Deleters,                \* DELETE requests, each with its handler
          Main,                    \* the main goroutine
          MaxConcurrentSandboxes,  \* 5
          BadWrite,                \* ids whose MkdirAll or WriteFile may fail,
          BadRemove,               \* whose RemoveAll may fail,
          BadDocker,               \* whose create, attach, start or stop may fail,
          BadInspect               \* and whose ContainerInspect may fail

ASSUME SandboxAssumption ==
    /\ IsFiniteSet(Traders)
    /\ MaxConcurrentSandboxes \in Nat
    /\ UNION {BadWrite, BadRemove, BadDocker, BadInspect} \subseteq Traders
    /\ Main \notin Traders \cup Deleters /\ Traders \cap Deleters = {}

VARIABLES
    status,     \* info.Status, or "absent" when the map has no entry
    cid,        \* info.ContainerID has been set
    dir,        \* scriptDir has been set
    cancelled,  \* the entry's context has been cancelled
    spawn,      \* the handler in Spawn
    mon,        \* the goroutine in monitor
    calls,      \* the calls of Kill in progress: by whom, of which id, and where
    files,      \* the script directory is on disk
    box,        \* the container, as the Docker daemon sees it
    main,       \* main: "serving", in "killall", in srv.Shutdown, or "exited"
    victims,    \* the ids KillAll still has to kill
    requests    \* the DELETE requests that have not come yet

entryVars == <<status, cid, dir, cancelled>>
worldVars == <<files, box>>
smVars    == <<entryVars, spawn, mon, calls, worldVars, main, victims, requests>>

Up == main # "exited"

\* HTTP requests are accepted until srv.Shutdown
Accepting == main \in {"serving", "killall"}

SMInit ==
    /\ status    = [t \in Traders |-> "absent"]
    /\ cid       = [t \in Traders |-> FALSE]
    /\ dir       = [t \in Traders |-> FALSE]
    /\ cancelled = [t \in Traders |-> FALSE]
    /\ spawn     = [t \in Traders |-> "none"]
    /\ mon       = [t \in Traders |-> "off"]
    /\ files     = [t \in Traders |-> FALSE]
    /\ box       = [t \in Traders |-> "none"]
    /\ calls = {} /\ main = "serving" /\ victims = {} /\ requests = Deleters

-----------------------------------------------------------------------------
(* Manager.Spawn                                                            *)

\* Fault: a sandbox that is still starting is not counted.
CountRunning == {t \in Traders : status[t] = "running"}

Active == {t \in Traders : status[t] \in {"running", "spawning"}}

\* Check for a duplicate and for the cap, and reserve the slot
SpawnReserve(t) ==
    /\ status[t] = "absent"
    /\ Cardinality(Active) < MaxConcurrentSandboxes
    /\ status' = [status EXCEPT ![t] = "spawning"]
    /\ spawn'  = [spawn EXCEPT ![t] = "write"]
    /\ UNCHANGED <<cid, dir, cancelled, mon, calls, worldVars, main, victims, requests>>

\* The POST request of TraderHandler
Post(t) == Accepting /\ SpawnReserve(t)

SpawnOther == UNCHANGED <<mon, calls, main, victims, requests>>

\* The call at this point succeeds
Goes(t, from, to) ==
    /\ Up /\ spawn[t] = from
    /\ spawn' = [spawn EXCEPT ![t] = to]
    /\ SpawnOther

\* The call fails, and setError begins by cancelling the context.  A call that
\* takes the context fails once it is cancelled.
Fails(t, from) ==
    /\ Up /\ spawn[t] = from
    /\ \/ from = "write" /\ t \in BadWrite
       \/ from # "write" /\ (t \in BadDocker \/ cancelled[t])
    /\ spawn' = [spawn EXCEPT ![t] = "failed"]
    /\ cancelled' = [cancelled EXCEPT ![t] = TRUE]
    /\ UNCHANGED <<status, cid, dir>> /\ SpawnOther

\* MkdirAll and WriteFile; a failed WriteFile leaves the directory behind
SpawnWrite(t) ==
    \/ /\ Goes(t, "write", "note")
       /\ files' = [files EXCEPT ![t] = TRUE]
       /\ UNCHANGED <<entryVars, box>>
    \/ /\ Fails(t, "write")
       /\ \E left \in BOOLEAN : files' = [files EXCEPT ![t] = left]
       /\ UNCHANGED box

\* entry.scriptDir = scriptDir, without the lock
SpawnNote(t) ==
    /\ Goes(t, "note", "create")
    /\ dir' = [dir EXCEPT ![t] = TRUE]
    /\ UNCHANGED <<status, cid, cancelled, worldVars>>

\* A Docker call under the context.  The daemon may have served a call that
\* reports failure: the context was cancelled, or the connection lost, while the
\* answer was on its way.
DockerCall(t, from, to, effect) ==
    \/ /\ Goes(t, from, to) /\ ~cancelled[t]
       /\ box' = [box EXCEPT ![t] = effect]
       /\ UNCHANGED <<entryVars, files>>
    \/ /\ Fails(t, from)
       /\ UNCHANGED box \/ box' = [box EXCEPT ![t] = effect]
       /\ UNCHANGED files

SpawnCreate(t) == DockerCall(t, "create", "attach", "created")
SpawnAttach(t) == DockerCall(t, "attach", "start", box[t])
SpawnStart(t)  == DockerCall(t, "start", "publish", "running")

\* Publish the container as running, whatever the status has become, and start
\* its monitor
SpawnPublish(t) ==
    /\ Up /\ spawn[t] = "publish"
    /\ cid'    = [cid    EXCEPT ![t] = TRUE]
    /\ status' = [status EXCEPT ![t] = "running"]
    /\ mon'    = [mon    EXCEPT ![t] = "select"]
    /\ spawn'  = [spawn  EXCEPT ![t] = "done"]
    /\ UNCHANGED <<dir, cancelled, calls, worldVars, main, victims, requests>>

\* The rest of setError
SpawnSetError(t) ==
    /\ Goes(t, "failed", "done")
    /\ status' = [status EXCEPT ![t] = "error"]
    /\ UNCHANGED <<cid, dir, cancelled, worldVars>>

Spawn(t) == \/ Post(t) \/ SpawnWrite(t) \/ SpawnNote(t) \/ SpawnCreate(t)
            \/ SpawnAttach(t) \/ SpawnStart(t) \/ SpawnPublish(t) \/ SpawnSetError(t)

-----------------------------------------------------------------------------
(* Manager.Kill.  Its caller is a DELETE handler, KillAll, or the monitor   *)
(* of the sandbox itself, which goes by the trader's name.                  *)

Killers == Traders \cup Deleters \cup {Main}

Busy(k) == \E c \in calls : c.by = k

Cancel(t) == cancelled' = [cancelled EXCEPT ![t] = TRUE]

\* Fault: Kill relies on ContainerStop alone.
NoCancel(t) == UNCHANGED cancelled

\* entry.cancel()
CancelFirst(t) == Cancel(t)

\* Look the entry up and cancel its context
KillBegin(k, t) ==
    /\ Up /\ ~Busy(k)
    /\ status[t] # "absent"                 \* otherwise "not_found"
    /\ CancelFirst(t)
    /\ calls' = calls \cup {[by |-> k, of |-> t, at |-> "stop"]}
    /\ UNCHANGED <<status, cid, dir, spawn, worldVars>>

Proceed(c, to) == calls' = (calls \ {c}) \cup {[c EXCEPT !.at = to]}

Stopped(t) == [box EXCEPT ![t] = IF @ = "running" THEN "gone" ELSE @]

\* Fault: ContainerStop is given the sandbox's own context.
StopUnderContext(t) == box' = IF cancelled[t] THEN box ELSE Stopped(t)

\* It has a context of its own; an error is ignored
ContainerStop(t) == \/ box' = Stopped(t)
                    \/ t \in BadDocker /\ UNCHANGED box

\* ContainerStop, if the entry has a container id yet
KillStop(c) ==
    /\ Up /\ c.at = "stop"
    /\ \/ cid[c.of] /\ ContainerStop(c.of)
       \/ ~cid[c.of] /\ UNCHANGED box
    /\ Proceed(c, "mark")
    /\ UNCHANGED <<entryVars, spawn, mon, files, main, victims, requests>>

\* Fault: a status that is not one of the constants of types.go.
MarkKilled(t) == [status EXCEPT ![t] = "killed"]

MarkStopped(t) == [status EXCEPT ![t] = "stopped"]

KillMark(c) ==
    /\ Up /\ c.at = "mark"
    /\ status' = MarkStopped(c.of)
    /\ Proceed(c, "cleanup")
    /\ UNCHANGED <<cid, dir, cancelled, spawn, mon, worldVars, main, victims, requests>>

\* Fault: the script stays.
NoCleanup(t) == UNCHANGED files

\* Manager.cleanup; an error of RemoveAll is ignored
Cleanup(t) == \/ files' = [files EXCEPT ![t] = @ /\ ~dir[t]]
              \/ t \in BadRemove /\ UNCHANGED files

\* cleanup and return; a monitor returns as well
KillReturn(c) ==
    /\ Up /\ c.at = "cleanup"
    /\ Cleanup(c.of)
    /\ calls' = calls \ {c}
    /\ mon' = [t \in Traders |-> IF c.by = t THEN "done" ELSE mon[t]]
    /\ UNCHANGED <<entryVars, spawn, box, main, victims, requests>>

\* The DELETE request of TraderHandler
Delete(k, t) ==
    /\ Accepting /\ k \in requests
    /\ KillBegin(k, t)
    /\ requests' = requests \ {k}
    /\ UNCHANGED <<mon, main, victims>>

-----------------------------------------------------------------------------
(* Manager.monitor                                                          *)

\* case <-ctx.Done()
MonCtxDone(t) ==
    /\ Up /\ mon[t] = "select" /\ cancelled[t]
    /\ mon' = [mon EXCEPT ![t] = "done"]
    /\ UNCHANGED <<entryVars, spawn, calls, worldVars, main, victims, requests>>

\* case <-autoKill
MonAutoKill(t) ==
    /\ mon[t] = "select"
    /\ KillBegin(t, t)
    /\ mon' = [mon EXCEPT ![t] = "kill"]
    /\ UNCHANGED <<main, victims, requests>>

\* Fault: an error is not taken for a stop.  A container is removed when it
\* exits, so one that has exited always gives an error.
Unnoticed(t) == box[t] = "created"

\* err != nil || !inspect.State.Running
LooksStopped(t) == box[t] # "running" \/ t \in BadInspect

\* case <-ticker.C, when the container is found stopped: cancel
MonInspect(t) ==
    /\ Up /\ mon[t] = "select" /\ LooksStopped(t)
    /\ Cancel(t)
    /\ mon' = [mon EXCEPT ![t] = "mark"]
    /\ UNCHANGED <<status, cid, dir, spawn, calls, worldVars, main, victims, requests>>

MonMark(t) ==
    /\ Up /\ mon[t] = "mark"
    /\ status' = MarkStopped(t)
    /\ mon' = [mon EXCEPT ![t] = "cleanup"]
    /\ UNCHANGED <<cid, dir, cancelled, spawn, calls, worldVars, main, victims, requests>>

MonCleanup(t) ==
    /\ Up /\ mon[t] = "cleanup"
    /\ Cleanup(t)
    /\ mon' = [mon EXCEPT ![t] = "done"]
    /\ UNCHANGED <<entryVars, spawn, calls, box, main, victims, requests>>

MonitorStep(t) == MonCtxDone(t) \/ MonInspect(t) \/ MonMark(t) \/ MonCleanup(t)

-----------------------------------------------------------------------------
(* main's shutdown, and the containers                                      *)

ShutOther == UNCHANGED <<entryVars, spawn, mon, calls, worldVars, requests>>

\* The signal has come: KillAll takes its snapshot of the map
KillAllBegin ==
    /\ main = "serving"
    /\ main' = "killall"
    /\ victims' = {t \in Traders : status[t] # "absent"}
    /\ ShutOther

KillAllNext(t) ==
    /\ main = "killall" /\ t \in victims
    /\ KillBegin(Main, t)
    /\ victims' = victims \ {t}
    /\ UNCHANGED <<mon, main, requests>>

KillAllEnd ==
    /\ main = "killall" /\ victims = {} /\ ~Busy(Main)
    /\ main' = "shutdown"
    /\ UNCHANGED victims /\ ShutOther

\* srv.Shutdown returns when no handler is running, and main returns
Exit ==
    /\ main = "shutdown"
    /\ \A t \in Traders : spawn[t] \in {"none", "done"}
    /\ \A c \in calls : c.by \notin Deleters
    /\ main' = "exited"
    /\ UNCHANGED victims /\ ShutOther

\* The script ends by itself, before or after the server
ContainerExit(t) ==
    /\ box[t] = "running"
    /\ box' = [box EXCEPT ![t] = "gone"]
    /\ UNCHANGED <<entryVars, spawn, mon, calls, files, main, victims, requests>>

KillStep(c) == KillStop(c) \/ KillMark(c) \/ KillReturn(c)

SMNext ==
    \/ \E t \in Traders : \/ Spawn(t) \/ MonitorStep(t) \/ MonAutoKill(t)
                          \/ KillAllNext(t) \/ ContainerExit(t)
                          \/ \E k \in Deleters : Delete(k, t)
    \/ \E c \in calls : KillStep(c)
    \/ KillAllBegin \/ KillAllEnd \/ Exit

SMSpec == SMInit /\ [][SMNext]_smVars

\* The monitors and the calls of Kill keep running, and Docker answers them;
\* nobody has to ask for anything, and a script need not end.
SMFairSpec ==
    /\ SMSpec
    /\ \A t \in Traders : WF_smVars(MonitorStep(t))
    /\ \A k \in Killers : WF_smVars(\E c \in calls : c.by = k /\ KillStep(c))

-----------------------------------------------------------------------------
(* Type invariant of the manager. *)
SMTypeOK ==
    /\ status \in [Traders -> {"absent", "spawning", "running", "error", "stopped"}]
    /\ cid \in [Traders -> BOOLEAN] /\ dir \in [Traders -> BOOLEAN]
    /\ cancelled \in [Traders -> BOOLEAN] /\ files \in [Traders -> BOOLEAN]
    /\ spawn \in [Traders -> {"none", "write", "note", "create", "attach", "start",
                              "publish", "failed", "done"}]
    /\ mon \in [Traders -> {"off", "select", "kill", "mark", "cleanup", "done"}]
    /\ calls \subseteq [by : Killers, of : Traders, at : {"stop", "mark", "cleanup"}]
    /\ box \in [Traders -> {"none", "created", "running", "gone"}]
    /\ main \in {"serving", "killall", "shutdown", "exited"}
    /\ victims \subseteq Traders /\ requests \subseteq Deleters

(* The cap that Spawn really enforces: at most MaxConcurrentSandboxes       *)
(* containers run that nobody has asked to stop, although Spawn counts      *)
(* statuses, not containers, and lets go of the lock before it has one.     *)
LiveCap ==
    Cardinality({t \in Traders : box[t] = "running" /\ ~cancelled[t]})
      =< MaxConcurrentSandboxes

(* A sandbox that is shown as running and that nobody has asked to stop is  *)
(* being watched, and its script is still on disk: no cleanup, of this or   *)
(* of an overtaken call, has taken it away.                                 *)
LiveSupported ==
    \A t \in Traders :
        status[t] = "running" /\ ~cancelled[t] => mon[t] = "select" /\ files[t]

\* Nothing is under way for this id
Quiet(t) == /\ spawn[t] \in {"none", "done"} /\ mon[t] \in {"off", "done"}
            /\ \A c \in calls : c.of # t

LeftClean(t) == status[t] = "stopped" /\ Quiet(t) => ~files[t]

(* A sandbox that has come to rest as stopped has left no script behind,    *)
(* whichever of Spawn, Kill and monitor came last and whatever Docker did,  *)
(* if the disk does its part.                                               *)
StoppedClean == \A t \in Traders \ (BadWrite \cup BadRemove) : LeftClean(t)

(* A container that ends by itself is noticed: its status becomes stopped,  *)
(* unless the server exits first.                                           *)
DeadNoticed ==
    \A t \in Traders :
        status[t] = "running" /\ ~cancelled[t] /\ box[t] = "gone"
          ~> status[t] = "stopped" \/ ~Up

(* What shutdown does stop: a container that had been published before the  *)
(* signal came, and that ContainerStop can stop, is not running when main   *)
(* has exited - also if an overtaken Spawn, a monitor or a failed inspect   *)
(* had left it unwatched or marked as stopped long before.                  *)
ShutdownStops ==
    \A t \in Traders \ BadDocker :
        [](cid[t] /\ main = "serving" => [](main = "exited" => box[t] # "running"))

(* "KillAll stops all running sandboxes. Called on server shutdown.": when  *)
(* main has exited, no sandbox is running.                                  *)
NoneOutlivesServer == main = "exited" => \A t \in Traders : box[t] # "running"
=============================================================================
