------------------------------- MODULE Runner -------------------------------
(***************************************************************************)
(* The supervisor of the engine process (src/server/engine/runner.go) and  *)
(* POST /api/config (src/server/api/handlers.go).  The goroutine of        *)
(* Runner.Start launches the engine again whenever it exits; HTTP handlers *)
(* change its arguments and signal it; WebSocket and sandbox goroutines    *)
(* write orders to its stdin.  All of them meet at r.mu, which SendOrder   *)
(* holds while it writes to the pipe.  The other critical sections are     *)
(* single steps that wait for the lock to be free.                         *)
(*                                                                         *)
(* The process, its pipe and exec.CommandContext are external; what the    *)
(* engine prints is the subject of EventPipeline.                          *)
(***************************************************************************)
EXTENDS Integers, Sequences

CONSTANTS Senders,   \* goroutines that call SendOrder
          Posters,   \* handlers of POST /api/config
          Requests,  \* configurations that are posted
          Initial,   \* the configuration of the command line
          Parts,     \* pieces in which the kernel takes a line; the last has the newline
          PipeCap,   \* pieces the pipe holds
          Nobody

ASSUME RunnerAssumption ==
    /\ Parts \in Nat \ {0} /\ PipeCap \in Nat \ {0}
    /\ Nobody \notin Senders

VARIABLES
    args,       \* r.args
    mu,         \* the sender in possession of r.mu, or Nobody
    published,  \* r.cmd and r.stdinPipe are set
    loop,       \* goroutine of Start and run
    snap,       \* run's copy of r.args
    engine,     \* the process: its state, its population, and whether it was signalled
    pipe,       \* its stdin: pieces of lines
    line,       \* the pieces its getline has collected
    ctxDone,    \* ctx has been cancelled
    sender,     \* goroutines that call SendOrder: "idle" until they have r.mu
    wrote,      \* pieces the caller has written
    poster,     \* POST handlers, with the configuration they have decoded
    current,    \* ConfigHandler's current
    refused,    \* history: Restart was refused since run copied r.args
    raced       \* history: current was last set while another POST had yet to call SetArgs

procVars   == <<engine, pipe, line>>
loopVars   == <<published, loop, snap>>
senderVars == <<mu, sender, wrote>>
posterVars == <<args, poster, current, refused, raced>>
runnerVars == <<procVars, loopVars, senderVars, posterVars, ctxDone>>

\* EngineConfig.validate
Valid(c) == /\ c.makers \in 0..50 /\ c.takers \in 0..50 /\ c.whales \in 0..20
            /\ c.tick_ms \in 50..5000

\* EngineConfig.Args, as the engine's main parses them: --tick-ms is ignored
Population(c) == [makers |-> c.makers, takers |-> c.takers, whales |-> c.whales]

RunnerInit ==
    /\ args = Initial /\ current = Initial /\ snap = Initial
    /\ mu = Nobody /\ published = FALSE /\ loop = "top" /\ ctxDone = FALSE
    /\ engine = [state |-> "none", pop |-> Population(Initial), signalled |-> FALSE]
    /\ pipe = <<>> /\ line = <<>>
    /\ sender = [s \in Senders |-> "idle"] /\ wrote = [s \in Senders |-> 0]
    /\ poster = [p \in Posters |-> [at |-> "idle", req |-> Initial]]
    /\ refused = FALSE /\ raced = FALSE

-----------------------------------------------------------------------------
(* Runner.Start and run                                                     *)

LoopOther == UNCHANGED <<senderVars, args, poster, current, raced, ctxDone>>

\* Fault: the arguments are copied once, when the server starts.
KeepArgs == snap

\* args := append([]string(nil), r.args...)
CopyArgs == args

LoopTop ==
    /\ loop = "top" /\ ~ctxDone /\ mu = Nobody
    /\ snap' = CopyArgs
    /\ refused' = FALSE
    /\ loop' = "start"
    /\ UNCHANGED <<procVars, published>> /\ LoopOther

\* cmd.Start succeeds
StartEngine ==
    /\ loop = "start" /\ ~ctxDone
    /\ engine' = [state |-> "up", pop |-> Population(snap), signalled |-> FALSE]
    /\ pipe' = <<>> /\ line' = <<>>
    /\ loop' = "publish"
    /\ UNCHANGED <<published, snap, refused>> /\ LoopOther

\* cmd.Start, or the making of a pipe, fails
StartFails ==
    /\ loop = "start"
    /\ loop' = "delay"
    /\ UNCHANGED <<procVars, published, snap, refused>> /\ LoopOther

Publish ==
    /\ loop = "publish" /\ mu = Nobody
    /\ published' = TRUE
    /\ loop' = "read"
    /\ UNCHANGED <<procVars, snap, refused>> /\ LoopOther

\* sc.Scan() returns false: the engine's stdout is at its end
ScanEnds ==
    /\ loop = "read" /\ engine.state = "dead"
    /\ loop' = "unpublish"
    /\ UNCHANGED <<procVars, published, snap, refused>> /\ LoopOther

\* Fault: r.cmd and r.stdinPipe keep their values.
LeavePublished == published

\* r.stdinPipe = nil; r.cmd = nil
Unpublished == FALSE

Unpublish ==
    /\ loop = "unpublish" /\ mu = Nobody
    /\ published' = Unpublished
    /\ loop' = "wait"
    /\ UNCHANGED <<procVars, snap, refused>> /\ LoopOther

\* cmd.Wait reaps the process
Wait ==
    /\ loop = "wait" /\ engine.state = "dead"
    /\ engine' = [engine EXCEPT !.state = "none", !.signalled = FALSE]
    /\ loop' = "delay"
    /\ UNCHANGED <<pipe, line, published, snap, refused>> /\ LoopOther

\* Fault: an engine that has exited is not started again.
GiveUp == "done"

\* case <-time.After(2 * time.Second)
AfterDelay == "top"

Delay ==
    /\ loop = "delay"
    /\ loop' = AfterDelay
    /\ UNCHANGED <<procVars, published, snap, refused>> /\ LoopOther

\* case <-ctx.Done(), at the top and in the delay
LoopReturns ==
    /\ loop \in {"top", "delay"} /\ ctxDone
    /\ loop' = "done"
    /\ UNCHANGED <<procVars, published, snap, refused>> /\ LoopOther

Loop == \/ LoopTop \/ StartEngine \/ StartFails \/ Publish \/ ScanEnds \/ Unpublish
        \/ Wait \/ Delay \/ LoopReturns

-----------------------------------------------------------------------------
(* The engine process                                                       *)

ProcOther == UNCHANGED <<loopVars, senderVars, posterVars>>

\* It exits, by itself or because of the signal, and what it has not read is lost
EngineExit ==
    /\ engine.state = "up"
    /\ engine' = [engine EXCEPT !.state = "dead"]
    /\ pipe' = <<>> /\ line' = <<>>
    /\ UNCHANGED ctxDone /\ ProcOther

\* getline takes a piece, and hands over the line at the newline
EngineReads ==
    /\ engine.state = "up" /\ pipe # <<>>
    /\ pipe' = Tail(pipe)
    /\ line' = IF Head(pipe).part = Parts THEN <<>> ELSE Append(line, Head(pipe))
    /\ UNCHANGED <<engine, ctxDone>> /\ ProcOther

\* exec.CommandContext: a cancelled ctx kills the process
CtxKill == ctxDone /\ EngineExit

\* main's ctx is cancelled by a signal to the server
Cancel ==
    /\ ~ctxDone
    /\ ctxDone' = TRUE
    /\ UNCHANGED procVars /\ ProcOther

-----------------------------------------------------------------------------
(* Runner.SendOrder                                                         *)

SendOther == UNCHANGED <<engine, line, loopVars, posterVars, ctxDone>>

\* Fault: the lock is released before the write.
HoldsNot(s) == Nobody

\* The lock is held until SendOrder returns
Holds(s) == s

\* SendOrder is called and gets the lock; without a pipe it returns at once,
\* "engine not running"
SendLock(s) ==
    /\ sender[s] = "idle" /\ mu = Nobody
    /\ published
    /\ mu' = Holds(s)
    /\ sender' = [sender EXCEPT ![s] = "write"]
    /\ UNCHANGED <<wrote, pipe>> /\ SendOther

\* Write: the pipe takes the next piece; after the last one SendOrder returns
SendPiece(s) ==
    /\ sender[s] = "write" /\ engine.state = "up" /\ Len(pipe) < PipeCap
    /\ pipe' = Append(pipe, [by |-> s, part |-> wrote[s] + 1])
    /\ IF wrote[s] + 1 < Parts
       THEN /\ wrote' = [wrote EXCEPT ![s] = @ + 1]
            /\ UNCHANGED <<mu, sender>>
       ELSE /\ wrote' = [wrote EXCEPT ![s] = 0]
            /\ mu' = Nobody
            /\ sender' = [sender EXCEPT ![s] = "idle"]
    /\ SendOther

\* Fault: the lock is not released when the write fails.
KeepLock == mu

\* defer r.mu.Unlock()
Unlocked == Nobody

\* Write fails because nobody is left to read
SendFails(s) ==
    /\ sender[s] = "write" /\ engine.state # "up"
    /\ wrote' = [wrote EXCEPT ![s] = 0]
    /\ mu' = Unlocked
    /\ sender' = [sender EXCEPT ![s] = "idle"]
    /\ UNCHANGED pipe /\ SendOther

SendOrder(s) == SendLock(s) \/ SendPiece(s) \/ SendFails(s)

-----------------------------------------------------------------------------
(* POST /api/config                                                         *)

PostOther == UNCHANGED <<pipe, line, loopVars, senderVars, ctxDone>>

\* Decode and validate the request, then current = req
PostCurrent(p, c) ==
    /\ poster[p].at = "idle" /\ Valid(c)     \* otherwise 400
    /\ poster' = [poster EXCEPT ![p] = [at |-> "args", req |-> c]]
    /\ current' = c
    /\ raced' = \E q \in Posters \ {p} : poster[q].at = "args"
    /\ UNCHANGED <<engine, args, refused>> /\ PostOther

\* runner.SetArgs(req.Args())
SetArgs(p) ==
    /\ poster[p].at = "args" /\ mu = Nobody
    /\ args' = poster[p].req
    /\ poster' = [poster EXCEPT ![p] = [at |-> "restart", req |-> Initial]]
    /\ UNCHANGED <<engine, current, refused, raced>> /\ PostOther

\* runner.Restart() and the answer: a process that has exited but has not been
\* reaped takes the signal too
Restart(p) ==
    /\ poster[p].at = "restart" /\ mu = Nobody
    /\ IF published
       THEN engine' = [engine EXCEPT !.signalled = TRUE] /\ UNCHANGED refused
       ELSE refused' = TRUE /\ UNCHANGED engine
    /\ poster' = [poster EXCEPT ![p] = [at |-> "idle", req |-> Initial]]
    /\ UNCHANGED <<args, current, raced>> /\ PostOther

PostConfig(p) == SetArgs(p) \/ Restart(p) \/ \E c \in Requests : PostCurrent(p, c)

RunnerNext == \/ Loop \/ EngineExit \/ EngineReads \/ CtxKill \/ Cancel
              \/ \E s \in Senders : SendOrder(s)
              \/ \E p \in Posters : PostConfig(p)

RunnerSpec == RunnerInit /\ [][RunnerNext]_runnerVars

\* Goroutines run, and a waiter on r.mu gets it in the end (sync.Mutex hands it
\* over in order once somebody has waited for a millisecond).  The engine
\* honours a signal (Engine's SignalExits) and its stdin thread reads until
\* there is one.  It need not exit by itself, and nobody has to send or post.
RunnerFairSpec ==
    /\ RunnerSpec
    /\ WF_runnerVars(LoopTop \/ Publish) /\ SF_runnerVars(Unpublish)
    /\ WF_runnerVars(StartEngine \/ StartFails)
    /\ WF_runnerVars(ScanEnds \/ Wait \/ Delay \/ LoopReturns)
    /\ WF_runnerVars(CtxKill)
    /\ WF_runnerVars(engine.signalled /\ EngineExit)
    /\ WF_runnerVars(~engine.signalled /\ EngineReads)
    /\ \A s \in Senders : WF_runnerVars(SendPiece(s) \/ SendFails(s))
    /\ \A p \in Posters : SF_runnerVars(SetArgs(p) \/ Restart(p))

-----------------------------------------------------------------------------
Piece == [by : Senders, part : 1..Parts]

(* Type invariant; r.cmd and r.stdinPipe are set only while there is a      *)
(* process, running or yet to be reaped, that they belong to.               *)
RunnerTypeOK ==
    /\ mu \in Senders \cup {Nobody}
    /\ published \in BOOLEAN /\ ctxDone \in BOOLEAN
    /\ refused \in BOOLEAN /\ raced \in BOOLEAN
    /\ {args, snap, current} \subseteq Requests \cup {Initial}
    /\ loop \in {"top", "start", "publish", "read", "unpublish", "wait", "delay", "done"}
    /\ engine.state \in {"none", "up", "dead"}
    /\ published => engine.state # "none"
    /\ pipe \in Seq(Piece) /\ Len(pipe) =< PipeCap /\ line \in Seq(Piece)
    /\ sender \in [Senders -> {"idle", "write"}]
    /\ wrote \in [Senders -> 0..(Parts - 1)]

\* An engine is in service, nobody has told it to stop, and every POST that has
\* set arguments has been answered
Settled == /\ loop = "read" /\ engine.state = "up" /\ ~engine.signalled
           /\ \A p \in Posters : poster[p].at # "restart"

(* The engine in service runs the population of the last SetArgs, whatever  *)
(* the order in which handlers, crashes and relaunches meet, unless a       *)
(* Restart was refused after run had copied its arguments; and that is the  *)
(* population GET /api/config reports, unless two POSTs overlapped.         *)
RunningConfig ==
    /\ Settled /\ ~refused => engine.pop = Population(args)
    /\ (\A p \in Posters : poster[p].at # "args") /\ ~raced => current = args

(* The engine reads whole order lines: the pieces of two orders never mix,  *)
(* a new engine never gets the rest of a line begun for the old one, and a  *)
(* line that has not ended is still being written.                          *)
LinesWhole ==
    LET all == line \o pipe IN
    \A i \in 1..Len(all) :
       /\ all[i].part > 1 => /\ i > 1
                             /\ all[i - 1] = [all[i] EXCEPT !.part = @ - 1]
       /\ all[i].part < Parts =>
             IF i < Len(all) THEN all[i + 1] = [all[i] EXCEPT !.part = @ + 1]
             ELSE mu = all[i].by /\ wrote[mu] = all[i].part

(* Nobody waits for ever behind r.mu, although it is held across a write    *)
(* that blocks when the engine is slow: every SendOrder gives it back, and  *)
(* every POST is answered.                                                  *)
CallsReturn ==
    /\ []<>(mu = Nobody)
    /\ \A p \in Posters : poster[p].at # "idle" ~> poster[p].at = "idle"

\* After Restart has signalled the engine, run launches one again
EngineRelaunched == engine.signalled ~> loop = "start" \/ ctxDone

\* When the server shuts down, no engine is left
EngineStops == ctxDone ~> loop = "done" /\ engine.state # "up"

(* The loop of Start keeps its promises whatever it and the handlers are in *)
(* the middle of: a restart is carried out, unless the server is being shut *)
(* down, and then the loop ends and no engine outlives it.                  *)
LoopServes == EngineRelaunched /\ EngineStops

(* "Engine between restarts - new args apply when it comes up.": whatever   *)
(* POST was told, the engine in service has the arguments last set.         *)
ArgsApply == Settled => engine.pop = Population(args)
=============================================================================
