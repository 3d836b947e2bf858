---------------------------- MODULE RunnerProofs ----------------------------
(***************************************************************************)
(* What the supervisor of the engine guarantees for any number of senders, *)
(* handlers and configurations, and however finely the kernel cuts lines.  *)
(*                                                                         *)
(* RunnerTypeOK, LinesWhole and RunningConfig are not inductive.  They     *)
(* rest on the loop and the process going through their states together    *)
(* (LoopAndEngine), on r.mu being held exactly while a line is written,    *)
(* and only while the pipe is published (LockHeld), on a line begun being  *)
(* at the end of what the engine has not read (LineBegun), and on whatever *)
(* sets r.args after run has copied it leaving a mark until the next copy  *)
(* (ArgsMarked).                                                           *)
(***************************************************************************)
EXTENDS Runner, TLAPS

Configs == Requests \cup {Initial}

EngineOK == engine \in [state : {"none", "up", "dead"},
                        pop : {Population(c) : c \in Configs}, signalled : BOOLEAN]

PosterOK == poster \in [Posters -> [at : {"idle", "args", "restart"}, req : Configs]]

\* The goroutine of run is at the place that the state of its process calls for
LoopAndEngine ==
    /\ published <=> loop \in {"read", "unpublish"}
    /\ loop \in {"top", "start", "delay", "done"} => engine.state = "none"
    /\ loop \in {"publish", "read"} => engine.state # "none"
    /\ loop \in {"unpublish", "wait"} => engine.state = "dead"
    /\ engine.state = "none" => ~engine.signalled
    /\ engine.state # "up" => pipe = <<>> /\ line = <<>>

\* r.mu is held by the goroutine that writes, and the pipe stays published
LockHeld ==
    /\ mu # Nobody => published
    /\ \A s \in Senders : (sender[s] = "write" <=> mu = s) /\ (mu # s => wrote[s] = 0)

\* What the engine has been sent and has not yet put together
Unread == line \o pipe

\* The pieces of a line follow each other
Whole(all) ==
    \A i \in 1..Len(all) :
       /\ all[i].part > 1 => /\ i > 1 /\ all[i - 1].by = all[i].by
                             /\ all[i - 1].part = all[i].part - 1
       /\ all[i].part < Parts /\ i < Len(all) =>
             /\ all[i + 1].by = all[i].by /\ all[i + 1].part = all[i].part + 1

\* The last piece of all belongs to the line that is being written
LastOpen(all) ==
    Len(all) > 0 /\ all[Len(all)].part < Parts
      => mu = all[Len(all)].by /\ wrote[mu] = all[Len(all)].part

\* A line that has been begun ends what there is
LineBegun(all) ==
    engine.state = "up" /\ mu # Nobody /\ wrote[mu] > 0
      => Len(all) > 0 /\ all[Len(all)].by = mu /\ all[Len(all)].part = wrote[mu]

Lines == Whole(Unread) /\ LastOpen(Unread) /\ LineBegun(Unread)

\* r.args is what run has copied, or a restart was refused, or one is under way
ArgsMarked ==
    /\ loop \in {"start", "publish", "read"} =>
         \/ snap = args \/ refused \/ engine.signalled
         \/ \E p \in Posters : poster[p].at = "restart"
    /\ loop \in {"publish", "read"} => engine.pop = Population(snap)

\* A POST that did not overlap another is the only one about to set the
\* arguments, and it will set what current says
CurrentFollowed ==
    ~raced => /\ \A p, q \in Posters : poster[p].at = "args" /\ poster[q].at = "args" => p = q
              /\ \A p \in Posters : poster[p].at = "args" => current = poster[p].req
              /\ (\A p \in Posters : poster[p].at # "args") => current = args

RunnerInv ==
    /\ RunnerTypeOK /\ EngineOK /\ PosterOK
    /\ LoopAndEngine /\ LockHeld /\ Lines
    /\ ArgsMarked /\ CurrentFollowed

-----------------------------------------------------------------------------
(* Pieces and lines *)

(* A piece is known by its sender and its part.                             *)
LEMMA PieceFields ==
    ASSUME NEW x \in Piece, NEW y \in Piece
    PROVE  /\ x.by \in Senders /\ x.part \in 1..Parts
           /\ y = [x EXCEPT !.part = @ + 1] <=> y.by = x.by /\ y.part = x.part + 1
           /\ y = [x EXCEPT !.part = @ - 1] <=> y.by = x.by /\ y.part = x.part - 1
  BY DEF Piece

(* A record with a sender and a part is a piece.                            *)
LEMMA PieceMade ==
    ASSUME NEW s \in Senders, NEW k \in 1..Parts
    PROVE  /\ [by |-> s, part |-> k] \in Piece
           /\ [by |-> s, part |-> k].by = s /\ [by |-> s, part |-> k].part = k
  BY DEF Piece

(* Sequences of pieces, and what getline and Write do to them.              *)
LEMMA UnreadProperties ==
    ASSUME NEW l \in Seq(Piece), NEW q \in Seq(Piece)
    PROVE  /\ l \o q \in Seq(Piece) /\ Len(l \o q) = Len(l) + Len(q)
           /\ Len(l) \in Nat /\ Len(q) \in Nat
           /\ \A i \in 1..Len(l) + Len(q) :
                (l \o q)[i] = IF i =< Len(l) THEN l[i] ELSE q[i - Len(l)]
           /\ \A x \in Piece : l \o Append(q, x) = Append(l \o q, x)
  <1>1. /\ l \o q \in Seq(Piece) /\ Len(l \o q) = Len(l) + Len(q)
        /\ Len(l) \in Nat /\ Len(q) \in Nat
        /\ \A i \in 1..Len(l) + Len(q) :
             (l \o q)[i] = IF i =< Len(l) THEN l[i] ELSE q[i - Len(l)]
    OBVIOUS
  <1>2. ASSUME NEW x \in Piece PROVE l \o Append(q, x) = Append(l \o q, x)
    OBVIOUS
  <1> QED
    BY <1>1, <1>2

(* Moving the head of the pipe to the end of the line changes nothing.      *)
LEMMA UnreadMoved ==
    ASSUME NEW l \in Seq(Piece), NEW q \in Seq(Piece), q # <<>>
    PROVE  /\ Head(q) \in Piece /\ Tail(q) \in Seq(Piece) /\ Len(Tail(q)) = Len(q) - 1
           /\ Append(l, Head(q)) \in Seq(Piece)
           /\ Append(l, Head(q)) \o Tail(q) = l \o q
  OBVIOUS

(* The next piece of a line, sent after all that came before.               *)
LEMMA WholeAppended ==
    ASSUME NEW all \in Seq(Piece), NEW s \in Senders, NEW w \in 0..(Parts - 1), Whole(all),
           w = 0 /\ Len(all) > 0 => all[Len(all)].part = Parts,
           w > 0 => Len(all) > 0 /\ all[Len(all)].by = s /\ all[Len(all)].part = w
    PROVE  Whole(Append(all, [by |-> s, part |-> w + 1]))
  <1> DEFINE x == [by |-> s, part |-> w + 1]
             new == Append(all, x)
  <1>1. x \in Piece /\ x.by = s /\ x.part = w + 1
    BY PieceMade, RunnerAssumption
  <1>2. /\ Len(all) \in Nat /\ Len(new) = Len(all) + 1
        /\ \A i \in 1..Len(all) + 1 : new[i] = IF i = Len(all) + 1 THEN x ELSE all[i]
        /\ \A i \in 1..Len(all) : all[i] \in Piece
    BY <1>1
  <1>3. \A i \in 1..Len(all) : all[i].part \in 1..Parts
    BY <1>2, PieceFields
  <1> HIDE DEF x, new
  <1>4. Whole(new)
    <2>1. SUFFICES ASSUME NEW i \in 1..Len(new)
                   PROVE  /\ new[i].part > 1 => /\ i > 1 /\ new[i - 1].by = new[i].by
                                                /\ new[i - 1].part = new[i].part - 1
                          /\ new[i].part < Parts /\ i < Len(new) =>
                                /\ new[i + 1].by = new[i].by
                                /\ new[i + 1].part = new[i].part + 1
      BY DEF Whole
    <2>2. CASE i = Len(all) + 1
      BY <1>1, <1>2, <1>3, <2>2, SMTT(30)
    <2>3. CASE i = Len(all)
      <3>1. /\ new[i] = all[i] /\ new[i + 1] = x /\ all[i].part \in 1..Parts
            /\ i > 1 => new[i - 1] = all[i - 1]
        BY <1>2, <1>3, <2>3
      <3>2. all[i].part > 1 => /\ i > 1 /\ all[i - 1].by = all[i].by
                               /\ all[i - 1].part = all[i].part - 1
        BY <2>1, <2>3 DEF Whole
      <3> QED
        BY <1>1, <2>3, <3>1, <3>2
    <2>4. CASE i < Len(all)
      <3>1. /\ new[i] = all[i] /\ new[i + 1] = all[i + 1]
            /\ i > 1 => new[i - 1] = all[i - 1]
        BY <1>2, <2>4
      <3> QED
        BY <1>2, <2>4, <3>1 DEF Whole
    <2> QED
      BY <1>2, <2>2, <2>3, <2>4
  <1> QED
    BY <1>4 DEF new, x

(* The engine takes the last piece of a line: what remains starts with a    *)
(* line of its own.                                                         *)
LEMMA WholeTaken ==
    ASSUME NEW l \in Seq(Piece), NEW q \in Seq(Piece), q # <<>>, Whole(l \o q),
           Head(q).part = Parts
    PROVE  /\ Whole(<<>> \o Tail(q)) /\ Len(<<>> \o Tail(q)) = Len(q) - 1
           /\ Len(q) > 1 => (<<>> \o Tail(q))[Len(q) - 1] = (l \o q)[Len(l) + Len(q)]
  <1> DEFINE all == l \o q
             rest == <<>> \o Tail(q)
             n == Len(l) + 1
  <1>1. /\ all \in Seq(Piece) /\ Len(all) = Len(l) + Len(q)
        /\ Len(l) \in Nat /\ Len(q) \in Nat /\ Len(q) > 0 /\ n \in Nat
        /\ rest \in Seq(Piece) /\ Len(rest) = Len(q) - 1
        /\ \A i \in 1..Len(rest) : rest[i] = all[i + n]
        /\ all[n] = Head(q) /\ Len(rest) \in Nat /\ Len(all) \in Nat
    OBVIOUS
  <1>2. \A i \in 1..Len(all) : all[i].part \in 1..Parts
    BY <1>1, PieceFields
  <1>3. Whole(all) /\ all[n].part = Parts /\ n \in 1..Len(all)
    BY <1>1
  <1>4. /\ Len(rest) = Len(all) - n /\ Len(rest) \in Nat /\ Len(all) \in Nat /\ n \in Nat
        /\ Len(q) > 1 => rest[Len(q) - 1] = all[Len(l) + Len(q)]
    BY <1>1
  <1> HIDE DEF all, rest, n
  <1>5. Whole(rest)
    <2>1. SUFFICES ASSUME NEW i \in 1..Len(rest)
                   PROVE  /\ rest[i].part > 1 => /\ i > 1 /\ rest[i - 1].by = rest[i].by
                                                 /\ rest[i - 1].part = rest[i].part - 1
                          /\ rest[i].part < Parts /\ i < Len(rest) =>
                                /\ rest[i + 1].by = rest[i].by
                                /\ rest[i + 1].part = rest[i].part + 1
      BY DEF Whole
    <2> DEFINE k == i + n
    <2>0. /\ i \in Nat /\ n \in Nat /\ Len(rest) \in Nat /\ Len(all) \in Nat /\ i >= 1
          /\ i =< Len(rest) /\ Len(rest) = Len(all) - n
      BY <1>4
    <2>2. /\ k \in 1..Len(all) /\ rest[i] = all[k] /\ all[k].part \in 1..Parts
          /\ i < Len(rest) <=> k < Len(all)
          /\ i < Len(rest) => rest[i + 1] = all[k + 1]
          /\ i > 1 => rest[i - 1] = all[k - 1]
          /\ i = 1 => all[k - 1] = all[n]
      <3>1. k \in 1..Len(all) /\ (i < Len(rest) <=> k < Len(all)) /\ (i = 1 => k - 1 = n)
        BY <2>0
      <3>2. i < Len(rest) => rest[i + 1] = all[k + 1]
        <4>1. i < Len(rest) => i + 1 \in 1..Len(rest) /\ (i + 1) + n = k + 1
          BY <2>0
        <4>2. \A j \in 1..Len(rest) : rest[j] = all[j + n]
          BY <1>1
        <4> QED
          BY <4>1, <4>2
      <3>3. i > 1 => rest[i - 1] = all[k - 1]
        <4>1. i > 1 => i - 1 \in 1..Len(rest) /\ (i - 1) + n = k - 1
          BY <2>0
        <4> QED
          BY <1>1, <4>1
      <3> QED
        BY <1>1, <1>2, <3>1, <3>2, <3>3
    <2> HIDE DEF k
    <2>3. /\ all[k].part > 1 => /\ k > 1 /\ all[k - 1].by = all[k].by
                                /\ all[k - 1].part = all[k].part - 1
          /\ all[k].part < Parts /\ k < Len(all) =>
                /\ all[k + 1].by = all[k].by /\ all[k + 1].part = all[k].part + 1
      BY <1>3, <2>2 DEF Whole
    <2>4. all[k].part > 1 => i > 1
      BY <1>3, <2>0, <2>2, <2>3, RunnerAssumption
    <2> QED
      BY <2>2, <2>3, <2>4
  <1> QED
    BY <1>1, <1>4, <1>5 DEF all, rest

(* The invariant implies what the runs check.                               *)
LEMMA InvImplies == ASSUME RunnerInv PROVE LinesWhole /\ RunningConfig
  <1>1. LinesWhole
    <2> DEFINE all == line \o pipe
    <2>1. all \in Seq(Piece) /\ Len(all) \in Nat /\ \A i \in 1..Len(all) : all[i] \in Piece
      BY DEF RunnerInv, RunnerTypeOK
    <2>2. Whole(all) /\ LastOpen(all)
      BY DEF RunnerInv, Lines, Unread
    <2> HIDE DEF all
    <2>3. SUFFICES ASSUME NEW i \in 1..Len(all)
                   PROVE  /\ all[i].part > 1 =>
                               /\ i > 1
                               /\ all[i - 1] = [all[i] EXCEPT !.part = @ - 1]
                          /\ all[i].part < Parts =>
                               IF i < Len(all) THEN all[i + 1] = [all[i] EXCEPT !.part = @ + 1]
                               ELSE mu = all[i].by /\ wrote[mu] = all[i].part
      BY DEF LinesWhole, all
    <2>4. all[i] \in Piece
      BY <2>1
    <2>5. ASSUME all[i].part > 1
          PROVE  i > 1 /\ all[i - 1] = [all[i] EXCEPT !.part = @ - 1]
      <3>1. i > 1 /\ all[i - 1].by = all[i].by /\ all[i - 1].part = all[i].part - 1
        BY <2>2, <2>5 DEF Whole
      <3>2. all[i - 1] \in Piece
        BY <2>1, <3>1
      <3> QED
        BY <2>4, <3>1, <3>2, PieceFields
    <2>6. ASSUME all[i].part < Parts, i < Len(all)
          PROVE  all[i + 1] = [all[i] EXCEPT !.part = @ + 1]
      <3>1. all[i + 1].by = all[i].by /\ all[i + 1].part = all[i].part + 1
        BY <2>2, <2>6 DEF Whole
      <3>2. all[i + 1] \in Piece
        BY <2>1, <2>6
      <3> QED
        BY <2>4, <3>1, <3>2, PieceFields
    <2>7. ASSUME all[i].part < Parts, ~(i < Len(all))
          PROVE  mu = all[i].by /\ wrote[mu] = all[i].part
      <3>1. i = Len(all)
        BY <2>1, <2>7
      <3> QED
        BY <2>1, <2>2, <2>7, <3>1 DEF LastOpen
    <2> QED
      BY <2>5, <2>6, <2>7
  <1>2. RunningConfig
    BY DEF RunnerInv, ArgsMarked, CurrentFollowed, RunningConfig, Settled
  <1> QED
    BY <1>1, <1>2

(* The initial state.                                                       *)
LEMMA RunnerInitInv == ASSUME RunnerInit PROVE RunnerInv
  <1>1. EngineOK /\ PosterOK
    BY DEF RunnerInit, EngineOK, PosterOK, Configs
  <1>2. RunnerTypeOK
    <2>1. pipe \in Seq(Piece) /\ Len(pipe) =< PipeCap /\ line \in Seq(Piece)
      BY RunnerAssumption DEF RunnerInit
    <2>2. /\ sender \in [Senders -> {"idle", "write"}]
          /\ wrote \in [Senders -> 0..(Parts - 1)]
      BY RunnerAssumption DEF RunnerInit
    <2> QED
      BY <2>1, <2>2 DEF RunnerInit, RunnerTypeOK
  <1>3. LoopAndEngine /\ LockHeld
    BY RunnerAssumption DEF RunnerInit, LoopAndEngine, LockHeld
  <1>4. Lines
    <2>1. Len(Unread) = 0
      BY DEF RunnerInit, Unread
    <2>2. engine.state = "none"
      BY DEF RunnerInit
    <2> QED
      BY <2>1, <2>2 DEF Lines, Whole, LastOpen, LineBegun
  <1>5. ArgsMarked /\ CurrentFollowed
    BY DEF RunnerInit, ArgsMarked, CurrentFollowed
  <1> QED
    BY <1>1, <1>2, <1>3, <1>4, <1>5 DEF RunnerInv

-----------------------------------------------------------------------------
(* The steps *)

(* A step that leaves the lock, the pipe and the line alone.                *)
LEMMA LinesKept ==
    ASSUME Lines, pipe' = pipe, line' = line, mu' = mu, wrote' = wrote,
           engine'.state = engine.state
    PROVE  Lines'
  BY DEF Lines, Unread, Whole, LastOpen, LineBegun

(* A step after which no engine has a line to read.                         *)
LEMMA LinesEmpty ==
    ASSUME pipe' = <<>>, line' = <<>>, engine'.state # "up" \/ mu' = Nobody
    PROVE  Lines'
  <1>1. Len(Unread') = 0
    BY DEF Unread
  <1> QED
    BY <1>1 DEF Lines, Whole, LastOpen, LineBegun

(* The goroutine of Start and run.                                          *)
LEMMA LoopInv == ASSUME RunnerInv, Loop PROVE RunnerInv'
  <1>1. /\ UNCHANGED <<mu, sender, wrote, args, poster, current, raced, ctxDone>>
        /\ PosterOK' /\ CurrentFollowed'
    BY DEF RunnerInv, PosterOK, CurrentFollowed, Loop, LoopTop, StartEngine, StartFails,
       Publish, ScanEnds, Unpublish, Wait, Delay, LoopReturns, LoopOther, senderVars
  <1> USE DEF procVars
  <1>2. CASE LoopTop
    <2>1. /\ UNCHANGED <<engine, pipe, line, published>>
          /\ loop = "top" /\ loop' = "start" /\ snap' = args /\ refused' = FALSE
      BY <1>2 DEF LoopTop, CopyArgs
    <2>2. RunnerTypeOK'
      BY <1>1, <2>1 DEF RunnerInv, RunnerTypeOK
    <2>3. EngineOK' /\ LoopAndEngine' /\ LockHeld' /\ ArgsMarked'
      BY <1>1, <2>1 DEF RunnerInv, EngineOK, LoopAndEngine, LockHeld, ArgsMarked
    <2> QED
      BY <1>1, <2>1, <2>2, <2>3, LinesKept DEF RunnerInv
  <1>3. CASE StartEngine
    <2>1. /\ UNCHANGED <<published, snap, refused>> /\ pipe' = <<>> /\ line' = <<>>
          /\ engine' = [state |-> "up", pop |-> Population(snap), signalled |-> FALSE]
          /\ loop = "start" /\ loop' = "publish"
      BY <1>3 DEF StartEngine
    <2>2. /\ engine'.state = "up" /\ ~engine'.signalled /\ engine'.pop = Population(snap)
          /\ ~engine.signalled /\ snap \in Configs /\ mu = Nobody
      BY <2>1 DEF RunnerInv, RunnerTypeOK, LoopAndEngine, LockHeld, Configs
    <2>3. EngineOK'
      BY <2>1, <2>2 DEF EngineOK
    <2>4. RunnerTypeOK'
      <3>1. pipe' \in Seq(Piece) /\ Len(pipe') =< PipeCap /\ line' \in Seq(Piece)
        BY <2>1, RunnerAssumption
      <3> QED
        BY <1>1, <2>1, <2>2, <3>1 DEF RunnerInv, RunnerTypeOK
    <2>5. LoopAndEngine' /\ LockHeld' /\ ArgsMarked'
      BY <1>1, <2>1, <2>2 DEF RunnerInv, LoopAndEngine, LockHeld, ArgsMarked
    <2> QED
      BY <1>1, <2>1, <2>2, <2>3, <2>4, <2>5, LinesEmpty DEF RunnerInv
  <1>4. CASE Wait
    <2>1. /\ UNCHANGED <<pipe, line, published, snap, refused>>
          /\ engine' = [engine EXCEPT !.state = "none", !.signalled = FALSE]
          /\ loop = "wait" /\ loop' = "delay" /\ engine.state = "dead"
      BY <1>4 DEF Wait
    <2>2. engine'.state = "none" /\ ~engine'.signalled /\ EngineOK' /\ ~published
      BY <2>1 DEF RunnerInv, EngineOK, LoopAndEngine
    <2>3. RunnerTypeOK' /\ LoopAndEngine' /\ LockHeld' /\ ArgsMarked'
      BY <1>1, <2>1, <2>2 DEF RunnerInv, RunnerTypeOK, LoopAndEngine, LockHeld, ArgsMarked
    <2>4. Lines'
      BY <2>1, <2>2, LinesEmpty DEF RunnerInv, LoopAndEngine
    <2> QED
      BY <1>1, <2>2, <2>3, <2>4 DEF RunnerInv
  <1>5. CASE StartFails \/ ScanEnds \/ Delay \/ LoopReturns
    <2>1. UNCHANGED <<engine, pipe, line, published, snap, refused>>
      BY <1>5 DEF StartFails, ScanEnds, Delay, LoopReturns
    <2>2. RunnerTypeOK' /\ EngineOK' /\ LoopAndEngine' /\ LockHeld' /\ ArgsMarked'
      BY <1>1, <1>5, <2>1 DEF RunnerInv, RunnerTypeOK, EngineOK, LoopAndEngine, LockHeld,
         ArgsMarked, StartFails, ScanEnds, Delay, AfterDelay, LoopReturns
    <2> QED
      BY <1>1, <2>1, <2>2, LinesKept DEF RunnerInv
  <1>6. CASE Publish \/ Unpublish
    <2>1. UNCHANGED <<engine, pipe, line, snap, refused>> /\ mu = Nobody
      BY <1>6 DEF Publish, Unpublish
    <2>2. RunnerTypeOK' /\ EngineOK' /\ LoopAndEngine' /\ LockHeld' /\ ArgsMarked'
      BY <1>1, <1>6, <2>1 DEF RunnerInv, RunnerTypeOK, EngineOK, LoopAndEngine, LockHeld,
         ArgsMarked, Publish, Unpublish, Unpublished
    <2> QED
      BY <1>1, <2>1, <2>2, LinesKept DEF RunnerInv
  <1> QED
    BY <1>2, <1>3, <1>4, <1>5, <1>6 DEF Loop

(* The engine process ends, or the server is told to.                       *)
LEMMA ExitInv == ASSUME RunnerInv, EngineExit \/ Cancel PROVE RunnerInv'
  <1>1. /\ UNCHANGED <<published, loop, snap, mu, sender, wrote>>
        /\ UNCHANGED <<args, poster, current, refused, raced>>
        /\ PosterOK' /\ CurrentFollowed'
    BY DEF RunnerInv, PosterOK, CurrentFollowed, EngineExit, Cancel, ProcOther, loopVars,
       senderVars, posterVars
  <1>2. CASE EngineExit
    <2>1. /\ engine.state = "up" /\ engine' = [engine EXCEPT !.state = "dead"]
          /\ pipe' = <<>> /\ line' = <<>> /\ ctxDone' = ctxDone
      BY <1>2 DEF EngineExit
    <2>2. /\ engine'.state = "dead" /\ engine'.pop = engine.pop
          /\ engine'.signalled = engine.signalled /\ EngineOK'
      BY <2>1 DEF RunnerInv, EngineOK
    <2>3. RunnerTypeOK'
      <3>1. pipe' \in Seq(Piece) /\ Len(pipe') =< PipeCap /\ line' \in Seq(Piece)
        BY <2>1, RunnerAssumption
      <3> QED
        BY <1>1, <2>1, <2>2, <3>1 DEF RunnerInv, RunnerTypeOK
    <2>4. LoopAndEngine' /\ LockHeld' /\ ArgsMarked'
      BY <1>1, <2>1, <2>2 DEF RunnerInv, LoopAndEngine, LockHeld, ArgsMarked
    <2> QED
      BY <1>1, <2>1, <2>2, <2>3, <2>4, LinesEmpty DEF RunnerInv
  <1>3. CASE Cancel
    <2>1. UNCHANGED <<engine, pipe, line>> /\ ctxDone' = TRUE
      BY <1>3 DEF Cancel, procVars
    <2>2. RunnerTypeOK'
      BY <1>1, <2>1 DEF RunnerInv, RunnerTypeOK
    <2>3. EngineOK' /\ LoopAndEngine' /\ LockHeld' /\ ArgsMarked'
      BY <1>1, <2>1 DEF RunnerInv, EngineOK, LoopAndEngine, LockHeld, ArgsMarked
    <2> QED
      BY <1>1, <2>1, <2>2, <2>3, LinesKept DEF RunnerInv
  <1> QED
    BY <1>2, <1>3

(* The engine's stdin thread reads.                                         *)
LEMMA ReadInv == ASSUME RunnerInv, EngineReads PROVE RunnerInv'
  <1>1. /\ UNCHANGED <<published, loop, snap, mu, sender, wrote, engine, ctxDone>>
        /\ UNCHANGED <<args, poster, current, refused, raced>>
        /\ engine.state = "up" /\ pipe # <<>> /\ pipe' = Tail(pipe)
        /\ line' = IF Head(pipe).part = Parts THEN <<>> ELSE Append(line, Head(pipe))
    BY DEF EngineReads, ProcOther, loopVars, senderVars, posterVars
  <1>2. /\ EngineOK' /\ PosterOK' /\ LoopAndEngine' /\ LockHeld' /\ ArgsMarked'
        /\ CurrentFollowed'
    BY <1>1 DEF RunnerInv, EngineOK, PosterOK, LoopAndEngine, LockHeld, ArgsMarked,
       CurrentFollowed
  <1>3. pipe \in Seq(Piece) /\ line \in Seq(Piece) /\ Len(pipe) =< PipeCap /\ Len(pipe) \in Nat
    BY DEF RunnerInv, RunnerTypeOK
  <1>4. /\ Head(pipe) \in Piece /\ pipe' \in Seq(Piece) /\ Len(pipe') = Len(pipe) - 1
        /\ Append(line, Head(pipe)) \in Seq(Piece) /\ line' \in Seq(Piece)
    BY <1>1, <1>3, UnreadMoved
  <1>5. RunnerTypeOK'
    <2>1. Len(pipe') =< PipeCap
      BY <1>3, <1>4, RunnerAssumption
    <2> QED
      BY <1>1, <1>4, <2>1 DEF RunnerInv, RunnerTypeOK
  <1>6. CASE Head(pipe).part # Parts
    <2>1. Unread' = Unread
      BY <1>1, <1>3, <1>6, UnreadMoved DEF Unread
    <2>2. Lines'
      BY <1>1, <2>1 DEF RunnerInv, Lines, Whole, LastOpen, LineBegun
    <2> QED
      BY <1>2, <1>5, <2>2 DEF RunnerInv
  <1>7. CASE Head(pipe).part = Parts
    <2>1. Unread' = <<>> \o Tail(pipe)
      BY <1>1, <1>7 DEF Unread
    <2>2. /\ Whole(Unread') /\ Len(Unread') = Len(pipe) - 1
          /\ Len(pipe) > 1 => Unread'[Len(pipe) - 1] = Unread[Len(line) + Len(pipe)]
      BY <1>1, <1>3, <1>7, <2>1, WholeTaken DEF RunnerInv, Lines, Unread
    <2>3. /\ Len(Unread) = Len(line) + Len(pipe) /\ Len(line) \in Nat /\ Len(pipe) > 0
          /\ Unread[Len(line) + 1] = Head(pipe)
      BY <1>1, <1>3 DEF Unread
    <2>4. LastOpen(Unread)'
      BY <1>1, <1>3, <2>2, <2>3 DEF RunnerInv, Lines, LastOpen
    <2>5. LineBegun(Unread)'
      <3>1. SUFFICES ASSUME mu # Nobody, wrote[mu] > 0
                     PROVE  /\ Len(Unread') > 0 /\ Unread'[Len(Unread')].by = mu
                            /\ Unread'[Len(Unread')].part = wrote[mu]
        BY <1>1 DEF LineBegun
      <3>2. Unread[Len(Unread)].by = mu /\ Unread[Len(Unread)].part = wrote[mu]
        BY <1>1, <3>1 DEF RunnerInv, Lines, LineBegun
      <3>3. wrote[mu] \in 0..(Parts - 1)
        BY <3>1 DEF RunnerInv, RunnerTypeOK
      <3>4. Len(pipe) > 1
        BY <1>3, <1>7, <2>3, <3>2, <3>3, RunnerAssumption
      <3> QED
        BY <1>3, <2>2, <2>3, <3>2, <3>4
    <2>6. Lines'
      BY <2>2, <2>4, <2>5 DEF Lines, Whole
    <2> QED
      BY <1>2, <1>5, <2>6 DEF RunnerInv
  <1> QED
    BY <1>6, <1>7

(* What a SendOrder leaves alone, and what follows from that.               *)
LEMMA SendKeeps ==
    ASSUME RunnerInv, NEW s \in Senders, SendOrder(s)
    PROVE  /\ UNCHANGED <<engine, line, published, loop, snap, ctxDone>>
           /\ UNCHANGED <<args, poster, current, refused, raced>>
           /\ EngineOK' /\ PosterOK' /\ ArgsMarked' /\ CurrentFollowed'
           /\ pipe \in Seq(Piece) /\ line \in Seq(Piece) /\ Len(pipe) \in Nat
           /\ sender \in [Senders -> {"idle", "write"}]
           /\ wrote \in [Senders -> 0..(Parts - 1)] /\ wrote[s] \in 0..(Parts - 1)
  <1>1. /\ UNCHANGED <<engine, line, published, loop, snap, ctxDone>>
        /\ UNCHANGED <<args, poster, current, refused, raced>>
    BY DEF SendOrder, SendLock, SendPiece, SendFails, SendOther, loopVars, posterVars
  <1>2. EngineOK' /\ PosterOK' /\ ArgsMarked' /\ CurrentFollowed'
    BY <1>1 DEF RunnerInv, EngineOK, PosterOK, ArgsMarked, CurrentFollowed
  <1>3. /\ pipe \in Seq(Piece) /\ line \in Seq(Piece) /\ Len(pipe) \in Nat
        /\ sender \in [Senders -> {"idle", "write"}]
        /\ wrote \in [Senders -> 0..(Parts - 1)] /\ wrote[s] \in 0..(Parts - 1)
    BY DEF RunnerInv, RunnerTypeOK
  <1> QED
    BY <1>1, <1>2, <1>3

(* SendOrder gets r.mu.                                                     *)
LEMMA SendLockInv == ASSUME RunnerInv, NEW s \in Senders, SendLock(s) PROVE RunnerInv'
  <1>1. SendOrder(s)
    BY DEF SendOrder
  <1>2. /\ mu = Nobody /\ published /\ mu' = s /\ wrote' = wrote /\ pipe' = pipe
        /\ sender' = [sender EXCEPT ![s] = "write"]
    BY DEF SendLock, Holds
  <1>3. RunnerTypeOK'
    BY <1>1, <1>2, SendKeeps DEF RunnerInv, RunnerTypeOK
  <1>4. LoopAndEngine'
    BY <1>1, <1>2, SendKeeps DEF RunnerInv, LoopAndEngine
  <1>5. LockHeld'
    BY <1>1, <1>2, SendKeeps, RunnerAssumption DEF RunnerInv, LockHeld
  <1>6. Lines'
    <2>1. Unread' = Unread /\ Unread \in Seq(Piece) /\ wrote[s] = 0
      <3>1. pipe \in Seq(Piece) /\ line \in Seq(Piece) /\ line' = line
        BY <1>1, SendKeeps
      <3>2. wrote[s] = 0
        BY <1>2, RunnerAssumption DEF RunnerInv, LockHeld
      <3> QED
        BY <1>2, <3>1, <3>2, UnreadProperties DEF Unread
    <2>2. Len(Unread) > 0 => Unread[Len(Unread)].by \in Senders
      BY <2>1, PieceFields
    <2>3. ~(Len(Unread) > 0 /\ Unread[Len(Unread)].part < Parts)
      BY <1>2, <2>2, RunnerAssumption DEF RunnerInv, Lines, LastOpen
    <2> QED
      BY <1>2, <2>1, <2>3 DEF RunnerInv, Lines, Whole, LastOpen, LineBegun
  <1> QED
    BY <1>1, <1>3, <1>4, <1>5, <1>6, SendKeeps DEF RunnerInv

(* The pipe takes a piece of the line.                                      *)
LEMMA SendPieceInv == ASSUME RunnerInv, NEW s \in Senders, SendPiece(s) PROVE RunnerInv'
  <1> DEFINE x == [by |-> s, part |-> wrote[s] + 1]
             k == wrote[s]
  <1>1. SendOrder(s)
    BY DEF SendOrder
  <1>t. /\ sender \in [Senders -> {"idle", "write"}] /\ pipe \in Seq(Piece)
        /\ line \in Seq(Piece) /\ Len(pipe) \in Nat /\ line' = line
        /\ wrote \in [Senders -> 0..(Parts - 1)] /\ k \in 0..(Parts - 1)
    BY <1>1, SendKeeps
  <1>2. /\ sender[s] = "write" /\ mu = s /\ engine.state = "up" /\ Len(pipe) < PipeCap
        /\ pipe' = Append(pipe, x) /\ published
    BY RunnerAssumption DEF SendPiece, RunnerInv, LockHeld
  <1>3. x \in Piece /\ x.by = s /\ x.part = wrote[s] + 1
    BY <1>1, SendKeeps, PieceMade, RunnerAssumption
  <1>4. \/ /\ k + 1 < Parts /\ wrote' = [wrote EXCEPT ![s] = k + 1]
           /\ mu' = s /\ sender' = sender
        \/ /\ k + 1 = Parts /\ wrote' = [wrote EXCEPT ![s] = 0]
           /\ mu' = Nobody /\ sender' = [sender EXCEPT ![s] = "idle"]
    <2>1. CASE k + 1 < Parts
      BY <1>2, <2>1 DEF SendPiece
    <2>2. CASE ~(k + 1 < Parts)
      <3>1. k + 1 = Parts
        BY <1>t, <2>2, RunnerAssumption
      <3> QED
        BY <2>2, <3>1 DEF SendPiece
    <2> QED
      BY <2>1, <2>2
  <1>5. /\ pipe' \in Seq(Piece) /\ Len(pipe') = Len(pipe) + 1 /\ Len(pipe') =< PipeCap
        /\ Unread' = Append(Unread, x) /\ Unread \in Seq(Piece)
    <2> HIDE DEF x
    <2>1. pipe' \in Seq(Piece) /\ Len(pipe') = Len(pipe) + 1 /\ Len(pipe') =< PipeCap
      BY <1>t, <1>2, <1>3, RunnerAssumption
    <2>2. line \o pipe \in Seq(Piece) /\ line \o Append(pipe, x) = Append(line \o pipe, x)
      BY <1>t, <1>3, UnreadProperties
    <2> QED
      BY <1>t, <1>2, <2>1, <2>2 DEF Unread
  <1>6. RunnerTypeOK'
    <2>1. /\ sender' \in [Senders -> {"idle", "write"}]
          /\ wrote' \in [Senders -> 0..(Parts - 1)] /\ mu' \in Senders \cup {Nobody}
      <3> HIDE DEF k
      <3>1. k + 1 < Parts => k + 1 \in 0..(Parts - 1)
        BY <1>t, RunnerAssumption
      <3>2. 0 \in 0..(Parts - 1)
        BY RunnerAssumption
      <3> QED
        BY <1>t, <1>4, <3>1, <3>2
    <2> QED
      BY <1>1, <1>5, <2>1, SendKeeps DEF RunnerInv, RunnerTypeOK
  <1>7. LoopAndEngine'
    BY <1>1, <1>2, SendKeeps DEF RunnerInv, LoopAndEngine
  <1>8. LockHeld'
    BY <1>1, <1>2, <1>4, SendKeeps, RunnerAssumption DEF RunnerInv, LockHeld
  <1>9. Lines'
    <2>1. Whole(Unread) /\ LastOpen(Unread) /\ LineBegun(Unread)
      BY DEF RunnerInv, Lines
    <2>2. wrote[s] = 0 /\ Len(Unread) > 0 => Unread[Len(Unread)].part = Parts
      <3>1. Len(Unread) > 0 => Unread[Len(Unread)].part \in 1..Parts
        BY <1>5, PieceFields
      <3> QED
        BY <1>2, <2>1, <3>1, RunnerAssumption DEF LastOpen
    <2>3. wrote[s] > 0 => /\ Len(Unread) > 0 /\ Unread[Len(Unread)].by = s
                          /\ Unread[Len(Unread)].part = wrote[s]
      BY <1>2, <2>1, RunnerAssumption DEF LineBegun
    <2>4. Whole(Unread')
      BY <1>1, <1>5, <2>1, <2>2, <2>3, SendKeeps, WholeAppended
    <2>5. Len(Unread') > 0 /\ Unread'[Len(Unread')] = x
      BY <1>3, <1>5
    <2>6. /\ wrote[s] + 1 < Parts => mu' = s /\ wrote'[s] = wrote[s] + 1
          /\ wrote[s] + 1 >= Parts => mu' = Nobody
      BY <1>1, <1>4, SendKeeps, RunnerAssumption
    <2> HIDE DEF x
    <2>7. LastOpen(Unread)'
      BY <1>3, <2>5, <2>6 DEF LastOpen
    <2>8. LineBegun(Unread)'
      BY <1>1, <1>3, <2>5, <2>6, SendKeeps, RunnerAssumption DEF LineBegun
    <2> QED
      BY <2>4, <2>7, <2>8 DEF Lines, Whole
  <1> QED
    BY <1>1, <1>6, <1>7, <1>8, <1>9, SendKeeps DEF RunnerInv

(* The write fails.                                                         *)
LEMMA SendFailsInv == ASSUME RunnerInv, NEW s \in Senders, SendFails(s) PROVE RunnerInv'
  <1>1. SendOrder(s)
    BY DEF SendOrder
  <1>2. /\ mu = s /\ engine.state # "up" /\ pipe' = pipe /\ mu' = Nobody
        /\ wrote' = [wrote EXCEPT ![s] = 0] /\ sender' = [sender EXCEPT ![s] = "idle"]
    BY DEF SendFails, Unlocked, RunnerInv, LockHeld
  <1>3. RunnerTypeOK'
    <2>1. /\ sender' \in [Senders -> {"idle", "write"}]
          /\ wrote' \in [Senders -> 0..(Parts - 1)]
      BY <1>1, <1>2, SendKeeps, RunnerAssumption
    <2> QED
      BY <1>1, <1>2, <2>1, SendKeeps DEF RunnerInv, RunnerTypeOK
  <1>4. LoopAndEngine'
    BY <1>1, <1>2, SendKeeps DEF RunnerInv, LoopAndEngine
  <1>5. LockHeld'
    BY <1>1, <1>2, SendKeeps, RunnerAssumption DEF RunnerInv, LockHeld
  <1>6. Lines'
    BY <1>1, <1>2, SendKeeps, LinesEmpty DEF RunnerInv, LoopAndEngine
  <1> QED
    BY <1>1, <1>3, <1>4, <1>5, <1>6, SendKeeps DEF RunnerInv

(* A handler of POST /api/config.                                           *)
LEMMA PostInv == ASSUME RunnerInv, NEW p \in Posters, PostConfig(p) PROVE RunnerInv'
  <1>1. /\ UNCHANGED <<pipe, line, published, loop, snap, mu, sender, wrote, ctxDone>>
        /\ LockHeld'
    BY DEF PostConfig, PostCurrent, SetArgs, Restart, PostOther, loopVars, senderVars,
       RunnerInv, LockHeld
  <1>2. /\ poster \in [Posters -> [at : {"idle", "args", "restart"}, req : Configs]]
        /\ poster[p].req \in Configs /\ Initial \in Configs
    BY DEF RunnerInv, PosterOK, Configs
  <1>3. ASSUME NEW c \in Requests, PostCurrent(p, c) PROVE RunnerInv'
    <2>1. /\ poster' = [poster EXCEPT ![p] = [at |-> "args", req |-> c]] /\ current' = c
          /\ raced' = (\E q \in Posters \ {p} : poster[q].at = "args")
          /\ UNCHANGED <<engine, args, refused>> /\ poster[p].at = "idle"
      BY <1>3 DEF PostCurrent
    <2>2. /\ \A q \in Posters : poster'[q] = IF q = p THEN [at |-> "args", req |-> c]
                                                      ELSE poster[q]
          /\ c \in Configs
      BY <1>2, <2>1 DEF Configs
    <2>3. PosterOK'
      BY <1>2, <2>1, <2>2 DEF PosterOK
    <2>4. RunnerTypeOK'
      BY <1>1, <2>1 DEF RunnerInv, RunnerTypeOK
    <2>5. EngineOK' /\ LoopAndEngine'
      BY <1>1, <2>1 DEF RunnerInv, EngineOK, LoopAndEngine
    <2>6. ArgsMarked'
      BY <1>1, <2>1, <2>2 DEF RunnerInv, ArgsMarked
    <2>7. CurrentFollowed'
      BY <2>1, <2>2 DEF CurrentFollowed
    <2> QED
      BY <1>1, <2>1, <2>3, <2>4, <2>5, <2>6, <2>7, LinesKept DEF RunnerInv
  <1>4. CASE SetArgs(p)
    <2>1. /\ poster' = [poster EXCEPT ![p] = [at |-> "restart", req |-> Initial]]
          /\ poster[p].at = "args" /\ args' = poster[p].req
          /\ UNCHANGED <<engine, current, refused, raced>>
      BY <1>4 DEF SetArgs
    <2>2. \A q \in Posters : poster'[q] = IF q = p THEN [at |-> "restart", req |-> Initial]
                                                   ELSE poster[q]
      BY <1>2, <2>1
    <2>3. PosterOK'
      BY <1>2, <2>1, <2>2 DEF PosterOK
    <2>4. RunnerTypeOK'
      BY <1>1, <1>2, <2>1 DEF RunnerInv, RunnerTypeOK, Configs
    <2>5. EngineOK' /\ LoopAndEngine'
      BY <1>1, <2>1 DEF RunnerInv, EngineOK, LoopAndEngine
    <2>6. ArgsMarked'
      BY <1>1, <2>1, <2>2 DEF RunnerInv, ArgsMarked
    <2>7. CurrentFollowed'
      BY <2>1, <2>2 DEF RunnerInv, CurrentFollowed
    <2> QED
      BY <1>1, <2>1, <2>3, <2>4, <2>5, <2>6, <2>7, LinesKept DEF RunnerInv
  <1>5. CASE Restart(p)
    <2>1. /\ poster' = [poster EXCEPT ![p] = [at |-> "idle", req |-> Initial]]
          /\ poster[p].at = "restart" /\ UNCHANGED <<args, current, raced>>
          /\ IF published
             THEN engine' = [engine EXCEPT !.signalled = TRUE] /\ refused' = refused
             ELSE refused' = TRUE /\ engine' = engine
      BY <1>5 DEF Restart
    <2>2. \A q \in Posters : poster'[q] = IF q = p THEN [at |-> "idle", req |-> Initial]
                                                   ELSE poster[q]
      BY <1>2, <2>1
    <2>3. PosterOK'
      BY <1>2, <2>1, <2>2 DEF PosterOK
    <2>4. /\ EngineOK' /\ engine'.state = engine.state /\ engine'.pop = engine.pop
          /\ published => engine'.signalled
      BY <2>1 DEF RunnerInv, EngineOK
    <2>5. refused' \in BOOLEAN
      BY <2>1 DEF RunnerInv, RunnerTypeOK
    <2>6. RunnerTypeOK'
      BY <1>1, <2>1, <2>4, <2>5 DEF RunnerInv, RunnerTypeOK
    <2>7. LoopAndEngine'
      BY <1>1, <2>1, <2>4 DEF RunnerInv, LoopAndEngine
    <2>8. ArgsMarked'
      BY <1>1, <2>1, <2>2, <2>4 DEF RunnerInv, ArgsMarked, LoopAndEngine
    <2>9. CurrentFollowed'
      BY <2>1, <2>2 DEF RunnerInv, CurrentFollowed
    <2> QED
      BY <1>1, <2>3, <2>4, <2>6, <2>7, <2>8, <2>9, LinesKept DEF RunnerInv
  <1> QED
    BY <1>3, <1>4, <1>5 DEF PostConfig

(* Every step keeps the invariant.                                          *)
LEMMA RunnerStepInv == ASSUME RunnerInv, [RunnerNext]_runnerVars PROVE RunnerInv'
  <1>1. CASE RunnerNext
    BY <1>1, LoopInv, ExitInv, ReadInv, SendLockInv, SendPieceInv, SendFailsInv, PostInv
       DEF RunnerNext, CtxKill, SendOrder
  <1>2. CASE UNCHANGED runnerVars
    BY <1>2, LinesKept DEF runnerVars, procVars, loopVars, senderVars, posterVars, RunnerInv,
       RunnerTypeOK, EngineOK, PosterOK, LoopAndEngine, LockHeld, ArgsMarked, CurrentFollowed
  <1> QED
    BY <1>1, <1>2

(* The invariant holds throughout.                                          *)
LEMMA RunnerInvariant == RunnerSpec => []RunnerInv
  BY RunnerInitInv, RunnerStepInv, PTL DEF RunnerSpec

-----------------------------------------------------------------------------
(* The variables keep their types, and r.cmd and r.stdinPipe are set only   *)
(* while there is a process that they belong to.                            *)
THEOREM RunnerTypeCorrect == RunnerSpec => []RunnerTypeOK
  <1>1. RunnerInv => RunnerTypeOK
    BY DEF RunnerInv
  <1> QED
    BY <1>1, RunnerInvariant, PTL

(* SendOrder writes whole lines: for any number of senders, and however the *)
(* kernel cuts what they write, the engine's stdin never mixes two orders,  *)
(* and an engine never gets the rest of a line begun for its predecessor.   *)
THEOREM OrderLinesWhole == RunnerSpec => []LinesWhole
  <1>1. RunnerInv => LinesWhole
    BY InvImplies
  <1> QED
    BY <1>1, RunnerInvariant, PTL

(* SetArgs, Restart and run: an engine in service has the population of the *)
(* last SetArgs unless a Restart was refused since run copied r.args, and   *)
(* GET /api/config reports it unless two POSTs overlapped.                  *)
THEOREM EngineRunsArgs == RunnerSpec => []RunningConfig
  <1>1. RunnerInv => RunningConfig
    BY InvImplies
  <1> QED
    BY <1>1, RunnerInvariant, PTL

\* What a launch finds: no process, nothing published, nobody in SendOrder
CleanLaunch == StartEngine => engine.state = "none" /\ ~published /\ mu = Nobody

(* One engine at a time: run launches a process only when the previous one  *)
(* has been reaped, its pipe is no longer published, and no SendOrder is in *)
(* the middle of a write to it, whatever crashes, restarts and POSTs came   *)
(* before.                                                                  *)
THEOREM OneEngineAtATime == RunnerSpec => [][CleanLaunch]_runnerVars
  <1>1. RunnerInv => CleanLaunch
    <2> SUFFICES ASSUME RunnerInv, StartEngine
                 PROVE  engine.state = "none" /\ ~published /\ mu = Nobody
      BY DEF CleanLaunch
    <2>1. loop = "start"
      BY DEF StartEngine
    <2>2. engine.state = "none" /\ ~published
      BY <2>1 DEF RunnerInv, LoopAndEngine
    <2>3. mu = Nobody
      BY <2>2 DEF RunnerInv, LockHeld
    <2> QED
      BY <2>2, <2>3
  <1> QED
    BY <1>1, RunnerInvariant, PTL
=============================================================================
