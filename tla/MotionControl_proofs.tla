------------------------ MODULE MotionControl_proofs ------------------------
(***************************************************************************)
(* Proofs about MotionControl, for any number of application threads,      *)
(* moves, calls, faults and messages in flight.                            *)
(***************************************************************************)
EXTENDS MotionControl, SequenceTheorems, TLAPS

USE BoundsAssumption, AutoTrackAssumption

-----------------------------------------------------------------------------
(* Facts about the names of the threads.                                   *)

\* Where the threads belong, and that a worker's second field is its handle.
LEMMA ThreadFacts ==
    /\ Movers \subseteq Threads /\ Workers \subseteq Movers /\ Apps \subseteq Movers
    /\ Sup \in Threads /\ Cls \in Threads
    /\ Workers \cap Apps = {} /\ Sup \notin Movers /\ Cls \notin Movers
    /\ Sup # Cls
    /\ \A t \in Workers : t[2] \in Handles /\ t = Worker(t[2])
    /\ \A i \in Handles : Worker(i) \in Workers /\ Worker(i)[2] = i
    /\ \A i, j \in Handles : Worker(i) = Worker(j) => i = j
  BY DEF Movers, Threads, Workers, Apps, Sup, Cls, Worker, Handles

-----------------------------------------------------------------------------
(* The virtual mount.                                                      *)

\* Every command, fault and edge of the mount keeps the type of its record.
LEMMA MountTypes ==
    ASSUME NEW m \in Mounts
    PROVE  /\ \A c \in Commands : Apply(m, c) \in Mounts
           /\ \A f \in Faults : SetFault(m, f) \in Mounts
           /\ TickEdges(m) \subseteq Mounts
           /\ \A a \in BOOLEAN : StatusOf(m, a) \in Updates
  <1>1. \A n \in Mounts, on \in BOOLEAN : SetTracking(n, on) \in Mounts
    BY DEF Mounts, SetTracking, SetTrackingRefused
  <1>2. \A n \in Mounts : Abort(n) \in Mounts
    BY DEF Mounts, Abort, MotionStates, TargetKinds, ManualAxes
  <1>3. Unpark(m) \in Mounts
    BY <1>1 DEF Mounts, Unpark
  <1>4. \A k \in TargetKinds : StartGoto(m, k) \in Mounts
    <2> SUFFICES ASSUME NEW k \in TargetKinds PROVE StartGoto(m, k) \in Mounts
      OBVIOUS
    <2>1. [m EXCEPT !.manual = {}, !.target_kind = k, !.on_goal = FALSE,
                    !.motion = "SLEWING", !.at_home = FALSE] \in Mounts
      BY DEF Mounts, MotionStates, ManualAxes
    <2> QED BY <1>1, <2>1 DEF StartGoto
  <1>5. \A c \in Commands : Apply(m, c) \in Mounts
    BY <1>1, <1>2, <1>3, <1>4 DEF Apply, Commands, TargetKinds
  <1>6. \A f \in Faults : SetFault(m, f) \in Mounts
    <2>1. \A f \in Faults : [m EXCEPT !.fault = f] \in Mounts
      BY DEF Mounts
    <2> QED BY <1>1, <1>2, <2>1 DEF SetFault
  <1>7. TickEdges(m) \subseteq Mounts
    <2>1. StopSettled(m) \in Mounts /\ Near(m) \in Mounts
      BY DEF Mounts, StopSettled, Near, MotionStates
    <2>2. Arrive(m) \in Mounts
      <3> DEFINE there == [m EXCEPT !.motion = "IDLE", !.target_kind = "none"]
      <3>1. there \in Mounts
        BY DEF Mounts, MotionStates, TargetKinds
      <3>2. \A n \in Mounts : /\ [n EXCEPT !.parked = TRUE] \in Mounts
                             /\ [n EXCEPT !.at_home = TRUE] \in Mounts
                             /\ [n EXCEPT !.on_goal = TRUE] \in Mounts
        BY DEF Mounts
      <3>3. \/ Arrive(m) = [there EXCEPT !.parked = TRUE]
            \/ Arrive(m) = [there EXCEPT !.at_home = TRUE]
            \/ Arrive(m) = [there EXCEPT !.on_goal = TRUE]
            \/ Arrive(m) = SetTracking([there EXCEPT !.on_goal = TRUE], TRUE)
        BY DEF Arrive
      <3> QED BY <1>1, <3>1, <3>2, <3>3
    <2> QED BY <2>1, <2>2 DEF TickEdges
  <1>8. \A a \in BOOLEAN : StatusOf(m, a) \in Updates
    <2>1. RawGu(m) \in SUBSET GuFlags
      BY DEF RawGu, GuFlags
    <2> QED BY <2>1 DEF StatusOf, Updates, Mounts, Faulted
  <1> QED BY <1>5, <1>6, <1>7, <1>8

-----------------------------------------------------------------------------
(* The threads: their places and their locals.                             *)

\* Past the record of a stop its locals are not read again.
StopOver == {"record", "join", "closed"}

\* The types of pc, op and loc, and what makes them inductive: the count of
\* stopped polls is below two while polls are counted, and a worker that ends
\* knows its outcome.
ThreadsOK ==
    /\ pc \in [Threads -> PCs]
    /\ op \in [Threads -> AllOps \cup {"none"}]
    /\ loc \in [Threads -> Locals]
    /\ \A t \in Threads : pc[t] \notin StopOver => loc[t].polls < 2
    /\ \A t \in Threads : pc[t] = "finish" => loc[t].out # "unused"

\* The locals a thread starts with have their type.
LEMMA ResultType ==
    /\ \A out \in HandleStates, conf \in BOOLEAN :
          Result(out, conf) \in Locals /\ Result(out, conf).polls = 0
    /\ NoLocals \in Locals /\ NoLocals.polls = 0
  BY DEF NoLocals, Result, Locals, HandleStates

\* A thread that only goes to another place.
LEMMA JumpKeeps ==
    ASSUME ThreadsOK, NEW t \in Threads, NEW l \in PCs \ {"finish"},
           pc[t] \in StopOver => l \in StopOver,
           Jump(t, l), UNCHANGED <<op, loc>>
    PROVE  ThreadsOK'
  BY DEF ThreadsOK, Jump, PCs

\* The run of a move that returns or raises.
LEMMA EndKeeps ==
    ASSUME ThreadsOK, NEW t \in Threads, NEW out \in HandleStates \ {"unused"},
           NEW conf \in BOOLEAN, End(t, out, conf)
    PROVE  ThreadsOK'
  <1> DEFINE r == Result(IF IsWorker(t) THEN out ELSE "unused", conf)
  <1>1. r \in Locals /\ r.polls = 0 /\ (IsWorker(t) => r.out # "unused")
    BY ResultType DEF Result, HandleStates
  <1>2. op' \in [Threads -> AllOps \cup {"none"}]
    BY DEF ThreadsOK, End
  <1>3. loc' = [loc EXCEPT ![t] = r]
    BY DEF End
  <1>4. pc' = [pc EXCEPT ![t] = IF IsWorker(t) THEN "finish" ELSE "idle"]
    BY DEF End, Jump
  <1>5. pc' \in [Threads -> PCs]
    BY <1>4 DEF ThreadsOK, PCs
  <1> HIDE DEF r
  <1> QED BY <1>1, <1>2, <1>3, <1>4, <1>5 DEF ThreadsOK

\* An exception in a move.
LEMMA FailKeeps ==
    ASSUME ThreadsOK, NEW t \in Threads, Fail(t)
    PROVE  ThreadsOK'
  <1> DEFINE l == IF op[t] = "axis" THEN "begin" ELSE "abort"
  <1>1. l \in PCs \ {"finish"}
    BY DEF PCs
  <1>2. Jump(t, l) /\ loc' = [loc EXCEPT ![t] = NoLocals] /\ UNCHANGED op
    BY DEF Fail
  <1> HIDE DEF l
  <1>3. NoLocals \in Locals /\ NoLocals.polls < 2
    BY ResultType
  <1> QED BY <1>1, <1>2, <1>3 DEF ThreadsOK, Jump


\* Every step of a mover keeps the types of the threads.
LEMMA MoverKeepsThreads ==
    ASSUME TypeOK, ThreadsOK, NEW t \in Movers, MoverStep(t) \/ Deadline(t)
    PROVE  ThreadsOK'
  <1> t \in Threads
    BY ThreadFacts
  <1>1. CASE PreflightHome(t) \/ PreflightPark(t) \/ PreflightUnpark(t) \/ PreflightAxis(t)
    <2>1. CASE \E out \in {"succeeded", "failed"}, conf \in BOOLEAN : End(t, out, conf)
      BY <2>1, EndKeeps DEF HandleStates
    <2>2. CASE Jump(t, "check") /\ UNCHANGED <<op, loc>> /\ pc[t] = "preflight"
      BY <2>2, JumpKeeps DEF PCs, StopOver
    <2> QED BY <1>1, <2>1, <2>2
          DEF PreflightHome, PreflightPark, PreflightUnpark, PreflightAxis
  <1>2. CASE CheckToken(t)
    <2>1. CASE End(t, "stopped", FALSE)
      BY <2>1, EndKeeps DEF HandleStates
    <2>2. CASE Jump(t, "coordset") /\ UNCHANGED <<op, loc>>
      BY <1>2, <2>2, JumpKeeps DEF CheckToken, PCs, StopOver
    <2>3. CASE Jump(t, "issue") /\ UNCHANGED <<op, loc>>
      BY <1>2, <2>3, JumpKeeps DEF CheckToken, PCs, StopOver
    <2> QED BY <1>2, <2>1, <2>2, <2>3 DEF CheckToken
  <1>3. CASE SendCoordSet(t) \/ AwaitCoordSet(t)
    <2>1. CASE End(t, "failed", FALSE)
      BY <2>1, EndKeeps DEF HandleStates
    <2>2. CASE Jump(t, "coordwait") /\ UNCHANGED <<op, loc>> /\ pc[t] = "coordset"
      BY <2>2, JumpKeeps DEF PCs, StopOver
    <2>3. CASE Jump(t, "issue") /\ UNCHANGED <<op, loc>> /\ pc[t] = "coordwait"
      BY <2>3, JumpKeeps DEF PCs, StopOver
    <2> QED BY <1>3, <2>1, <2>2, <2>3 DEF SendCoordSet, AwaitCoordSet
  <1>4. CASE Fail(t)
    BY <1>4, FailKeeps
  <1>5. CASE IssueCommand(t) /\ ~Fail(t)
    BY <1>5, JumpKeeps DEF IssueCommand, PCs, StopOver
  <1>6. CASE LoopTop(t)
    <2>1. CASE End(t, "stopped", FALSE)
      BY <2>1, EndKeeps DEF HandleStates
    <2>2. CASE Jump(t, "poll") /\ UNCHANGED <<op, loc>>
      BY <1>6, <2>2, JumpKeeps DEF LoopTop, PCs, StopOver
    <2> QED BY <1>6, <2>1, <2>2 DEF LoopTop
  <1>7. CASE SendTrackOff(t) /\ ~Fail(t)
    <2>1. \A r \in Locals :
            [r EXCEPT !.phase = "off"] \in Locals /\ [r EXCEPT !.phase = "off"].polls = r.polls
      BY DEF Locals
    <2>2. [NoLocals EXCEPT !.phase = "off"] \in Locals /\ [NoLocals EXCEPT !.phase = "off"].polls < 2
      BY <2>1, ResultType
    <2> QED BY <1>7, <2>2 DEF SendTrackOff, ThreadsOK, Jump, PCs
  <1>8. CASE PollGoesOn(t)
    <2>1. loc[t] \in Locals /\ loc[t].polls < 2
      BY <1>8 DEF PollGoesOn, PollGood, PollReads, ThreadsOK, StopOver
    <2>2. StableAfter(t) \in 0 .. 2
      BY <1>8, <2>1 DEF PollGoesOn, StableAfter, StablePolls, Locals
    <2>3. /\ [loc[t] EXCEPT !.stable = StableAfter(t)] \in Locals
          /\ [loc[t] EXCEPT !.stable = StableAfter(t)].polls < 2
      BY <2>1, <2>2 DEF Locals
    <2> QED BY <1>8, <2>3 DEF PollGoesOn, ThreadsOK, Jump, PCs
  <1>9. CASE PollConfirms(t)
    BY <1>9, EndKeeps DEF PollConfirms, HandleStates
  <1>10. CASE PollUnparked(t)
    <2>1. CASE End(t, "succeeded", TRUE)
      BY <2>1, EndKeeps DEF HandleStates
    <2>2. CASE Jump(t, "off") /\ UNCHANGED <<op, loc>>
      BY <1>10, <2>2, JumpKeeps DEF PollUnparked, PollGood, PollReads, PCs, StopOver
    <2>3. CASE /\ Jump(t, "check") /\ op' = [op EXCEPT ![t] = "home"]
               /\ loc' = [loc EXCEPT ![t] = NoLocals]
      <3>1. NoLocals \in Locals /\ NoLocals.polls < 2
        BY ResultType
      <3> QED BY <2>3, <3>1 DEF ThreadsOK, Jump, PCs, AllOps
    <2> QED BY <1>10, <2>1, <2>2, <2>3 DEF PollUnparked
  <1>11. CASE PollSlice(t)
    BY <1>11, JumpKeeps DEF PollSlice, PCs, StopOver
  <1>12. CASE AxisMoving(t)
    <2>1. loc[t] \in Locals /\ loc[t].polls < 2
      BY <1>12 DEF AxisMoving, AxisObserves, ThreadsOK, StopOver
    <2>2. PICK p \in {"near", "go"} : loc' = [loc EXCEPT ![t].phase = p]
      BY <1>12 DEF AxisMoving
    <2>3. [loc[t] EXCEPT !.phase = p] \in Locals /\ [loc[t] EXCEPT !.phase = p].polls < 2
      BY <2>1 DEF Locals
    <2>4. PICK l \in {"off", "loop"} : Jump(t, l) /\ UNCHANGED op
      BY <1>12 DEF AxisMoving
    <2> QED BY <2>2, <2>3, <2>4 DEF ThreadsOK, Jump, PCs
  <1>13. CASE AxisConfirming(t) /\ ~Fail(t)
    <2>1. loc[t] \in Locals /\ loc[t].polls < 2
      BY <1>13 DEF AxisConfirming, AxisObserves, ThreadsOK, StopOver
    <2>2. CASE End(t, "succeeded", TRUE)
      BY <2>2, EndKeeps DEF HandleStates
    <2>3. CASE ~End(t, "succeeded", TRUE)
      <3> DEFINE polls == IF ~fresh[t] THEN loc[t].stable
                          ELSE IF ~S.tracking /\ ~S.slewing THEN loc[t].stable + 1 ELSE 0
      <3>0. polls < 2 /\ Jump(t, "loop") /\ loc' = [loc EXCEPT ![t].stable = polls] /\ UNCHANGED op
        BY <1>13, <2>3 DEF AxisConfirming
      <3>1. polls \in 0 .. 2
        BY <2>1, <3>0 DEF Locals
      <3> HIDE DEF polls
      <3>2. [loc[t] EXCEPT !.stable = polls] \in Locals /\ [loc[t] EXCEPT !.stable = polls].polls < 2
        BY <2>1, <3>1 DEF Locals
      <3> QED BY <3>0, <3>2 DEF ThreadsOK, Jump, PCs
    <2> QED BY <2>2, <2>3
  <1> QED
    BY <1>1, <1>2, <1>3, <1>4, <1>5, <1>6, <1>7, <1>8, <1>9, <1>10, <1>11, <1>12, <1>13
    DEF MoverStep, Deadline, PollFails, AxisUnsafe, IssueCommand, SendTrackOff, AxisConfirming

\* Every step of a stop keeps the types of the threads.
LEMMA StopKeepsThreads ==
    ASSUME TypeOK, ThreadsOK, NEW t \in Threads, StopStep(t) \/ StopDeadline(t)
    PROVE  ThreadsOK'
  <1>1. ASSUME Continue(t), pc[t] \in {"begin", "record"}
        PROVE  ThreadsOK'
    <2>1. CASE t = Cls
      BY <1>1, <2>1 DEF Continue, ThreadsOK, Jump, PCs, StopOver
    <2>2. CASE t # Cls
      <3>1. End(t, "failed", FALSE) \/ End(t, "succeeded", FALSE)
        BY <1>1, <2>2 DEF Continue
      <3> QED BY <3>1, EndKeeps DEF HandleStates
    <2> QED BY <2>1, <2>2
  <1>2. CASE BeginStop(t)
    <2>1. CASE Continue(t)
      BY <1>1, <1>2, <2>1 DEF BeginStop, Continue
    <2>2. CASE ~Continue(t)
      <3>1. Jump(t, "abort") /\ loc' = [loc EXCEPT ![t].held = ActiveMotion] /\ UNCHANGED op
        BY <1>2, <2>2 DEF BeginStop
      <3>2. loc[t] \in Locals /\ loc[t].polls < 2
        BY <1>2 DEF BeginStop, ThreadsOK, StopOver
      <3>3. ActiveMotion \in 0 .. MaxMoves
        BY DEF ActiveMotion, TypeOK
      <3>4. /\ [loc[t] EXCEPT !.held = ActiveMotion] \in Locals
            /\ [loc[t] EXCEPT !.held = ActiveMotion].polls < 2
        BY <3>2, <3>3 DEF Locals
      <3> QED BY <3>1, <3>4 DEF ThreadsOK, Jump, PCs
    <2> QED BY <2>1, <2>2
  <1>3. CASE SendAbort(t) \/ SendStopTrackOff(t)
    <2>1. PICK l \in {"trackoff", "mark"} : Jump(t, l)
      BY <1>3 DEF SendAbort, SendStopTrackOff, SendStop
    <2>2. loc[t] \in Locals /\ loc[t].polls < 2 /\ UNCHANGED op
      BY <1>3 DEF SendAbort, SendStopTrackOff, SendStop, ThreadsOK, StopOver
    <2>3. CASE UNCHANGED loc
      BY <2>1, <2>2, <2>3 DEF ThreadsOK, Jump, PCs, StopOver
    <2>4. CASE loc' = [loc EXCEPT ![t].err = TRUE]
      <3>1. [loc[t] EXCEPT !.err = TRUE] \in Locals /\ [loc[t] EXCEPT !.err = TRUE].polls < 2
        BY <2>2 DEF Locals
      <3> QED BY <2>1, <2>2, <2>4, <3>1 DEF ThreadsOK, Jump, PCs
    <2> QED BY <1>3, <2>3, <2>4 DEF SendAbort, SendStopTrackOff, SendStop
  <1>4. CASE MarkRevision(t)
    BY <1>4, JumpKeeps DEF MarkRevision, PCs, StopOver
  <1>5. ASSUME pc[t] = "spoll", Jump(t, "record"), loc' = [loc EXCEPT ![t].err = TRUE], UNCHANGED op
        PROVE  ThreadsOK'
    <2>1. [loc[t] EXCEPT !.err = TRUE] \in Locals
      BY DEF ThreadsOK, Locals
    <2> QED BY <1>5, <2>1 DEF ThreadsOK, Jump, PCs, StopOver
  <1>6. CASE PollStopped(t)
    <2>1. loc[t] \in Locals /\ loc[t].polls < 2
      BY <1>6 DEF PollStopped, ThreadsOK, StopOver
    <2> DEFINE polls == IF StatusStopped THEN loc[t].polls + 1 ELSE 0
    <2>2. polls \in 0 .. 2
      BY <2>1 DEF Locals
    <2>3. [loc[t] EXCEPT !.polls = polls] \in Locals /\ [loc[t] EXCEPT !.polls = polls].polls = polls
      BY <2>1, <2>2 DEF Locals
    <2>4. CASE /\ loc' = [loc EXCEPT ![t].polls = polls]
               /\ Jump(t, IF polls = 2 THEN "record" ELSE "spoll")
      <3> HIDE DEF polls
      <3>1. CASE polls = 2
        BY <1>6, <2>3, <2>4, <3>1 DEF PollStopped, ThreadsOK, Jump, PCs, StopOver
      <3>2. CASE polls # 2
        <4>1. polls < 2
          BY <2>2, <3>2
        <4> QED BY <1>6, <2>3, <2>4, <3>2, <4>1 DEF PollStopped, ThreadsOK, Jump, PCs, StopOver
      <3> QED BY <3>1, <3>2
    <2> QED BY <1>5, <1>6, <2>4 DEF PollStopped
  <1>7. CASE RecordStop(t)
    BY <1>1, <1>7 DEF RecordStop
  <1>8. CASE StopDeadline(t)
    BY <1>5, <1>8 DEF StopDeadline
  <1> QED BY <1>2, <1>3, <1>4, <1>6, <1>7, <1>8 DEF StopStep

\* Every call, and the end of a worker, keeps the types of the threads.
LEMMA CallKeepsThreads ==
    ASSUME TypeOK, ThreadsOK, OneMoveAtATime,
           \/ \E t \in Workers : WorkerEnd(t)
           \/ \E a \in Apps : AppCall(a)
           \/ SupervisorTick \/ CloseBegins \/ CloseEnds
    PROVE  ThreadsOK'
  <1> USE ThreadFacts
  <1>0. NoLocals \in Locals /\ NoLocals.polls < 2
    BY ResultType
  <1>1. ASSUME NEW t \in Workers, WorkerEnd(t) PROVE ThreadsOK'
    <2>1. CASE WorkerFinishes(t)
      BY <1>1, <2>1, JumpKeeps DEF WorkerFinishes, PCs, StopOver
    <2>2. CASE WorkerSetsDone(t)
      BY <1>0, <1>1, <2>2 DEF WorkerSetsDone, ThreadsOK, Jump, PCs
    <2> QED BY <1>1, <2>1, <2>2 DEF WorkerEnd
  <1>2. ASSUME NEW a \in Apps, AppCall(a) PROVE ThreadsOK'
    <2>1. ASSUME NEW k \in Ops \cap MoveOps, StartMotion(a, k) PROVE ThreadsOK'
      <3> DEFINE w == Worker(motion + 1)
      <3>0. w \in Workers /\ pc[w] = "idle"
        <4>1. motion + 1 \in Handles /\ motion + 1 # motion
          <5>1. motion \in 0 .. MaxMoves /\ motion < MaxMoves
            BY <2>1 DEF StartMotion, TypeOK
          <5> QED BY <5>1 DEF Handles
        <4> QED BY <4>1 DEF OneMoveAtATime
      <3>1. pc' = [pc EXCEPT ![w] = "preflight"] /\ op' = [op EXCEPT ![w] = k]
        BY <2>1 DEF StartMotion, Jump
      <3> HIDE DEF w
      <3>2. k \in AllOps /\ loc' = [loc EXCEPT ![a] = NoLocals]
        BY <2>1 DEF StartMotion, MoveOps, AllOps
      <3>3. pc' \in [Threads -> PCs] /\ op' \in [Threads -> AllOps \cup {"none"}]
        BY <3>1, <3>2 DEF ThreadsOK, PCs
      <3>4. loc' \in [Threads -> Locals]
        BY <1>0, <3>2 DEF ThreadsOK
      <3>5. pc[a] = "idle" /\ pc[w] = "idle"
        BY <2>1, <3>0 DEF StartMotion
      <3>6. loc'[a] = NoLocals /\ \A t \in Threads \ {a} : loc'[t] = loc[t]
        BY <3>2 DEF ThreadsOK
      <3>7. \A t \in Threads \ {w} : pc'[t] = pc[t]
        BY <3>1 DEF ThreadsOK
      <3>8. \A t \in Threads : loc'[t].polls < 2 \/ pc'[t] \in StopOver
        BY <1>0, <3>0, <3>5, <3>6, <3>7 DEF ThreadsOK, StopOver
      <3>9. pc'[w] = "preflight"
        BY <3>0, <3>1 DEF ThreadsOK
      <3>10. \A t \in Threads : pc'[t] = "finish" => loc'[t].out # "unused"
        BY <3>5, <3>6, <3>7, <3>9 DEF ThreadsOK
      <3> QED BY <3>3, <3>4, <3>8, <3>10 DEF ThreadsOK
    <2>2. ASSUME NEW o \in Ops \ MoveOps, CallBlocking(a, o) PROVE ThreadsOK'
      <3>1. o \in AllOps
        OBVIOUS
      <3> QED BY <1>0, <1>2, <2>2, <3>1 DEF CallBlocking, ThreadsOK, Jump, PCs
    <2>3. CASE CallStop(a)
      BY <1>0, <1>2, <2>3 DEF CallStop, ThreadsOK, Jump, PCs
    <2>4. ASSUME NEW i \in Handles, CallHandleStop(a, i) PROVE ThreadsOK'
      <3>1. \A r \in Locals :
              [r EXCEPT !.own = i] \in Locals /\ [r EXCEPT !.own = i].polls = r.polls
        BY DEF Locals, Handles
      <3>2. [NoLocals EXCEPT !.own = i] \in Locals /\ [NoLocals EXCEPT !.own = i].polls < 2
        BY <1>0, <3>1
      <3> QED BY <1>2, <2>4, <3>2 DEF CallHandleStop, ThreadsOK, Jump, PCs
    <2> QED BY <1>2, <2>1, <2>2, <2>3, <2>4 DEF AppCall
  <1>3. CASE SupervisorTick
    <2>1. CASE UNCHANGED pc
      BY <1>3, <2>1 DEF SupervisorTick, ThreadsOK
    <2>2. CASE Jump(Sup, "begin")
      BY <1>3, <2>2 DEF SupervisorTick, ThreadsOK, Jump, PCs, StopOver
    <2> QED BY <1>3, <2>1, <2>2 DEF SupervisorTick
  <1>4. CASE CloseBegins \/ CloseEnds
    BY <1>4 DEF CloseBegins, CloseEnds, ThreadsOK, Jump, PCs, StopOver
  <1> QED BY <1>1, <1>2, <1>3, <1>4

-----------------------------------------------------------------------------
(* What the steps of a thread leave alone.                                 *)

\* A thread that is not idle goes to another place.
Moves(t) == pc[t] # "idle" /\ \E l \in PCs : pc' = [pc EXCEPT ![t] = l]

\* A thread sends at most one command, and touches neither the device nor
\* what the reader has recorded.
Sends ==
    /\ UNCHANGED <<mount, toCli, link, cache, coordOk, faults, drops>>
    /\ toDev' = toDev \/ \E c \in Commands : toDev' = Append(toDev, c)
    /\ fresh' \in [Threads -> BOOLEAN]
    /\ authority' \in BOOLEAN

\* The frame of every step of a mover: it may mark its handle late, no more.
LEMMA MoverFrame ==
    ASSUME TypeOK, NEW t \in Movers, MoverStep(t) \/ Deadline(t)
    PROVE  /\ Moves(t) /\ Sends
           /\ UNCHANGED <<motion, calls>>
           /\ \/ UNCHANGED handle
              \/ /\ motion # 0
                 /\ \E b \in BOOLEAN : handle' = [handle EXCEPT ![motion].late = b]
  <1> DEFINE Goal ==
        /\ Moves(t) /\ Sends
        /\ UNCHANGED <<motion, calls>>
        /\ \/ UNCHANGED handle
           \/ /\ motion # 0
              /\ \E b \in BOOLEAN : handle' = [handle EXCEPT ![motion].late = b]
  <1> SUFFICES Goal
    OBVIOUS
  <1>1. /\ fresh \in [Threads -> BOOLEAN] /\ authority \in BOOLEAN
        /\ op \in [Threads -> AllOps \cup {"none"}]
        /\ handle \in [Handles -> HandleRecords]
    BY DEF TypeOK
  <1>2. Take(t) => fresh' \in [Threads -> BOOLEAN]
    BY <1>1 DEF Take
  <1>3. AuthorityRead \in BOOLEAN
    BY DEF AuthorityRead
  <1>4. \A out, conf : End(t, out, conf) => \E l \in PCs : pc' = [pc EXCEPT ![t] = l]
    BY DEF End, Jump, PCs
  <1>5. Fail(t) => \E l \in PCs : pc' = [pc EXCEPT ![t] = l]
    BY DEF Fail, Jump, PCs
  <1>6. \A l \in PCs : Jump(t, l) => \E k \in PCs : pc' = [pc EXCEPT ![t] = k]
    BY DEF Jump
  <1>7. CASE PreflightHome(t) \/ PreflightPark(t) \/ PreflightUnpark(t) \/ PreflightAxis(t)
    BY <1>1, <1>2, <1>3, <1>4, <1>6, <1>7
    DEF PreflightHome, PreflightPark, PreflightUnpark, PreflightAxis, Moves, Sends, PCs,
        wire, client, budgets
  <1>8. CASE CheckToken(t) \/ LoopTop(t) \/ AwaitCoordSet(t)
    BY <1>1, <1>2, <1>4, <1>6, <1>8
    DEF CheckToken, LoopTop, AwaitCoordSet, Moves, Sends, PCs, wire, client, budgets
  <1>9. CASE SendCoordSet(t) \/ SendTrackOff(t)
    BY <1>1, <1>2, <1>4, <1>5, <1>6, <1>9
    DEF SendCoordSet, SendTrackOff, Moves, Sends, PCs, Commands, client, budgets
  <1>10. CASE IssueCommand(t)
    <2>1. Moves(t) /\ UNCHANGED <<motion, calls>>
      BY <1>5, <1>6, <1>10 DEF IssueCommand, Moves, PCs, budgets
    <2>2. CommandOf(op[t]) \in Commands
      BY DEF CommandOf, Commands
    <2>3. Sends
      BY <1>1, <1>10, <2>2 DEF IssueCommand, Sends, budgets
    <2>4. \/ UNCHANGED handle
          \/ /\ motion # 0
             /\ \E b \in BOOLEAN : handle' = [handle EXCEPT ![motion].late = b]
      <3>1. CASE CommandOf(op[t]) \in MoveCommands /\ motion # 0
        <4>1. motion \in Handles
          BY <3>1 DEF TypeOK, Handles
        <4>2. handle[motion].late \/ handle[motion].stopReq \in BOOLEAN
          BY <1>1, <4>1 DEF HandleRecords
        <4>3. UNCHANGED handle \/ handle' = [handle EXCEPT ![motion].late =
                                              handle[motion].late \/ handle[motion].stopReq]
          BY <1>10, <3>1 DEF IssueCommand
        <4> QED BY <3>1, <4>2, <4>3
      <3>2. CASE ~(CommandOf(op[t]) \in MoveCommands /\ motion # 0)
        BY <1>10, <3>2 DEF IssueCommand
      <3> QED BY <3>1, <3>2
    <2> QED BY <2>1, <2>2, <2>3, <2>4
  <1>11. CASE PollFails(t) \/ PollGoesOn(t) \/ PollConfirms(t) \/ PollUnparked(t)
    <2>1. pc[t] = "poll" /\ fresh' \in [Threads -> BOOLEAN]
      BY <1>2, <1>11 DEF PollFails, PollGoesOn, PollConfirms, PollUnparked, PollGood, PollReads
    <2>2. \E l \in PCs : pc' = [pc EXCEPT ![t] = l]
      BY <1>4, <1>5, <1>6, <1>11
      DEF PollFails, PollGoesOn, PollConfirms, PollUnparked, PCs
    <2> QED BY <1>1, <1>11, <2>1, <2>2
          DEF PollFails, PollGoesOn, PollConfirms, PollUnparked, Moves, Sends, wire, budgets
  <1>12. CASE PollSlice(t) \/ Deadline(t)
    BY <1>1, <1>5, <1>6, <1>12
    DEF PollSlice, Deadline, Moves, Sends, PCs, wire, client, budgets
  <1>13. CASE AxisUnsafe(t) \/ AxisMoving(t) \/ AxisConfirming(t)
    <2>1. pc[t] = "poll" /\ fresh' \in [Threads -> BOOLEAN] /\ authority' \in BOOLEAN
      BY <1>2, <1>3, <1>13 DEF AxisUnsafe, AxisMoving, AxisConfirming, AxisObserves
    <2>2. \E l \in PCs : pc' = [pc EXCEPT ![t] = l]
      BY <1>4, <1>5, <1>6, <1>13 DEF AxisUnsafe, AxisMoving, AxisConfirming, PCs
    <2> QED BY <1>13, <2>1, <2>2
          DEF AxisUnsafe, AxisMoving, AxisConfirming, Moves, Sends, wire, budgets
  <1> QED
    BY <1>7, <1>8, <1>9, <1>10, <1>11, <1>12, <1>13 DEF MoverStep

\* The frame of every step of a stop: it may request the stop of the active
\* move, or record its result for the two handles it knows.
LEMMA StopFrame ==
    ASSUME TypeOK, NEW t \in Threads, StopStep(t) \/ StopDeadline(t)
    PROVE  /\ Moves(t) /\ Sends
           /\ UNCHANGED <<motion, calls>>
           /\ \/ UNCHANGED handle
              \/ /\ ActiveMotion # 0
                 /\ handle' = [handle EXCEPT ![ActiveMotion].stopReq = TRUE]
              \/ \E r \in StopResults \ {"none"}, I \in SUBSET Handles :
                    handle' = [i \in Handles |-> IF i \in I THEN Recorded(handle[i], r)
                                                 ELSE handle[i]]
  <1>1. fresh \in [Threads -> BOOLEAN] /\ authority \in BOOLEAN
    BY DEF TypeOK
  <1>2. Take(t) => fresh' \in [Threads -> BOOLEAN]
    BY <1>1 DEF Take
  <1>3. Continue(t) => authority' \in BOOLEAN /\ \E l \in PCs : pc' = [pc EXCEPT ![t] = l]
    BY <1>1 DEF Continue, End, Jump, PCs
  <1>4. CASE BeginStop(t)
    BY <1>1, <1>3, <1>4 DEF BeginStop, Moves, Sends, Jump, PCs, wire, budgets
  <1>5. CASE SendAbort(t) \/ SendStopTrackOff(t)
    BY <1>1, <1>5 DEF SendAbort, SendStopTrackOff, SendStop, Moves, Sends, Jump, PCs, Commands,
                      client, budgets
  <1>6. CASE MarkRevision(t) \/ PollStopped(t)
    BY <1>1, <1>2, <1>6 DEF MarkRevision, PollStopped, Moves, Sends, Jump, PCs, wire, budgets
  <1>7. CASE StopDeadline(t)
    BY <1>1, <1>7 DEF StopDeadline, Moves, Sends, Jump, PCs, wire, client, budgets
  <1>8. CASE RecordStop(t)
    <2>1. Moves(t) /\ Sends /\ UNCHANGED <<motion, calls>>
      BY <1>1, <1>3, <1>8 DEF RecordStop, Moves, Sends, wire, budgets
    <2>2. ResultOf(t) \in StopResults \ {"none"}
      BY DEF ResultOf, StopResults
    <2> DEFINE I == {loc[t].held, loc[t].own} \cap Handles
    <2>3. handle' = [i \in Handles |-> IF i \in I THEN Recorded(handle[i], ResultOf(t))
                                       ELSE handle[i]]
      BY <1>8 DEF RecordStop
    <2> HIDE DEF I
    <2>4. \E J \in SUBSET Handles : J = I
      BY DEF I
    <2> QED BY <2>1, <2>2, <2>3, <2>4
  <1> QED BY <1>4, <1>5, <1>6, <1>7, <1>8 DEF StopStep

-----------------------------------------------------------------------------
(* The handles.                                                            *)

\* The types of handle and motion, the two invariants of the handles, and
\* that no handle beyond client._motion is done.
HandlesOK ==
    /\ handle \in [Handles -> HandleRecords]
    /\ motion \in 0 .. MaxMoves
    /\ OneMoveAtATime
    /\ StopResultDelivered
    /\ \A i \in Handles : handle[i].done => i <= motion

\* A change of the handles that keeps the outcome of every one of them.
LEMMA SameOutcomes ==
    ASSUME HandlesOK, pc \in [Threads -> PCs], NEW t \in Threads, Moves(t),
           UNCHANGED motion,
           handle' \in [Handles -> HandleRecords],
           \A i \in Handles : /\ handle'[i].state = handle[i].state
                              /\ handle'[i].done = handle[i].done
                              /\ \/ /\ handle'[i].stopResult = handle[i].stopResult
                                    /\ handle'[i].errStop = handle[i].errStop
                                 \/ handle'[i].state = "stopped" => handle'[i].errStop # "none"
    PROVE  HandlesOK'
  <1>1. \A i \in Handles : pc'[Worker(i)] # "idle" => pc[Worker(i)] # "idle"
    <2> SUFFICES ASSUME NEW i \in Handles, pc[Worker(i)] = "idle"
                 PROVE  pc'[Worker(i)] = "idle"
      OBVIOUS
    <2>1. Worker(i) \in Threads /\ Worker(i) # t
      BY ThreadFacts DEF Moves
    <2> QED BY <2>1 DEF Moves
  <1>2. OneMoveAtATime'
    BY <1>1 DEF HandlesOK, OneMoveAtATime, Underway
  <1>3. StopResultDelivered'
    BY DEF HandlesOK, StopResultDelivered
  <1> QED BY <1>2, <1>3 DEF HandlesOK

\* The steps of the movers and of the stops keep the invariants of the handles.
LEMMA ThreadsKeepHandles ==
    ASSUME TypeOK, HandlesOK,
           \/ \E t \in Movers : MoverStep(t) \/ Deadline(t)
           \/ \E t \in Threads : StopStep(t) \/ StopDeadline(t)
    PROVE  HandlesOK'
  <1> pc \in [Threads -> PCs] /\ handle \in [Handles -> HandleRecords] /\ motion \in 0 .. MaxMoves
    BY DEF TypeOK
  <1>1. ASSUME NEW t \in Movers, MoverStep(t) \/ Deadline(t) PROVE HandlesOK'
    <2>1. t \in Threads /\ Moves(t) /\ UNCHANGED motion
      BY <1>1, MoverFrame, ThreadFacts
    <2>2. CASE UNCHANGED handle
      BY <2>1, <2>2, SameOutcomes
    <2>3. ASSUME NEW b \in BOOLEAN, motion # 0, handle' = [handle EXCEPT ![motion].late = b]
          PROVE  HandlesOK'
      <3>1. motion \in Handles
        BY <2>3 DEF Handles
      <3>2. handle' \in [Handles -> HandleRecords]
        BY <2>3, <3>1 DEF HandleRecords
      <3>3. \A i \in Handles : /\ handle'[i].state = handle[i].state
                               /\ handle'[i].done = handle[i].done
                               /\ handle'[i].stopResult = handle[i].stopResult
                               /\ handle'[i].errStop = handle[i].errStop
        BY <2>3, <3>1 DEF HandleRecords
      <3> QED BY <2>1, <3>2, <3>3, SameOutcomes
    <2> QED BY <1>1, <2>2, <2>3, MoverFrame
  <1>2. ASSUME NEW t \in Threads, StopStep(t) \/ StopDeadline(t) PROVE HandlesOK'
    <2>1. Moves(t) /\ UNCHANGED motion
      BY <1>2, StopFrame
    <2>2. CASE UNCHANGED handle
      BY <2>1, <2>2, SameOutcomes
    <2>3. CASE ActiveMotion # 0 /\ handle' = [handle EXCEPT ![ActiveMotion].stopReq = TRUE]
      <3>1. ActiveMotion \in Handles
        BY <2>3 DEF ActiveMotion, Handles
      <3>2. handle' \in [Handles -> HandleRecords]
        BY <2>3, <3>1 DEF HandleRecords
      <3>3. \A i \in Handles : /\ handle'[i].state = handle[i].state
                               /\ handle'[i].done = handle[i].done
                               /\ handle'[i].stopResult = handle[i].stopResult
                               /\ handle'[i].errStop = handle[i].errStop
        BY <2>3, <3>1 DEF HandleRecords
      <3> QED BY <2>1, <3>2, <3>3, SameOutcomes
    <2>4. ASSUME NEW r \in StopResults \ {"none"}, NEW I \in SUBSET Handles,
                 handle' = [i \in Handles |-> IF i \in I THEN Recorded(handle[i], r)
                                              ELSE handle[i]]
          PROVE  HandlesOK'
      <3>1. \A h \in HandleRecords :
              /\ Recorded(h, r) \in HandleRecords
              /\ Recorded(h, r).state = h.state /\ Recorded(h, r).done = h.done
              /\ h.state = "stopped" => Recorded(h, r).errStop # "none"
        BY DEF Recorded, HandleRecords
      <3>2. handle' \in [Handles -> HandleRecords]
        BY <2>4, <3>1
      <3>3. \A i \in Handles : /\ handle'[i].state = handle[i].state
                               /\ handle'[i].done = handle[i].done
                               /\ \/ /\ handle'[i].stopResult = handle[i].stopResult
                                     /\ handle'[i].errStop = handle[i].errStop
                                  \/ handle'[i].state = "stopped" => handle'[i].errStop # "none"
        BY <2>4, <3>1
      <3> QED BY <2>1, <3>2, <3>3, SameOutcomes
    <2> QED BY <1>2, <2>2, <2>3, <2>4, StopFrame
  <1> QED BY <1>1, <1>2

\* What MotionHandle._work makes of its handle.
LEMMA FinishedRecord ==
    ASSUME NEW h \in HandleRecords, NEW out \in HandleStates, NEW conf \in BOOLEAN
    PROVE  LET f == Finished(h, out, conf)
           IN  /\ f \in HandleRecords /\ f.state = out /\ f.done = h.done
               /\ f.stopResult = h.stopResult
               /\ f.state = "stopped" => f.errStop = f.stopResult
  <1>1. h.stopResult \in StopResults /\ h.errStop \in StopResults
    BY DEF HandleRecords
  <1>2. PICK err \in StopResults :
          err = IF out = "stopped" THEN h.stopResult ELSE h.errStop
    BY <1>1
  <1> DEFINE f == [h EXCEPT !.state = out, !.conf = conf, !.errStop = err]
  <1>3. /\ f \in HandleRecords /\ f.state = out /\ f.done = h.done
        /\ f.stopResult = h.stopResult /\ f.errStop = err
    BY DEF HandleRecords
  <1>4. Finished(h, out, conf) = f
    BY <1>2 DEF Finished
  <1> HIDE DEF f
  <1> QED BY <1>2, <1>3, <1>4

\* Calls, and the end of a worker, keep the invariants of the handles.
LEMMA CallsKeepHandles ==
    ASSUME TypeOK, ThreadsOK, HandlesOK,
           \/ \E t \in Workers : WorkerEnd(t)
           \/ \E a \in Apps : AppCall(a)
           \/ SupervisorTick \/ CloseBegins \/ CloseEnds
    PROVE  HandlesOK'
  <1> /\ pc \in [Threads -> PCs] /\ handle \in [Handles -> HandleRecords]
      /\ motion \in 0 .. MaxMoves
    BY DEF TypeOK
  <1>0. ASSUME UNCHANGED <<handle, motion>>,
               \A i \in Handles : pc'[Worker(i)] # "idle" => pc[Worker(i)] # "idle"
        PROVE  HandlesOK'
    BY <1>0 DEF HandlesOK, OneMoveAtATime, StopResultDelivered, Underway
  <1>1. ASSUME NEW t \in Workers, WorkerFinishes(t) PROVE HandlesOK'
    <2> DEFINE i == t[2]
    <2>1. i \in Handles /\ t = Worker(i) /\ t \in Threads
      BY ThreadFacts
    <2>2. loc[t].out \in HandleStates /\ loc[t].out # "unused" /\ loc[t].conf \in BOOLEAN
      BY <1>1, <2>1 DEF WorkerFinishes, ThreadsOK, Locals
    <2>3. Moves(t) /\ UNCHANGED motion
      BY <1>1 DEF WorkerFinishes, Moves, Jump, PCs
    <2> DEFINE h == Finished(handle[i], loc[t].out, loc[t].conf)
    <2>4. /\ h \in HandleRecords /\ h.state = loc[t].out /\ h.done = handle[i].done
          /\ h.stopResult = handle[i].stopResult
          /\ h.state = "stopped" => h.errStop = h.stopResult
      BY <2>1, <2>2, FinishedRecord
    <2>5. handle' = [handle EXCEPT ![i] = h]
      BY <1>1 DEF WorkerFinishes
    <2>6. Underway(i)
      BY <1>1, <2>1 DEF WorkerFinishes, HandlesOK, OneMoveAtATime
    <2> HIDE DEF h, i
    <2>7. /\ handle' \in [Handles -> HandleRecords] /\ handle'[i] = h
          /\ \A j \in Handles : j # i => handle'[j] = handle[j]
      BY <2>1, <2>4, <2>5
    <2>8. \A j \in Handles : Underway(j)' <=> Underway(j)
      BY <2>2, <2>4, <2>6, <2>7 DEF Underway
    <2>9. \A j \in Handles : pc'[Worker(j)] # "idle" => pc[Worker(j)] # "idle"
      <3> SUFFICES ASSUME NEW j \in Handles, pc[Worker(j)] = "idle"
                   PROVE  pc'[Worker(j)] = "idle"
        OBVIOUS
      <3>1. Worker(j) \in Threads /\ Worker(j) # t
        BY <2>3, ThreadFacts DEF Moves
      <3> QED BY <2>3, <3>1 DEF Moves
    <2>10. OneMoveAtATime'
      BY <2>3, <2>8, <2>9 DEF HandlesOK, OneMoveAtATime
    <2>11. StopResultDelivered'
      BY <2>4, <2>7 DEF HandlesOK, StopResultDelivered
    <2> QED BY <2>3, <2>4, <2>7, <2>10, <2>11 DEF HandlesOK
  <1>2. ASSUME NEW t \in Workers, WorkerSetsDone(t) PROVE HandlesOK'
    <2> DEFINE i == t[2]
    <2>1. i \in Handles /\ t = Worker(i) /\ t \in Threads
      BY ThreadFacts
    <2>2. Underway(i) /\ motion = i
      BY <1>2, <2>1 DEF WorkerSetsDone, HandlesOK, OneMoveAtATime
    <2> DEFINE h == [handle[i] EXCEPT !.done = TRUE]
    <2>3. /\ h \in HandleRecords /\ h.state = handle[i].state /\ h.done
          /\ h.stopResult = handle[i].stopResult /\ h.errStop = handle[i].errStop
      BY <2>1 DEF HandleRecords
    <2>4. /\ handle' = [handle EXCEPT ![i] = h] /\ motion' = motion
          /\ pc' = [pc EXCEPT ![t] = "idle"]
      BY <1>2 DEF WorkerSetsDone, Jump
    <2> HIDE DEF h, i
    <2>5. /\ handle' \in [Handles -> HandleRecords] /\ handle'[i] = h
          /\ \A j \in Handles : j # i => handle'[j] = handle[j]
      BY <2>1, <2>3, <2>4
    <2>6. \A j \in Handles : j # i => pc'[Worker(j)] = pc[Worker(j)]
      BY <2>1, <2>4, ThreadFacts
    <2>7. pc'[Worker(i)] = "idle"
      BY <2>1, <2>4
    <2>8. OneMoveAtATime'
      BY <2>3, <2>4, <2>5, <2>6, <2>7 DEF HandlesOK, OneMoveAtATime, Underway
    <2>9. StopResultDelivered'
      BY <2>3, <2>5 DEF HandlesOK, StopResultDelivered
    <2> QED BY <2>2, <2>4, <2>5, <2>8, <2>9 DEF HandlesOK
  <1>3. ASSUME NEW a \in Apps, NEW k \in Ops \cap MoveOps, StartMotion(a, k) PROVE HandlesOK'
    <2> DEFINE i == motion + 1
               h == NewHandle(k)
    <2>1. i \in Handles /\ Worker(i) \in Threads
      <3>1. motion < MaxMoves
        BY <1>3 DEF StartMotion
      <3> QED BY <3>1, ThreadFacts DEF Handles
    <2>2. motion' = i /\ handle' = [handle EXCEPT ![i] = h] /\ pc' = [pc EXCEPT ![Worker(i)] = "preflight"]
      BY <1>3 DEF StartMotion, Jump
    <2>3. h \in HandleRecords /\ h.state = "running" /\ ~h.done /\ h.stopResult = "none"
      <3>1. \A r \in HandleRecords :
              LET n == [r EXCEPT !.kind = k, !.state = "running"]
              IN  /\ n \in HandleRecords /\ n.state = "running"
                  /\ n.done = r.done /\ n.stopResult = r.stopResult
        BY DEF HandleRecords, HandleStates
      <3>2. NoHandle \in HandleRecords /\ ~NoHandle.done /\ NoHandle.stopResult = "none"
        BY DEF NoHandle, HandleRecords, HandleStates, StopResults
      <3> QED BY <3>1, <3>2 DEF NewHandle
    <2>4. \A j \in Handles : ~Underway(j)
      <3>1. motion # 0 => handle[motion].done
        BY <1>3 DEF StartMotion, ActiveMotion
      <3> QED BY <3>1 DEF HandlesOK, OneMoveAtATime, Underway, Handles
    <2> HIDE DEF h
    <2>5. /\ handle' \in [Handles -> HandleRecords] /\ handle'[i] = h
          /\ \A j \in Handles : j # i => handle'[j] = handle[j]
      BY <2>1, <2>2, <2>3
    <2>6. \A j \in Handles : j # i => pc'[Worker(j)] = pc[Worker(j)]
      BY <2>1, <2>2, ThreadFacts
    <2>7. OneMoveAtATime'
      BY <2>2, <2>3, <2>4, <2>5, <2>6 DEF HandlesOK, OneMoveAtATime, Underway
    <2>8. StopResultDelivered'
      BY <2>3, <2>5 DEF HandlesOK, StopResultDelivered
    <2>9. \A j \in Handles : handle'[j].done => j <= motion'
      BY <2>1, <2>2, <2>3, <2>5 DEF HandlesOK, Handles
    <2>10. motion' \in 0 .. MaxMoves
      BY <2>1, <2>2 DEF Handles
    <2> QED BY <2>5, <2>7, <2>8, <2>9, <2>10 DEF HandlesOK
  <1>4. ASSUME NEW a \in Apps, NEW o, CallBlocking(a, o) PROVE HandlesOK'
    <2>1. \A j \in Handles : pc'[Worker(j)] = pc[Worker(j)]
      BY <1>4, ThreadFacts DEF CallBlocking, Jump
    <2> QED BY <1>0, <1>4, <2>1 DEF CallBlocking, client
  <1>5. ASSUME NEW a \in Apps, CallStop(a) PROVE HandlesOK'
    <2>1. \A j \in Handles : pc'[Worker(j)] = pc[Worker(j)]
      BY <1>5, ThreadFacts DEF CallStop, Jump
    <2> QED BY <1>0, <1>5, <2>1 DEF CallStop, client
  <1>6. ASSUME NEW a \in Apps, NEW i \in Handles, CallHandleStop(a, i) PROVE HandlesOK'
    <2>1. \A j \in Handles : pc'[Worker(j)] = pc[Worker(j)]
      BY <1>6, ThreadFacts DEF CallHandleStop, Jump
    <2>2. handle' = [handle EXCEPT ![i].stopReq = TRUE] /\ UNCHANGED motion
      BY <1>6 DEF CallHandleStop
    <2> DEFINE h == [handle[i] EXCEPT !.stopReq = TRUE]
    <2>3. /\ h \in HandleRecords /\ h.state = handle[i].state /\ h.done = handle[i].done
          /\ h.stopResult = handle[i].stopResult /\ h.errStop = handle[i].errStop
      BY DEF HandleRecords
    <2>4. handle' = [handle EXCEPT ![i] = h]
      BY <2>2
    <2> HIDE DEF h
    <2>5. /\ handle' \in [Handles -> HandleRecords] /\ handle'[i] = h
          /\ \A j \in Handles : j # i => handle'[j] = handle[j]
      BY <2>3, <2>4
    <2>6. OneMoveAtATime'
      BY <2>1, <2>2, <2>3, <2>5 DEF HandlesOK, OneMoveAtATime, Underway
    <2>7. StopResultDelivered'
      BY <2>3, <2>5 DEF HandlesOK, StopResultDelivered
    <2> QED BY <2>2, <2>3, <2>5, <2>6, <2>7 DEF HandlesOK
  <1>7. CASE SupervisorTick \/ CloseBegins \/ CloseEnds
    <2>1. \A j \in Handles : pc'[Worker(j)] = pc[Worker(j)]
      BY <1>7, ThreadFacts DEF SupervisorTick, CloseBegins, CloseEnds, Jump
    <2> QED BY <1>0, <1>7, <2>1 DEF SupervisorTick, CloseBegins, CloseEnds, client
  <1> QED BY <1>1, <1>2, <1>3, <1>4, <1>5, <1>6, <1>7 DEF WorkerEnd, AppCall

-----------------------------------------------------------------------------
(* Everything else: the device, the wire and what the reader recorded.     *)

DataOK ==
    /\ mount \in Mounts
    /\ toDev \in Seq(Commands) /\ toCli \in Seq(Updates)
    /\ link \in {"open", "failed", "closed"}
    /\ cache \in Updates /\ coordOk \in BOOLEAN
    /\ fresh \in [Threads -> BOOLEAN]
    /\ authority \in BOOLEAN
    /\ calls \in [Threads -> Nat]
    /\ faults \in 0 .. MaxFaults /\ drops \in 0 .. MaxDrops

\* Steps of threads keep the types of the rest.
LEMMA ThreadsKeepData ==
    ASSUME TypeOK, DataOK,
           \/ \E t \in Movers : MoverStep(t) \/ Deadline(t)
           \/ \E t \in Threads : StopStep(t) \/ StopDeadline(t)
    PROVE  DataOK'
  <1>1. Sends /\ UNCHANGED calls
    BY MoverFrame, StopFrame
  <1>2. \A c \in Commands : Append(toDev, c) \in Seq(Commands)
    BY DEF DataOK
  <1> QED BY <1>1, <1>2 DEF Sends, DataOK

\* Calls and the end of a worker keep the types of the rest.
LEMMA CallsKeepData ==
    ASSUME DataOK,
           \/ \E t \in Workers : WorkerEnd(t)
           \/ \E a \in Apps : AppCall(a)
           \/ SupervisorTick \/ CloseBegins \/ CloseEnds
    PROVE  DataOK'
  <1> USE ThreadFacts
  <1>1. CASE \E t \in Workers : WorkerEnd(t)
    BY <1>1 DEF WorkerEnd, WorkerFinishes, WorkerSetsDone, DataOK, wire, budgets
  <1>2. ASSUME NEW a \in Apps, AppCall(a) PROVE DataOK'
    <2>1. \A k : StartMotion(a, k) => DataOK'
      BY DEF StartMotion, DataOK, wire, budgets
    <2>2. ASSUME calls' = [calls EXCEPT ![a] = @ + 1] PROVE calls' \in [Threads -> Nat]
      BY <2>2 DEF DataOK
    <2>3. \A o : CallBlocking(a, o) => DataOK'
      BY <2>2 DEF CallBlocking, DataOK, wire, client
    <2>4. CallStop(a) => DataOK'
      BY <2>2 DEF CallStop, DataOK, wire, client
    <2>5. \A i : CallHandleStop(a, i) => DataOK'
      BY <2>2 DEF CallHandleStop, DataOK, wire
    <2> QED BY <1>2, <2>1, <2>3, <2>4, <2>5 DEF AppCall
  <1>3. CASE SupervisorTick
    <2>1. authority' \in BOOLEAN
      BY <1>3 DEF SupervisorTick, AuthorityRead
    <2>2. calls' \in [Threads -> Nat]
      BY <1>3 DEF SupervisorTick, DataOK
    <2> QED BY <1>3, <2>1, <2>2 DEF SupervisorTick, DataOK, wire
  <1>4. CASE CloseBegins
    BY <1>4 DEF CloseBegins, DataOK, wire, client, budgets
  <1>5. CASE CloseEnds
    <2>1. <<>> \in Seq(Updates)
      OBVIOUS
    <2> QED BY <1>5, <2>1 DEF CloseEnds, DataOK, budgets
  <1> QED BY <1>1, <1>2, <1>3, <1>4, <1>5

\* Steps of the device, the connection and the reader keep the types of the
\* rest and touch no thread and no handle.
LEMMA WireSteps ==
    ASSUME DataOK, pc \in [Threads -> PCs], Device \/ ConnectionDrops \/ ReaderRecords
    PROVE  DataOK' /\ UNCHANGED <<pc, op, loc, handle, motion>>
  <1>1. UNCHANGED <<pc, op, loc, handle, motion>>
    BY DEF Device, DeviceHandlesWrite, DeviceTick, DevicePublishes, DeviceFaults,
           ConnectionDrops, ReaderRecords, threads, client
  <1> SUFFICES DataOK'
    BY <1>1
  <1>2. \A u \in Updates : Append(toCli, u) \in Seq(Updates)
    BY AppendProperties DEF DataOK
  <1>3. CASE DeviceHandlesWrite
    <2>1. Head(toDev) \in Commands /\ Tail(toDev) \in Seq(Commands)
      BY <1>3 DEF DeviceHandlesWrite, DataOK
    <2>2. mount' \in Mounts
      BY <1>3, <2>1, MountTypes DEF DeviceHandlesWrite, DataOK
    <2>3. toCli' \in Seq(Updates)
      <3>1. StatusOf(mount', Head(toDev) = "SLEW") \in Updates
        BY <2>2, MountTypes
      <3> QED BY <1>2, <1>3, <3>1 DEF DeviceHandlesWrite, Publish, DataOK
    <2> QED BY <1>3, <2>1, <2>2, <2>3 DEF DeviceHandlesWrite, DataOK, client, budgets
  <1>4. CASE DeviceTick
    <2>1. mount' \in Mounts
      BY <1>4, MountTypes DEF DeviceTick, DataOK
    <2>2. toCli' \in Seq(Updates)
      <3>1. StatusOf(mount', FALSE) \in Updates
        BY <2>1, MountTypes
      <3> QED BY <1>2, <1>4, <3>1 DEF DeviceTick, Publish, DataOK
    <2> QED BY <1>4, <2>1, <2>2 DEF DeviceTick, DataOK, client, budgets
  <1>5. CASE DevicePublishes
    <2>1. toCli' \in Seq(Updates)
      <3>1. StatusOf(mount, FALSE) \in Updates
        BY MountTypes DEF DataOK
      <3> QED BY <1>2, <1>5, <3>1 DEF DevicePublishes, Publish, DataOK
    <2> QED BY <1>5, <2>1 DEF DevicePublishes, DataOK, client, budgets
  <1>6. ASSUME NEW f \in Faults \ {"none"}, DeviceFaults(f) PROVE DataOK'
    <2>1. mount' \in Mounts
      BY <1>6, MountTypes DEF DeviceFaults, DataOK
    <2>2. toCli' \in Seq(Updates)
      <3>1. StatusOf(mount', FALSE) \in Updates
        BY <2>1, MountTypes
      <3> QED BY <1>2, <1>6, <3>1 DEF DeviceFaults, Publish, DataOK
    <2>3. faults' \in 0 .. MaxFaults
      BY <1>6 DEF DeviceFaults, DataOK
    <2> QED BY <1>6, <2>1, <2>2, <2>3 DEF DeviceFaults, DataOK, client
  <1>7. CASE ConnectionDrops
    <2>1. <<>> \in Seq(Commands) /\ <<>> \in Seq(Updates)
      OBVIOUS
    <2>2. drops' \in 0 .. MaxDrops
      BY <1>7 DEF ConnectionDrops, DataOK
    <2> QED BY <1>7, <2>1, <2>2 DEF ConnectionDrops, DataOK
  <1>8. CASE ReaderRecords
    <2>1. Head(toCli) \in Updates /\ Tail(toCli) \in Seq(Updates)
      BY <1>8 DEF ReaderRecords, DataOK
    <2>2. coordOk' \in BOOLEAN
      BY <1>8, <2>1 DEF ReaderRecords, DataOK, Updates
    <2>3. fresh' \in [Threads -> BOOLEAN]
      BY <1>8 DEF ReaderRecords
    <2> QED BY <1>8, <2>1, <2>2, <2>3 DEF ReaderRecords, DataOK, budgets
  <1> QED BY <1>3, <1>4, <1>5, <1>6, <1>7, <1>8 DEF Device

-----------------------------------------------------------------------------
(* The theorems.                                                           *)

\* The inductive invariant.
IInv == DataOK /\ ThreadsOK /\ HandlesOK

\* It contains the types.
LEMMA IInvTypes == IInv => TypeOK
  BY DEF IInv, DataOK, ThreadsOK, HandlesOK, TypeOK

\* It holds initially.
LEMMA InitIInv == Init => IInv
  <1> SUFFICES ASSUME Init PROVE IInv
    OBVIOUS
  <1>1. mount \in Mounts
    BY DEF Init, InitialMounts
  <1>2. DataOK
    <2>1. StatusOf(mount, FALSE) \in Updates
      BY <1>1, MountTypes
    <2>2. <<>> \in Seq(Commands) /\ <<>> \in Seq(Updates)
      OBVIOUS
    <2>3. coordOk \in BOOLEAN
      BY DEF Init
    <2>4. fresh \in [Threads -> BOOLEAN] /\ calls \in [Threads -> Nat] /\ authority \in BOOLEAN
      BY DEF Init
    <2>5. faults \in 0 .. MaxFaults /\ drops \in 0 .. MaxDrops
      BY DEF Init
    <2>6. link = "open" /\ cache \in Updates /\ toDev \in Seq(Commands) /\ toCli \in Seq(Updates)
      BY <2>1, <2>2 DEF Init
    <2> QED BY <1>1, <2>3, <2>4, <2>5, <2>6 DEF DataOK
  <1>3. ThreadsOK
    BY ResultType DEF Init, ThreadsOK, PCs
  <1>4. HandlesOK
    <2>1. NoHandle \in HandleRecords /\ NoHandle.state = "unused" /\ ~NoHandle.done
      BY DEF NoHandle, HandleRecords, HandleStates, StopResults
    <2>2. \A i \in Handles : pc[Worker(i)] = "idle" /\ handle[i] = NoHandle
      BY ThreadFacts DEF Init
    <2>3. handle \in [Handles -> HandleRecords] /\ motion \in 0 .. MaxMoves
      BY <2>1 DEF Init
    <2>4. \A i \in Handles : /\ handle[i].state = "unused" /\ ~handle[i].done
                             /\ pc[Worker(i)] = "idle"
      BY <2>1, <2>2
    <2>5. OneMoveAtATime /\ StopResultDelivered
      BY <2>4 DEF OneMoveAtATime, StopResultDelivered, Underway
    <2> QED BY <2>3, <2>4, <2>5 DEF HandlesOK
  <1> QED BY <1>2, <1>3, <1>4 DEF IInv

\* Every step preserves it.
LEMMA NextIInv == IInv /\ [Next]_vars => IInv'
  <1> SUFFICES ASSUME IInv, [Next]_vars PROVE IInv'
    OBVIOUS
  <1> TypeOK /\ DataOK /\ ThreadsOK /\ HandlesOK /\ OneMoveAtATime /\ pc \in [Threads -> PCs]
    BY IInvTypes DEF IInv, HandlesOK, ThreadsOK
  <1>1. ASSUME NEW t \in Movers, MoverStep(t) \/ Deadline(t) PROVE IInv'
    BY <1>1, MoverKeepsThreads, ThreadsKeepHandles, ThreadsKeepData DEF IInv
  <1>2. ASSUME NEW t \in Threads, StopStep(t) \/ StopDeadline(t) PROVE IInv'
    BY <1>2, StopKeepsThreads, ThreadsKeepHandles, ThreadsKeepData DEF IInv
  <1>3. CASE \/ \E t \in Workers : WorkerEnd(t)
             \/ \E a \in Apps : AppCall(a)
             \/ SupervisorTick \/ CloseBegins \/ CloseEnds
    BY <1>3, CallKeepsThreads, CallsKeepHandles, CallsKeepData DEF IInv
  <1>4. CASE Device \/ ConnectionDrops \/ ReaderRecords
    <2>1. DataOK' /\ UNCHANGED <<pc, op, loc, handle, motion>>
      BY <1>4, WireSteps
    <2>2. ThreadsOK'
      BY <2>1 DEF ThreadsOK
    <2>3. HandlesOK'
      BY <2>1 DEF HandlesOK, OneMoveAtATime, StopResultDelivered, Underway
    <2> QED BY <2>1, <2>2, <2>3 DEF IInv
  <1>5. CASE UNCHANGED vars
    <2>1. UNCHANGED <<mount, toDev, toCli, link, cache, coordOk, fresh, handle, motion,
                      authority, pc, op, loc, calls, faults, drops>>
      BY <1>5 DEF vars, wire, client, threads, budgets
    <2> QED BY <2>1 DEF IInv, DataOK, ThreadsOK, HandlesOK, OneMoveAtATime,
                        StopResultDelivered, Underway
  <1> QED BY <1>1, <1>2, <1>3, <1>4, <1>5 DEF Next, Terminated

\* The inductive invariant is one.
THEOREM Invariance == Spec => []IInv
  BY InitIInv, NextIInv, PTL DEF Spec

\* Every variable keeps its type (the records of indi_motion.py and
\* indi_stop.py included), for every number of threads, moves and messages.
THEOREM TypeCorrect == Spec => []TypeOK
  BY Invariance, IInvTypes, PTL

\* _start_motion never has two moves under way, and no worker of a move that is
\* over is still alive to command the mount.
THEOREM OneMove == Spec => []OneMoveAtATime
  <1>1. IInv => OneMoveAtATime
    BY DEF IInv, HandlesOK
  <1> QED BY <1>1, Invariance, PTL

\* Whichever of _work and _record_stop comes first, the exception that wait()
\* raises carries the stop result once one was recorded.
THEOREM StopResultReachesWaiter == Spec => []StopResultDelivered
  <1>1. IInv => StopResultDelivered
    BY DEF IInv, HandlesOK
  <1> QED BY <1>1, Invariance, PTL

\* The outcome of a finished move is final: no step takes back its done event
\* or changes its state, and what a stop adds is the stop result.
LEMMA StepKeepsOutcome ==
    ASSUME IInv, [Next]_vars, NEW i \in Handles, handle[i].done
    PROVE  /\ handle'[i].done /\ handle'[i].state = handle[i].state
           /\ handle'[i].conf = handle[i].conf /\ handle'[i].kind = handle[i].kind
  <1> DEFINE Kept == /\ handle'[i].done /\ handle'[i].state = handle[i].state
                     /\ handle'[i].conf = handle[i].conf /\ handle'[i].kind = handle[i].kind
  <1> SUFFICES Kept
    OBVIOUS
  <1>0. /\ TypeOK /\ handle \in [Handles -> HandleRecords] /\ ~Underway(i) /\ i <= motion
        /\ motion \in 0 .. MaxMoves /\ pc[Worker(i)] = "idle"
    BY IInvTypes DEF IInv, HandlesOK, OneMoveAtATime, Underway
  <1>1. CASE UNCHANGED handle
    BY <1>1
  <1>2. ASSUME NEW t \in Movers, MoverStep(t) \/ Deadline(t) PROVE Kept
    <2>1. ASSUME NEW b \in BOOLEAN, motion # 0, handle' = [handle EXCEPT ![motion].late = b]
          PROVE  Kept
      BY <1>0, <2>1 DEF HandleRecords, Handles
    <2> QED BY <1>0, <1>1, <1>2, <2>1, MoverFrame
  <1>3. ASSUME NEW t \in Threads, StopStep(t) \/ StopDeadline(t) PROVE Kept
    <2>1. CASE ActiveMotion # 0 /\ handle' = [handle EXCEPT ![ActiveMotion].stopReq = TRUE]
      BY <1>0, <2>1 DEF ActiveMotion, HandleRecords, Handles
    <2>2. ASSUME NEW r \in StopResults \ {"none"}, NEW I \in SUBSET Handles,
                 handle' = [j \in Handles |-> IF j \in I THEN Recorded(handle[j], r)
                                              ELSE handle[j]]
          PROVE  Kept
      <3>1. \A h \in HandleRecords :
              /\ Recorded(h, r).state = h.state /\ Recorded(h, r).done = h.done
              /\ Recorded(h, r).conf = h.conf /\ Recorded(h, r).kind = h.kind
        BY DEF Recorded, HandleRecords
      <3> QED BY <1>0, <2>2, <3>1
    <2> QED BY <1>0, <1>1, <1>3, <2>1, <2>2, StopFrame
  <1>4. ASSUME NEW t \in Workers, WorkerEnd(t) PROVE Kept
    <2>1. pc[t] # "idle"
      BY <1>4 DEF WorkerEnd, WorkerFinishes, WorkerSetsDone
    <2>2. t[2] # i
      BY <1>0, <2>1, ThreadFacts
    <2> QED BY <1>0, <1>4, <2>2 DEF WorkerEnd, WorkerFinishes, WorkerSetsDone
  <1>5. ASSUME NEW a \in Apps, AppCall(a) PROVE Kept
    <2>1. \A k : StartMotion(a, k) => Kept
      BY <1>0 DEF StartMotion, Handles
    <2>2. \A o : CallBlocking(a, o) => Kept
      BY <1>1 DEF CallBlocking, client
    <2>3. CallStop(a) => Kept
      BY <1>1 DEF CallStop, client
    <2>4. \A j \in Handles : CallHandleStop(a, j) => Kept
      BY <1>0 DEF CallHandleStop, HandleRecords
    <2> QED BY <1>5, <2>1, <2>2, <2>3, <2>4 DEF AppCall
  <1>6. CASE SupervisorTick \/ CloseBegins \/ CloseEnds \/ UNCHANGED vars
    BY <1>1, <1>6 DEF SupervisorTick, CloseBegins, CloseEnds, vars, client
  <1>7. CASE Device \/ ConnectionDrops \/ ReaderRecords
    BY <1>1, <1>7 DEF Device, DeviceHandlesWrite, DeviceTick, DevicePublishes, DeviceFaults,
                      ConnectionDrops, ReaderRecords, client
  <1> QED BY <1>2, <1>3, <1>4, <1>5, <1>6, <1>7 DEF Next, Terminated

\* The outcome of a finished move (done, state, result) is never taken back,
\* neither by a stop that comes late nor by the next move.
THEOREM FinishedStaysFinished == Spec => OutcomeIsFinal
  <1>1. IInv /\ [Next]_vars =>
          [\A i \in Handles : handle[i].done =>
             /\ handle'[i].done /\ handle'[i].state = handle[i].state
             /\ handle'[i].conf = handle[i].conf /\ handle'[i].kind = handle[i].kind]_vars
    BY StepKeepsOutcome
  <1> QED BY <1>1, Invariance, PTL DEF Spec, OutcomeIsFinal

=============================================================================
