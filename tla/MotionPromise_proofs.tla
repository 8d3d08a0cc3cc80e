------------------------- MODULE MotionPromise_proofs -------------------------
(***************************************************************************)
(* MotionControl implements MotionPromise.  To the inductive invariant of  *)
(* MotionControl_proofs comes what ties a worker's place to its handle,    *)
(* and a stopped outcome to a stop that was asked for.                     *)
(***************************************************************************)
EXTENDS MotionControl_proofs

\* The life of a handle: unused until its move starts, running while its worker
\* works, with an outcome when the worker is about to announce it; a worker ends
\* with "stopped" only when the stop of its move was requested.
LifeOK ==
    \A i \in Handles :
        /\ handle[i].state = "unused" <=> i > motion
        /\ handle[i].stopReq => i <= motion
        /\ pc[Worker(i)] \notin {"idle", "setdone"} => handle[i].state = "running"
        /\ pc[Worker(i)] = "setdone" => handle[i].state \notin {"unused", "running"}
        /\ pc[Worker(i)] = "finish" =>
              /\ loc[Worker(i)].out # "running"
              /\ loc[Worker(i)].out = "stopped" => handle[i].stopReq

\* A step of t does not announce anything, decides on "stopped" only when it has
\* seen the request, and leaves the locals of the others alone.
Decides(t) ==
    /\ pc[t] # "setdone" /\ pc'[t] # "setdone"
    /\ pc'[t] = "finish" => /\ loc'[t].out # "running"
                            /\ loc'[t].out = "stopped" => StopSeen(t)
    /\ \A u \in Threads \ {t} : loc'[u] = loc[u]

-----------------------------------------------------------------------------
(* What a thread decides on.                                               *)

\* The end of a run, with an outcome that is not "stopped" or was asked for.
LEMMA EndDecides ==
    ASSUME ThreadsOK, NEW t \in Threads, NEW out \in HandleStates \ {"running"}, NEW conf,
           End(t, out, conf), out = "stopped" => StopSeen(t), pc[t] # "setdone"
    PROVE  Decides(t)
  <1>1. pc'[t] \in {"finish", "idle"} /\ loc' = [loc EXCEPT ![t] = loc'[t]]
    BY DEF End, Jump, ThreadsOK
  <1>2. pc'[t] = "finish" => IsWorker(t)
    BY DEF End, Jump, ThreadsOK
  <1>3. IsWorker(t) => loc'[t].out = out
    BY DEF End, Result, ThreadsOK
  <1> QED BY <1>1, <1>2, <1>3 DEF ThreadsOK, Decides

\* A thread that goes to a place where nothing is decided.
LEMMA JumpDecides ==
    ASSUME ThreadsOK, NEW t \in Threads, NEW l \in PCs \ {"setdone", "finish"}, Jump(t, l),
           \/ UNCHANGED loc
           \/ \E r : loc' = [loc EXCEPT ![t] = r],
           pc[t] # "setdone"
    PROVE  Decides(t)
  BY DEF ThreadsOK, Jump, Decides

\* An exception in a move.
LEMMA FailDecides ==
    ASSUME ThreadsOK, NEW t \in Threads, Fail(t), pc[t] # "setdone"
    PROVE  Decides(t)
  <1>1. CASE op[t] = "axis"
    <2>1. Jump(t, "begin") /\ loc' = [loc EXCEPT ![t] = NoLocals]
      BY <1>1 DEF Fail
    <2> QED BY <2>1, JumpDecides DEF PCs
  <1>2. CASE op[t] # "axis"
    <2>1. Jump(t, "abort") /\ loc' = [loc EXCEPT ![t] = NoLocals]
      BY <1>2 DEF Fail
    <2> QED BY <2>1, JumpDecides DEF PCs
  <1> QED BY <1>1, <1>2

\* Every step of a mover.
LEMMA MoverDecides ==
    ASSUME ThreadsOK, NEW t \in Movers, MoverStep(t) \/ Deadline(t)
    PROVE  Decides(t)
  <1> t \in Threads
    BY ThreadFacts
  <1> DEFINE Goes(l) == Jump(t, l) /\ (UNCHANGED loc \/ \E r : loc' = [loc EXCEPT ![t] = r])
  <1>1. ASSUME pc[t] # "setdone",
               \E out \in {"succeeded", "failed"}, conf \in BOOLEAN : End(t, out, conf)
        PROVE  Decides(t)
    BY <1>1, EndDecides DEF HandleStates
  <1>2. ASSUME pc[t] # "setdone",
               \E l \in {"check", "coordset", "coordwait", "issue", "loop", "poll", "off"} : Goes(l)
        PROVE  Decides(t)
    BY <1>2, JumpDecides DEF PCs
  <1>3. CASE PreflightHome(t) \/ PreflightPark(t) \/ PreflightUnpark(t) \/ PreflightAxis(t)
    BY <1>1, <1>2, <1>3 DEF PreflightHome, PreflightPark, PreflightUnpark, PreflightAxis
  <1>4. CASE CheckToken(t) \/ LoopTop(t)
    <2>1. CASE StopSeen(t) /\ End(t, "stopped", FALSE)
      BY <1>4, <2>1, EndDecides DEF CheckToken, LoopTop, HandleStates
    <2> QED BY <1>2, <1>4, <2>1 DEF CheckToken, LoopTop
  <1>5. CASE SendCoordSet(t) \/ AwaitCoordSet(t)
    BY <1>1, <1>2, <1>5 DEF SendCoordSet, AwaitCoordSet
  <1>6. CASE Fail(t) /\ pc[t] # "setdone"
    BY <1>6, FailDecides
  <1>7. CASE IssueCommand(t) \/ SendTrackOff(t)
    BY <1>2, <1>6, <1>7 DEF IssueCommand, SendTrackOff
  <1>8. CASE PollFails(t) \/ AxisUnsafe(t) \/ Deadline(t)
    BY <1>6, <1>8 DEF PollFails, AxisUnsafe, Deadline, PollReads, AxisObserves
  <1>9. CASE PollGoesOn(t) \/ PollConfirms(t) \/ PollUnparked(t)
    BY <1>1, <1>2, <1>9 DEF PollGoesOn, PollConfirms, PollUnparked, PollGood, PollReads
  <1>10. CASE PollSlice(t)
    BY <1>2, <1>10 DEF PollSlice
  <1>11. CASE AxisMoving(t)
    BY <1>2, <1>11 DEF AxisMoving, AxisObserves
  <1>12. CASE AxisConfirming(t)
    BY <1>1, <1>2, <1>6, <1>12 DEF AxisConfirming, AxisObserves
  <1> QED BY <1>3, <1>4, <1>5, <1>7, <1>8, <1>9, <1>10, <1>11, <1>12 DEF MoverStep

\* Every step of a stop: it ends the run of nobody but its own thread, and never
\* with "stopped".
LEMMA StopDecides ==
    ASSUME ThreadsOK, NEW t \in Threads, StopStep(t) \/ StopDeadline(t)
    PROVE  Decides(t)
  <1>1. ASSUME pc[t] # "setdone", Continue(t) PROVE Decides(t)
    <2>1. CASE t = Cls
      BY <1>1, <2>1, JumpDecides DEF Continue, PCs
    <2>2. CASE t # Cls
      <3>1. End(t, "failed", FALSE) \/ End(t, "succeeded", FALSE)
        BY <1>1, <2>2 DEF Continue
      <3> QED BY <1>1, <3>1, EndDecides DEF HandleStates
    <2> QED BY <2>1, <2>2
  <1>2. ASSUME pc[t] # "setdone",
               \E l \in {"abort", "trackoff", "mark", "spoll", "record"} : Jump(t, l),
               UNCHANGED loc \/ \E r : loc' = [loc EXCEPT ![t] = r]
        PROVE  Decides(t)
    BY <1>2, JumpDecides DEF PCs
  <1>3. CASE BeginStop(t)
    <2>1. CASE link = "open"
      <3>1. loc' = [loc EXCEPT ![t] = [loc[t] EXCEPT !.held = ActiveMotion]]
        BY <1>3, <2>1 DEF BeginStop, ThreadsOK
      <3> QED BY <1>2, <1>3, <2>1, <3>1 DEF BeginStop
    <2>2. CASE link # "open"
      BY <1>1, <1>3, <2>2 DEF BeginStop
    <2> QED BY <2>1, <2>2
  <1>4. CASE SendAbort(t) \/ SendStopTrackOff(t) \/ StopDeadline(t)
    <2>1. UNCHANGED loc \/ loc' = [loc EXCEPT ![t] = [loc[t] EXCEPT !.err = TRUE]]
      BY <1>4 DEF SendAbort, SendStopTrackOff, SendStop, StopDeadline, ThreadsOK
    <2> QED BY <1>2, <1>4, <2>1 DEF SendAbort, SendStopTrackOff, SendStop, StopDeadline
  <1>5. CASE MarkRevision(t)
    BY <1>2, <1>5 DEF MarkRevision
  <1>6. CASE PollStopped(t)
    <2> DEFINE polls == IF StatusStopped THEN loc[t].polls + 1 ELSE 0
    <2>1. \/ loc' = [loc EXCEPT ![t].err = TRUE] /\ Jump(t, "record")
          \/ /\ loc' = [loc EXCEPT ![t].polls = polls]
             /\ Jump(t, IF polls = 2 THEN "record" ELSE "spoll")
      BY <1>6 DEF PollStopped
    <2> HIDE DEF polls
    <2>2. \E r : loc' = [loc EXCEPT ![t] = r]
      BY <2>1
    <2> QED BY <1>2, <1>6, <2>1, <2>2 DEF PollStopped
  <1>7. CASE RecordStop(t)
    BY <1>1, <1>7 DEF RecordStop
  <1> QED BY <1>3, <1>4, <1>5, <1>6, <1>7 DEF StopStep

-----------------------------------------------------------------------------
(* What the handles show of a step.                                        *)

\* Nothing of what MotionPromise sees changes, but for a stop asked of a move.
Quiet ==
    /\ UNCHANGED motion
    /\ handle' \in [Handles -> HandleRecords]
    /\ \A i \in Handles : /\ handle'[i].state = handle[i].state
                          /\ handle'[i].done = handle[i].done

Asked(i) ==
    /\ i <= motion /\ handle'[i].stopReq
    /\ \A j \in Handles \ {i} : handle'[j].stopReq = handle[j].stopReq

SameRequests == \A i \in Handles : handle'[i].stopReq = handle[i].stopReq

\* The steps of movers and stops are quiet.
LEMMA ThreadsAreQuiet ==
    ASSUME TypeOK,
           \/ \E t \in Movers : MoverStep(t) \/ Deadline(t)
           \/ \E t \in Threads : StopStep(t) \/ StopDeadline(t)
    PROVE  Quiet /\ (SameRequests \/ \E i \in Handles : Asked(i))
  <1>0. handle \in [Handles -> HandleRecords] /\ motion \in 0 .. MaxMoves
    BY DEF TypeOK
  <1>1. UNCHANGED <<handle, motion>> => Quiet /\ SameRequests
    BY <1>0 DEF Quiet, SameRequests
  <1>2. ASSUME ActiveMotion # 0, UNCHANGED motion,
               handle' = [handle EXCEPT ![ActiveMotion].stopReq = TRUE]
        PROVE  Quiet /\ \E i \in Handles : Asked(i)
    <2>1. ActiveMotion \in Handles /\ ActiveMotion <= motion
      BY <1>0, <1>2 DEF ActiveMotion, Handles
    <2>2. Quiet
      BY <1>0, <1>2, <2>1 DEF Quiet, HandleRecords
    <2>3. Asked(ActiveMotion)
      BY <1>0, <1>2, <2>1 DEF Asked, HandleRecords
    <2> QED BY <2>1, <2>2, <2>3
  <1>3. ASSUME UNCHANGED motion, NEW r \in StopResults \ {"none"}, NEW I \in SUBSET Handles,
               handle' = [i \in Handles |-> IF i \in I THEN Recorded(handle[i], r)
                                            ELSE handle[i]]
        PROVE  Quiet /\ SameRequests
    <2>1. \A h \in HandleRecords :
            /\ Recorded(h, r) \in HandleRecords /\ Recorded(h, r).stopReq = h.stopReq
            /\ Recorded(h, r).state = h.state /\ Recorded(h, r).done = h.done
      BY DEF Recorded, HandleRecords
    <2> QED BY <1>0, <1>3, <2>1 DEF Quiet, SameRequests
  <1>4. ASSUME NEW t \in Movers, MoverStep(t) \/ Deadline(t)
        PROVE  Quiet /\ SameRequests
    <2>1. /\ UNCHANGED motion
          /\ \/ UNCHANGED handle
             \/ /\ motion # 0
                /\ \E b \in BOOLEAN : handle' = [handle EXCEPT ![motion].late = b]
      BY <1>4, MoverFrame
    <2>2. CASE UNCHANGED handle
      BY <1>1, <2>1, <2>2
    <2>3. ASSUME motion # 0, NEW b \in BOOLEAN, handle' = [handle EXCEPT ![motion].late = b]
          PROVE  Quiet /\ SameRequests
      <3>1. motion \in Handles
        BY <2>3 DEF TypeOK, Handles
      <3> QED BY <1>0, <2>1, <2>3, <3>1 DEF Quiet, SameRequests, HandleRecords
    <2> QED BY <2>1, <2>2, <2>3
  <1>5. ASSUME NEW t \in Threads, StopStep(t) \/ StopDeadline(t)
        PROVE  Quiet /\ (SameRequests \/ \E i \in Handles : Asked(i))
    BY <1>1, <1>2, <1>3, <1>5, StopFrame
  <1> QED BY <1>4, <1>5

\* The other calls and steps are quiet, too, or start, end or announce a move.
LEMMA CallsAreQuiet ==
    ASSUME TypeOK, OneMoveAtATime,
           \/ \E a \in Apps : \/ \E o : CallBlocking(a, o)
                              \/ CallStop(a)
                              \/ \E i \in Handles : CallHandleStop(a, i)
           \/ SupervisorTick \/ CloseBegins \/ CloseEnds
    PROVE  /\ Quiet /\ (SameRequests \/ \E i \in Handles : Asked(i))
           /\ \A i \in Handles : /\ pc'[Worker(i)] = pc[Worker(i)]
                                 /\ loc'[Worker(i)] = loc[Worker(i)]
  <1>0. /\ handle \in [Handles -> HandleRecords] /\ motion \in 0 .. MaxMoves
        /\ pc \in [Threads -> PCs] /\ loc \in [Threads -> Locals]
    BY DEF TypeOK
  <1>1. UNCHANGED <<handle, motion>> => Quiet /\ SameRequests
    BY <1>0 DEF Quiet, SameRequests
  <1>2. ASSUME NEW a \in Apps, (\E o : CallBlocking(a, o)) \/ CallStop(a)
        PROVE  /\ Quiet /\ SameRequests
               /\ \A i \in Handles : /\ pc'[Worker(i)] = pc[Worker(i)]
                                     /\ loc'[Worker(i)] = loc[Worker(i)]
    BY <1>0, <1>1, <1>2, ThreadFacts DEF CallBlocking, CallStop, Jump, client
  <1>3. ASSUME NEW a \in Apps, NEW i \in Handles, CallHandleStop(a, i)
        PROVE  /\ Quiet /\ Asked(i)
               /\ \A j \in Handles : /\ pc'[Worker(j)] = pc[Worker(j)]
                                     /\ loc'[Worker(j)] = loc[Worker(j)]
    <2>1. Quiet
      BY <1>0, <1>3 DEF Quiet, CallHandleStop, HandleRecords
    <2>2. Asked(i)
      BY <1>0, <1>3 DEF Asked, CallHandleStop, HandleRecords
    <2> QED BY <1>0, <1>3, <2>1, <2>2, ThreadFacts DEF CallHandleStop, Jump
  <1>4. CASE SupervisorTick \/ CloseBegins \/ CloseEnds
    BY <1>0, <1>1, <1>4, ThreadFacts DEF SupervisorTick, CloseBegins, CloseEnds, Jump, client
  <1> QED BY <1>2, <1>3, <1>4

-----------------------------------------------------------------------------
(* The life of the handles is inductive.                                   *)

\* It holds initially.
LEMMA InitLife == Init => LifeOK
  <1> SUFFICES ASSUME Init PROVE LifeOK
    OBVIOUS
  <1>1. NoHandle.state = "unused" /\ ~NoHandle.stopReq
    BY DEF NoHandle
  <1>2. \A i \in Handles : /\ pc[Worker(i)] = "idle" /\ handle[i] = NoHandle
                           /\ i > 0
    BY ThreadFacts DEF Init, Handles
  <1> QED BY <1>1, <1>2 DEF LifeOK, Init

\* A quiet step keeps it as long as no worker announces anything or ends with a
\* stop nobody asked for.
LEMMA QuietKeepsLife ==
    ASSUME TypeOK, LifeOK, Quiet, SameRequests \/ \E i \in Handles : Asked(i),
           \A i \in Handles :
              \/ pc'[Worker(i)] = pc[Worker(i)] /\ loc'[Worker(i)] = loc[Worker(i)]
              \/ pc[Worker(i)] # "idle" /\ Decides(Worker(i))
    PROVE  LifeOK'
  <1> SUFFICES ASSUME NEW i \in Handles
               PROVE  /\ handle'[i].state = "unused" <=> i > motion
                      /\ handle'[i].stopReq => i <= motion
                      /\ pc'[Worker(i)] \notin {"idle", "setdone"} => handle'[i].state = "running"
                      /\ pc'[Worker(i)] = "setdone" => handle'[i].state \notin {"unused", "running"}
                      /\ pc'[Worker(i)] = "finish" =>
                            /\ loc'[Worker(i)].out # "running"
                            /\ loc'[Worker(i)].out = "stopped" => handle'[i].stopReq
    BY DEF LifeOK, Quiet
  <1>1. handle'[i].state = "unused" <=> i > motion
    BY DEF LifeOK, Quiet
  <1>2. /\ handle'[i].stopReq => i <= motion
        /\ handle[i].stopReq => handle'[i].stopReq
    BY DEF LifeOK, SameRequests, Asked
  <1>3. CASE pc'[Worker(i)] = pc[Worker(i)] /\ loc'[Worker(i)] = loc[Worker(i)]
    BY <1>1, <1>2, <1>3 DEF LifeOK, Quiet
  <1>4. CASE pc[Worker(i)] # "idle" /\ Decides(Worker(i))
    <2>1. StopSeen(Worker(i)) => handle[i].stopReq
      BY ThreadFacts DEF StopSeen
    <2> QED BY <1>1, <1>2, <1>4, <2>1 DEF LifeOK, Quiet, Decides
  <1> QED BY <1>3, <1>4

\* A move that starts finds its handle unused.
LEMMA StartKeepsLife ==
    ASSUME TypeOK, OneMoveAtATime, LifeOK, NEW a \in Apps, NEW k \in MoveOps, StartMotion(a, k)
    PROVE  /\ LifeOK' /\ motion + 1 \in Handles
           /\ handle' = [handle EXCEPT ![motion + 1] = NewHandle(k)]
  <1> DEFINE i == motion + 1
             w == Worker(i)
  <1>0. /\ handle \in [Handles -> HandleRecords] /\ motion \in 0 .. MaxMoves
        /\ pc \in [Threads -> PCs] /\ loc \in [Threads -> Locals]
    BY DEF TypeOK
  <1>1. i \in Handles /\ i \in Nat /\ motion \in Nat /\ w \in Threads /\ a \in Threads
    <2>1. motion < MaxMoves
      BY DEF StartMotion
    <2>2. motion + 1 \in Handles /\ motion + 1 \in Nat /\ motion \in Nat
      BY <1>0, <2>1, BoundsAssumption DEF Handles
    <2> QED BY <2>2, ThreadFacts
  <1>2. /\ handle' = [handle EXCEPT ![i] = NewHandle(k)] /\ motion' = i
        /\ pc' = [pc EXCEPT ![w] = "preflight"] /\ loc' = [loc EXCEPT ![a] = NoLocals]
    BY DEF StartMotion, Jump
  <1>3. NewHandle(k).state = "running" /\ ~NewHandle(k).stopReq
    BY DEF NewHandle, NoHandle
  <1> HIDE DEF w
  <1>4. pc'[w] = "preflight" /\ handle'[i] = NewHandle(k)
    BY <1>0, <1>1, <1>2
  <1>5. \A j \in Handles \ {i} :
            /\ Worker(j) \in Threads /\ Worker(j) # w /\ Worker(j) # a
            /\ handle'[j] = handle[j] /\ j \in Nat /\ (j > motion <=> j > i)
    BY <1>0, <1>1, <1>2, ThreadFacts DEF w, Handles
  <1>6. \A j \in Handles \ {i} :
            pc'[Worker(j)] = pc[Worker(j)] /\ loc'[Worker(j)] = loc[Worker(j)]
    BY <1>0, <1>2, <1>5
  <1>7. \A j \in Handles \ {i} : j <= motion => j <= i
    BY <1>1, <1>5
  <1>8. i <= motion' /\ ~(i > motion')
    BY <1>1, <1>2
  <1>9. LifeOK'
    <2> SUFFICES ASSUME NEW j \in Handles
                 PROVE  /\ handle'[j].state = "unused" <=> j > i
                        /\ handle'[j].stopReq => j <= i
                        /\ pc'[Worker(j)] \notin {"idle", "setdone"} => handle'[j].state = "running"
                        /\ pc'[Worker(j)] = "setdone" => handle'[j].state \notin {"unused", "running"}
                        /\ pc'[Worker(j)] = "finish" =>
                              /\ loc'[Worker(j)].out # "running"
                              /\ loc'[Worker(j)].out = "stopped" => handle'[j].stopReq
      BY <1>2 DEF LifeOK
    <2>1. CASE j = i
      BY <1>2, <1>3, <1>4, <1>8, <2>1 DEF w
    <2>2. CASE j # i
      BY <1>5, <1>6, <1>7, <2>2 DEF LifeOK
    <2> QED BY <2>1, <2>2
  <1> QED BY <1>1, <1>2, <1>9

\* The end of a worker writes its outcome and announces it.
LEMMA EndKeepsLife ==
    ASSUME TypeOK, ThreadsOK, LifeOK, NEW t \in Workers, WorkerEnd(t)
    PROVE  /\ LifeOK'
           /\ \A j \in Handles \ {t[2]} : handle'[j] = handle[j]
           /\ handle'[t[2]].stopReq = handle[t[2]].stopReq
           /\ \/ /\ handle[t[2]].state = "running"
                 /\ handle'[t[2]].state \in {"succeeded", "failed", "stopped"}
                 /\ handle'[t[2]].state = "stopped" => handle[t[2]].stopReq
                 /\ handle'[t[2]].done = handle[t[2]].done
              \/ /\ handle[t[2]].state \in {"succeeded", "failed", "stopped"}
                 /\ handle'[t[2]].state = handle[t[2]].state /\ handle'[t[2]].done
  <1> DEFINE i == t[2]
  <1>0. /\ handle \in [Handles -> HandleRecords] /\ motion \in 0 .. MaxMoves
        /\ pc \in [Threads -> PCs] /\ loc \in [Threads -> Locals]
        /\ i \in Handles /\ t = Worker(i) /\ t \in Threads
        /\ UNCHANGED motion
    BY ThreadFacts DEF TypeOK, WorkerEnd, WorkerFinishes, WorkerSetsDone
  <1>1. \A j \in Handles \ {i} : Worker(j) # t /\ Worker(j) \in Threads
    BY <1>0, ThreadFacts
  <1>2. ASSUME \A j \in Handles \ {i} : handle'[j] = handle[j],
               \A u \in Threads \ {t} : pc'[u] = pc[u] /\ loc'[u] = loc[u],
               handle'[i].state # "unused", handle'[i].stopReq = handle[i].stopReq,
               handle[i].state # "unused",
               \/ pc'[t] = "idle"
               \/ pc'[t] = "setdone" /\ handle'[i].state # "running"
        PROVE  LifeOK'
    <2> SUFFICES ASSUME NEW j \in Handles
                 PROVE  /\ handle'[j].state = "unused" <=> j > motion
                        /\ handle'[j].stopReq => j <= motion
                        /\ pc'[Worker(j)] \notin {"idle", "setdone"} => handle'[j].state = "running"
                        /\ pc'[Worker(j)] = "setdone" => handle'[j].state \notin {"unused", "running"}
                        /\ pc'[Worker(j)] = "finish" =>
                              /\ loc'[Worker(j)].out # "running"
                              /\ loc'[Worker(j)].out = "stopped" => handle'[j].stopReq
      BY <1>0 DEF LifeOK
    <2> HIDE DEF i
    <2>1. CASE j = i
      BY <1>0, <1>2, <2>1 DEF LifeOK
    <2>2. CASE j # i
      BY <1>1, <1>2, <2>2 DEF LifeOK
    <2> QED BY <2>1, <2>2
  <1>3. CASE WorkerFinishes(t)
    <2> DEFINE h == Finished(handle[i], loc[t].out, loc[t].conf)
    <2>1. /\ pc[t] = "finish" /\ handle' = [handle EXCEPT ![i] = h]
          /\ pc' = [pc EXCEPT ![t] = "setdone"] /\ loc' = loc
      BY <1>3 DEF WorkerFinishes, Jump
    <2>2. /\ handle[i].state = "running" /\ loc[t].out \in {"succeeded", "failed", "stopped"}
          /\ loc[t].out = "stopped" => handle[i].stopReq
      BY <1>0, <2>1 DEF LifeOK, ThreadsOK, Locals, HandleStates
    <2>3. /\ h.state = loc[t].out /\ h.done = handle[i].done
          /\ h.stopReq = handle[i].stopReq
      BY <1>0 DEF Finished, HandleRecords
    <2> HIDE DEF h, i
    <2>4. handle'[i] = h /\ \A j \in Handles \ {i} : handle'[j] = handle[j]
      BY <1>0, <2>1
    <2>5. pc'[t] = "setdone" /\ \A u \in Threads \ {t} : pc'[u] = pc[u] /\ loc'[u] = loc[u]
      BY <1>0, <2>1
    <2>6. LifeOK'
      BY <1>2, <2>2, <2>3, <2>4, <2>5
    <2> QED BY <2>2, <2>3, <2>4, <2>6 DEF i
  <1>4. CASE WorkerSetsDone(t)
    <2> DEFINE h == [handle[i] EXCEPT !.done = TRUE]
    <2>1. /\ pc[t] = "setdone" /\ handle' = [handle EXCEPT ![i] = h]
          /\ pc' = [pc EXCEPT ![t] = "idle"] /\ loc' = [loc EXCEPT ![t] = NoLocals]
      BY <1>4 DEF WorkerSetsDone, Jump
    <2>2. handle[i].state \in {"succeeded", "failed", "stopped"}
      BY <1>0, <2>1 DEF LifeOK, HandleRecords, HandleStates
    <2>3. h.state = handle[i].state /\ h.done /\ h.stopReq = handle[i].stopReq
      BY <1>0 DEF HandleRecords
    <2> HIDE DEF h, i
    <2>4. handle'[i] = h /\ \A j \in Handles \ {i} : handle'[j] = handle[j]
      BY <1>0, <2>1
    <2>5. pc'[t] = "idle" /\ \A u \in Threads \ {t} : pc'[u] = pc[u] /\ loc'[u] = loc[u]
      BY <1>0, <2>1
    <2>6. LifeOK'
      BY <1>2, <2>2, <2>3, <2>4, <2>5
    <2> QED BY <2>2, <2>3, <2>4, <2>6 DEF i
  <1> QED BY <1>3, <1>4 DEF WorkerEnd

-----------------------------------------------------------------------------
(* The refinement.                                                         *)

\* What MotionPromise sees of the handles.
LEMMA PromiseVars ==
    ASSUME Quiet
    PROVE  /\ SameRequests => UNCHANGED Promise!vars
           /\ \A i \in Handles : Asked(i) /\ handle[i].state # "unused" => Promise!Ask(i)
  <1>1. UNCHANGED <<[i \in Handles |-> handle[i].state], [i \in Handles |-> handle[i].done]>>
    BY DEF Quiet
  <1>2. SameRequests => UNCHANGED Promise!vars
    BY <1>1 DEF SameRequests, Promise!vars
  <1>3. ASSUME NEW i \in Handles, Asked(i), handle[i].state # "unused"
        PROVE  Promise!Ask(i)
    BY <1>1, <1>3 DEF Asked, Promise!Ask
  <1> QED BY <1>2, <1>3

\* Quiet steps are stops asked for, or nothing.
LEMMA QuietStep ==
    ASSUME LifeOK, Quiet, SameRequests \/ \E i \in Handles : Asked(i),
           motion \in 0 .. MaxMoves
    PROVE  [Promise!Next]_(Promise!vars)
  <1>1. CASE SameRequests
    BY <1>1, PromiseVars
  <1>2. ASSUME NEW i \in Handles, Asked(i) PROVE [Promise!Next]_(Promise!vars)
    <2>1. handle[i].state # "unused"
      <3>1. i \in Nat /\ motion \in Nat /\ i <= motion
        BY <1>2 DEF Asked, Handles
      <3> QED BY <3>1 DEF LifeOK
    <2>2. Promise!Ask(i)
      BY <1>2, <2>1, PromiseVars
    <2> QED BY <2>2 DEF Promise!Next, Promise!Moves, Handles
  <1> QED BY <1>1, <1>2

\* The initial handles are the promise's.
LEMMA InitPromise == Init => Promise!Init
  <1> SUFFICES ASSUME Init PROVE Promise!Init
    OBVIOUS
  <1>1. NoHandle.state = "unused" /\ NoHandle.done = FALSE /\ NoHandle.stopReq = FALSE
    BY DEF NoHandle
  <1>2. \A i \in Handles : handle[i] = NoHandle
    BY DEF Init
  <1>3. /\ [i \in Handles |-> handle[i].state] = [i \in Handles |-> "unused"]
        /\ [i \in Handles |-> handle[i].done] = [i \in Handles |-> FALSE]
        /\ [i \in Handles |-> handle[i].stopReq] = [i \in Handles |-> FALSE]
    BY <1>1, <1>2
  <1> QED BY <1>3 DEF Promise!Init, Promise!Moves, Handles

\* Every step keeps the life of the handles, and is a step of the promise.
LEMMA StepKeepsPromise ==
    ASSUME IInv, LifeOK, [Next]_vars
    PROVE  LifeOK' /\ [Promise!Next]_(Promise!vars)
  <1>0. /\ TypeOK /\ ThreadsOK /\ OneMoveAtATime /\ HandlesOK
        /\ handle \in [Handles -> HandleRecords] /\ motion \in 0 .. MaxMoves
        /\ pc \in [Threads -> PCs] /\ loc \in [Threads -> Locals]
    BY IInvTypes DEF IInv, HandlesOK, ThreadsOK
  <1>1. ASSUME Quiet, SameRequests \/ \E i \in Handles : Asked(i),
               \A i \in Handles :
                  \/ pc'[Worker(i)] = pc[Worker(i)] /\ loc'[Worker(i)] = loc[Worker(i)]
                  \/ pc[Worker(i)] # "idle" /\ Decides(Worker(i))
        PROVE  LifeOK' /\ [Promise!Next]_(Promise!vars)
    BY <1>0, <1>1, QuietKeepsLife, QuietStep
  <1>2. ASSUME NEW t \in Threads, Moves(t), Decides(t), NEW i \in Handles
        PROVE  \/ pc'[Worker(i)] = pc[Worker(i)] /\ loc'[Worker(i)] = loc[Worker(i)]
               \/ pc[Worker(i)] # "idle" /\ Decides(Worker(i))
    <2>1. Worker(i) \in Threads
      BY ThreadFacts
    <2>2. CASE Worker(i) = t
      BY <1>2, <2>2 DEF Moves
    <2>3. CASE Worker(i) # t
      BY <1>0, <1>2, <2>1, <2>3 DEF Moves, Decides
    <2> QED BY <2>2, <2>3
  <1>3. ASSUME NEW t \in Movers, MoverStep(t) \/ Deadline(t)
        PROVE  LifeOK' /\ [Promise!Next]_(Promise!vars)
    <2>1. t \in Threads /\ Moves(t) /\ Decides(t)
      BY <1>0, <1>3, MoverFrame, MoverDecides, ThreadFacts
    <2>2. Quiet /\ (SameRequests \/ \E i \in Handles : Asked(i))
      BY <1>0, <1>3, ThreadsAreQuiet
    <2> QED BY <1>1, <1>2, <2>1, <2>2
  <1>4. ASSUME NEW t \in Threads, StopStep(t) \/ StopDeadline(t)
        PROVE  LifeOK' /\ [Promise!Next]_(Promise!vars)
    <2>1. Moves(t) /\ Decides(t)
      BY <1>0, <1>4, StopFrame, StopDecides
    <2>2. Quiet /\ (SameRequests \/ \E i \in Handles : Asked(i))
      BY <1>0, <1>4, ThreadsAreQuiet
    <2> QED BY <1>1, <1>2, <2>1, <2>2
  <1>5. ASSUME NEW t \in Workers, WorkerEnd(t)
        PROVE  LifeOK' /\ [Promise!Next]_(Promise!vars)
    <2>0. PICK n \in Handles : n = t[2]
      BY ThreadFacts
    <2>1. /\ LifeOK'
          /\ \A j \in Handles \ {n} : handle'[j] = handle[j]
          /\ handle'[n].stopReq = handle[n].stopReq
      BY <1>0, <1>5, <2>0, EndKeepsLife
    <2>2. \/ /\ handle[n].state = "running"
             /\ handle'[n].state \in {"succeeded", "failed", "stopped"}
             /\ handle'[n].state = "stopped" => handle[n].stopReq
             /\ handle'[n].done = handle[n].done
          \/ /\ handle[n].state \in {"succeeded", "failed", "stopped"}
             /\ handle'[n].state = handle[n].state /\ handle'[n].done
      BY <1>0, <1>5, <2>0, EndKeepsLife
    <2>3. CASE handle[n].state = "running"
      <3>0. PICK o \in {"succeeded", "failed", "stopped"} : handle'[n].state = o
        BY <2>2, <2>3
      <3>1. Promise!Ends(n, o)
        BY <2>1, <2>2, <2>3, <3>0 DEF Promise!Ends
      <3>2. n \in Promise!Moves /\ o \in Promise!Outcomes
        BY DEF Promise!Moves, Promise!Outcomes, Handles
      <3> QED BY <2>1, <3>1, <3>2 DEF Promise!Next
    <2>4. CASE handle[n].state # "running"
      <3>1. handle'[n].done = TRUE
        <4>1. handle' \in [Handles -> HandleRecords]
          BY <1>0, <1>5, NextIInv DEF IInv, HandlesOK
        <4> QED BY <2>1, <2>2, <2>4, <4>1 DEF HandleRecords
      <3>2. Promise!Announce(n)
        BY <2>1, <2>2, <2>4, <3>1 DEF Promise!Announce, Promise!Outcomes
      <3> QED BY <2>1, <3>2 DEF Promise!Next, Promise!Moves, Handles
    <2> QED BY <2>1, <2>3, <2>4
  <1>6. ASSUME NEW a \in Apps, NEW k \in Ops \cap MoveOps, StartMotion(a, k)
        PROVE  LifeOK' /\ [Promise!Next]_(Promise!vars)
    <2> DEFINE h == NewHandle(k)
    <2>0. PICK n \in Handles : n = motion + 1
      BY <1>0, <1>6, StartKeepsLife
    <2>1. LifeOK' /\ handle' = [handle EXCEPT ![n] = h]
      BY <1>0, <1>6, <2>0, StartKeepsLife
    <2>2. h.state = "running" /\ h.done = FALSE /\ h.stopReq = FALSE
      BY DEF NewHandle, NoHandle
    <2>3. /\ handle[n].state = "unused" /\ handle[n].done = FALSE /\ handle[n].stopReq = FALSE
      <3>1. n > motion /\ ~(n <= motion)
        BY <1>0, <2>0
      <3>2. handle[n].done \in BOOLEAN /\ handle[n].stopReq \in BOOLEAN
        BY <1>0, <2>1 DEF HandleRecords
      <3> QED BY <1>0, <2>1, <3>1, <3>2 DEF LifeOK, HandlesOK
    <2>4. \A j \in Handles : handle[j].state = "unused" \/ handle[j].done
      <3>1. ActiveMotion = 0
        BY <1>6 DEF StartMotion
      <3>2. \A j \in Handles : j # 0
        BY DEF Handles
      <3> QED BY <1>0, <3>1, <3>2 DEF ActiveMotion, OneMoveAtATime, Underway
    <2> HIDE DEF h
    <2>5. handle'[n] = h /\ \A j \in Handles \ {n} : handle'[j] = handle[j]
      BY <1>0, <2>1
    <2>6. /\ [j \in Handles |-> handle'[j].state]
               = [[j \in Handles |-> handle[j].state] EXCEPT ![n] = "running"]
          /\ [j \in Handles |-> handle'[j].done] = [j \in Handles |-> handle[j].done]
          /\ [j \in Handles |-> handle'[j].stopReq] = [j \in Handles |-> handle[j].stopReq]
      <3>1. [j \in Handles |-> handle'[j].state]
               = [[j \in Handles |-> handle[j].state] EXCEPT ![n] = "running"]
        BY <2>2, <2>5
      <3>2. \A j \in Handles : /\ handle'[j].done = handle[j].done
                               /\ handle'[j].stopReq = handle[j].stopReq
        BY <2>2, <2>3, <2>5
      <3> QED BY <3>1, <3>2
    <2>7. n \in Promise!Moves /\ \A j \in Promise!Moves : Promise!Over(j)
      BY <2>1, <2>4 DEF Promise!Over, Promise!Moves, Handles
    <2>8. Promise!Start(n)
      BY <2>1, <2>3, <2>6, <2>7 DEF Promise!Start
    <2> QED BY <2>1, <2>7, <2>8 DEF Promise!Next
  <1>7. CASE \/ \E a \in Apps : \/ \E o : CallBlocking(a, o)
                                \/ CallStop(a)
                                \/ \E i \in Handles : CallHandleStop(a, i)
             \/ SupervisorTick \/ CloseBegins \/ CloseEnds
    BY <1>0, <1>1, <1>7, CallsAreQuiet
  <1>8. CASE UNCHANGED <<pc, loc, handle, motion>>
    <2>1. Quiet /\ SameRequests
      BY <1>0, <1>8 DEF Quiet, SameRequests
    <2> QED BY <1>1, <1>8, <2>1
  <1>9. CASE Device \/ ConnectionDrops \/ ReaderRecords
    BY <1>0, <1>8, <1>9, WireSteps DEF IInv
  <1>10. CASE UNCHANGED vars
    BY <1>8, <1>10 DEF vars, client, threads
  <1>11. ASSUME NEW a \in Apps, AppCall(a)
         PROVE  LifeOK' /\ [Promise!Next]_(Promise!vars)
    BY <1>6, <1>7, <1>11 DEF AppCall
  <1> QED BY <1>3, <1>4, <1>5, <1>7, <1>9, <1>10, <1>11 DEF Next, Terminated

\* The handles of indi_motion.py keep the promise of docs/SDK.md in every run of
\* the system: one move at a time, one outcome, final once wait() returns, and
\* "stopped" only for a move somebody asked to stop.
THEOREM MotionKeepsPromise == Spec => KeepsPromise
  <1>1. Init => IInv /\ LifeOK /\ Promise!Init
    BY InitIInv, InitLife, InitPromise
  <1>2. IInv /\ LifeOK /\ [Next]_vars => LifeOK' /\ [Promise!Next]_(Promise!vars)
    BY StepKeepsPromise
  <1> QED BY <1>1, <1>2, Invariance, PTL DEF Spec, KeepsPromise, Promise!Spec

=============================================================================
