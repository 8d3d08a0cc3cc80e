--------------------------- MODULE MotionControl ---------------------------
(***************************************************************************)
(* The client's motion supervision: one MotionHandle per move with its     *)
(* worker thread (indi_motion.py), the moves the worker runs (indi_home.py,*)
(* indi_axis_motion.py), the verified stop (indi_stop.py), everybody who   *)
(* calls it (the application, the meridian supervisor, close()), and the   *)
(* blocking unpark and PARK-to-HOME route (indi_client.py), over one INDI  *)
(* connection to the virtual mount (onstep_mock/server.py).                *)
(*                                                                         *)
(* Commands travel to the device and status vectors back in FIFO order.    *)
(* A waiter compares property revisions only to learn whether a status was *)
(* recorded after the last one it looked at, so instead of the unbounded   *)
(* revision counter each thread has a flag fresh.  Deadlines are           *)
(* nondeterministic: a wait may end in a timeout at any of its steps, and  *)
(* a cached status may be found older than max_age_seconds at any read.    *)
(***************************************************************************)
EXTENDS VirtualMount, Naturals, Sequences

CONSTANTS
    NApps,        \* number of application threads
    Ops,          \* the operations they call, a subset of AllOps
    MaxMoves,     \* bound on the MotionHandles ever created
    MaxAppCalls,  \* bound on the stop, unpark and route calls of each of them
    MaxSupCalls,  \* bound on the stops of the supervisor
    MaxCloses,    \* 1 if close() may be called, else 0
    MaxInFlight,  \* bound on the status vectors on the wire
    MaxFaults,    \* bound on the controller faults raised
    MaxDrops,     \* 1 if the server may drop the connection, else 0
    Prompt        \* the device reads its queue before a slew ends or a wait
                  \* times out: latencies are far below 3 s, the shortest wait

AllOps == {"home", "park", "axis", "unpark", "route"}
MoveOps == {"home", "park", "axis"}

\* A worker is the thread of the handle with its number.
Handles == 1 .. MaxMoves
Worker(i) == <<"worker", i>>
Workers == {Worker(i) : i \in Handles}
Apps == {<<"app", n>> : n \in 1 .. NApps}
Sup == <<"sup", 0>>
Cls == <<"close", 0>>
Movers == Apps \cup Workers
Threads == Movers \cup {Sup, Cls}

ASSUME BoundsAssumption ==
    /\ Ops \subseteq AllOps
    /\ MaxMoves \in Nat /\ MaxAppCalls \in Nat /\ MaxSupCalls \in Nat /\ MaxCloses \in Nat
    /\ MaxInFlight \in Nat \ {0}
    /\ MaxFaults \in Nat /\ MaxDrops \in Nat /\ NApps \in Nat
    /\ Prompt \in BOOLEAN

Commands == {"ABORT", "TRACK_OFF", "UNPARK", "PARK", "GO", "SLEW", "TARGET"}
MoveCommands == {"PARK", "GO", "TARGET"}

\* A status vector with the coordinates published behind it; ack says that
\* the ON_COORD_SET vector was published in front of it.
Updates == [gu : SUBSET GuFlags, alert : BOOLEAN, error : BOOLEAN,
            goal : BOOLEAN, ack : BOOLEAN]

HandleStates == {"unused", "running", "succeeded", "failed", "stopped"}
StopResults == {"none", "confirmed", "unconfirmed"}

PCs == {"idle", "preflight", "check", "coordset", "coordwait", "issue", "loop", "poll",
        "off", "begin", "abort", "trackoff", "mark", "spoll", "record",
        "finish", "setdone", "join", "closed"}

VARIABLES
    mount,      \* the device
    toDev,      \* commands on the wire
    toCli,      \* status vectors on the wire
    link,       \* "open", "failed" (reader failed) or "closed"
    cache,      \* the last OnStep Status the reader recorded
    coordOk,    \* the cached ON_COORD_SET is SLEW = On in state Ok
    fresh,      \* per thread: a status was recorded since the last one it took
    handle,     \* the MotionHandles
    motion,     \* client._motion, 0 for None
    authority,  \* IndiHomeRouter.authority_established
    pc, op,     \* per thread: its place, and the move it runs
    loc,        \* per thread: the locals of its wait or stop
    calls,      \* stop calls made, per thread
    faults, drops

wire == <<mount, toDev, toCli>>
client == <<link, cache, coordOk, fresh, handle, motion, authority>>
threads == <<pc, op, loc>>
budgets == <<calls, faults, drops>>
vars == <<wire, client, threads, budgets>>

\* held: emergency_stop's motion; own: the handle of MotionHandle.stop;
\* err, polls: stop_mount_via_indi's errors (any) and stopped_polls;
\* phase, stable: the wait of a move ("near" is target_coordinates_seen); out, conf: what the worker ends with.
Locals == [held : 0 .. MaxMoves, own : 0 .. MaxMoves, err : BOOLEAN, polls : 0 .. 2,
           phase : {"go", "near", "off"}, stable : 0 .. 2,
           out : HandleStates, conf : BOOLEAN]

Result(out, conf) == [held |-> 0, own |-> 0, err |-> FALSE, polls |-> 0,
                      phase |-> "go", stable |-> 0, out |-> out, conf |-> conf]

NoLocals == Result("unused", FALSE)

\* conf: the result says confirmed; errStop: the stop_result of the exception;
\* late: history, a command that moves the mount left after the stop was requested.
HandleRecords ==
    [kind : MoveOps \cup {"none"}, state : HandleStates, done : BOOLEAN,
     stopReq : BOOLEAN, stopResult : StopResults, errStop : StopResults,
     conf : BOOLEAN, late : BOOLEAN]

NoHandle == [kind |-> "none", state |-> "unused", done |-> FALSE, stopReq |-> FALSE,
             stopResult |-> "none", errStop |-> "none", conf |-> FALSE, late |-> FALSE]

NewHandle(k) == [NoHandle EXCEPT !.kind = k, !.state = "running"]

StatusOf(m, acked) ==
    [gu |-> RawGu(m), alert |-> Faulted(m), error |-> m.fault = "ERROR",
     goal |-> m.on_goal, ack |-> acked]

Init ==
    /\ mount \in InitialMounts
    /\ toDev = <<>> /\ toCli = <<>>
    /\ link = "open"
    /\ cache = StatusOf(mount, FALSE)
    /\ coordOk \in {TRUE, "axis" \notin Ops}
    /\ fresh = [t \in Threads |-> FALSE]
    /\ handle = [i \in Handles |-> NoHandle]
    /\ motion = 0
    /\ authority = FALSE
    /\ pc = [t \in Threads |-> "idle"]
    /\ op = [t \in Threads |-> "none"]
    /\ loc = [t \in Threads |-> NoLocals]
    /\ calls = [t \in Threads |-> 0]
    /\ faults = 0 /\ drops = 0

-----------------------------------------------------------------------------
(* The device and the wire.                                                *)

\* _publish_mount: nothing reaches a client whose connection is gone.
Publish(m, acked) ==
    toCli' = IF link = "open" THEN Append(toCli, StatusOf(m, acked)) ELSE toCli

Room == Len(toCli) < MaxInFlight

QueueRead == Prompt => toDev = <<>>

\* SimulatedOnStepServer._apply_write and _apply_switch.
Apply(m, c) ==
    CASE c = "ABORT" -> Abort(m)
      [] c = "TRACK_OFF" -> SetTracking(m, FALSE)
      [] c = "UNPARK" -> Unpark(m)
      [] c = "PARK" -> StartGoto(m, "park")
      [] c = "GO" -> StartGoto(m, "home")
      [] c = "TARGET" -> StartGoto(m, "radec")
      [] OTHER -> m

\* _handle_write applies one command and publishes.
DeviceHandlesWrite ==
    /\ toDev # <<>> /\ Room
    /\ mount' = Apply(mount, Head(toDev))
    /\ toDev' = Tail(toDev)
    /\ Publish(mount', Head(toDev) = "SLEW")
    /\ UNCHANGED <<client, threads, budgets>>

\* A state edge of the device loop, published at once.
DeviceTick ==
    /\ Room /\ QueueRead
    /\ mount' \in TickEdges(mount)
    /\ Publish(mount', FALSE)
    /\ UNCHANGED <<toDev, client, threads, budgets>>

\* The periodic status of the device loop.
DevicePublishes ==
    /\ Room /\ link = "open"
    /\ Publish(mount, FALSE)
    /\ UNCHANGED <<mount, toDev, client, threads, budgets>>

\* The controller raises a limit or an error by itself (inject_fault).
DeviceFaults(f) ==
    /\ Room /\ faults < MaxFaults /\ ~Faulted(mount)
    /\ mount' = SetFault(mount, f)
    /\ Publish(mount', FALSE)
    /\ faults' = faults + 1
    /\ UNCHANGED <<toDev, client, threads, calls, drops>>

\* drop_connections: what the server had not read is lost or not, as it falls.
ConnectionDrops ==
    /\ link = "open" /\ drops < MaxDrops
    /\ link' = "failed"
    /\ toCli' = <<>>
    /\ toDev' \in {toDev, <<>>}
    /\ drops' = drops + 1
    /\ UNCHANGED <<mount, cache, coordOk, fresh, handle, motion, authority,
                   threads, calls, faults>>

\* Where a thread has taken its baseline and will look for a newer status;
\* elsewhere the flag says nothing and stays FALSE.
Waiting == {"coordset", "coordwait", "issue", "check", "loop", "poll", "off", "spoll"}

\* _read_loop and _record: the next vector enters the cache, waiters wake.
ReaderRecords ==
    /\ toCli # <<>> /\ link = "open"
    /\ cache' = Head(toCli)
    /\ coordOk' = (coordOk \/ Head(toCli).ack)
    /\ fresh' = [t \in Threads |-> pc[t] \in Waiting]
    /\ toCli' = Tail(toCli)
    /\ UNCHANGED <<mount, toDev, link, handle, motion, authority, threads, budgets>>


-----------------------------------------------------------------------------
(* What a thread sees.                                                     *)

S == DecodeGu(cache.gu)

ActiveMotion == IF motion # 0 /\ ~handle[motion].done THEN motion ELSE 0

IsWorker(t) == t \in Workers

\* MotionToken.check and sleep; the blocking calls pass NO_STOP.
StopSeen(t) == IsWorker(t) /\ handle[t[2]].stopReq

\* IndiHomeRouter._ready of a live status.
Ready ==
    /\ link = "open" /\ ~cache.alert /\ ~cache.error
    /\ ~S.at_limit /\ ~S.park_failed

\* IndiAxisMover._check of a live status.
AxisCheck(moving) ==
    /\ Ready /\ GuDecodable(cache.gu) /\ ~S.parked
    /\ moving \/ (~S.tracking /\ ~S.slewing)

\* home_authority_established, evaluated by every IndiStatusReader.read.
AuthorityRead ==
    authority /\ Ready /\ GuDecodable(cache.gu) /\ ~S.parked

Jump(t, l) == pc' = [pc EXCEPT ![t] = l]

\* The run of a move returns or raises; a blocking call returns to its caller,
\* who keeps its result until the next call.
End(t, out, conf) ==
    /\ Jump(t, IF IsWorker(t) THEN "finish" ELSE "idle")
    /\ loc' = [loc EXCEPT ![t] = Result(IF IsWorker(t) THEN out ELSE "unused", conf)]
    /\ op' = IF IsWorker(t) THEN op ELSE [op EXCEPT ![t] = "none"]

\* An exception in a move: the router runs stop_mount_via_indi itself, the
\* axis mover calls the client's emergency_stop.
Fail(t) ==
    /\ Jump(t, IF op[t] = "axis" THEN "begin" ELSE "abort")
    /\ loc' = [loc EXCEPT ![t] = NoLocals]
    /\ UNCHANGED op

Take(t) == fresh' = [fresh EXCEPT ![t] = FALSE]

-----------------------------------------------------------------------------
(* Starting a move, and the calls that block their application thread.     *)

\* Mutant: no look at active_motion.
StartMotionUnguarded(a, k) ==
    /\ pc[a] = "idle" /\ link = "open"
    /\ motion < MaxMoves
    /\ motion' = motion + 1
    /\ handle' = [handle EXCEPT ![motion'] = NewHandle(k)]
    /\ Jump(Worker(motion'), "preflight")
    /\ op' = [op EXCEPT ![Worker(motion')] = k]
    /\ loc' = [loc EXCEPT ![a] = NoLocals]
    /\ UNCHANGED <<wire, link, cache, coordOk, fresh, authority, budgets>>

\* go_home, park and move_axis_deg, with _start_motion.
StartMotion(a, k) ==
    /\ pc[a] = "idle" /\ link = "open"
    /\ ActiveMotion = 0
    /\ motion < MaxMoves
    /\ LET i == motion + 1
       IN  /\ motion' = i
           /\ handle' = [handle EXCEPT ![i] = NewHandle(k)]
           /\ Jump(Worker(i), "preflight")
           /\ op' = [op EXCEPT ![Worker(i)] = k]
    /\ loc' = [loc EXCEPT ![a] = NoLocals]
    /\ UNCHANGED <<wire, link, cache, coordOk, fresh, authority, budgets>>

\* Mutant: no look at active_motion.
CallBlockingUnguarded(a, o) ==
    /\ pc[a] = "idle" /\ link = "open"
    /\ calls[a] < MaxAppCalls
    /\ calls' = [calls EXCEPT ![a] = @ + 1]
    /\ Jump(a, "preflight")
    /\ op' = [op EXCEPT ![a] = o]
    /\ loc' = [loc EXCEPT ![a] = NoLocals]
    /\ UNCHANGED <<wire, client, faults, drops>>

\* unpark and route_park_to_home, up to _require_no_motion.
CallBlocking(a, o) ==
    /\ pc[a] = "idle" /\ link = "open"
    /\ ActiveMotion = 0
    /\ calls[a] < MaxAppCalls
    /\ calls' = [calls EXCEPT ![a] = @ + 1]
    /\ Jump(a, "preflight")
    /\ op' = [op EXCEPT ![a] = o]
    /\ loc' = [loc EXCEPT ![a] = NoLocals]
    /\ UNCHANGED <<wire, client, faults, drops>>

-----------------------------------------------------------------------------
(* The moves: IndiHomeRouter and IndiAxisMover.                            *)

\* Each preflight may also refuse because the status is not live.
PreflightHome(t) ==
    /\ pc[t] = "preflight" /\ op[t] = "home"
    /\ authority' = AuthorityRead
    /\ \/ /\ Ready /\ ~S.parked /\ ~S.slewing /\ ~S.tracking
          /\ Jump(t, "check") /\ UNCHANGED <<op, loc>>
       \/ End(t, "succeeded", FALSE)
    /\ UNCHANGED <<wire, link, cache, coordOk, fresh, handle, motion, budgets>>

\* Mutant: the authority survives the PARK.
PreflightParkKeepsAuthority(t) ==
    /\ pc[t] = "preflight" /\ op[t] = "park"
    /\ \/ /\ Ready /\ ~S.slewing /\ ~S.tracking
          /\ authority' = AuthorityRead
          /\ IF S.parked THEN End(t, "succeeded", TRUE)
             ELSE Jump(t, "check") /\ UNCHANGED <<op, loc>>
       \/ authority' = AuthorityRead /\ End(t, "succeeded", FALSE)
    /\ UNCHANGED <<wire, link, cache, coordOk, fresh, handle, motion, budgets>>

PreflightPark(t) ==
    /\ pc[t] = "preflight" /\ op[t] = "park"
    /\ \/ /\ Ready /\ ~S.slewing /\ ~S.tracking
          /\ authority' = FALSE
          /\ IF S.parked THEN End(t, "succeeded", TRUE)
             ELSE Jump(t, "check") /\ UNCHANGED <<op, loc>>
       \/ authority' = AuthorityRead /\ End(t, "succeeded", FALSE)
    /\ UNCHANGED <<wire, link, cache, coordOk, fresh, handle, motion, budgets>>

\* The projected DEC and altitude bounds may refuse any axis move.
PreflightAxis(t) ==
    /\ pc[t] = "preflight" /\ op[t] = "axis"
    /\ authority' = AuthorityRead
    /\ Take(t)
    /\ \/ AxisCheck(FALSE) /\ Jump(t, "check") /\ UNCHANGED <<op, loc>>
       \/ End(t, "failed", FALSE)
    /\ UNCHANGED <<wire, link, cache, coordOk, handle, motion, budgets>>

PreflightUnpark(t) ==
    /\ pc[t] = "preflight" /\ op[t] \in {"unpark", "route"}
    /\ authority' = FALSE
    /\ \/ Ready /\ S.parked /\ ~S.slewing /\ Jump(t, "check") /\ UNCHANGED <<op, loc>>
       \/ End(t, "failed", FALSE)
    /\ UNCHANGED <<wire, link, cache, coordOk, fresh, handle, motion, budgets>>

\* The revision baseline and token.check in front of the command.
CheckToken(t) ==
    /\ pc[t] = "check"
    /\ IF op[t] = "axis" THEN UNCHANGED fresh ELSE Take(t)
    /\ IF StopSeen(t) THEN End(t, "stopped", FALSE)
       ELSE /\ Jump(t, IF op[t] = "axis" /\ ~coordOk THEN "coordset" ELSE "issue")
            /\ UNCHANGED <<op, loc>>
    /\ UNCHANGED <<wire, link, cache, coordOk, handle, motion, authority, budgets>>

\* set_switch(ON_COORD_SET, SLEW): send, then wait for the echo.
SendCoordSet(t) ==
    /\ pc[t] = "coordset"
    /\ IF link = "open"
       THEN toDev' = Append(toDev, "SLEW") /\ Jump(t, "coordwait") /\ UNCHANGED <<op, loc>>
       ELSE End(t, "failed", FALSE) /\ UNCHANGED toDev
    /\ UNCHANGED <<mount, toCli, client, budgets>>

AwaitCoordSet(t) ==
    /\ pc[t] = "coordwait"
    /\ \/ link # "failed" /\ coordOk /\ Jump(t, "issue") /\ UNCHANGED <<op, loc>>
       \/ link # "open" /\ ~(link = "closed" /\ coordOk) /\ End(t, "failed", FALSE)
       \/ link = "open" /\ ~coordOk /\ QueueRead /\ End(t, "failed", FALSE)  \* timeout
    /\ UNCHANGED <<wire, client, budgets>>

CommandOf(o) ==
    CASE o = "home" -> "GO"
      [] o = "park" -> "PARK"
      [] o = "axis" -> "TARGET"
      [] OTHER -> "UNPARK"

\* late marks the move whose stop was requested before this command left: its
\* own, or that of a route to HOME beside it.
IssueCommand(t) ==
    /\ pc[t] = "issue"
    /\ IF link = "open"
       THEN /\ toDev' = Append(toDev, CommandOf(op[t]))
            /\ handle' = IF CommandOf(op[t]) \in MoveCommands /\ motion # 0
                         THEN [handle EXCEPT ![motion].late = @ \/ handle[motion].stopReq]
                         ELSE handle
            /\ Jump(t, "loop") /\ UNCHANGED <<op, loc>>
       ELSE Fail(t) /\ UNCHANGED <<toDev, handle>>
    /\ UNCHANGED <<mount, toCli, link, cache, coordOk, fresh, motion, authority, budgets>>

\* Mutant: the loop does not look at its token.
LoopTopDeaf(t) ==
    /\ pc[t] = "loop"
    /\ Jump(t, "poll")
    /\ UNCHANGED <<wire, client, op, loc, budgets>>

\* Top of a wait loop: a stoppable move looks at its token.
LoopTop(t) ==
    /\ pc[t] = "loop"
    /\ IF StopSeen(t) THEN End(t, "stopped", FALSE)
       ELSE Jump(t, "poll") /\ UNCHANGED <<op, loc>>
    /\ UNCHANGED <<wire, client, budgets>>

\* The deadline of a wait.  _wait_status looks at the token first, the axis
\* loops look at the clock first.
Deadline(t) ==
    /\ \/ pc[t] = "loop" /\ (op[t] = "axis" \/ ~StopSeen(t))
       \/ pc[t] = "poll" /\ op[t] # "axis" /\ ~fresh[t]
    /\ QueueRead
    /\ Fail(t)
    /\ UNCHANGED <<wire, client, budgets>>

\* Mutant: PARK is confirmed by a stationary status alone.
ArrivedAnywhere(o, phase) ==
    CASE o = "home" -> S.at_home /\ S.not_parked /\ ~S.slewing /\ ~S.tracking
      [] o = "park" -> ~S.slewing /\ ~S.tracking
      [] OTHER -> S.not_parked /\ ~S.slewing /\ (phase = "off" => ~S.tracking)

\* _wait_status' predicates.
Arrived(o, phase) ==
    CASE o = "home" -> S.at_home /\ S.not_parked /\ ~S.slewing /\ ~S.tracking
      [] o = "park" -> S.parked /\ ~S.slewing /\ ~S.tracking
      [] OTHER -> S.not_parked /\ ~S.slewing /\ (phase = "off" => ~S.tracking)

StablePolls(o) == IF o \in {"home", "park"} THEN 2 ELSE 1

\* One pass of _wait_status after token and clock: the transport or the
\* status fails the move, the status is counted, or the wait is over.
PollReads(t) ==
    pc[t] = "poll" /\ op[t] # "axis" /\ Take(t)

StatusFails ==
    \/ ~GuDecodable(cache.gu) \/ cache.alert \/ cache.error
    \/ S.park_failed \/ S.at_limit

StableAfter(t) == IF Arrived(op[t], loc[t].phase) THEN loc[t].stable + 1 ELSE 0

PollFails(t) ==
    /\ PollReads(t)
    /\ \/ link = "failed"
       \/ link = "closed" /\ ~fresh[t]
       \/ fresh[t] /\ StatusFails
    /\ Fail(t)
    /\ UNCHANGED <<wire, link, cache, coordOk, handle, motion, authority, budgets>>

PollGood(t) == PollReads(t) /\ link # "failed" /\ fresh[t] /\ ~StatusFails

PollGoesOn(t) ==
    /\ PollGood(t)
    /\ StableAfter(t) < StablePolls(op[t])
    /\ Jump(t, "loop")
    /\ loc' = [loc EXCEPT ![t].stable = StableAfter(t)]
    /\ UNCHANGED <<wire, link, cache, coordOk, handle, motion, authority, op, budgets>>

\* Mutant: every arrival takes the HOME authority.
PollConfirmsAuthority(t) ==
    /\ PollGood(t) /\ op[t] \in {"home", "park"}
    /\ StableAfter(t) = StablePolls(op[t])
    /\ End(t, "succeeded", TRUE)
    /\ authority' = TRUE
    /\ UNCHANGED <<wire, link, cache, coordOk, handle, motion, budgets>>

\* _move_to_position returns confirmed; _move_to_home takes the authority.
PollConfirms(t) ==
    /\ PollGood(t) /\ op[t] \in {"home", "park"}
    /\ StableAfter(t) = StablePolls(op[t])
    /\ End(t, "succeeded", TRUE)
    /\ authority' = (authority \/ op[t] = "home")
    /\ UNCHANGED <<wire, link, cache, coordOk, handle, motion, budgets>>

\* Mutant: tracking that resumed is left on.
PollUnparkedTracking(t) ==
    /\ PollGood(t) /\ op[t] \in {"unpark", "route"}
    /\ StableAfter(t) = StablePolls(op[t])
    /\ \/ op[t] = "unpark" /\ End(t, "succeeded", TRUE)
       \/ /\ op[t] = "route"
          /\ Jump(t, "check")
          /\ op' = [op EXCEPT ![t] = "home"]
          /\ loc' = [loc EXCEPT ![t] = NoLocals]
    /\ UNCHANGED <<wire, link, cache, coordOk, handle, motion, authority, budgets>>

\* unpark: tracking that resumed is switched off; a route goes on to HOME.
PollUnparked(t) ==
    /\ PollGood(t) /\ op[t] \in {"unpark", "route"}
    /\ StableAfter(t) = StablePolls(op[t])
    /\ \/ S.tracking /\ Jump(t, "off") /\ UNCHANGED <<op, loc>>
       \/ ~S.tracking /\ op[t] = "unpark" /\ End(t, "succeeded", TRUE)
       \/ /\ ~S.tracking /\ op[t] = "route"
          /\ Jump(t, "check")
          /\ op' = [op EXCEPT ![t] = "home"]
          /\ loc' = [loc EXCEPT ![t] = NoLocals]
    /\ UNCHANGED <<wire, link, cache, coordOk, handle, motion, authority, budgets>>

\* wait_property timed out after STOP_CHECK_INTERVAL_S.
PollSlice(t) ==
    /\ pc[t] = "poll" /\ op[t] # "axis" /\ IsWorker(t)
    /\ ~fresh[t] /\ link = "open"
    /\ Jump(t, "loop")
    /\ UNCHANGED <<wire, client, op, loc, budgets>>

\* One observation of the axis mover, refused when stale or unsafe.
AxisObserves(t) ==
    pc[t] = "poll" /\ op[t] = "axis" /\ authority' = AuthorityRead /\ Take(t)

AxisUnsafe(t) ==
    /\ AxisObserves(t)
    /\ Fail(t)
    /\ UNCHANGED <<wire, link, cache, coordOk, handle, motion, budgets>>

\* The loop to arrival: fresh coordinates at the target, remembered in
\* target_coordinates_seen, and no slew.
AxisMoving(t) ==
    /\ AxisObserves(t) /\ AxisCheck(TRUE) /\ loc[t].phase # "off"
    /\ LET seen == loc[t].phase = "near" \/ (fresh[t] /\ cache.goal)
       IN  /\ loc' = [loc EXCEPT ![t].phase = IF seen THEN "near" ELSE "go"]
           /\ Jump(t, IF seen /\ ~S.slewing THEN "off" ELSE "loop")
    /\ UNCHANGED <<wire, link, cache, coordOk, handle, motion, op, budgets>>

\* Mutant: a poll that is not slewing counts, tracking or not.
AxisConfirmingSlewOnly(t) ==
    /\ AxisObserves(t) /\ AxisCheck(TRUE) /\ loc[t].phase = "off"
    /\ LET polls == IF ~fresh[t] THEN loc[t].stable
                    ELSE IF ~S.slewing THEN loc[t].stable + 1 ELSE 0
       IN  \/ /\ polls < 2
              /\ Jump(t, "loop")
              /\ loc' = [loc EXCEPT ![t].stable = polls]
              /\ UNCHANGED op
           \/ polls = 2 /\ cache.goal /\ End(t, "succeeded", TRUE)
           \/ polls = 2 /\ ~cache.goal /\ Fail(t)
    /\ UNCHANGED <<wire, link, cache, coordOk, handle, motion, budgets>>

\* The loop to two fresh stopped polls, and the final tolerance check.
AxisConfirming(t) ==
    /\ AxisObserves(t) /\ AxisCheck(TRUE) /\ loc[t].phase = "off"
    /\ LET polls == IF ~fresh[t] THEN loc[t].stable
                    ELSE IF ~S.tracking /\ ~S.slewing THEN loc[t].stable + 1 ELSE 0
       IN  \/ /\ polls < 2
              /\ Jump(t, "loop")
              /\ loc' = [loc EXCEPT ![t].stable = polls]
              /\ UNCHANGED op
           \/ polls = 2 /\ cache.goal /\ End(t, "succeeded", TRUE)
           \/ polls = 2 /\ ~cache.goal /\ Fail(t)
    /\ UNCHANGED <<wire, link, cache, coordOk, handle, motion, budgets>>

\* TRACK_OFF after the arrival of an axis move and after an unpark; unpark
\* takes a new revision baseline.
SendTrackOff(t) ==
    /\ pc[t] = "off"
    /\ IF op[t] = "axis" THEN UNCHANGED fresh ELSE Take(t)
    /\ IF link = "open"
       THEN /\ toDev' = Append(toDev, "TRACK_OFF")
            /\ Jump(t, "loop") /\ loc' = [loc EXCEPT ![t] = [NoLocals EXCEPT !.phase = "off"]]
            /\ UNCHANGED op
       ELSE Fail(t) /\ UNCHANGED toDev
    /\ UNCHANGED <<mount, toCli, link, cache, coordOk, handle, motion, authority, budgets>>

\* Mutant: MotionStopped leaves _work before the done event.
WorkerFinishesSilently(t) ==
    /\ pc[t] = "finish"
    /\ handle' = [handle EXCEPT ![t[2]].state = loc[t].out, ![t[2]].conf = loc[t].conf]
    /\ Jump(t, IF loc[t].out = "stopped" THEN "idle" ELSE "setdone")
    /\ UNCHANGED <<wire, link, cache, coordOk, fresh, motion, authority, op, loc, budgets>>

\* MotionHandle._work: the outcome under the lock, with a stop result that was
\* recorded before it, then the done event.
Finished(h, out, conf) ==
    [h EXCEPT !.state = out, !.conf = conf,
              !.errStop = IF out = "stopped" THEN h.stopResult ELSE h.errStop]

WorkerFinishes(t) ==
    /\ pc[t] = "finish"
    /\ handle' = [handle EXCEPT ![t[2]] = Finished(@, loc[t].out, loc[t].conf)]
    /\ Jump(t, "setdone")
    /\ UNCHANGED <<wire, link, cache, coordOk, fresh, motion, authority, op, loc, budgets>>

WorkerSetsDone(t) ==
    /\ pc[t] = "setdone"
    /\ handle' = [handle EXCEPT ![t[2]].done = TRUE]
    /\ Jump(t, "idle")
    /\ op' = [op EXCEPT ![t] = "none"]
    /\ loc' = [loc EXCEPT ![t] = NoLocals]
    /\ UNCHANGED <<wire, link, cache, coordOk, fresh, motion, authority, budgets>>

-----------------------------------------------------------------------------
(* The verified stop: emergency_stop, stop_mount_via_indi and _record_stop.*)

\* mount.stop(): OnStepIndiClient.emergency_stop from an application thread.
CallStop(a) ==
    /\ pc[a] = "idle" /\ calls[a] < MaxAppCalls
    /\ calls' = [calls EXCEPT ![a] = @ + 1]
    /\ Jump(a, "begin")
    /\ loc' = [loc EXCEPT ![a] = NoLocals]
    /\ UNCHANGED <<wire, client, op, faults, drops>>

\* MotionHandle.stop: the token of this handle, then emergency_stop.
CallHandleStop(a, i) ==
    /\ pc[a] = "idle" /\ calls[a] < MaxAppCalls
    /\ i <= motion
    /\ calls' = [calls EXCEPT ![a] = @ + 1]
    /\ handle' = [handle EXCEPT ![i].stopReq = TRUE]
    /\ loc' = [loc EXCEPT ![a] = [NoLocals EXCEPT !.own = i]]
    /\ Jump(a, "begin")
    /\ UNCHANGED <<wire, link, cache, coordOk, fresh, motion, authority, op, faults, drops>>

\* IndiMeridianSupervisor.tick: the hour angle is not modelled, so any fresh
\* status of an unparked, not homed, moving mount may demand a stop.
SupervisorTick ==
    /\ pc[Sup] = "idle" /\ pc[Cls] # "closed"
    /\ authority' = AuthorityRead
    /\ \/ UNCHANGED <<pc, calls>>
       \/ /\ calls[Sup] < MaxSupCalls
          /\ ~S.parked /\ ~S.at_home /\ (S.tracking \/ S.slewing)
          /\ calls' = [calls EXCEPT ![Sup] = @ + 1]
          /\ Jump(Sup, "begin")
    /\ UNCHANGED <<wire, link, cache, coordOk, fresh, handle, motion, op, loc, faults, drops>>

\* What the caller of a stop does next.
Continue(t) ==
    /\ IF t = Cls THEN Jump(t, "join") /\ UNCHANGED <<op, loc>>
       ELSE End(t, IF op[t] = "axis" THEN "failed" ELSE "succeeded", FALSE)
    /\ authority' = (authority /\ op[t] # "home")

\* emergency_stop up to its is_open check.
BeginStop(t) ==
    /\ pc[t] = "begin"
    /\ handle' = IF ActiveMotion = 0 THEN handle
                 ELSE [handle EXCEPT ![ActiveMotion].stopReq = TRUE]
    /\ IF link = "open"
       THEN /\ Jump(t, "abort")
            /\ loc' = [loc EXCEPT ![t].held = ActiveMotion]
            /\ UNCHANGED <<op, authority>>
       ELSE Continue(t)
    /\ UNCHANGED <<wire, link, cache, coordOk, fresh, motion, budgets>>

\* The two commands are sent independently; a failure is kept as an error.
SendStop(t, at, c, next) ==
    /\ pc[t] = at
    /\ IF link = "open"
       THEN toDev' = Append(toDev, c) /\ UNCHANGED loc
       ELSE loc' = [loc EXCEPT ![t].err = TRUE] /\ UNCHANGED toDev
    /\ Jump(t, next)
    /\ UNCHANGED <<mount, toCli, client, op, budgets>>

\* Mutant: no ABORT when the last status does not slew.
SendAbortIfSlewing(t) ==
    \/ S.slewing /\ SendStop(t, "abort", "ABORT", "trackoff")
    \/ /\ ~S.slewing /\ pc[t] = "abort" /\ Jump(t, "trackoff")
       /\ UNCHANGED <<wire, client, op, loc, budgets>>

SendAbort(t) == SendStop(t, "abort", "ABORT", "trackoff")
SendStopTrackOff(t) == SendStop(t, "trackoff", "TRACK_OFF", "mark")

\* The revision baseline, read after both commands went out.
MarkRevision(t) ==
    /\ pc[t] = "mark"
    /\ Take(t)
    /\ Jump(t, "spoll")
    /\ UNCHANGED <<wire, link, cache, coordOk, handle, motion, authority, op, loc, budgets>>

StatusStopped ==
    /\ ~cache.alert /\ GuDecodable(cache.gu)
    /\ ~S.tracking /\ ~S.slewing /\ ~S.park_failed

\* Mutant: off by one in the number of polls.
PollStoppedThrice(t) ==
    /\ pc[t] = "spoll"
    /\ fresh[t] \/ link # "open"
    /\ Take(t)
    /\ LET polls == IF StatusStopped THEN loc[t].polls + 1 ELSE 0
       IN  IF link = "failed" \/ ~fresh[t]
           THEN loc' = [loc EXCEPT ![t].err = TRUE] /\ Jump(t, "record")
           ELSE /\ loc' = [loc EXCEPT ![t].polls = polls]
                /\ Jump(t, IF polls > 2 THEN "record" ELSE "spoll")
    /\ UNCHANGED <<wire, link, cache, coordOk, handle, motion, authority, op, budgets>>

PollStopped(t) ==
    /\ pc[t] = "spoll"
    /\ fresh[t] \/ link # "open"
    /\ Take(t)
    /\ LET polls == IF StatusStopped THEN loc[t].polls + 1 ELSE 0
       IN  IF link = "failed" \/ ~fresh[t]
           THEN loc' = [loc EXCEPT ![t].err = TRUE] /\ Jump(t, "record")
           ELSE /\ loc' = [loc EXCEPT ![t].polls = polls]
                /\ Jump(t, IF polls = 2 THEN "record" ELSE "spoll")
    /\ UNCHANGED <<wire, link, cache, coordOk, handle, motion, authority, op, budgets>>

\* Mutant: the confirmation waits without a deadline of its own.
StopDeadlineGone(t) ==
    /\ pc[t] = "spoll" /\ link # "open"
    /\ loc' = [loc EXCEPT ![t].err = TRUE]
    /\ Jump(t, "record")
    /\ UNCHANGED <<wire, client, op, budgets>>

StopDeadline(t) ==
    /\ pc[t] = "spoll" /\ QueueRead
    /\ loc' = [loc EXCEPT ![t].err = TRUE]
    /\ Jump(t, "record")
    /\ UNCHANGED <<wire, client, op, budgets>>

\* IndiStopResult.stopped_confirmed
ResultOf(t) ==
    IF loc[t].polls = 2 /\ ~loc[t].err THEN "confirmed" ELSE "unconfirmed"

\* Mutant: a result that comes before the exception or after it is not joined.
RecordedBare(h, r) == [h EXCEPT !.stopResult = r]

\* Mutant: whoever is stopped is called stopped.
RecordedAsStopped(h, r) ==
    [h EXCEPT !.stopResult = r, !.state = "stopped", !.errStop = r]

\* MotionHandle._record_stop, under the handle's lock.
Recorded(h, r) ==
    [h EXCEPT !.stopResult = r,
              !.errStop = IF h.state = "stopped" /\ h.errStop = "none" THEN r ELSE @]

RecordStop(t) ==
    /\ pc[t] = "record"
    /\ handle' = [i \in Handles |-> IF i \in {loc[t].held, loc[t].own}
                                    THEN Recorded(handle[i], ResultOf(t)) ELSE handle[i]]
    /\ Continue(t)
    /\ UNCHANGED <<wire, link, cache, coordOk, fresh, motion, budgets>>

-----------------------------------------------------------------------------
(* close()                                                                 *)

CloseBegins ==
    /\ pc[Cls] = "idle" /\ MaxCloses > 0
    /\ Jump(Cls, IF ActiveMotion # 0 /\ link = "open" THEN "begin" ELSE "join")
    /\ UNCHANGED <<wire, client, op, loc, budgets>>

\* The supervisor has been joined; the transport closes.
CloseEnds ==
    /\ pc[Cls] = "join" /\ pc[Sup] = "idle"
    /\ Jump(Cls, "closed")
    /\ link' = "closed"
    /\ toCli' = <<>>
    /\ authority' = FALSE
    /\ UNCHANGED <<mount, toDev, cache, coordOk, fresh, handle, motion, op, loc, budgets>>

\* After close nothing is left to do.
Terminated ==
    /\ pc[Cls] = "closed" /\ toDev = <<>> /\ TickEdges(mount) = {}
    /\ \A t \in Threads \ {Cls} : pc[t] = "idle"
    /\ UNCHANGED vars

-----------------------------------------------------------------------------
MoverStep(t) ==
    \/ PreflightHome(t) \/ PreflightPark(t) \/ PreflightAxis(t) \/ PreflightUnpark(t)
    \/ CheckToken(t) \/ SendCoordSet(t) \/ AwaitCoordSet(t) \/ IssueCommand(t)
    \/ LoopTop(t) \/ SendTrackOff(t)
    \/ PollFails(t) \/ PollGoesOn(t) \/ PollConfirms(t) \/ PollUnparked(t) \/ PollSlice(t)
    \/ AxisUnsafe(t) \/ AxisMoving(t) \/ AxisConfirming(t)

WorkerEnd(t) == WorkerFinishes(t) \/ WorkerSetsDone(t)

StopStep(t) ==
    \/ BeginStop(t) \/ SendAbort(t) \/ SendStopTrackOff(t) \/ MarkRevision(t)
    \/ PollStopped(t) \/ RecordStop(t)

AppCall(a) ==
    \/ \E k \in Ops \cap MoveOps : StartMotion(a, k)
    \/ \E o \in Ops \ MoveOps : CallBlocking(a, o)
    \/ CallStop(a)
    \/ \E i \in Handles : CallHandleStop(a, i)

Device ==
    \/ DeviceHandlesWrite \/ DeviceTick \/ DevicePublishes
    \/ \E f \in Faults \ {"none"} : DeviceFaults(f)

Next ==
    \/ \E t \in Movers : MoverStep(t) \/ Deadline(t)
    \/ \E t \in Workers : WorkerEnd(t)
    \/ \E t \in Threads : StopStep(t) \/ StopDeadline(t)
    \/ \E a \in Apps : AppCall(a)
    \/ SupervisorTick \/ CloseBegins \/ CloseEnds \/ Terminated
    \/ Device \/ ConnectionDrops \/ ReaderRecords

Spec == Init /\ [][Next]_vars

\* Threads are scheduled, the device serves its queue and its slews end, the
\* reader reads.  Nobody has to call anything, but a close() that began goes on.
\* Fairness of the device is strong because the bounded wire may be full again
\* and again.
Fairness ==
    /\ \A t \in Movers : WF_vars(MoverStep(t))
    /\ \A t \in Workers : WF_vars(WorkerEnd(t))
    /\ \A t \in Threads : WF_vars(StopStep(t)) /\ WF_vars(StopDeadline(t))
    /\ WF_vars(CloseEnds)
    /\ SF_vars(DeviceHandlesWrite) /\ SF_vars(DeviceTick) /\ WF_vars(ReaderRecords)

\* The clock passes every deadline; a worker looks at it in every round.
ClockRuns == \A t \in Movers : SF_vars(Deadline(t))

FairSpec == Spec /\ Fairness

-----------------------------------------------------------------------------
(* Properties.                                                             *)

\* Every variable keeps its type.
TypeOK ==
    /\ mount \in Mounts
    /\ toDev \in Seq(Commands) /\ toCli \in Seq(Updates)
    /\ link \in {"open", "failed", "closed"}
    /\ cache \in Updates /\ coordOk \in BOOLEAN
    /\ fresh \in [Threads -> BOOLEAN]
    /\ handle \in [Handles -> HandleRecords]
    /\ motion \in 0 .. MaxMoves
    /\ authority \in BOOLEAN
    /\ pc \in [Threads -> PCs]
    /\ op \in [Threads -> AllOps \cup {"none"}]
    /\ loc \in [Threads -> Locals]
    /\ calls \in [Threads -> Nat]
    /\ faults \in 0 .. MaxFaults /\ drops \in 0 .. MaxDrops

Underway(i) == handle[i].state # "unused" /\ ~handle[i].done

\* _start_motion: two moves are never under way at once, the one that is is
\* client._motion, and no other worker thread is alive to command the mount.
OneMoveAtATime ==
    \A i \in Handles :
        /\ Underway(i) => motion = i
        /\ pc[Worker(i)] # "idle" => Underway(i)

\* "Only one move runs at a time", the blocking calls included: two of them do
\* not both wait for the mount to carry out their command.
OnlyOneMover ==
    \A t, u \in Movers :
        pc[t] \in {"loop", "poll", "off"} /\ pc[u] \in {"loop", "poll", "off"} => t = u

\* One application thread keeps to that whatever it calls, because each of its
\* calls looks at the active move.
OneCallerOneMover == \A a \in Apps : Apps = {a} => OnlyOneMover

\* _work and _record_stop may run in either order: once a stop result was
\* recorded for a move that ended stopped, wait() raises it with the exception.
StopResultDelivered ==
    \A i \in Handles :
        handle[i].state = "stopped" /\ handle[i].stopResult # "none"
            => handle[i].errStop # "none"

\* A move whose stop was confirmed does not go on, once the device has read
\* what it was sent - unless a command that moves the mount left after the stop
\* was requested: its own, between the token check and the send, or a route's.
StoppedMoveIsHalted ==
    \A i \in Handles :
        (/\ handle[i].stopResult = "confirmed" /\ ~handle[i].late /\ motion = i
         /\ toDev = <<>> /\ drops = 0)
            => mount.motion # "SLEWING"

NobodyUnparked == Ops \subseteq MoveOps \/ \A a \in Apps : calls[a] = 0

\* The mount has one target, so that of an earlier axis move may be seen as its own.
FirstAxis(i) == \A j \in Handles : j < i => handle[j].kind # "axis"

\* As long as nobody unparked, a confirmed park or axis move is true of the
\* mount, not only of the status seen: parked from then on, or on target until
\* the next move, at rest, not tracking.
ConfirmedMoveIsReal ==
    NobodyUnparked =>
        \A i \in Handles : handle[i].conf =>
            /\ handle[i].kind = "park"
                  => mount.parked /\ mount.motion = "IDLE" /\ ~mount.tracking
            /\ handle[i].kind = "axis" /\ motion = i /\ FirstAxis(i)
                  => mount.on_goal /\ mount.motion = "IDLE" /\ ~mount.tracking

\* A confirmed unpark or PARK-to-HOME route leaves the mount unparked and not
\* tracking, although OnStepX may resume tracking by itself when it unparks.
UnparkIsQuiet ==
    \A a \in Apps :
        Apps = {a} /\ pc[a] = "idle" /\ loc[a].conf => ~mount.parked /\ ~mount.tracking

\* The last PARK before the current move, if there was one, was confirmed.
ParkWasReached ==
    \A i \in Handles :
        (/\ i < motion /\ handle[i].kind = "park"
         /\ \A j \in Handles : i < j /\ j < motion => handle[j].kind # "park")
            => handle[i].conf

\* HOME authority is never held for a mount that is parked, if one application
\* thread calls and no PARK that was given up may still be carried out.
AuthorityExcludesParked ==
    \A a \in Apps : Apps = {a} /\ ParkWasReached /\ authority => ~mount.parked

\* The outcome of a finished move is final, and nothing but a stop result is
\* added to it.
OutcomeIsFinal ==
    [][\A i \in Handles : handle[i].done =>
          /\ handle'[i].done /\ handle'[i].state = handle[i].state
          /\ handle'[i].conf = handle[i].conf /\ handle'[i].kind = handle[i].kind]_vars

\* The handles of indi_motion.py keep the promise of MotionPromise: one move at a
\* time, one final outcome, stopped only when asked, whatever the threads do.
Promise == INSTANCE MotionPromise
    WITH state <- [i \in Handles |-> handle[i].state],
         done <- [i \in Handles |-> handle[i].done],
         asked <- [i \in Handles |-> handle[i].stopReq]

KeepsPromise == Promise!Spec

\* Every move ends by its deadline at the latest, whatever happens to the mount
\* and the connection.
MoveEnds ==
    ClockRuns => \A i \in Handles : handle[i].state = "running" ~> handle[i].done

\* A stop ends a move that has not ended, and does not need the deadline of the
\* move for it: the worker sees the request in its next round.
StopEndsMove == \A i \in Handles : handle[i].stopReq ~> handle[i].done

\* A close() that began returns, although it waits for a stop to be confirmed
\* and for the supervisor, which may be in a stop of its own.
CloseReturns == pc[Cls] # "idle" ~> pc[Cls] = "closed"

NobodyMoves == \A a \in Apps : op[a] = "none"

\* "Never leave a move running without its supervisor and transport": the move
\* that close() found running and stopped does not go on after it.
CloseLeavesNoMove ==
    (/\ pc[Cls] = "closed" /\ loc[Cls].held # 0 /\ loc[Cls].held = motion
     /\ toDev = <<>> /\ drops = 0 /\ NobodyMoves)
        => mount.motion # "SLEWING"

\* It does not, confirmed or not, if no command that moves the mount left after
\* the stop was requested: the ABORT is on the wire before the transport closes.
CloseHaltsMove ==
    (/\ pc[Cls] = "closed" /\ loc[Cls].held # 0 /\ loc[Cls].held = motion
     /\ ~handle[motion].late /\ toDev = <<>> /\ drops = 0)
        => mount.motion # "SLEWING"

=============================================================================
