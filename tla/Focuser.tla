------------------------------- MODULE Focuser -------------------------------
(***************************************************************************)
(* The INDI focuser (indi_focuser.py): move_absolute and stop, called from *)
(* several threads, over the transport (indi_transport.py) to the focuser  *)
(* of the device (onstep_mock/server.py).                                  *)
(*                                                                         *)
(* Waits compare revisions only to learn whether a vector is newer than    *)
(* the last one looked at, so each thread has a flag fresh for             *)
(* ABS_FOCUS_POSITION, and in answer the state of a newer                  *)
(* FOCUS_ABORT_MOTION, if there is one.                                    *)
(* Deadlines are nondeterministic, and a cached position may always be     *)
(* found too old.                                                          *)
(***************************************************************************)
EXTENDS Naturals, Sequences

CONSTANTS
    Movers,            \* threads that call move_absolute
    Stoppers,          \* threads that call stop
    MaxPosition,       \* travel of the focuser (focuser_max)
    ConfiguredMaximum, \* config.focuser_max_position
    MaxMoves,          \* bound on the calls of each mover
    MaxStops,          \* bound on the calls of each stopper
    MaxInFlight,       \* bound on the vectors on the wire
    MaxRejects,        \* bound on the rejected positions (reject_next)
    MaxLimits,         \* bound on the changes of FOCUS_MAX
    MaxDrops           \* 1 if the server may drop the connection, else 0

ASSUME FocuserAssumption ==
    /\ Movers \cap Stoppers = {}
    /\ MaxPosition \in Nat /\ ConfiguredMaximum \in Nat
    /\ MaxMoves \in Nat /\ MaxStops \in Nat /\ MaxInFlight \in Nat \ {0}
    /\ MaxRejects \in Nat /\ MaxLimits \in Nat /\ MaxDrops \in Nat

Threads == Movers \cup Stoppers
Positions == 0 .. MaxPosition
Off == MaxPosition + 1          \* _focuser_target is None
Free == "free"                  \* nobody holds _motion_lock
States == {"Ok", "Busy", "Alert"}

\* A write of a target position, or ABORT.
Commands == Positions \cup {Off}

\* A published vector: of ABS_FOCUS_POSITION, or of FOCUS_ABORT_MOTION (abort).
Vectors == [abort : BOOLEAN, position : Positions, state : States]

PCs == {"idle", "lock", "clear", "preflight", "baseline", "issue", "loop", "poll",
        "cancel", "smark", "request", "ack", "spoll"}
Results == {"none", "reached", "failed", "stopped", "unstopped"}

VARIABLES
    position, target, state,  \* the device: position, target, ABS_FOCUS_POSITION state
    toDev, toCli, link,       \* the connection, "open" or "failed"
    cache,                    \* the last ABS_FOCUS_POSITION the reader recorded
    maximum,                  \* FOCUS_MAX as the client knows it
    cancel, lock,             \* _cancel_requested and _motion_lock
    fresh, answer,            \* per thread: what was recorded since its baseline
    pc, goal, stable, previous, \* per thread: place and locals
    result,                   \* per thread: what its last call returned
    late, newer,              \* history: a target, a call of move_absolute since the stop
    shared,                   \* history: another ABORT is or was unanswered in the stop
    moves, stops, rejects, limits, drops

device == <<position, target, state>>
wire == <<toDev, toCli, link>>
client == <<cache, maximum, cancel, lock, fresh, answer>>
locals == <<goal, stable, previous, result>>
history == <<late, newer, shared>>
budgets == <<moves, stops, rejects, limits, drops>>
vars == <<device, wire, client, pc, locals, history, budgets>>

Init ==
    /\ position \in Positions /\ target = Off /\ state = "Ok"
    /\ toDev = <<>> /\ toCli = <<>> /\ link = "open"
    /\ cache = [abort |-> FALSE, position |-> position, state |-> "Ok"]
    /\ maximum = MaxPosition
    /\ cancel = FALSE /\ lock = Free
    /\ fresh = [t \in Threads |-> FALSE] /\ answer = [t \in Threads |-> "none"]
    /\ pc = [t \in Threads |-> "idle"]
    /\ goal = [t \in Threads |-> 0]
    /\ stable = [t \in Threads |-> 0] /\ previous = [t \in Threads |-> Off]
    /\ result = [t \in Threads |-> "none"]
    /\ late = [t \in Threads |-> FALSE] /\ newer = [t \in Threads |-> FALSE]
    /\ shared = [t \in Threads |-> FALSE]
    /\ moves = [t \in Movers |-> 0] /\ stops = [t \in Stoppers |-> 0]
    /\ rejects = 0 /\ limits = 0 /\ drops = 0

-----------------------------------------------------------------------------
(* The device and the wire.                                                *)

Publish(abort, p, s) ==
    toCli' = IF link = "open"
             THEN Append(toCli, [abort |-> abort, position |-> p, state |-> s])
             ELSE toCli

Room == Len(toCli) < MaxInFlight

\* _apply_write and _apply_switch, then _publish of the property written.
DeviceTakesTarget ==
    /\ toDev # <<>> /\ Head(toDev) # Off /\ Room
    /\ toDev' = Tail(toDev)
    /\ target' = Head(toDev) /\ state' = "Busy"
    /\ Publish(FALSE, position, "Busy")
    /\ UNCHANGED <<position, link, client, pc, locals, history, budgets>>

\* A position rejected by reject_next.
DeviceRejectsTarget ==
    /\ toDev # <<>> /\ Head(toDev) # Off /\ Room /\ rejects < MaxRejects
    /\ toDev' = Tail(toDev)
    /\ state' = "Alert"
    /\ Publish(FALSE, position, "Alert")
    /\ rejects' = rejects + 1
    /\ UNCHANGED <<position, target, link, client, pc, locals, history,
                   moves, stops, limits, drops>>

\* The position is not published with the ABORT.
DeviceAborts ==
    /\ toDev # <<>> /\ Head(toDev) = Off /\ Room
    /\ toDev' = Tail(toDev)
    /\ target' = Off /\ state' = "Ok"
    /\ Publish(TRUE, position, "Ok")
    /\ UNCHANGED <<position, link, client, pc, locals, history, budgets>>

\* An ABORT rejected by reject_next.
DeviceRejectsAbort ==
    /\ toDev # <<>> /\ Head(toDev) = Off /\ Room /\ rejects < MaxRejects
    /\ toDev' = Tail(toDev)
    /\ Publish(TRUE, position, "Alert")
    /\ rejects' = rejects + 1
    /\ UNCHANGED <<device, link, client, pc, locals, history, moves, stops, limits, drops>>

\* Mutant: a step longer than what remains is not cut off at the target.
DeviceTickOvershoots ==
    /\ target # Off /\ Room
    /\ position' = IF target > position THEN position + 2
                   ELSE IF target < position THEN position - 2 ELSE position
    /\ target' = IF position' = target THEN Off ELSE target
    /\ state' = IF position' = target THEN "Ok" ELSE state
    /\ Publish(FALSE, position', state')
    /\ UNCHANGED <<toDev, link, client, pc, locals, history, budgets>>

\* _tick_peripherals: one step towards the target; arrival ends the move.
DeviceTick ==
    /\ target # Off /\ Room
    /\ position' = IF target > position THEN position + 1
                   ELSE IF target < position THEN position - 1 ELSE position
    /\ target' = IF position' = target THEN Off ELSE target
    /\ state' = IF position' = target THEN "Ok" ELSE state
    /\ Publish(FALSE, position', state')
    /\ UNCHANGED <<toDev, link, client, pc, locals, history, budgets>>

\* The lx200_OnStep driver polls the focuser and republishes its position.
DriverPolls ==
    /\ Room /\ link = "open"
    /\ Publish(FALSE, position, state)
    /\ UNCHANGED <<device, toDev, link, client, pc, locals, history, budgets>>

\* A new driver maximum reaches the client.
DriverMaximum(n) ==
    /\ limits < MaxLimits /\ n # maximum
    /\ maximum' = n /\ limits' = limits + 1
    /\ UNCHANGED <<device, wire, cache, cancel, lock, fresh, answer, pc, locals,
                   history, moves, stops, rejects, drops>>

\* drop_connections: what the server had not read is lost or not, as it falls.
ConnectionDrops ==
    /\ link = "open" /\ drops < MaxDrops
    /\ link' = "failed" /\ toCli' = <<>> /\ toDev' \in {toDev, <<>>}
    /\ drops' = drops + 1
    /\ UNCHANGED <<device, client, pc, locals, history, moves, stops, rejects, limits>>

\* Where a thread has its baseline and will look for a newer position; elsewhere
\* the flag says nothing and stays FALSE, and so for the answer to ABORT.
Watching == {"issue", "loop", "poll", "request", "ack", "spoll"}

\* _read_loop and _record.
ReaderRecords ==
    /\ toCli # <<>>
    /\ toCli' = Tail(toCli)
    /\ IF Head(toCli).abort
       THEN /\ answer' = [t \in Threads |-> IF pc[t] \in {"request", "ack"}
                                             THEN Head(toCli).state ELSE "none"]
            /\ UNCHANGED <<cache, fresh>>
       ELSE /\ cache' = Head(toCli)
            /\ fresh' = [t \in Threads |-> pc[t] \in Watching]
            /\ UNCHANGED answer
    /\ UNCHANGED <<device, toDev, link, maximum, cancel, lock, pc, locals, history, budgets>>

-----------------------------------------------------------------------------
(* move_absolute                                                           *)

Jump(t, l) == pc' = [pc EXCEPT ![t] = l]

Take(t) == fresh' = [fresh EXCEPT ![t] = FALSE]

\* The call returns r, or raises, and leaves the motion lock.
Return(t, r) ==
    /\ Jump(t, "idle")
    /\ result' = [result EXCEPT ![t] = r]
    /\ lock' = IF lock = t THEN Free ELSE lock
    /\ stable' = [stable EXCEPT ![t] = 0]
    /\ previous' = [previous EXCEPT ![t] = Off]

\* An exception in the move: _stop_unlocked under the motion lock.
Fails(t) ==
    /\ Jump(t, "smark")
    /\ stable' = [stable EXCEPT ![t] = 0]
    /\ UNCHANGED <<previous, result, lock>>

CallMove(t, n) ==
    /\ pc[t] = "idle" /\ moves[t] < MaxMoves
    /\ moves' = [moves EXCEPT ![t] = @ + 1]
    /\ goal' = [goal EXCEPT ![t] = n]
    /\ result' = [result EXCEPT ![t] = "none"]
    /\ newer' = [u \in Threads |-> TRUE]
    /\ late' = [late EXCEPT ![t] = TRUE]
    /\ Jump(t, "lock")
    /\ UNCHANGED <<device, wire, client, stable, previous, shared, stops, rejects,
                   limits, drops>>

AcquireLock(t) ==
    /\ pc[t] = "lock" /\ lock = Free
    /\ lock' = t
    /\ Jump(t, "clear")
    /\ UNCHANGED <<device, wire, cache, maximum, cancel, fresh, answer, locals, history, budgets>>

ClearCancel(t) ==
    /\ pc[t] = "clear"
    /\ cancel' = FALSE
    /\ Jump(t, "preflight")
    /\ UNCHANGED <<device, wire, cache, maximum, lock, fresh, answer, locals, history, budgets>>

\* get_status().move_ready and the travel limits.
MoveReady == link = "open" /\ cache.state = "Ok"
             /\ cache.position <= maximum /\ cache.position <= ConfiguredMaximum

WithinLimits(n) == n <= maximum /\ n <= ConfiguredMaximum

\* The preflight may always refuse, because the cached position is too old.
Preflight(t) ==
    /\ pc[t] = "preflight"
    /\ \/ /\ MoveReady /\ WithinLimits(goal[t]) /\ goal[t] # cache.position
          /\ Jump(t, "baseline") /\ UNCHANGED <<stable, previous, result, lock>>
       \/ /\ MoveReady /\ WithinLimits(goal[t]) /\ goal[t] = cache.position
          /\ Return(t, "reached")
       \/ Return(t, "failed")
    /\ UNCHANGED <<device, wire, cache, maximum, cancel, fresh, answer, goal, history, budgets>>

Baseline(t) ==
    /\ pc[t] = "baseline"
    /\ Take(t)
    /\ Jump(t, "issue")
    /\ UNCHANGED <<device, wire, cache, maximum, cancel, lock, answer, locals, history, budgets>>

\* A vector of a focuser at rest at n.
RestsAt(v, n) == ~v.abort /\ v.position = n /\ v.state = "Ok"

\* Nothing under way leads elsewhere than to n, and no position that is on the
\* wire or cached claims falsely that the focuser rests at n.
NothingOld(n) ==
    /\ target \in {n, Off}
    /\ \A i \in DOMAIN toDev : toDev[i] \in {n, Off}
    /\ RestsAt(cache, n) \/ (\E i \in DOMAIN toCli : RestsAt(toCli[i], n)) => position = n

\* issue_number; late says of a stop that a target left since it began, and of
\* a move that its own was not the last to leave, or met something older.
IssueTarget(t) ==
    /\ pc[t] = "issue"
    /\ IF link = "open"
       THEN /\ toDev' = Append(toDev, goal[t])
            /\ late' = [u \in Threads |-> u = t => ~NothingOld(goal[t])]
            /\ Jump(t, "loop")
            /\ UNCHANGED <<stable, previous, result, lock>>
       ELSE Fails(t) /\ UNCHANGED <<toDev, late>>
    /\ UNCHANGED <<device, toCli, link, cache, maximum, cancel, fresh, answer, goal,
                   newer, shared, budgets>>

\* Mutant: the move does not look at the cancel flag.
LoopTopDeaf(t) ==
    /\ pc[t] = "loop"
    /\ Jump(t, "poll")
    /\ UNCHANGED <<device, wire, client, locals, history, budgets>>

LoopTop(t) ==
    /\ pc[t] = "loop"
    /\ IF cancel THEN Fails(t)
       ELSE Jump(t, "poll") /\ UNCHANGED <<stable, previous, result, lock>>
    /\ UNCHANGED <<device, wire, cache, maximum, cancel, fresh, answer, goal, history, budgets>>

\* The deadline of the move, at the top of its loop.
Deadline(t) ==
    /\ pc[t] = "loop" /\ ~cancel
    /\ Fails(t)
    /\ UNCHANGED <<device, wire, cache, maximum, cancel, fresh, answer, goal, history, budgets>>

\* wait_property timed out after 0.5 s.
PollSlice(t) ==
    /\ pc[t] = "poll" /\ ~fresh[t] /\ link = "open"
    /\ Jump(t, "loop")
    /\ UNCHANGED <<device, wire, client, locals, history, budgets>>

HigherOf(a, b) == IF a >= b THEN a ELSE b

\* Mutant: a position at rest counts wherever it is.
PollAtRest(t) ==
    /\ pc[t] = "poll" /\ (fresh[t] \/ link = "failed")
    /\ Take(t)
    /\ LET polls == IF cache.state = "Ok" THEN stable[t] + 1 ELSE 0
       IN  \/ /\ \/ link = "failed" \/ cache.state = "Alert"
                 \/ maximum < HigherOf(goal[t], cache.position)
              /\ Fails(t)
           \/ /\ link = "open" /\ cache.state # "Alert"
              /\ maximum >= HigherOf(goal[t], cache.position)
              /\ IF polls = 2 THEN Return(t, "reached")
                 ELSE /\ Jump(t, "loop") /\ stable' = [stable EXCEPT ![t] = polls]
                      /\ UNCHANGED <<previous, result, lock>>
    /\ UNCHANGED <<device, wire, cache, maximum, cancel, answer, goal, history, budgets>>

\* A newer position: invalid, or counted when it is the target at rest.
Poll(t) ==
    /\ pc[t] = "poll" /\ (fresh[t] \/ link = "failed")
    /\ Take(t)
    /\ LET polls == IF cache.position = goal[t] /\ cache.state = "Ok"
                    THEN stable[t] + 1 ELSE 0
       IN  \/ /\ \/ link = "failed" \/ cache.state = "Alert"
                 \/ maximum < HigherOf(goal[t], cache.position)
              /\ Fails(t)
           \/ /\ link = "open" /\ cache.state # "Alert"
              /\ maximum >= HigherOf(goal[t], cache.position)
              /\ IF polls = 2 THEN Return(t, "reached")
                 ELSE /\ Jump(t, "loop") /\ stable' = [stable EXCEPT ![t] = polls]
                      /\ UNCHANGED <<previous, result, lock>>
    /\ UNCHANGED <<device, wire, cache, maximum, cancel, answer, goal, history, budgets>>

-----------------------------------------------------------------------------
(* stop() and _stop_unlocked                                               *)

\* The stop begins with the cancel flag.
CallStop(t) ==
    /\ pc[t] = "idle" /\ stops[t] < MaxStops
    /\ stops' = [stops EXCEPT ![t] = @ + 1]
    /\ result' = [result EXCEPT ![t] = "none"]
    /\ late' = [late EXCEPT ![t] = FALSE] /\ newer' = [newer EXCEPT ![t] = FALSE]
    /\ Jump(t, "cancel")
    /\ UNCHANGED <<device, wire, client, goal, stable, previous, shared, moves, rejects,
                   limits, drops>>

SetCancel(t) ==
    /\ pc[t] = "cancel"
    /\ cancel' = TRUE
    /\ Jump(t, "smark")
    /\ UNCHANGED <<device, wire, cache, maximum, lock, fresh, answer, locals, history, budgets>>

AbortIn(commands) == \E i \in DOMAIN commands : commands[i] = Off

\* The revision baselines of the position and of the answer; a stop of
\* move_absolute begins here.
StopBaseline(t) ==
    /\ pc[t] = "smark"
    /\ Take(t)
    /\ answer' = [answer EXCEPT ![t] = "none"]
    /\ late' = IF t \in Movers THEN [late EXCEPT ![t] = FALSE] ELSE late
    /\ shared' = [shared EXCEPT ![t] =
                    AbortIn(toDev) \/ \E i \in DOMAIN toCli : toCli[i].abort]
    /\ Jump(t, "request")
    /\ UNCHANGED <<device, wire, cache, maximum, cancel, lock, locals, newer, budgets>>

\* An exception of a stop; move_absolute reports it as not stopped.
Unstopped(t) == Return(t, "unstopped")

\* Mutant: ABORT is issued and its answer not awaited.
RequestAbortUnanswered(t) ==
    /\ pc[t] = "request"
    /\ shared' = [u \in Threads |-> shared[u] \/ u # t]
    /\ IF link = "open"
       THEN /\ toDev' = Append(toDev, Off) /\ Jump(t, "spoll")
            /\ UNCHANGED <<stable, previous, result, lock>>
       ELSE Unstopped(t) /\ UNCHANGED toDev
    /\ UNCHANGED <<device, toCli, link, cache, maximum, cancel, fresh, answer, goal,
                   late, newer, budgets>>

\* request_switch sends.
RequestAbort(t) ==
    /\ pc[t] = "request"
    /\ shared' = [u \in Threads |-> shared[u] \/ u # t]
    /\ IF link = "open"
       THEN /\ toDev' = Append(toDev, Off) /\ Jump(t, "ack")
            /\ UNCHANGED <<stable, previous, result, lock>>
       ELSE Unstopped(t) /\ UNCHANGED toDev
    /\ UNCHANGED <<device, toCli, link, cache, maximum, cancel, fresh, answer, goal,
                   late, newer, budgets>>

\* request_switch: a newer FOCUS_ABORT_MOTION, of whatever request.
AwaitAbort(t) ==
    /\ pc[t] = "ack"
    /\ \/ answer[t] = "Ok" /\ link = "open" /\ Jump(t, "spoll")
          /\ UNCHANGED <<stable, previous, result, lock>>
       \/ (link = "failed" \/ answer[t] = "Alert") /\ Unstopped(t)
    /\ UNCHANGED <<device, wire, cache, maximum, cancel, fresh, answer, goal, history, budgets>>

\* Mutant: a stop waits for stable positions without a deadline of its own.
StopDeadlineGone(t) ==
    /\ pc[t] = "ack"
    /\ Unstopped(t)
    /\ UNCHANGED <<device, wire, cache, maximum, cancel, fresh, answer, goal, history, budgets>>

\* The deadline of request_switch and that of the stable position.
StopDeadline(t) ==
    /\ pc[t] \in {"ack", "spoll"}
    /\ Unstopped(t)
    /\ UNCHANGED <<device, wire, cache, maximum, cancel, fresh, answer, goal, history, budgets>>

\* Two positions in a row equal to the one before them, at rest.
StopPoll(t) ==
    /\ pc[t] = "spoll" /\ (fresh[t] \/ link = "failed")
    /\ Take(t)
    /\ LET polls == IF cache.state = "Ok" /\ cache.position = previous[t]
                    THEN stable[t] + 1 ELSE 0
       IN  IF link = "failed" \/ cache.state = "Alert" THEN Unstopped(t)
           ELSE IF polls = 2 THEN Return(t, "stopped")
           ELSE /\ stable' = [stable EXCEPT ![t] = polls]
                /\ previous' = [previous EXCEPT ![t] = cache.position]
                /\ UNCHANGED <<pc, result, lock>>
    /\ UNCHANGED <<device, wire, cache, maximum, cancel, answer, goal, history, budgets>>

\* All calls have returned and nothing moves: the program may stop here.
Terminated ==
    /\ \A t \in Threads : pc[t] = "idle"
    /\ toDev = <<>> /\ target = Off
    /\ UNCHANGED vars

-----------------------------------------------------------------------------
MoveStep(t) ==
    \/ AcquireLock(t) \/ ClearCancel(t) \/ Preflight(t) \/ Baseline(t) \/ IssueTarget(t)
    \/ LoopTop(t) \/ PollSlice(t) \/ Poll(t)

StopStep(t) ==
    \/ SetCancel(t) \/ StopBaseline(t) \/ RequestAbort(t) \/ AwaitAbort(t) \/ StopPoll(t)

Device == DeviceTakesTarget \/ DeviceAborts \/ DeviceTick

Next ==
    \/ \E t \in Movers : MoveStep(t) \/ Deadline(t) \/ \E n \in Positions : CallMove(t, n)
    \/ \E t \in Stoppers : CallStop(t)
    \/ \E t \in Threads : StopStep(t) \/ StopDeadline(t)
    \/ Device \/ DeviceRejectsTarget \/ DeviceRejectsAbort \/ DriverPolls \/ ReaderRecords
    \/ \E n \in Positions : DriverMaximum(n)
    \/ ConnectionDrops \/ Terminated

Spec == Init /\ [][Next]_vars

\* Threads are scheduled, clocks pass deadlines, the device serves its queue.
\* Nobody has to call anything.  Strong fairness where a thread passes through
\* the top of its loop again and again, or the bounded wire is full for a while.
Fairness ==
    /\ \A t \in Movers : WF_vars(MoveStep(t))
    /\ \A t \in Threads : WF_vars(StopStep(t)) /\ SF_vars(StopDeadline(t))
    /\ SF_vars(Device) /\ WF_vars(ReaderRecords)

\* The clock passes the deadline of a move; the mover looks at it in every slice.
ClockRuns == \A t \in Movers : SF_vars(Deadline(t))

FairSpec == Spec /\ Fairness

-----------------------------------------------------------------------------
(* Properties.                                                             *)

\* Every variable keeps its type.
TypeOK ==
    /\ position \in Positions /\ target \in Commands /\ state \in States
    /\ toDev \in Seq(Commands) /\ toCli \in Seq(Vectors) /\ link \in {"open", "failed"}
    /\ cache \in Vectors /\ maximum \in Positions
    /\ cancel \in BOOLEAN /\ lock \in Movers \cup {Free}
    /\ fresh \in [Threads -> BOOLEAN] /\ answer \in [Threads -> {"none", "Ok", "Alert"}]
    /\ pc \in [Threads -> PCs] /\ goal \in [Threads -> Positions]
    /\ stable \in [Threads -> 0 .. 1] /\ previous \in [Threads -> Commands]
    /\ result \in [Threads -> Results]
    /\ late \in [Threads -> BOOLEAN] /\ newer \in [Threads -> BOOLEAN]
    /\ shared \in [Threads -> BOOLEAN]
    /\ moves \in [Movers -> 0 .. MaxMoves] /\ stops \in [Stoppers -> 0 .. MaxStops]
    /\ rejects \in 0 .. MaxRejects /\ limits \in 0 .. MaxLimits /\ drops \in 0 .. MaxDrops

\* A move that reached its target after sending it is there, and not only the
\* vectors it has seen, until another target leaves.  Two positions at rest on the
\* target may also be older than the command, from moves that timed out and whose
\* stops were not answered; the code has only its deadlines against these.
ReachedIsReal ==
    \A t \in Movers : result[t] = "reached" /\ ~late[t] => position = goal[t]

\* A confirmed stop is true when it returns, not only after the device has
\* caught up: nothing moves, unless a target left since the stop began.  When the
\* stop shared the wire with another ABORT it may have been confirmed by the
\* answer to that one; then its own is on its way, if none was rejected or lost.
StoppedIsStill ==
    \A t \in Threads :
        result[t] = "stopped" /\ ~late[t] =>
            \/ target = Off
            \/ shared[t] /\ (AbortIn(toDev) \/ rejects > 0 \/ drops > 0)

\* "stop() can issue abort while a move is in progress and confirms a stable
\* position": a move called before the stop does not set out after it with its
\* cancellation forgotten.
StopOutlastsMove ==
    \A t \in Stoppers :
        result[t] = "stopped" /\ ~newer[t] /\ toDev = <<>> /\ ~cancel => target = Off

Moving == {"issue", "loop", "poll"}

\* Every move returns by its deadline at the latest and gives the lock back,
\* every stop returns by its own deadline, whatever happens to the connection.
CallsReturn ==
    ClockRuns => \A t \in Threads : pc[t] # "idle" ~> pc[t] = "idle"

\* A move that is running when stop() is called ends without its own deadline.
StopEndsMove ==
    \A t \in Movers : (cancel /\ pc[t] \in Moving) ~> pc[t] \notin Moving
=============================================================================
