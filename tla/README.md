# OnStepAdapter in TLA+

A model of OnStepAdapter: the INDI client that moves, tracks, guides and focuses
an OnStepX telescope over an INDI server, the virtual mount it is tested against,
and the legacy adapter that drives the controller over a serial line. TLC checks
the model on small instances, TLAPS proves the results listed under *Proofs* for
every value of the constants.

## Inventory

| component | state it keeps | operations | how it meets the others | what makes it correct |
|---|---|---|---|---|
| Motion supervision, `indi_motion.py` | per move: stop token, done event, state, result, error, stop result | `_work`, `_request_stop`, `_record_stop`, `progress`, `wait`, `stop` | one worker thread per handle; stops come from any thread | an outcome is final; a recorded stop result reaches `wait()`; every move ends |
| Client facade, `indi_client.py` | `_motion`, the session baseline, router, mover, supervisor | `connect`, `close`, `_start_motion`, `emergency_stop`, `unpark`, `route_park_to_home`, `sync_time_location`, ... | owns the others, called from every thread | one move at a time; `close()` halts the move it found |
| HOME and PARK routing, `indi_home.py` | HOME authority | `go_home`, `park`, `unpark`, `park_to_home` | sends switches, waits for statuses; stops the mount when a wait fails | a confirmation is true of the mount; the authority never vouches for a parked mount |
| Axis moves, `indi_axis_motion.py` | a lock | `move` | coordinates, then TRACK_OFF, then two stopped statuses | a confirmed move is at rest on its target |
| Verified stop, `indi_stop.py` | none | `stop_mount_via_indi` | two commands and a confirmation | what was confirmed stopped does not go on |
| Transport, `indi_transport.py` | property cache with revisions, failure, closed flag | `connect`, `close`, `wait_property`, `set_switch`, `issue_*`, `_read_loop` | a reader thread fills the cache and wakes the waiters | no waiter hangs; an answer belongs to its request |
| Status reader, `indi_status.py`, `indi_gu.py` | first revisions | `read` | pure function of the cache | a stale or faulty status never passes for a good one |
| Meridian policy and supervisor, `meridian_policy.py`, `indi_meridian.py` | last phase, last stop, thread | `tick`, `start`, `close` | stops the mount from its own thread | a mount beyond the hard stop is stopped |
| Tracking, `indi_tracking.py` | none | `enable_tracking_via_indi` | `set_switch`, statuses, emergency stop | tracking is on only where it was allowed |
| Guiding, `indi_guiding.py` | a lock | `pulse`, `correction` | numbers, statuses, emergency stop | a failed correction leaves no pulse running |
| Focuser, `indi_focuser.py` | a lock, the cancel flag | `move_absolute`, `stop` | numbers, statuses | a stopped focuser stands still |
| Virtual mount and server, `onstep_mock/mount.py`, `server.py` | the mount, the INDI vectors | writes, the device loop, test controls | the device side of every command | its status says what it does |
| Legacy serial mount, `mount.py` | last decoded status, HOME and PARK confirmations, the reasons against them, safety lock, tracking request, clock checks | `get_state`, routes, `goto`, `enable_tracking`, axis motions, `stop`, `set_park_position_from_current`, ... | called by an application and a status poller; every exchange over the bus | success is real; nothing moves or tracks unrequested; trust is earned |
| Serial bus, `serial_bus.py` | port, lock | `send`, `send_fixed`, `write_no_reply`, `write_bypass` | one exchange at a time; stops pass the lock | no caller waits for ever |
| Saved state, `state_store.py`, PARK record | two files | `load`, `maybe_save`, rename | read by the next process | a record names a PARK the controller took |
| Capture, tools, traces, validation | files | offline analysis | none at run time | not modelled |

What is hard: three or more threads (application, worker, supervisor, reader,
whoever calls `close()`) act on one mount over a wire with latency in both
directions; a status says how the mount was, and confirmation is a comparison
of revisions; the connection may fail between any two steps; a stop may come
at any step of a move; the sky carries a tracking mount on while a thread looks
at an old status. On the serial side replies get lost and hold the bus, calls
nest (a status poll may switch tracking off, which polls the status), and what
is believed of the mount has to survive faults, clocks that are wrong and
restarts. `PROJECT.json` lists each hazard at its line with the property that
covers it or the reason why none does.

## Modules

| module | what it is |
|---|---|
| `VirtualMount` | the mount state machine of `onstep_mock/mount.py` as operators on a record, and the `:GU#` status (`raw_gu`, `decode_gu`) |
| `MotionControl` | the motion core: handles, workers, moves, stops, supervisor, `close()`, the wire and the device; its properties |
| `MCMotionControl` | the instance TLC runs |
| `MotionPromise` | the abstract specification of a move: what the facade promises; `MotionControl` implements it |
| `Focuser`, `MCFocuser` | `move_absolute` and `stop` of the INDI focuser, the transport under them and the focuser of the device |
| `SkyTracking` | `enable_tracking`, guide pulses, meridian policy and supervisor, emergency stops, over one connection to the device; extends `VirtualMount` |
| `SerialMount` | the motion commands of the serial adapter over the shared bus |
| `MountAuthority`, `MCMountAuthority` | what the serial adapter believes: confirmations, reasons against them, lock, clocks, PARK record, saved state, crashes |
| `MotionControl_proofs`, `ConfirmedMotion_proofs`, `MotionPromise_proofs` | inductive invariants and theorems of `MotionControl`: types and handles, what a confirmation says of the mount, the refinement |
| `SkyTracking_proofs`, `GuidePulse_proofs` | those of `SkyTracking`: types and tracking, guide pulses |
| `MountAuthority_proofs`, `SerialMount_proofs`, `Focuser_proofs` | those of the other modules |

`MotionControl`, `Focuser` and `SkyTracking` are three views of one INDI client:
each keeps the transport and the part of the device its callers touch and leaves
the others' calls out. `SerialMount` and `MountAuthority` are two views of
`mount.py`: the first takes HOME authority, lock and clocks to be in order, the
second lets the mount move by itself.

### How MotionControl corresponds to the code

* **Threads.** `Apps` are application threads, `Worker(i)` is the thread of the
  i-th `MotionHandle`, `Sup` the meridian supervisor, `Cls` the thread that
  calls `close()`. `pc` is the place in the Python code between two points
  where another thread may act: every send, every wait, every look at the token
  and every access to a shared object is a step of its own.
* **Wire.** `toDev` are commands the server has not read, `toCli` status vectors
  the reader thread has not read, both FIFO as TCP is. `DeviceHandlesWrite` is
  `_handle_write`, `DeviceTick` an iteration of the device loop with a state
  edge, `DevicePublishes` the periodic status.
* **Revisions.** A waiter compares revisions with the last one it looked at, so
  the counter is a flag per thread, `fresh`: the reader recorded a status since.
* **Deadlines** are nondeterministic. With `Prompt` the device reads its queue
  before a slew ends or a deadline passes (latencies of milliseconds, deadlines
  of three seconds and more); run `Pairs` drops that assumption.
* **Pose.** `parked`, `at_home` and `on_goal`, the facts the client acts on. A
  slew passes within tolerance (`Near`) before it arrives.
* **Connection.** A dropped connection is noticed at once (`link`); sends that
  succeed into a connection already lost are not modelled.
* **Late commands.** `late` is a history variable of a handle: a command that moves
  the mount left after the stop had been requested, the move's own between the
  token check and the send, or that of a route to HOME beside it. The safety of a
  stop is stated for the others; run `CloseLate` shows the defect it stands for.
* **Targets.** `on_goal` is one fact of the mount, so a second axis move may take
  the target of the first for its own; `ConfirmedMoveIsReal` speaks of the first.

### How Focuser corresponds to the code

* **Threads.** `Movers` call `move_absolute`, `Stoppers` call `stop`; the stop of
  a failed move is the mover's own, under the motion lock. `Return` is every way
  out of a call, `Fails` the `except` of `move_absolute`.
* **Wire.** `toDev` holds targets and ABORT (`Off`), `toCli` the published
  `ABS_FOCUS_POSITION` and `FOCUS_ABORT_MOTION` vectors. A position too old for
  the preflight is a nondeterministic refusal.
* **Driver.** The virtual focuser publishes its position only while it moves, so
  the two confirmations come from the polling of the lx200_OnStep driver, which
  is not in the repository: `DriverPolls` and `DriverMaximum` model it from what
  the client waits for.
* **Answers.** `answer` is the state of a `FOCUS_ABORT_MOTION` recorded since the
  thread took its baseline. `request_switch` accepts any newer vector, hence
  also the answer to the ABORT of another thread or to one that timed out
  before. `shared[t]` records that such an ABORT was about: `StoppedIsStill`
  demands rest from a stop that was alone on the wire, and of any other that its
  own ABORT is behind whatever moves.
* **History.** `late[t]` says that a target left since `t` began to stop (for a
  mover that reached its target: that another target left since), `newer[t]`
  that `move_absolute` was called since.

### How MotionControl implements MotionPromise

`MotionPromise` has three facts of each move: how far its outcome is, whether
`wait()` returns, whether a stop was asked for. `KeepsPromise` in `MotionControl`
is its specification under the mapping that reads the first two off the handle
and the third off its token. The promise is one move at a time, an outcome that
never changes, done only with an outcome, and "stopped" only for a move
somebody asked to stop. `OutcomeIsFinal` says in terms of the handle what the
promise says of its map.

### How SkyTracking corresponds to the code

* **Threads.** `track` runs `enable_tracking`, `guide` runs `pulse`, `stop` runs
  the stops of the supervisor and of the application, one at a time; their
  results are left out. A failure of the first two stops the mount from their
  own thread (`StopBegins`, `StopTracking`, `StopPoll`).
* **Hour angle.** An integer in the unit of the policy. `derive_meridian_policy`
  is `Guard`, `FlipAt`, `StopAt` and `PolicyAccepted`; the boundaries are all
  that matters, so a few units on each side are enough. `SkyTurns` ends at the
  hard stop, beyond which nothing changes.
* **Revisions** are flags as in `MotionControl`: `fresh` for the status,
  `freshVector` for the vector a call waits for.
* **Preflights** read status and meridian state in one step; the two cache reads
  of the code are microseconds apart.
* **Authority.** `auth` is the session baseline and the HOME authority together;
  `BaselineLost` is an edit by another client.
* **Throttle.** `ThrottleEnds` are the 3 s after a stop began, and comes when the
  device has read its queue.
* **Left out.** A second concurrent pulse (refused by the lock), the age of a
  status while the connection is open, `correction()`. `EarlyAck` is a driver that says
  Ok when it takes a pulse, which is all `docs/SDK.md` asks of one; the virtual mount
  says it at the end. `SkyLive` has the first, `Sky` the second.
* **History.** `hist.taken` is what the device accepted of the running pulse, `going` the
  chunk it guides, `ran` the chunks it guided to their end. An ABORT and a
  limit take the rest of a chunk away (`going` falls to 0 without `ran`
  growing), so a pulse that was accepted and cut short is told from one that ran.

### How SerialMount corresponds to the code

* **Frames.** A step is one exchange and the computation up to the next one. A
  thread has a stack: `get_state` finds tracking nobody requested, calls
  `disable_tracking_verified`, which polls `get_state`. `res` is what a call told
  the frame below.
* **Bus.** An exchange whose reply comes is atomic. A lost reply (`Lose`) holds
  the bus until `GivesUp`; meanwhile a bounded acquire may give up (`Busy`), an
  unbounded one waits, `:Q#` passes the lock. `:MS#` holds the bus always:
  its reply has no `#`.
* **States.** `StatesOf` is `_mount_state_from_decoded`. The module has no limit flag in
  the status: "unparked" stands for `AT_LIMIT` as well, which none of the callers here
  tells from it, and because a limit hides that the mount tracks, the answer for a
  tracking mount is left open between the two.
* **Refusals.** Position, bounds, altitude and limits are nondeterministic
  refusals of `Proceed`, `StartAxis` and stops of `GuardTick`; the hard limit, which
  the code excepts at a remembered HOME, is `PastLimit`.
* **Merged.** A status is decoded and stored in the step of its exchange; the
  two writes of `stop()`, and rate and move of an axis motion, are one step each.
  A late reply left in the input buffer is not modelled.

### How MountAuthority corresponds to the code

* **Memory.** `mem` is the adapter object: the two confirmations, the reasons
  against them (`inv`), the lock, the last decoded status, the PARK record and the
  clock checks made last. `disk` is the record file and the saved state.
* **Answers.** `get_state` answers, or nothing comes: then the old decoded status
  stays and the code reads it on. `Inspect` is `_inspect_status`.
* **set_park_position_from_current** is three steps, the pose read, `:hQ#` and the
  rename: the mount may move, an answer get lost, the disk refuse and the process
  end between them. What the controller takes as PARK is the pose it has then,
  `ctl.pose`, and not `loc`, the one that was read; the history keeps the two apart
  (`took`, `kept`, `moved`).
* **goto** is two steps. `CheckGoto` is the preflight up to its last status,
  `SendGoto` is `:MS#`. The code exchanges the pier side, the axes, the position, the
  sidereal time and the target in between, at least seven replies; none of them
  looks at the status again, so what the model keeps of them is the time that
  passes: the controller may move, park, hit a limit or lose its clock, and the
  process may end.
* **Process.** `Crash` at any step; `Restart` is the constructor on what is on
  disk. `PowerCycle` is the controller's, `SystemClockSet` NTP's.
* **Clocks** are represented by their errors. The system clock is right, wrong but
  plausible, or implausible, and `read_system_clock_sanity` knows only the last from
  the others (`Plausible`). The controller's clock has an error of its own and
  starts at `Epoch` after a power cycle. The checks compare it with the active
  time, the system clock less the offset in force (`ActiveError`), so two clocks
  that are wrong alike agree; an offset measured before NTP set the clock stays and
  is wrong from then on. A configured `time_trust_source` is `config.time`.
* **Checks.** `sysOk` and `clkOk` are the checks made last, `unset` before the first:
  `_time_readiness` then reads the clocks. The refresh in `connect` may raise and is
  swallowed, which leaves the checks as they were; one of an observer update or a
  sync may raise after the new offset or the new time is in force.

## Runs

Both auto-tracking options of the virtual mount are on in the runs of
`MCMotionControl`, their default. An *event* is a move, a call, a stop, a fault, a
dropped connection or `close()`: the constraint of a run bounds how many there are
in a behaviour, not which or when.

| run | instance | shows |
|---|---|---|
| `Pairs` | `MCMotionControl`: any 2 events, every kind of move and blocking call, both kinds of stop, `close()`, a fault, a drop; a device that reads its queue arbitrarily late | types; a confirmed park or axis move is true of the mount, then and later, although an early status may be old; unparking ends quiet although OnStepX resumes tracking; the authority excludes a parked mount; a stop confirmed by old statuses still halts the mount; `close()` halts the move it found, unless its command came too late; one caller never has two moves wait at once |
| `Races` | `MCMotionControl`: any 3 events, up to 2 HOME or PARK moves, stops by application and supervisor | one move at a time; two concurrent stops and a stop after the end each deliver a result; outcomes are final; what is confirmed is true of the mount (that a stop halts it is left to `Pairs`, whose late device makes it hard, and to the theorem `StoppedHalts`); the promise is kept |
| `Live` | `MCMotionControl`: any 2 events of a PARK, a stop by the application or the supervisor, `close()` and a drop; PARK and `close()` with a drop or a stop by the supervisor; fairness | a PARK ends by its deadline, a stopped one without it; every `close()` returns, although the supervisor it joins may be inside a stop of its own |
| `TwoMovers` | `MCMotionControl`: 2 applications, route and PARK | **violated**: two moves at once, see below |
| `CloseLate` | `MCMotionControl`: axis move, `close()` | **violated**: the mount slews after `close()`, see below |
| `FocusRaces` | `MCFocuser`: any 3 events, one move of each of 2 threads (alike, so symmetric), a stop, a rejected request, a new maximum, a drop; moves are called before the stop | types; a reached target is real, a confirmed stop is still |
| `FocusLive` | `MCFocuser`: 1 move to the upper end, 1 stop, 1 drop, fairness | every call returns, a cancelled move without its own deadline |
| `FocusLate` | `MCFocuser`: 1 move, 1 stop | **violated**: the move sets out after the stop, see below |
| `Sky` | `SkyTracking`: any 2 of a call (tracking, or a pulse of two chunks), a stop by the application and a fault, beside the supervisor; every start hour angle, pier side and policy | types; a failed `enable_tracking` has tracking off or the command for it on its way; one that reports tracking on has it on, or a status on its way says that it went off again; a completed pulse was accepted for its duration and guided to the end, unless a stop that cut it short shows; one refused between chunks reports what ran |
| `SkyLive` | `SkyTracking`: 1 event, a pulse of one chunk, a driver that says Ok when it takes a pulse, fairness | a mount tracking beyond the hard stop is stopped; every call returns |
| `Serial` | `SerialMount`: any 2 of the 10 operations, a status poller without bound, 1 lost reply or refusal, 1 emergency stop, fairness | types; the guard calls itself again only where another thread reset its flag; no axis is left moving except by a refused stop; success is real and PARK starts at HOME where every status was answered; unrequested tracking ends; every operation ends |
| `Authority` | `MCMountAuthority`: any 4 of up to 4 calls, a fault and a crash, HOME and one other pose, a system clock that is right, plausible or not, a controller's clock that agrees with it or starts at its epoch | types; trust is earned; a PARK record was taken by the controller; goto knows what its own status and checks can say |

Bounds. The defects in view take one move and one stop, two stops, or a move
after a finished one, and at most one fault of the environment with them, which
is what two and three events hold. `Races` leaves out `close()`, whose stop is
the one of the supervisor, to stay small; `Pairs` and `Live` have
it. One application thread makes the moves of `Races`: that two threads cannot
start moves together is theorem `OneMove`, for any number of them. In `Live` a stop
of the supervisor meets `close()` in two ways: it begins when `close()` has come to the
join, or it waits for its confirmation all the while `close()` sends and confirms a stop
of its own. Left out, for size, is a supervisor that sends its commands while `close()`
is in its stop; for safety the theorems `CloseHalts` and `StoppedHalts` have that too.
In `FocusRaces` the calls of `move_absolute` come before the stop: a call only
puts its thread before the motion lock, so it commutes with what comes earlier.
`FocusLive` moves to the upper end only, because the device is the same mirrored;
the states this leaves out are reached by a call, which no fairness demands.
`MaxInFlight = 1` lets the device add to a wire that holds less than one vector, and
a command publishes up to two, which is what the two-poll confirmations need to be
fooled by old ones; more adds older statuses of the same kinds. What that
leaves out is a status of before a whole earlier call, which the proofs of
`MotionControl` cover for any wire.
`on_goal` is one fact, so a run that judges confirmed axis moves has one target:
`Pairs` makes one move. `Sky` has one call per behaviour; a second would meet
what the first left, which the initial states and a stop before the call hold in
part only: see the hazards of `indi_guiding.py`. The policy of `Sky` and `SkyLive`
has every phase at least one unit wide, with unequal guards. Two operations of
`Serial` are one that leaves something behind and one that meets it. The four events of
`Authority` are what it takes to connect, confirm and set PARK or go, with one
thing that goes wrong; status polls, a restart, the moves of the controller and a
system clock that is set are none and come at any time.
`SkyLive` has one event, so a call there meets no fault, stop or drop; what those do to
a call is for the safety runs. `Sky` and `SkyLive` run without deadlock check, because a client without a call and
without a connection stops; so does `Authority` when its calls are used up.

Three disagreements between code and documentation:

* `CloseLate`. `IndiAxisMover.move` checks its token and then waits in
  `set_switch(ON_COORD_SET, SLEW)` for an echo. A stop in that wait is sent and
  confirmed before the goto is sent, and the goto is not held back. After
  `close()` nobody supervises it. (`docs/SDK.md:220`)
* `TwoMovers`. `unpark` and `route_park_to_home` look at the active move once
  and register nothing, so another thread can start a move while they run.
  (`docs/SDK.md:218`)
* `FocusLate`. `move_absolute` clears the cancel flag after it has the lock and
  does not look at it before it sends the target: a `stop()` that falls between
  is confirmed on a focuser at rest, and the move runs afterwards.
  (`docs/SDK.md:289`)

Seven more were met while modelling. No run is kept for them; the models have the
steps, and TLC refutes the formula given with each, but for the clock lock, where the
formula holds that should not.

* The idle check after a guide chunk takes any status newer than the preflight, and the
  nominal time counts from before the command left (`indi_guiding.py:322-340`). With
  an Ok at acceptance (`EarlyAck`), a status sent before the pulse began ends the
  last chunk, and completed is reported while the mount guides; `docs/SDK.md:127` says that
  an Ok acknowledges acceptance only and that completion waits for the end.
  `[][Returns("guide", "completed") => ~mount.guiding]_vars` in `SkyTracking`.
* When the rename of the PARK record fails after the controller took the new PARK, memory
  and disk keep the old record, and `get_stored_park_position` goes on calling it
  trusted (`mount.py:1730`); `docs/onstep-adapter-readiness-plan.md:34` says that PARK is
  stored "both locally [...] and in OnStep". `[][(CommitSetPark /\ UNCHANGED mem) => mem.rec =
  NoRecord \/ mem.rec = ctl.park]_vars` in `MountAuthority`, where the guards of
  `set_park_position_from_current` have just found nothing against the position.
* `set_park_position_from_current` goes on with the status decoded before when its own is
  not answered (`mount.py:1640`), and sets the PARK of a mount that slews, is at a limit
  or failed to park since; `docs/REQUIREMENTS.md:173` asks for a "stationary and
  non-tracking state, no OnStep limit/fault".
  `[][BeginSetPark => ~ctl.slewing /\ ~ctl.limit /\ ~ctl.failed]_vars` in `MountAuthority`.
* It also refuses with any lock, those of the clocks included (`mount.py:1632`), while
  `docs/onstep-controller.md:20` says that a bad clock does not by itself block storing
  PARK. `[][BeginSetPark => mem.lock = "none"]_vars` holds.
* The preflight of `goto` uses the checks made last (`mount.py:1017`): a controller whose
  clock restarted since passes it; `docs/onstep-controller.md:20` says that a bad OnStep
  clock blocks goto. `[][CheckGoto => clock.onstep # Epoch]_vars` in `MountAuthority`.
* `park_via_home` takes `at_home` from the status decoded last, whether or not its own was
  answered (`mount.py:3761`). After a recovery pulse and a lost reply, `:hP#` leaves
  away from HOME; `docs/onstep-controller.md:50` says that it is sent "only after `at_home`
  is already reported". `[][Parking => ctl.athome]_vars` in `SerialMount`.
* A remembered HOME excepts a mount from the hard limit, and `enable_tracking` does not
  forget it (`mount.py:2629`): after a route to HOME the mount tracks past the limit and
  `tracking_guard_tick` lets it; `docs/onstep-controller.md:116` says that at the limit
  tracking is stopped. `[][Ends("tick", "ok") /\ ~hist.lost => ~(ctl.tracking /\ ctl.past)]_vars`
  in `SerialMount`.

`TrustIsEarned` is about `require_home_confirmation`, which is on by default. Where it is
off the code takes three things for a confirmation, and so does the property: a saved
state of a parked end, no saved state at the first start, and `confirm_park_pose`
after an end that was not parked.

`StoredWasAccepted` excepts a mount that moved by itself between the pose that was read
and `:hQ#`: the record then names a pose of which the controller knows nothing, and
the code has no second look at it.

`PulseIsReal` excepts a pulse that another thread's stop cut short: the Ok of the cut
chunk and an idle status look like those of a whole one, and completed is
reported. Then the stop shows, its TRACK_OFF still to come, executed or refused.

### Fairness

`Fairness` of `MotionControl` says that every thread is scheduled (weak fairness
of each thread's
steps), the reader reads, the device reads its queue and its slews end (strong,
because the bounded wire may be full again and again), and a `close()` whose
supervisor is idle goes on. Python's threads and the server's loops give just
that. Nobody has to call anything. The deadline of a move is not among it:
`StopEndsMove` holds without any clock, so that a stop is seen by the token
check and not by a time-out, while `MoveEnds` assumes `ClockRuns`, that the
deadline of a move passes (strong fairness, because the thread comes by it once
per round). `Focuser` is the same, with `CallsReturn` for `MoveEnds`.

`SkyTracking`: the device serves and publishes, the reader and the threads run,
deadlines pass. The supervisor's tick and the end of its throttle are strongly
fair: it looks twice a second, and a status that asks for a stop may be overtaken
by older ones. Neither the sky nor any caller has to do anything.

`SerialMount`: both threads run, the poller polls again and again, deadlines pass
although polls go on. The controller owes nothing: a slew need not end.

## Proofs

`MotionControl_proofs` proves, from `BoundsAssumption` and
`AutoTrackAssumption` alone:

* `TypeCorrect`: `Spec => []TypeOK`
* `OneMove`: `Spec => []OneMoveAtATime`
* `StopResultReachesWaiter`: `Spec => []StopResultDelivered`
* `FinishedStaysFinished`: `Spec => OutcomeIsFinal`

The inductive invariant is `IInv == DataOK /\ ThreadsOK /\ HandlesOK`.
`DataOK` holds the types of what no thread owns: mount, wire, cache, authority
and budgets. `ThreadsOK` holds the types of each thread's place and locals, and
two facts the steps need: a poll counter stands at two only where the stop is
about to return, and a worker that is about to finish has an outcome.
`HandlesOK` is `OneMoveAtATime`, `StopResultDelivered`, the types of the handles
and that only handles up to the current one are done; without that fact
`_start_motion` could create a handle that is finished before its worker ran.
The proof follows the actions: lemmas
say which part of the state each group (movers, stops, calls, device) leaves
alone, `FinishedRecord` and `SameOutcomes` what happens to a handle.

`MotionPromise_proofs` proves `MotionKeepsPromise`: `Spec => KeepsPromise`. The
initial handles map to the initial state of the promise, and each step of the
motion core to one of its steps or to a stutter. The invariant above is not
enough: that a move which ends "stopped" was asked to stop needs a stronger one,
that a worker on its way out with that outcome has a stop requested in its token.
`WorkerFinishes` maps to `Ends` or `Announce`, `StartMotion` to `Start`, the stops of
application, supervisor and `close()` to `Ask`; the rest are stutters.

`MountAuthority_proofs` proves, from `AuthorityAssumption` alone, that is for any
number of poses, faults, crashes and calls:

* `AuthorityTyped`: `Spec => []TypeOK`
* `TrustEarned`: `Spec => []TrustIsEarned`
* `StoredAccepted`: `Spec => []StoredWasAccepted`
* `GotoInformed`: `Spec => GotoIsInformed`

The inductive invariant `MInv` has five parts. `TypeOK`. `TrustOK`: HOME is confirmed
with no reason against it only where the history says so, and every fault seen is
among the reasons; without the second half a confirmation after a fault would look
earned. During a `set_park_position_from_current` and a `goto` the confirmation stands,
and a `goto` had a clear status: that makes the second half of each safe to
send without another look. `RecordOK`: `StoredWasAccepted`, and a call that is about to
write its record had its `:hQ#` taken. `ClockOK`: where the check made last says good,
or a `goto` is under way, the controller's clock agrees with the active time, or
a clock was changed by something that does not check again (`hist.stale`).
`PlaceOK`: only a running process is in a call. `GotoIsInformed` is then what `TrustOK` and
`ClockOK` say at the step `SendGoto`; the seven exchanges of a goto in which the
mount may move are steps of the controller, which no part of the invariant
forbids.

`SerialMount_proofs` proves, from `SerialAssumption` alone, that is for any set of
operations and any number of calls, faults and stops:

* `SerialTyped`: `Spec => []TypeOK`
* `GuardNests`: `Spec => []GuardNestsByReset`
* `AxesStop`: `Spec => []AxisStops`
* `SuccessReal`: `Spec => SuccessIsReal`
* `ParksFromHome`: `Spec => ParkFromSeenHome`

Every thread runs a stack of frames, so the invariant speaks of labels counted from
below: `Own` is the frame of the operation, `Above` the call it waits for, `Upper`
the call of that. `IInv` is `TypeOK` and six parts:

* `ShapeOK`: only the frame at the bottom of the application's stack is an
  operation's, the poller has calls only, and a guard that is about to begin is on
  top. Without it a step of a call could leave an operation in the middle.
* `GuardOK`: a thread in its guard whose flag nobody reset finds it set and is not
  about to begin another; this makes `GuardNestsByReset` inductive.
* `JogOK`: an axis moves only under an operation that has its stop before it.
* `PlaceOK`: the operations with a promise stay at their own labels.
* `SeenOK`: on a route, once the status that was asked for has come, what it says of
  HOME and PARK is so, or a reply got lost. The poller's own calls may switch
  tracking off meanwhile, but nothing leaves HOME or PARK without the operation.
* `UntrackOK`: `disable_tracking` has halted slews with its first `:Q#`, and the status
  it judges is no older than its poll: nothing that starts tracking is under way.

The lemmas on `Splice` and `Call` say what a step of a call does to a stack,
`OwnMoves`, `OwnEnds` and `Elsewhere` what a step of an operation does to it; one
lemma per action follows, and `NextIInv` collects them with what the two action
properties ask of a step.

`Focuser_proofs` proves, from `FocuserAssumption` alone, that is for any threads,
travel, calls, rejections, new maxima and drops and any number of vectors on the wire:

* `FocuserTyped`: `Spec => []TypeOK`
* `ReachedReal`: `Spec => []ReachedIsReal`
* `StoppedStill`: `Spec => []StoppedIsStill`

Its `IInv` is `TypeOK` and what is true of the wire while a call waits. `AnswersOK`
and `CallsOK` say which answers the device gives, that a call in progress has no
result and that a move is late until its target leaves. `MoveOK`: for a move whose
target was the last to leave, everything under way leads to the target and no
position on the wire claims falsely that the focuser rests there. `StopOK`: behind
the last target there is an ABORT, or nothing moves, or one was rejected or lost.
`AloneOK`: a stop that shares the wire with no other ABORT has exactly its own
there, so the answer it reads is its own and says that the device is done. Twelve of
the actions are steps of one thread that touch neither the wire nor the history
(`LocalStep`), nine are steps of the device and the wire (`WorldStep`).

The proof also found a condition that the runs are too small to need: a move can
take two positions for its own that are older than its command, when earlier moves
timed out and their stops were not answered (three calls and three vectors in
flight). `NothingOld` is that condition; the code has only its deadlines and the
age limit of the preflight against it.

`ConfirmedMotion_proofs` goes on from the `IInv` of `MotionControl` and proves, for
any number of threads, moves, calls, faults and messages in flight, with or
without `Prompt`:

* `StoppedHalts`: `Spec => []StoppedMoveIsHalted`
* `ConfirmedReal`: `Spec => []ConfirmedMoveIsReal`
* `UnparkQuiet`: `Spec => []UnparkIsQuiet`
* `AuthorityUnparked`: `Spec => []AuthorityExcludesParked`
* `OneCaller`: `Spec => []OneCallerOneMover`
* `CloseHalts`: `Spec => []CloseHaltsMove`

A stop reads its baseline when its commands are on the wire, not when they are
processed, so what it confirms may be older than its ABORT; that the move halts
all the same rests on the order of the commands. The invariant `HaltInv` says so.
`StopsOK`: a stop knows only handles whose token is set. `HaltsOK`: as long as no
connection dropped, a stop of the current move that is past its ABORT and went
well so far, and later the confirmed result, has `Halts`: behind the last command
that moves the mount there is an ABORT in the queue of the device, or there is no
such command and the mount does not slew. Only a command sent after the ABORT
could break it, which the token check prevents, but for the gap that `late` records.

`RealInv` is what the other theorem needs. `KindsOK`: a worker runs the move of its
handle. While nobody unparked, three parts more. `ParkOK`: no application thread commands the
mount, a parked mount rests, and every status on the wire or in the cache that
says parked is true. `AxisOK`: before the first goto was sent no status knows a
target (`Untargeted`); from then on the goto is the last command that moves the mount,
so a status that saw the target, or the mount at rest on it, stays true (`Targeted`).
`ConfOK`: what is confirmed, or about to be, is real. The lemmas `MoverRuns` and `StopRuns` say what any step of a
mover or a stop does to its place and locals, so that one lemma for each kind of
step is enough.

An earlier form of these two properties (`StoppedMoveIsHalted`, `ConfirmedMoveIsReal`)
was true in the runs only because of their
bounds, which the attempt to prove it showed: a route to HOME beside the stopped
move may send its GO after the stop was requested and end before the device reads
it, and a second axis move may see the target of the first.

`UnparkQuiet` is about histories of any length in which the mount is parked and
unparked again and again. `FlipInv` says that cache, wire, mount and queue never
hold more than one change of parked between them: read from the oldest status to the last
command in the queue, the mount falls out of PARK (`Falling`) or rises to it
(`Rising`). While it falls, nothing that moves it is behind the UNPARK, and a status
without tracking stays true of a mount that is not parked; while it rises, no UNPARK
can reach it there. `Flips`: the cached status tells which of the two it is,
because one of both sides is constant then. So the preflights, which read that status,
let a move begin only while the mount rises and an unpark only while it falls, and
`_start_motion` and `_require_no_motion` keep the two apart (`CallsOK`). The poll that
ends an unpark is not parked and does not track (`Calm`), and with `Falling` that
holds of the mount, which was sent nowhere: `Quiet`. The route goes to HOME from
there, and `Quiet` stays. The property is about one application thread: two may
unpark and move at once (`TwoMovers`).

`AuthorityUnparked` rests on `FlipInv` and one invariant more, `AuthInv`. `Homely` is
a mount that is not parked, not on its way to PARK, with no PARK in the queue. The
authority is taken by a HOME that was confirmed, so the question is whether a PARK
can still reach a mount that was seen at HOME. `AuthInv` says: once the last PARK was
confirmed (`Reached`) nothing moves the mount behind it, or the mount is `Homely`; a
worker that goes elsewhere after that saw the mount unparked, so it is `Homely`;
while a PARK is going on the authority is not held; where it is held, the mount is
`Homely`.

The property was first stated as `authority => ~mount.parked`, which the runs passed
and the proof did not: when a PARK was given up, its command may still be in the
queue of the device, or statuses of before it still on the wire, while the next HOME
is confirmed by them. TLC shows both on instances larger than the runs, with one
application, HOME and PARK and two moves: with `Prompt = FALSE` and one vector in
flight the PARK is read late, with `Prompt = TRUE` and seven vectors the old statuses
outlive its deadline. So the property speaks of histories in which the last PARK
before the current move was confirmed (`ParkWasReached`), and of one application,
because two may park and go home at once.

`OneCaller` and `CloseHalts` are what remains true where `TwoMovers` and `CloseLate`
are violated. With one thread that calls, no two moves wait for the mount: by
`OneMoveAtATime` there is one worker at most, and by `CallsOK` none is alive while a
blocking call runs. `CloseHalts` needs `CloseOK` beside `HaltInv`: as long as nothing
dropped it, the connection is open until `close()` closes it, so the ABORT of its stop
leaves, and nothing that moves the mount gets behind that ABORT (`Halts`), through the
confirmation, its deadline, the wait for the supervisor and the end of the transport.
Unlike `StoppedMoveIsHalted` it asks for no confirmation, because `close()` goes on
without one.

`SkyTracking_proofs` proves, from `SkyAssumption` and `AutoTrackAssumption`, that is for
any policy, pulses, latency and sky:

* `SkyTyped`: `Spec => []TypeOK`
* `FailedStops`: `Spec => FailureStops`

The second rests on an `IInv` that says: while the stop of `enable_tracking` waits for
its statuses (the only place from which the call returns "failed" over an open
connection), an OFF is in the queue of the device with no ON behind it, or there is no ON and
tracking is off or was refused. It holds because only `enable_tracking` sends ON,
and its stop sends OFF behind that. The first needs what `ChunksOf` computes for every
duration: `SmallestOf` and `SetInduction` give induction over a set of numbers, and
`ChunkRange` and `ChunkStep` say by it that the chunks of a pulse are durations within the range that add up.

`GuidePulse_proofs` goes on from there:

* `PulseReal`: `Spec => PulseIsReal`
* `TrackingReal`: `Spec => TrackingIsReal`

`PulseInv` follows a chunk. At most one is on its way: `Sent` and not read by the
device, `Accepted`, `Ended` or `Rejected`, each with the answers that may be on the
wire then and with what the device has accepted so far, which is what the pulse counts (`PulseOK`).
`CutOK` says what became of it. While no call enables tracking, there is no ON in the
queue and behind each ABORT there a TRACK_OFF, there already or still to be sent
(`Followed`); a chunk that the device guides is
guided (`going`), and what it accepted is what it guided to the end plus that chunk,
or a stop that cut one short shows (`StopShows`). A pulse whose last Ok came has no
chunk going, so what it completed was guided, or the stop shows.
`LastTrue` says that the last status on its way, or else the cached one, is the
device's; `Undisturbed` that nothing but pulses is sent and no status claims tracking
of a mount that does not track, unless a stop, a fault or another call came between.
`TrackingReal` rests on `LastTrue` too: `enable_tracking` reports tracking on only
from a cached status that says so (`SaidFromStatus`), so a stop or a limit that turned
it off has its status still on the way. Without that look at the status an accepted command is
not enough: the OFF of another thread's stop may come before the confirmation.
With `EarlyAck` an Ok says less: then the theorem says that the device accepted the
duration asked for, and a status of before the pulse may stand for its end.

Only model-checked: all liveness and what uses ENABLED (out of TLAPS' reach), and the
properties that the code violates. No module uses a RECURSIVE operator; `ChunksOf` is a
recursive function.

## Plan

1. `Transport`: connecting again, and waiters of one vector from two threads.
2. Two calls per behaviour in `Sky`, the late answer of a timed-out pulse.
3. `controlled_meridian_flip` and the autonomous watch of the serial adapter.

## Not modelled

The trace recorder, capture and command line tools, replay and validation (file
and packet processing that nothing at run time depends on); configuration
parsing; the angles of a move and the amounts of time, which the models reduce to
on target or not, right or wrong; the legacy focuser (single exchanges without
waits); of the serial adapter sync and alignment, setting limits,
`recovery_offset`, `controlled_meridian_flip` and the autonomous watch.
