--------------------------- MODULE MountAuthority ---------------------------
(***************************************************************************)
(* What the serial adapter (mount.py) believes about the mount, and how    *)
(* long: HOME and PARK confirmations, the reasons against them, the safety *)
(* lock, the clock checks, the PARK record on disk and the saved state     *)
(* (state_store.py), with a process that may crash between any two steps.  *)
(*                                                                         *)
(* One application thread calls the adapter.  The controller is external:  *)
(* it moves, hits limits, loses its clock and answers late or never.       *)
(* Motion commands are the business of SerialMount; here the mount moves   *)
(* by itself whenever it is not parked.                                    *)
(***************************************************************************)
EXTENDS Integers

CONSTANTS
    Poses,        \* mechanical poses of the mount
    HomePose,     \* the mechanical zero
    NoRecord,     \* no PARK record
    NoState,      \* no saved state
    Lost,         \* no answer
    MaxFaults,    \* bound on limits, failed parks, lost replies, disk errors, power cycles
    MaxCrashes,   \* bound on the crashes of the process
    MaxCalls      \* bound on the calls that change what is believed

Flags == [parked : BOOLEAN, athome : BOOLEAN, tracking : BOOLEAN,
          slewing : BOOLEAN, limit : BOOLEAN, failed : BOOLEAN]
NoFlags == [parked |-> FALSE, athome |-> FALSE, tracking |-> FALSE,
            slewing |-> FALSE, limit |-> FALSE, failed |-> FALSE]
States == [parked : BOOLEAN, unsafe : BOOLEAN]

ASSUME AuthorityAssumption ==
    /\ HomePose \in Poses /\ NoRecord \notin Poses
    /\ NoState \notin States /\ Lost \notin Flags
    /\ MaxFaults \in Nat /\ MaxCrashes \in Nat /\ MaxCalls \in Nat

Records == Poses \cup {NoRecord}

\* Why the mechanical position is not trusted.  "persisted" stands for all
\* persisted_* reasons, "external" for a reported change, a disconnection and
\* the operator's clear.
Reasons == {"nostate", "persisted", "external", "limit", "failed"}
ClockLocks == {"system_clock_invalid", "onstep_clock_invalid"}
Locks == {"none", "limit"} \cup ClockLocks

\* A clock is represented by its error.  The system clock is right (0), wrong but
\* plausible (1), or wrong and known to be (2: before 2024 or before the time of
\* the installed files).  Epoch is where the controller's clock starts.
SystemErrors == 0..2
Errors == -2..2
Epoch == 3
Clocks == [system : SystemErrors, onstep : Errors \cup {Epoch}]

\* What is known of a check: not made, passed, failed; "sidereal" is a
\* controller whose clock agreed and whose sidereal time was not answered.
SystemChecks == {"unset", "ok", "bad"}
ClockChecks == {"unset", "ok", "sidereal", "bad"}

\* What of :GC#, :GL# and :GS# was answered
Readings == {"both", "clock", "none"}

VARIABLES
    ctl,      \* the controller: status flags, pose, stored PARK pose
    clock,    \* the errors of the system clock and of the controller's
    mem,      \* the adapter object
    disk,     \* the record file, the pending record, the saved state
    pc,       \* where the running call is
    loc,      \* the pose read by set_park_position_from_current
    config,   \* require_home_confirmation, a trusted time_trust_source
    budget,   \* faults, crashes and calls so far
    hist      \* history: see below

vars == <<ctl, clock, mem, disk, pc, loc, config, budget, hist>>

CtlTypes == [parked : BOOLEAN, athome : BOOLEAN, tracking : BOOLEAN,
             slewing : BOOLEAN, limit : BOOLEAN, failed : BOOLEAN,
             pose : Poses, park : Records]
MemTypes == [up : BOOLEAN, open : BOOLEAN, home : BOOLEAN, parkPose : BOOLEAN,
             inv : SUBSET Reasons, lock : Locks, dec : Flags, rec : Records,
             sysOk : SystemChecks, clkOk : ClockChecks,
             timeTrusted : BOOLEAN, offset : BOOLEAN, corrects : SystemErrors]
DiskTypes == [record : Records, state : {NoState} \cup States]

\* History variables, which nothing reads but the properties:
\*   confirmed  HOME was confirmed, or need not be and the saved state was safe,
\*              and nothing was reported against it since
\*   seen       the faults a status reported to this process
\*   took       the pose the controller took as PARK in the call that runs
\*   kept       the pose it took in the call that wrote the record
\*   moved      that was not the pose this call had read for the record
\*   clear      the status of the goto that runs was answered by a mount that was
\*              unparked, at rest, at no limit and without a failed park
\*   stale      since the check made last a clock was changed by something that
\*              does not check again: a power cycle, a set system clock, a sync or
\*              an observer update that failed half way
HistTypes == [confirmed : BOOLEAN, seen : SUBSET {"limit", "failed"},
              took : Records, kept : Records, moved : BOOLEAN,
              clear : BOOLEAN, stale : BOOLEAN]

------------------------------------------------------------------------------
(* What the adapter computes.                                              *)

\* _mechanical_position_authority
Authority(m) ==
    IF \/ {"limit", "failed"} \cap m.inv # {}
       \/ m.lock = "limit"
       \/ m.dec.failed \/ m.dec.limit
    THEN "fault"
    ELSE IF m.home /\ m.inv = {} /\ (m.dec.parked => m.parkPose)
    THEN "trusted"
    ELSE IF m.parkPose /\ ~m.home THEN "park_confirmed" ELSE "unknown"

\* _inspect_status
Inspect(m, st) ==
    LET seen == m.inv \cup (IF st.failed THEN {"failed"} ELSE {})
                      \cup (IF st.limit THEN {"limit"} ELSE {})
        bad == st.failed \/ st.limit
    IN [m EXCEPT !.dec = st, !.inv = seen,
                 !.lock = IF st.limit THEN "limit" ELSE @,
                 !.home = @ /\ ~bad, !.parkPose = @ /\ ~bad]

\* _invalidate_mechanical_trust
Invalidate(m, reason) ==
    [m EXCEPT !.inv = @ \cup {reason}, !.home = FALSE, !.parkPose = FALSE]

\* Mutant: a lock that no check knows by its name, and none releases.
ApplyUnnamedLock(m) ==
    [m EXCEPT !.lock = IF m.sysOk # "ok" \/ m.clkOk # "ok" THEN "clock_unsafe" ELSE @]

\* _apply_clock_safety_lock after the checks; the sidereal time has no lock.
ApplyClockLock(m) ==
    [m EXCEPT !.lock = IF ~m.offset /\ m.sysOk = "bad" THEN "system_clock_invalid"
                       ELSE IF m.clkOk = "bad" THEN "onstep_clock_invalid"
                       ELSE IF @ \in ClockLocks THEN "none" ELSE @]

\* The state maybe_save writes; a forced save always writes, another one may be
\* throttled or find nothing new.
Saved(m) == [parked |-> m.dec.parked,
             unsafe |-> m.dec.tracking \/ m.dec.slewing \/ m.dec.limit \/ m.lock # "none"]
SaveForced(m) == disk' = [disk EXCEPT !.state = Saved(m)]
SaveThrottled(m) == disk' = disk \/ SaveForced(m)

\* Mutant: the confirmation clears every reason.
HomeForgivesAll(m) == [m EXCEPT !.home = TRUE, !.inv = {}]

\* confirm_home_position: only the two faults outlive it.
HomeConfirmed(m) == [m EXCEPT !.home = TRUE, !.inv = @ \cap {"limit", "failed"}]

\* confirm_park_pose and set_park_position_from_current: the reasons of the
\* startup go.
StartupForgiven(m) == [m EXCEPT !.parkPose = TRUE, !.inv = @ \ {"nostate", "persisted"}]

\* read_system_clock_sanity: it knows implausible from plausible, not wrong from
\* right.
Plausible(c) == c.system # 2

\* The error of _active_now_utc: an offset takes away the error the system clock
\* had when the offset was measured.
ActiveError(m, c) == c.system - m.corrects

\* read_onstep_clock and read_onstep_sidereal_consistency compare the controller
\* with the active time, which may be as wrong as the controller is.
ClockCheck(m, c, reading) ==
    IF reading = "none" \/ c.onstep # ActiveError(m, c) THEN "bad"
    ELSE IF reading = "clock" THEN "sidereal" ELSE "ok"

\* The checks of m with the clocks at c
Checked(m, c, reading) ==
    [m EXCEPT !.sysOk = IF Plausible(c) THEN "ok" ELSE "bad",
              !.clkOk = ClockCheck(m, c, reading)]

\* The checks that _time_readiness goes by: those made last, or fresh ones where
\* none was made.
SystemReady(m) == m.sysOk = "ok" \/ (m.sysOk = "unset" /\ Plausible(clock))
ClockReady(m) ==
    m.clkOk = "ok" \/ (m.clkOk = "unset" /\ ClockCheck(m, clock, "both") = "ok")

\* Mutant: the controller's clock is not looked at.
TimeReadyBySystem(m) == SystemReady(m) /\ (m.timeTrusted \/ m.offset)

\* _time_readiness
TimeReady(m) == SystemReady(m) /\ ClockReady(m) /\ (m.timeTrusted \/ m.offset)

\* __init__ with _inspect_persisted_startup_state
Started(state, record) ==
    LET found == IF state = NoState THEN {"nostate"}
                 ELSE IF state.unsafe \/ ~state.parked THEN {"persisted"} ELSE {}
    IN [up |-> TRUE, open |-> FALSE, home |-> ~config.home, parkPose |-> FALSE,
        inv |-> IF config.home THEN found ELSE found \ {"nostate"},
        lock |-> "none", dec |-> NoFlags, rec |-> record,
        sysOk |-> "unset", clkOk |-> "unset",
        timeTrusted |-> config.time, offset |-> FALSE, corrects |-> 0]

------------------------------------------------------------------------------
(* Helpers of the actions.                                                 *)

Idle == pc = "idle" /\ mem.up
Call == budget.calls < MaxCalls /\ budget' = [budget EXCEPT !.calls = @ + 1]
Fault == budget.faults < MaxFaults /\ budget' = [budget EXCEPT !.faults = @ + 1]

\* A call that meets n faults.
CallWith(n) ==
    /\ budget.calls < MaxCalls /\ budget.faults + n <= MaxFaults
    /\ budget' = [budget EXCEPT !.calls = @ + 1, !.faults = @ + n]

\* get_state answers the status, or nothing.  Tracking, which nobody requests in
\* this module, is switched off after the first reply; the attempt may fail.
Replies ==
    {[[f \in DOMAIN NoFlags |-> ctl[f]] EXCEPT !.tracking = t] :
        t \in IF ctl.tracking THEN BOOLEAN ELSE {FALSE}}
Answers == IF mem.open THEN Replies \cup {Lost} ELSE {Lost}
Faults(a) == IF a = Lost /\ mem.open THEN 1 ELSE 0

After(m, a) == IF a = Lost THEN m ELSE Inspect(m, a)
Tracked(a) == IF a = Lost THEN ctl ELSE [ctl EXCEPT !.tracking = a.tracking]
SaveAfter(m, a) ==
    IF a = Lost THEN UNCHANGED disk
    ELSE IF ctl.tracking THEN SaveForced(m) ELSE SaveThrottled(m)

\* What the history makes of an answer.
Noted(h, a) ==
    LET shown == IF a = Lost THEN {} ELSE {f \in {"limit", "failed"} : a[f]}
    IN [h EXCEPT !.seen = @ \cup shown,
                 !.confirmed = @ /\ shown = {}]

------------------------------------------------------------------------------
(* Status and confirmations.                                               *)

\* get_state called by the application
Poll ==
    /\ Idle
    /\ \E a \in Answers :
        /\ IF Faults(a) = 0 THEN UNCHANGED budget ELSE Fault
        /\ ctl' = Tracked(a)
        /\ mem' = After(mem, a)
        /\ SaveAfter(mem', a)
        /\ hist' = Noted(hist, a)
    /\ UNCHANGED <<clock, pc, loc, config>>

\* confirm_home_position
ConfirmHome ==
    /\ Idle /\ Call
    /\ mem' = HomeConfirmed(mem)
    /\ SaveForced(mem')
    /\ hist' = [hist EXCEPT !.confirmed = TRUE]
    /\ UNCHANGED <<ctl, clock, pc, loc, config>>

\* One round of _wait_for_status_flag("at_home"): the flag is read from the last
\* decoded status, which an unanswered poll leaves as it was.
AwaitHome ==
    /\ Idle
    /\ \E a \in Answers :
        /\ CallWith(Faults(a))
        /\ After(mem, a).dec.athome
        /\ ctl' = Tracked(a)
        /\ mem' = HomeConfirmed(After(mem, a))
        /\ SaveForced(mem')
        /\ hist' = [Noted(hist, a) EXCEPT !.confirmed = TRUE]
    /\ UNCHANGED <<clock, pc, loc, config>>

\* invalidate_home_authority, clear_mechanical_confirmations, note_external_motion
ReportChange ==
    /\ Idle /\ Call
    /\ mem' = Invalidate(mem, "external")
    /\ disk' = disk \/ SaveForced(mem')
    /\ hist' = [hist EXCEPT !.confirmed = FALSE]
    /\ UNCHANGED <<ctl, clock, pc, loc, config>>

\* confirm_park_pose: refused unless the live status says PARKED
ConfirmParkPose ==
    /\ Idle /\ Call
    /\ \E a \in Answers \ {Lost} :
        /\ a.parked
        /\ ctl' = Tracked(a)
        /\ mem' = StartupForgiven(After(mem, a))
        /\ SaveForced(mem')
        /\ hist' = LET h == Noted(hist, a) IN [h EXCEPT !.confirmed = @ \/ mem'.home]
    /\ UNCHANGED <<clock, pc, loc, config>>

\* clear_safety_lock
ClearLock ==
    /\ Idle /\ Call
    /\ mem' = [mem EXCEPT !.lock = "none"]
    /\ UNCHANGED <<ctl, clock, disk, pc, loc, config, hist>>

------------------------------------------------------------------------------
(* Clock checks, connection.                                               *)

\* refresh_safety_state of m: the status, then the checks
Refreshed(m, a, reading) == ApplyClockLock(Checked(After(m, a), clock, reading))

\* The status as refresh_safety_state reads it, which guards no tracking.
Status == [f \in DOMAIN NoFlags |-> ctl[f]]
RefreshAnswers == IF mem.open THEN {Status, Lost} ELSE {Lost}
RefreshReadings == IF mem.open THEN Readings ELSE {"none"}
Missed(reading) == IF mem.open /\ reading # "both" THEN 1 ELSE 0

\* A call that refreshes m
RefreshOf(m) ==
    \E a \in RefreshAnswers, reading \in RefreshReadings :
        /\ CallWith(Faults(a) + Missed(reading))
        /\ mem' = Refreshed(m, a, reading)
        /\ IF a = Lost THEN UNCHANGED disk ELSE SaveThrottled(After(m, a))
        /\ hist' = [Noted(hist, a) EXCEPT !.stale = FALSE]

\* refresh_safety_state called by the application
Refresh ==
    /\ Idle /\ RefreshOf(mem)
    /\ UNCHANGED <<ctl, clock, pc, loc, config>>

\* update_observer_reference: a time offset, as the GPS gives it, makes the time
\* trusted, for good.  The refresh may raise, with the new offset in force and
\* the checks those of before.
UpdateObserver ==
    /\ Idle
    /\ \E m \in {[mem EXCEPT !.offset = TRUE, !.corrects = clock.system, !.timeTrusted = TRUE],
                  [mem EXCEPT !.offset = FALSE, !.corrects = 0]} :
        \/ RefreshOf(m)
        \/ /\ CallWith(1)
           /\ mem' = m
           /\ hist' = [hist EXCEPT !.stale = TRUE]
           /\ UNCHANGED disk
    /\ UNCHANGED <<ctl, clock, pc, loc, config>>

\* Set the controller's clock to a time with this error, which makes m of the
\* adapter: an implausible system clock is refused; a reply that is not "1"
\* raises after the controller may have taken the new time; a success is
\* checked again.
Sync(error, m) ==
    /\ Idle /\ mem.open
    /\ \/ /\ ~Plausible(clock) /\ Call
          /\ mem' = [mem EXCEPT !.sysOk = "bad", !.lock = "system_clock_invalid"]
          /\ UNCHANGED <<clock, disk, hist>>
       \/ /\ Plausible(clock) /\ CallWith(1)
          /\ clock' \in {clock, [clock EXCEPT !.onstep = error]}
          /\ mem' = [mem EXCEPT !.sysOk = "ok"]
          /\ hist' = [hist EXCEPT !.stale = @ \/ clock' # clock]
          /\ UNCHANGED disk
       \/ /\ Plausible(clock)
          /\ clock' = [clock EXCEPT !.onstep = error]
          /\ \E reading \in Readings :
                /\ CallWith(Missed(reading))
                /\ mem' = ApplyClockLock(Checked(m, clock', reading))
          /\ SaveForced(mem')
          /\ hist' = [hist EXCEPT !.stale = FALSE]
    /\ UNCHANGED <<ctl, pc, loc, config>>

\* sync_onstep_clock_from_system copies the active time, and the user answers
\* for it.
SyncClock == Sync(ActiveError(mem, clock), [mem EXCEPT !.timeTrusted = TRUE])

\* sync_onstep_time_location: a given time is the right one, and its distance to
\* the system clock becomes the offset; without one the active time is copied,
\* and the offset it had is gone.
SyncTimeLocation ==
    \/ Sync(0, [mem EXCEPT !.offset = TRUE, !.corrects = clock.system])
    \/ Sync(ActiveError(mem, clock), [mem EXCEPT !.offset = FALSE, !.corrects = 0])

\* connect: tracking is switched off, which may fail, then the state refreshed; a
\* refresh that raises is swallowed, and leaves the checks as they were.
Connect ==
    /\ Idle /\ ~mem.open
    /\ LET opened == [mem EXCEPT !.open = TRUE]
       IN \E a \in Replies :
            /\ \/ /\ Call
                  /\ mem' = Refreshed(opened, a, "both")
                  /\ hist' = [Noted(hist, a) EXCEPT !.stale = FALSE]
               \/ /\ CallWith(1)
                  /\ mem' = After(opened, a)
                  /\ hist' = Noted(hist, a)
            /\ ctl' = Tracked(a)
            /\ SaveForced(After(opened, a))
    /\ UNCHANGED <<clock, pc, loc, config>>

\* disconnect
Disconnect ==
    /\ Idle /\ mem.open /\ Call
    /\ mem' = [Invalidate(mem, "external") EXCEPT !.open = FALSE]
    /\ hist' = [hist EXCEPT !.confirmed = FALSE]
    /\ UNCHANGED <<ctl, clock, disk, pc, loc, config>>

------------------------------------------------------------------------------
(* set_park_position_from_current, in three steps.                         *)

\* The guards, the status, the positions; the record is written beside the old
\* one.  A status that was not answered leaves the one decoded before.
BeginSetPark ==
    /\ Idle /\ mem.home /\ mem.inv = {} /\ mem.lock = "none" /\ mem.open
    /\ \E a \in Answers, allowAtHome \in BOOLEAN :
        LET m == After(mem, a)
        IN /\ CallWith(Faults(a))
           /\ m.dec.athome => allowAtHome
           /\ ~m.dec.slewing /\ ~m.dec.tracking /\ ~m.dec.limit /\ ~m.dec.failed
           /\ ctl' = Tracked(a)
           /\ mem' = m
           /\ SaveAfter(m, a)
           /\ hist' = Noted(hist, a)
    /\ loc' = ctl.pose
    /\ pc' = "command"
    /\ UNCHANGED <<clock, config>>

\* The controller stores its pose as PARK.
ParkTaken == ctl' = [ctl EXCEPT !.park = ctl.pose]

\* Mutant: the answer is not looked at.
SendSetParkUnchecked ==
    /\ pc = "command" /\ mem.up
    /\ \/ /\ ParkTaken /\ UNCHANGED budget
          /\ hist' = [hist EXCEPT !.took = ctl.pose]
       \/ Fault /\ UNCHANGED <<ctl, hist>>
    /\ pc' = "commit"
    /\ UNCHANGED <<clock, mem, disk, loc, config>>

\* :hQ#.  Any answer but "1" removes the pending record, an answer that got lost
\* too.
SendSetPark ==
    /\ pc = "command" /\ mem.up
    /\ \/ /\ ParkTaken /\ UNCHANGED budget
          /\ hist' = [hist EXCEPT !.took = ctl.pose]
          /\ pc' = "commit"
       \/ /\ Fault
          /\ ParkTaken \/ UNCHANGED ctl
          /\ pc' = "idle"
          /\ UNCHANGED hist
    /\ UNCHANGED <<clock, mem, disk, loc, config>>

\* The pending record replaces the old one, or the disk refuses: then memory
\* keeps the old one too.
CommitSetPark ==
    /\ pc = "commit" /\ mem.up
    /\ \/ /\ mem' = StartupForgiven([mem EXCEPT !.rec = loc])
          /\ disk' = [record |-> loc, state |-> Saved(mem')]
          /\ hist' = [hist EXCEPT !.kept = hist.took, !.took = NoRecord,
                                  !.moved = hist.took \notin {loc, NoRecord}]
          /\ UNCHANGED budget
       \/ /\ Fault
          /\ hist' = [hist EXCEPT !.took = NoRecord]
          /\ UNCHANGED <<mem, disk>>
    /\ pc' = "idle"
    /\ UNCHANGED <<ctl, clock, loc, config>>

------------------------------------------------------------------------------
(* Motion that the authority gates.                                        *)

\* unpark: the state is saved before the status is read again.
Unpark ==
    /\ Idle /\ Call /\ mem.open
    /\ mem.lock \in {"none"} \cup ClockLocks
    /\ \/ UNCHANGED ctl /\ pc' \in {"idle", "look"}
       \/ /\ ctl.parked
          /\ \E t \in BOOLEAN : ctl' = [ctl EXCEPT !.parked = FALSE, !.tracking = t]
          /\ pc' = "look"
    /\ SaveForced(mem)
    /\ UNCHANGED <<clock, mem, loc, config, hist>>

LookAfterUnpark ==
    /\ pc = "look" /\ mem.up
    /\ \E a \in Answers :
        /\ IF Faults(a) = 0 THEN UNCHANGED budget ELSE Fault
        /\ ctl' = Tracked(a)
        /\ mem' = After(mem, a)
        /\ SaveAfter(mem', a)
        /\ hist' = Noted(hist, a)
    /\ pc' = "idle"
    /\ UNCHANGED <<clock, loc, config>>

\* What _check_target_safe asks before the status, and of it
MayStart(m) == m.lock = "none" /\ m.home /\ TimeReady(m)
Preflight(m, a) ==
    /\ a # Lost
    /\ Authority(m) = "trusted" /\ ~a.parked /\ ~a.slewing

\* goto, first half: _check_target_safe up to its last question.
CheckGoto ==
    /\ Idle /\ Call /\ mem.open /\ MayStart(mem)
    /\ \E a \in Replies :
        /\ Preflight(After(mem, a), a)
        /\ ctl' = Tracked(a)
        /\ mem' = After(mem, a)
        /\ SaveAfter(mem', a)
        /\ hist' = [Noted(hist, a) EXCEPT
                     !.clear = ~ctl.parked /\ ~ctl.slewing /\ ~ctl.limit /\ ~ctl.failed,
                     !.stale = @ /\ mem.clkOk # "unset"]
    /\ pc' = "goto"
    /\ UNCHANGED <<clock, loc, config>>

\* goto, second half, after the pier side, the axes, the position, the sidereal
\* time and the target were exchanged: :MS#.  "4" and "6" lock the mount; a lost
\* answer is taken for a refusal.
SendGoto ==
    /\ pc = "goto" /\ mem.up
    /\ LET off == [ctl EXCEPT !.slewing = TRUE, !.athome = FALSE]
       IN \/ /\ ~ctl.parked
             /\ ctl' = off
             /\ SaveForced(mem)
             /\ UNCHANGED <<mem, budget>>
          \/ /\ mem' \in {mem, [mem EXCEPT !.lock = "limit"]}
             /\ UNCHANGED <<ctl, disk, budget>>
          \/ /\ Fault
             /\ ctl' \in (IF ctl.parked THEN {ctl} ELSE {ctl, off})
             /\ UNCHANGED <<mem, disk>>
    /\ pc' = "idle"
    /\ hist' = [hist EXCEPT !.clear = FALSE]
    /\ UNCHANGED <<clock, loc, config>>

------------------------------------------------------------------------------
(* The process.                                                            *)

Crash ==
    /\ mem.up
    /\ budget.crashes < MaxCrashes
    /\ budget' = [budget EXCEPT !.crashes = @ + 1]
    /\ mem' = [mem EXCEPT !.up = FALSE]
    /\ pc' = "idle"
    /\ hist' = [hist EXCEPT !.took = NoRecord, !.clear = FALSE]
    /\ UNCHANGED <<ctl, clock, disk, loc, config>>

Restart ==
    /\ ~mem.up
    /\ mem' = Started(disk.state, disk.record)
    /\ hist' = [hist EXCEPT !.confirmed = mem'.home /\ mem'.inv = {}, !.seen = {},
                            !.stale = FALSE]
    /\ UNCHANGED <<ctl, clock, disk, pc, loc, config, budget>>

------------------------------------------------------------------------------
(* The controller, external: it moves when it is not parked, by a command or *)
(* by hand.                                                                *)

Controller(c) == ctl' = c /\ UNCHANGED <<mem, disk, pc, loc, config, hist>>

Goes ==
    /\ ~ctl.parked /\ ~ctl.slewing
    /\ Controller([ctl EXCEPT !.slewing = TRUE, !.athome = FALSE])
    /\ UNCHANGED <<clock, budget>>

Arrives ==
    /\ ctl.slewing
    /\ \E p \in Poses :
        Controller([ctl EXCEPT !.slewing = FALSE, !.pose = p, !.athome = (p = HomePose)])
    /\ UNCHANGED <<clock, budget>>

Parks ==
    /\ ctl.slewing /\ ctl.park # NoRecord
    /\ Controller([ctl EXCEPT !.slewing = FALSE, !.tracking = FALSE, !.parked = TRUE,
                              !.failed = FALSE, !.pose = ctl.park,
                              !.athome = FALSE])
    /\ UNCHANGED <<clock, budget>>

ParkFails ==
    /\ ctl.slewing /\ Fault
    /\ Controller([ctl EXCEPT !.slewing = FALSE, !.failed = TRUE])
    /\ UNCHANGED clock

HitsLimit ==
    /\ ctl.slewing /\ Fault
    /\ Controller([ctl EXCEPT !.slewing = FALSE, !.limit = TRUE, !.tracking = FALSE])
    /\ UNCHANGED clock

LeavesLimit ==
    /\ ctl.limit
    /\ Controller([ctl EXCEPT !.limit = FALSE])
    /\ UNCHANGED <<clock, budget>>

\* The controller is switched off and on: its clock starts at its epoch.
PowerCycle ==
    /\ Fault
    /\ ctl' = [ctl EXCEPT !.tracking = FALSE, !.slewing = FALSE]
    /\ clock' = [clock EXCEPT !.onstep = Epoch]
    /\ hist' = [hist EXCEPT !.stale = TRUE]
    /\ UNCHANGED <<mem, disk, pc, loc, config>>

\* NTP or the GPS sets the system clock; an offset measured before stays.
SystemClockSet ==
    /\ clock.system # 0
    /\ clock' = [clock EXCEPT !.system = 0]
    /\ hist' = [hist EXCEPT !.stale = TRUE]
    /\ UNCHANGED <<ctl, mem, disk, pc, loc, config, budget>>

------------------------------------------------------------------------------
Init ==
    /\ ctl = [parked |-> FALSE, athome |-> TRUE, tracking |-> FALSE, slewing |-> FALSE,
              limit |-> FALSE, failed |-> FALSE, pose |-> HomePose, park |-> NoRecord]
    /\ clock \in {c \in Clocks : c.onstep \in {c.system, Epoch}}
    /\ disk = [record |-> NoRecord, state |-> NoState]
    /\ config \in [home : BOOLEAN, time : BOOLEAN]
    /\ mem = Started(NoState, NoRecord)
    /\ pc = "idle" /\ loc = HomePose
    /\ budget = [faults |-> 0, crashes |-> 0, calls |-> 0]
    /\ hist = [confirmed |-> mem.home, seen |-> {}, took |-> NoRecord,
               kept |-> NoRecord, moved |-> FALSE, clear |-> FALSE, stale |-> FALSE]

Next ==
    \/ Poll \/ ConfirmHome \/ AwaitHome \/ ReportChange \/ ConfirmParkPose \/ ClearLock
    \/ Refresh \/ UpdateObserver \/ SyncClock \/ SyncTimeLocation
    \/ Connect \/ Disconnect
    \/ BeginSetPark \/ SendSetPark \/ CommitSetPark
    \/ Unpark \/ LookAfterUnpark \/ CheckGoto \/ SendGoto \/ Crash \/ Restart
    \/ Goes \/ Arrives \/ Parks \/ ParkFails \/ HitsLimit \/ LeavesLimit
    \/ PowerCycle \/ SystemClockSet

Spec == Init /\ [][Next]_vars

------------------------------------------------------------------------------
(* Properties.                                                             *)

\* Every variable has its type.
TypeOK ==
    /\ ctl \in CtlTypes
    /\ clock \in Clocks
    /\ mem \in MemTypes
    /\ disk \in DiskTypes
    /\ pc \in {"idle", "look", "command", "commit", "goto"}
    /\ loc \in Poses
    /\ config \in [home : BOOLEAN, time : BOOLEAN]
    /\ budget \in [faults : 0..MaxFaults, crashes : 0..MaxCrashes, calls : 0..MaxCalls]
    /\ hist \in HistTypes

\* Memory and disk hold one record, written by a call in which the controller took
\* its :hQ#, and of the pose that it took: no rejection, lost answer, crash or
\* disk error leaves a record of a PARK that was never set.  A mount that moves
\* by itself between the pose the call reads and :hQ# is the exception (moved):
\* the record then names the pose read, and the controller holds another.
StoredWasAccepted ==
    /\ mem.rec = disk.record
    /\ disk.record = hist.kept \/ (hist.moved /\ hist.kept # NoRecord)

\* The position is trusted only in a process that has seen no limit and no failed
\* park, and after a confirmation of HOME against which nothing was reported: no
\* sequence of confirmations, clears, polls and restarts says otherwise.  Where
\* require_home_confirmation is off, three things stand for the confirmation, as
\* in the code: a saved state of a parked end, no saved state at all, and
\* confirm_park_pose after an end that was not parked.
TrustIsEarned ==
    (mem.up /\ Authority(mem) = "trusted") => hist.confirmed /\ hist.seen = {}

\* goto sends :MS# only for a call whose own status was answered by a mount that
\* was unparked, at rest and without a fault, after a confirmation of HOME against
\* which nothing was reported, and with a controller clock that agrees with the
\* active time or was changed since the check made last.  It is what the adapter
\* can know: in the exchanges between the status and :MS# the mount may move, park
\* or meet a limit, and a clock that agrees may be as wrong as the system clock.
GotoIsInformed ==
    [][SendGoto => /\ hist.confirmed /\ hist.seen = {} /\ hist.clear
                   /\ clock.onstep = ActiveError(mem, clock) \/ hist.stale]_vars

==============================================================================
