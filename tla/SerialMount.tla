----------------------------- MODULE SerialMount -----------------------------
(***************************************************************************)
(* The motion commands of the serial adapter (mount.py) over the shared    *)
(* serial bus (serial_bus.py): an application thread runs one operation at *)
(* a time, a status poller calls get_state, and anybody may press the      *)
(* emergency stop.  Replies get lost; a lost reply holds the bus until it  *)
(* times out, and a bounded acquire of another thread then gives up.       *)
(*                                                                         *)
(* A step is one exchange with the controller and the computation up to    *)
(* the next one.  The calls nest (a status poll may switch tracking off,   *)
(* which polls the status), so a thread has a stack of frames.             *)
(*                                                                         *)
(* Home authority, the safety lock and the clocks are MountAuthority's:    *)
(* here they are in order.  The controller is external.                    *)
(***************************************************************************)
EXTENDS Naturals, Sequences

CONSTANTS
    Ops,         \* operations the application calls: a subset of Operations
    MaxOps,      \* bound on the operations
    MaxFaults,   \* bound on lost replies and on commands taken without effect
    MaxStops     \* bound on emergency stops

Operations == {"home", "park", "goto", "track", "untrack", "axis", "jog", "pulse", "manual", "tick"}

ASSUME SerialAssumption ==
    /\ Ops \subseteq Operations
    /\ MaxOps \in Nat /\ MaxFaults \in Nat /\ MaxStops \in Nat

Threads == {"app", "ui"}
Nobody == "nobody"

VARIABLES
    ctl,      \* the controller
    dec,      \* _last_decoded_status
    req,      \* _tracking_explicitly_requested
    athm,     \* _at_mechanical_home
    sup,      \* _suppress_unrequested_tracking_guard
    held,     \* the thread that holds the bus while its reply is lost
    stack,    \* the frames of each thread, the running one first
    res,      \* what the last call of each thread returned
    op,       \* the operation of the application
    ended,    \* the operation that ended last and its result
    budget,   \* operations, faults and stops so far
    hist      \* history: see below

vars == <<ctl, dec, req, athm, sup, held, stack, res, op, ended, budget, hist>>

\* hist.lost     a status reply of the running operation got lost
\* hist.refused  the stop of an axis motion was refused by a busy bus and
\*               nothing stopped the axis since
\* hist.reset    the threads in whose guard against unrequested tracking another
\*               thread has reset the flag

Flags == [parked : BOOLEAN, athome : BOOLEAN, tracking : BOOLEAN, slewing : BOOLEAN]
Status(c) == [parked |-> c.parked, athome |-> c.athome, tracking |-> c.tracking,
              slewing |-> c.slew # "none"]

\* _mount_state_from_decoded: "unparked" stands for AT_LIMIT too, which the callers
\* here do not tell from it; a limit, left open, hides that the mount tracks.
StatesOf(st) ==
    IF st.parked THEN {"parked"} ELSE IF st.slewing THEN {"slewing"}
    ELSE IF st.tracking THEN {"tracking", "unparked"} ELSE {"unparked"}

------------------------------------------------------------------------------
(* Frames and the bus.                                                     *)

F(at) == [at |-> at, n |-> 0]
Idle(t) == stack[t] = <<>>
At(t, l) == stack[t] # <<>> /\ Head(stack[t]).at = l
Attempts(t) == Head(stack[t]).n

\* t is in its guard against unrequested tracking, also in a guard below it.
InGuard(t) == \E i \in DOMAIN stack[t] : stack[t][i].at = "guarded"
Nested(t) ==
    \E i, j \in DOMAIN stack[t] :
        i # j /\ stack[t][i].at = "guarded" /\ stack[t][j].at = "guarded"

\* The application looks at what it has and decides.
Decides == UNCHANGED <<ctl, dec, req, athm, sup, held, res, budget, hist>>

\* The running frame of t goes on as the frames fs; it says r, or tells it the
\* frame below, if there is one; the application ends its operation.
Goes(t, fs) == stack' = [stack EXCEPT ![t] = fs \o Tail(@)]
Says(t, r) == res' = [res EXCEPT ![t] = r]
Tells(t, r) == Says(t, IF Tail(stack[t]) = <<>> THEN "none" ELSE r)
Return(t, r) == Goes(t, <<>>) /\ Tells(t, r)
End(r) ==
    /\ stack' = [stack EXCEPT !["app"] = <<>>]
    /\ ended' = [op |-> op, r |-> r]
    /\ op' = "none"

Bus(t) == held = Nobody
Fault == budget.faults < MaxFaults /\ budget' = [budget EXCEPT !.faults = @ + 1]

\* A bounded acquire gives up because somebody waits for a lost reply.
Busy(t) == held \notin {Nobody, t}

\* The reply of the exchange gets lost: t holds the bus, and goes on with fs
\* when it gives up.
Lose(t, fs) ==
    /\ Fault
    /\ held' = t
    /\ Goes(t, <<F("wait")>> \o fs)

GivesUp(t) ==
    /\ At(t, "wait")
    /\ held' = Nobody
    /\ Goes(t, <<>>)
    /\ UNCHANGED <<athm, ctl, dec, req, sup, res, op, ended, budget, hist>>

\* What the commands do to the controller: ":Q#" ends slews and jogs.
Halted(c) == [c EXCEPT !.slew = "none", !.jog = FALSE]
Moving(c, slew) == [c EXCEPT !.slew = slew, !.athome = FALSE]

------------------------------------------------------------------------------
(* get_state and disable_tracking_verified.                                *)

\* Mutant: an attempt too many.
DisablingThrice == <<[at |-> "quit", n |-> 3]>>

Disabling == <<[at |-> "quit", n |-> 2]>>

GetState(t) ==
    /\ At(t, "state") /\ Bus(t)
    /\ \/ LET st == Status(ctl)
          IN /\ dec' = st
             /\ IF st.tracking /\ ~req /\ ~sup
                THEN Goes(t, <<F("guard")>>) /\ UNCHANGED res
                ELSE \E r \in (IF st.tracking THEN {"tracking"} ELSE StatesOf(st)) : Return(t, r)
          /\ UNCHANGED <<held, budget, hist>>
       \/ /\ Lose(t, <<>>)
          /\ Tells(t, "unknown")
          /\ hist' = [hist EXCEPT !.lost = @ \/ t = "app"]
          /\ UNCHANGED dec
    /\ UNCHANGED <<athm, ctl, req, sup, op, ended>>

\* Mutant: the flag is not set, a poll below comes here again.
GuardUnflagged(t) ==
    /\ At(t, "guard")
    /\ Goes(t, Disabling \o <<F("guarded")>>)
    /\ UNCHANGED <<athm, ctl, dec, req, sup, held, res, op, ended, budget, hist>>

\* _disable_unrequested_tracking: the flag that keeps the polls below from coming
\* here again is set after it was read, and reset on the way back.
Guard(t) ==
    /\ At(t, "guard")
    /\ sup' = TRUE
    /\ Goes(t, Disabling \o <<F("guarded")>>)
    /\ UNCHANGED <<athm, ctl, dec, req, held, res, op, ended, budget, hist>>

\* Mutant: the flag is never reset.
GuardedForEver(t) ==
    /\ At(t, "guarded")
    /\ \E r \in (IF res[t] = "ok" THEN StatesOf(dec) ELSE {"tracking"}) : Return(t, r)
    /\ UNCHANGED <<athm, ctl, dec, req, sup, held, op, ended, budget, hist>>

\* What the history makes of a flag that t resets.
Reset(h, t) ==
    [h EXCEPT !.reset = (IF Nested(t) THEN @ ELSE @ \ {t})
                        \cup {u \in Threads \ {t} : InGuard(u)}]

Guarded(t) ==
    /\ At(t, "guarded")
    /\ sup' = FALSE
    /\ hist' = Reset(hist, t)
    /\ \E r \in (IF res[t] = "ok" THEN StatesOf(dec) ELSE {"tracking"}) : Return(t, r)
    /\ UNCHANGED <<athm, ctl, dec, req, held, op, ended, budget>>

\* An attempt of disable_tracking_verified: ":Q#" past the lock,
Quit(t) ==
    /\ At(t, "quit")
    /\ ctl' = Halted(ctl)
    /\ hist' = [hist EXCEPT !.refused = FALSE]
    /\ Goes(t, <<[at |-> "disable", n |-> Attempts(t)]>>)
    /\ UNCHANGED <<athm, dec, req, sup, held, res, op, ended, budget>>

\* then ":Td#", which may be taken without effect, lost or refused by a busy bus;
\* the reply decides nothing.
Disable(t) ==
    LET poll == <<F("state"), [at |-> "judge", n |-> Attempts(t)]>>
        off == [ctl EXCEPT !.tracking = FALSE]
    IN /\ At(t, "disable")
       /\ \/ Bus(t) /\ ctl' = off /\ Goes(t, poll) /\ UNCHANGED <<held, budget>>
          \/ Bus(t) /\ Fault /\ Goes(t, poll) /\ UNCHANGED <<ctl, held>>
          \/ Bus(t) /\ Lose(t, poll) /\ ctl' \in {ctl, off}
          \/ Busy(t) /\ Goes(t, poll) /\ UNCHANGED <<ctl, held, budget>>
       /\ UNCHANGED <<athm, dec, req, sup, res, op, ended, hist>>

\* The status decided, whatever get_state returned.
TrackingGone(t) ==
    /\ At(t, "judge") /\ ~dec.tracking
    /\ req' = FALSE
    /\ Return(t, "ok")
    /\ UNCHANGED <<athm, ctl, dec, sup, held, op, ended, budget, hist>>

PollAgain(t) ==
    /\ At(t, "judge") /\ dec.tracking
    /\ Goes(t, <<F("state"), Head(stack[t])>>)
    /\ UNCHANGED <<athm, ctl, dec, req, sup, held, res, op, ended, budget, hist>>

\* The time of the attempt is over.
AttemptOver(t) ==
    /\ At(t, "judge") /\ dec.tracking
    /\ IF Attempts(t) > 1
       THEN Goes(t, <<[at |-> "quit", n |-> Attempts(t) - 1]>>) /\ UNCHANGED res
       ELSE Return(t, "failed")
    /\ UNCHANGED <<athm, ctl, dec, req, sup, held, op, ended, budget, hist>>

------------------------------------------------------------------------------
(* Threads begin; stop() is one write past the lock.                       *)

\* The first frames of an operation.  Every one but untrack and home begins with
\* a status poll, goto, track, axis and tick in motion_safety_preflight.
First(o) ==
    CASE o = "home" -> <<F("unpark")>>
      [] o = "untrack" -> Disabling \o <<F("untracked")>>
      [] o = "park" -> <<F("state"), F("park")>>
      [] o \in Operations \ {"home", "untrack", "park"} -> <<F("state"), F(o)>>

Begin ==
    /\ op = "none" /\ Idle("app")
    /\ budget.ops < MaxOps
    /\ budget' = [budget EXCEPT !.ops = @ + 1]
    /\ \E o \in Ops : op' = o /\ stack' = [stack EXCEPT !["app"] = First(o)]
    /\ ended' = [op |-> "none", r |-> "none"]
    /\ hist' = [hist EXCEPT !.lost = FALSE]
    /\ Says("app", "none")
    /\ UNCHANGED <<athm, ctl, dec, req, sup, held>>

\* The status poller
Poll ==
    /\ Idle("ui")
    /\ stack' = [stack EXCEPT !["ui"] = <<F("state")>>]
    /\ UNCHANGED <<athm, ctl, dec, req, sup, held, res, op, ended, budget, hist>>

\* stop(): the authorization goes first, then ":Q#".
Stop ==
    /\ budget.stops < MaxStops
    /\ budget' = [budget EXCEPT !.stops = @ + 1]
    /\ req' = FALSE
    /\ ctl' = Halted(ctl)
    /\ hist' = [hist EXCEPT !.refused = FALSE]
    /\ UNCHANGED <<athm, dec, sup, held, stack, res, op, ended>>

------------------------------------------------------------------------------
(* unpark_to_home_stop_tracking and park_via_home.                         *)

AppAt(l) == At("app", l)
AppGoes(fs) == Goes("app", fs) /\ UNCHANGED <<op, ended>>
AppEnds(r) == End(r)

\* ":hR#" in recovery_unpark_stop_tracking: any reply but "0" is an acceptance, a
\* lost one too.  OnStep may start tracking.
Unpark ==
    LET freed == {[ctl EXCEPT !.parked = FALSE, !.tracking = t] : t \in BOOLEAN}
        next == <<F("state"), F("unparked")>>
    IN /\ AppAt("unpark") /\ Bus("app")
       /\ req' = FALSE
       /\ \/ ctl' \in (IF ctl.parked THEN freed ELSE {ctl})
             /\ AppGoes(next) /\ UNCHANGED <<held, budget>>
          \/ ctl' \in (IF ctl.parked THEN freed \cup {ctl} ELSE {ctl})
             /\ Lose("app", next) /\ UNCHANGED <<op, ended>>
       /\ UNCHANGED <<athm, dec, sup, res, hist>>

Unparked ==
    /\ AppAt("unparked") \/ AppAt("started")
    /\ IF AppAt("unparked") /\ res["app"] = "tracking"
       THEN AppGoes(Disabling \o <<F("state"), F("started")>>)
       ELSE LET ok == IF res["app"] \in {"parked", "tracking"} THEN 0 ELSE 1
            IN AppGoes(<<F("state"), [at |-> "return", n |-> ok]>>)
    /\ Decides

\* return_home_mechanical after its status
ReturnHome ==
    LET ready == [at |-> "homing", n |-> Attempts("app")]
    IN /\ AppAt("return")
       /\ \/ res["app"] = "parked" /\ AppEnds("raised")
          \/ res["app"] = "tracking" /\ AppGoes(Disabling \o <<[ready EXCEPT !.at = "quieted"]>>)
          \/ res["app"] \notin {"parked", "tracking"} /\ AppGoes(<<ready>>)
       /\ Decides

Quieted ==
    /\ AppAt("quieted")
    /\ IF res["app"] = "ok" THEN AppGoes(<<[Head(stack["app"]) EXCEPT !.at = "homing"]>>)
       ELSE AppEnds("raised")
    /\ Decides

\* ":hC#"
Homing ==
    /\ AppAt("homing")
    /\ \/ /\ Bus("app")
          /\ ctl' = IF ctl.parked \/ ctl.athome THEN ctl ELSE Moving(ctl, "home")
          /\ AppGoes(<<F("state"), [Head(stack["app"]) EXCEPT !.at = "await"]>>)
       \/ Busy("app") /\ AppEnds("raised") /\ UNCHANGED ctl
    /\ UNCHANGED <<athm, dec, req, sup, held, res, budget, hist>>

\* Mutant: a mount at rest is taken for one at HOME.
AtRest ==
    /\ AppAt("await") /\ ~dec.slewing
    /\ IF op = "park" THEN AppGoes(<<F("parking")>>)
       ELSE AppEnds(IF Attempts("app") = 1 THEN "ok" ELSE "no")
    /\ athm' = TRUE
    /\ UNCHANGED <<ctl, dec, req, sup, held, res, budget, hist>>

\* _wait_for_status_flag("at_home"): HOME is confirmed; park_via_home goes on.
AtHome ==
    /\ AppAt("await") /\ dec.athome
    /\ IF op = "park" THEN AppGoes(<<F("parking")>>)
       ELSE AppEnds(IF Attempts("app") = 1 THEN "ok" ELSE "no")
    /\ athm' = TRUE
    /\ UNCHANGED <<ctl, dec, req, sup, held, res, budget, hist>>

\* _wait_for_status_flag polls again, or its time is over.
WaitsOn(l, there) ==
    /\ AppAt(l) /\ ~there
    /\ AppGoes(<<F("state"), Head(stack["app"])>>)
    /\ Decides
\* Mutant: park_via_home parks although HOME was not reached in time.
WaitOverParks(l, there) ==
    /\ AppAt(l) /\ ~there
    /\ IF l = "await" /\ op = "park" THEN AppGoes(<<F("parking")>>) ELSE AppEnds("no")
    /\ Decides

\* Mutant: no deadline while the mount slews.
WaitOverAtRest(l, there) ==
    /\ AppAt(l) /\ ~there /\ ~dec.slewing
    /\ AppEnds("no")
    /\ Decides

WaitOver(l, there) ==
    /\ AppAt(l) /\ ~there
    /\ AppEnds("no")
    /\ Decides

\* park_via_home after its first status; a failure to switch tracking off is
\* not looked at.
ParkViaHome ==
    /\ AppAt("park")
    /\ IF res["app"] = "parked" THEN AppEnds("ok")
       ELSE AppGoes(IF dec.athome THEN <<F("parking")>>
                    ELSE (IF res["app"] = "tracking" THEN Disabling ELSE <<>>)
                         \o <<F("state"), F("return")>>)
    /\ Decides

\* park(): ":hP#", whose acknowledgement decides nothing but the authorization
Park ==
    LET next == <<F("state"), F("settle")>>
        goes == IF ctl.parked THEN ctl ELSE Moving(ctl, "park")
    IN /\ AppAt("parking")
       /\ \/ Bus("app") /\ ctl' = goes /\ req' = FALSE /\ athm' = FALSE
             /\ AppGoes(next) /\ UNCHANGED <<held, budget>>
          \/ Bus("app") /\ Fault /\ AppGoes(next) /\ UNCHANGED <<ctl, req, athm, held>>
          \/ Bus("app") /\ Lose("app", next) /\ ctl' \in {ctl, goes}
             /\ UNCHANGED <<req, athm, op, ended>>
          \/ Busy("app") /\ AppGoes(next) /\ UNCHANGED <<ctl, req, athm, held, budget>>
       /\ UNCHANGED <<dec, sup, res, hist>>

Parked ==
    /\ AppAt("settle") /\ dec.parked
    /\ AppEnds("ok")
    /\ Decides

------------------------------------------------------------------------------
(* goto and tracking.                                                      *)

\* _counterweight_safety_state: HOME, also the one remembered, is no place to be
\* past the hard limit.
PastLimit == ctl.past /\ ~dec.athome /\ ~athm /\ ~dec.parked

\* motion_safety_preflight for normal motion
Refused == res["app"] \in {"unknown", "parked", "slewing"} \/ dec.parked \/ PastLimit

\* What the position and the bounds of the target say is left open.
Proceed(l, next) ==
    /\ AppAt(l)
    /\ AppEnds("raised") \/ (~Refused /\ AppGoes(next))
    /\ Decides

\* ":MS#" is sent as a command whose reply ends with "#", which this one does not:
\* the bus is held until the read times out.
Slew ==
    /\ AppAt("slew") /\ Bus("app")
    /\ held' = "app"
    /\ Goes("app", <<F("wait"), F("slewed")>>)
    /\ \/ ctl' = Moving(ctl, "goto") /\ Says("app", "0") /\ UNCHANGED budget
       \/ Fault /\ ctl' \in {ctl, Moving(ctl, "goto")} /\ Says("app", "lost")
    /\ athm' = FALSE
    /\ UNCHANGED <<dec, req, sup, op, ended, hist>>

Slewed ==
    /\ AppAt("slewed")
    /\ AppEnds(IF res["app"] = "0" THEN "ok" ELSE "raised")
    /\ Decides

\* ":Te#", and only after its reply the authorization
Enable ==
    LET on == [ctl EXCEPT !.tracking = TRUE]
        next == <<F("enabled")>>
    IN /\ AppAt("enable")
       /\ \/ Bus("app") /\ ctl' = on /\ Says("app", "1")
             /\ AppGoes(next) /\ UNCHANGED <<held, budget>>
          \/ Bus("app") /\ Lose("app", next) /\ ctl' \in {ctl, on} /\ Says("app", "lost")
             /\ UNCHANGED <<athm, op, ended>>
          \/ Busy("app") /\ AppEnds("raised") /\ UNCHANGED <<ctl, held, res, budget>>
       /\ UNCHANGED <<athm, dec, req, sup, hist>>

Enabled ==
    /\ AppAt("enabled")
    /\ req' = (req \/ res["app"] = "1")
    /\ AppEnds(IF res["app"] = "1" THEN "ok" ELSE "no")
    /\ UNCHANGED <<athm, ctl, dec, sup, held, res, budget, hist>>

\* disable_tracking is back in the operation.
Untracked ==
    /\ AppAt("untracked")
    /\ AppEnds(IF res["app"] = "ok" THEN "ok" ELSE "no")
    /\ Decides

\* tracking_guard_tick: tracking stops at the hard limit and when the status is
\* unknown; the altitude and the position may be other reasons.
GuardTick ==
    LET tracking == dec.tracking \/ res["app"] = "tracking"
    IN /\ AppAt("tick")
       /\ \/ tracking /\ AppGoes(Disabling \o <<F("untracked")>>)
          \/ ~(tracking /\ (PastLimit \/ res["app"] = "unknown")) /\ AppEnds("ok")
       /\ Decides

------------------------------------------------------------------------------
(* Axis motions.                                                           *)

Jogged(c) == [c EXCEPT !.jog = TRUE, !.athome = FALSE]

\* _axis_motion: a guide or centering motion ("axis") is refused at HOME, a manual
\* one ("jog") while tracking.
StartAxis ==
    /\ AppAt("axis") \/ AppAt("jog")
    /\ \/ AppEnds("raised")
       \/ /\ ~Refused /\ ~(IF AppAt("axis") THEN dec.athome \/ athm ELSE dec.tracking)
          /\ AppGoes(<<F("move")>>)
    /\ Decides

\* The rate and ":Md#"
Move ==
    /\ AppAt("move")
    /\ \/ Bus("app") /\ ctl' = Jogged(ctl) /\ AppGoes(<<F("moving")>>)
       \/ Busy("app") /\ AppEnds("raised") /\ UNCHANGED ctl
    /\ UNCHANGED <<athm, dec, req, sup, held, res, budget, hist>>

\* The live preflight every 0.25 s and the hard limit,
LivePreflight ==
    /\ AppAt("moving")
    /\ AppGoes(IF PastLimit THEN <<[at |-> "release", n |-> 1]>>
               ELSE <<F("state"), F("moving")>>)
    /\ Decides

\* Mutant: a motion whose time is over is not stopped.
MotionOverUnstopped ==
    /\ AppAt("moving")
    /\ AppGoes(<<F("state"), F("moved")>>)
    /\ Decides

\* the end of the time or a cancellation
MotionOver ==
    /\ AppAt("moving")
    /\ AppGoes(<<F("release")>>)
    /\ Decides

\* ":Qd#", whose failure is swallowed
Release ==
    LET limit == Attempts("app") = 1
    IN /\ AppAt("release")
       /\ \/ Bus("app") /\ ctl' = [ctl EXCEPT !.jog = FALSE]
             /\ hist' = [hist EXCEPT !.refused = FALSE]
          \/ Busy("app") /\ UNCHANGED ctl /\ hist' = [hist EXCEPT !.refused = ctl.jog]
       /\ AppGoes(IF limit THEN <<F("limit")>> ELSE <<F("state"), F("moved")>>)
       /\ UNCHANGED <<athm, dec, req, sup, held, res, budget>>

\* At the hard limit ":Td#", if the bus is free, and ":Q#" past the lock
AtLimit ==
    /\ AppAt("limit")
    /\ \/ Bus("app") /\ ctl' = Halted([ctl EXCEPT !.tracking = FALSE]) /\ UNCHANGED budget
       \/ Bus("app") /\ Fault /\ ctl' = Halted(ctl)
       \/ Busy("app") /\ ctl' = Halted(ctl) /\ UNCHANGED budget
    /\ hist' = [hist EXCEPT !.refused = FALSE]
    /\ AppEnds("raised")
    /\ UNCHANGED <<athm, dec, req, sup, held, res>>

Moved ==
    /\ AppAt("moved") /\ AppEnds("ok")
    /\ Decides

\* recovery_pulse and mechanical_manual_move after their status
StartRecovery(o, next) ==
    /\ AppAt(o)
    /\ \/ res["app"] = "parked" /\ AppEnds("raised")
       \/ res["app"] = "tracking" /\ AppGoes(Disabling \o <<[at |-> next, n |-> 1]>>)
       \/ res["app"] \notin {"parked", "tracking"} /\ AppGoes(<<F(next)>>)
    /\ Decides

\* The one call that was made to switch tracking off failed.
NotQuiet == Attempts("app") = 1 /\ res["app"] # "ok"

\* A pulse, which ends by itself
Pulse ==
    /\ AppAt("pulsing")
    /\ \/ ~NotQuiet /\ Bus("app") /\ ctl' = [ctl EXCEPT !.athome = FALSE] /\ AppEnds("ok")
       \/ (NotQuiet \/ Busy("app")) /\ UNCHANGED ctl /\ AppEnds("raised")
    /\ UNCHANGED <<athm, dec, req, sup, held, res, budget, hist>>

\* ":Md#" of mechanical_manual_move; when the bus is busy stop() follows at once.
ManualMove ==
    /\ AppAt("manually")
    /\ \/ ~NotQuiet /\ Bus("app") /\ ctl' = Jogged(ctl) /\ AppGoes(<<F("unhand")>>)
          /\ athm' = FALSE /\ UNCHANGED <<req, hist>>
       \/ NotQuiet /\ AppEnds("raised") /\ UNCHANGED <<ctl, req, athm, hist>>
       \/ ~NotQuiet /\ Busy("app") /\ ctl' = Halted(ctl) /\ req' = FALSE
          /\ athm' = FALSE /\ hist' = [hist EXCEPT !.refused = FALSE] /\ AppEnds("raised")
    /\ UNCHANGED <<dec, sup, held, res, budget>>

\* ":Qd#" if the bus is free, then stop()
ManualStop ==
    /\ AppAt("unhand")
    /\ ctl' = Halted(ctl) /\ req' = FALSE
    /\ hist' = [hist EXCEPT !.refused = FALSE]
    /\ AppEnds("ok")
    /\ UNCHANGED <<athm, dec, sup, held, res, budget>>

------------------------------------------------------------------------------
(* The controller, external.                                               *)

Controller(c) ==
    /\ ctl' = c
    /\ UNCHANGED <<athm, dec, req, sup, held, stack, res, op, ended, budget, hist>>

\* A slew ends where it was going; after a goto OnStep tracks.
Arrives ==
    \/ ctl.slew = "home" /\ Controller([ctl EXCEPT !.slew = "none", !.athome = TRUE])
    \/ ctl.slew = "park" /\ Controller([ctl EXCEPT !.slew = "none", !.parked = TRUE, !.tracking = FALSE])
    \/ ctl.slew = "goto" /\ Controller([ctl EXCEPT !.slew = "none", !.tracking = TRUE, !.past = FALSE])

\* The sky carries a tracking mount past the hard limit.  That takes hours: the
\* exchanges of one call are over by then, an axis motion may go on.
SkyTurns ==
    /\ ctl.tracking /\ ~ctl.past /\ ctl.slew = "none"
    /\ op = "none" \/ At("app", "moving")
    /\ Controller([ctl EXCEPT !.past = TRUE, !.athome = FALSE])

------------------------------------------------------------------------------
Init ==
    /\ \E parked \in BOOLEAN :
        ctl = [parked |-> parked, athome |-> ~parked, tracking |-> FALSE,
               slew |-> "none", jog |-> FALSE, past |-> FALSE]
    /\ dec = Status(ctl)
    /\ req = FALSE /\ athm = FALSE /\ sup = FALSE
    /\ held = Nobody
    /\ stack = [t \in Threads |-> <<>>]
    /\ res = [t \in Threads |-> "none"]
    /\ op = "none"
    /\ ended = [op |-> "none", r |-> "none"]
    /\ budget = [ops |-> 0, faults |-> 0, stops |-> 0]
    /\ hist = [lost |-> FALSE, refused |-> FALSE, reset |-> {}]

\* A step of a thread towards its end; the loops are apart, for fairness.
Calls(t) ==
    GetState(t) \/ Guard(t) \/ Guarded(t) \/ Quit(t) \/ Disable(t) \/ TrackingGone(t) \/ GivesUp(t)

AppStep ==
    \/ Unpark \/ Unparked \/ ReturnHome \/ Quieted \/ Homing \/ AtHome
    \/ ParkViaHome \/ Park \/ Parked
    \/ Proceed("goto", <<F("slew")>>) \/ Slew \/ Slewed
    \/ Proceed("track", <<F("enable")>>) \/ Enable \/ Enabled \/ Untracked \/ GuardTick
    \/ StartAxis \/ Move \/ Release \/ AtLimit \/ Moved
    \/ StartRecovery("pulse", "pulsing") \/ Pulse
    \/ StartRecovery("manual", "manually") \/ ManualMove \/ ManualStop

TimeOver == MotionOver \/ WaitOver("await", dec.athome) \/ WaitOver("settle", dec.parked)

Next ==
    \/ \E t \in Threads : Calls(t) \/ PollAgain(t) \/ AttemptOver(t)
    \/ AppStep \/ TimeOver \/ LivePreflight
    \/ WaitsOn("await", dec.athome) \/ WaitsOn("settle", dec.parked)
    \/ Begin \/ Poll \/ Stop \/ Arrives \/ SkyTurns

Spec == Init /\ [][Next]_vars

\* Threads run, and deadlines come although the polls go on.  The controller owes
\* nothing.
Fairness ==
    /\ WF_vars(Calls("app") \/ AppStep) /\ WF_vars(Calls("ui") \/ Poll)
    /\ \A t \in Threads : SF_vars(AttemptOver(t))
    /\ SF_vars(TimeOver)

FairSpec == Spec /\ Fairness

------------------------------------------------------------------------------
(* Properties.                                                             *)

Labels == {"state", "guard", "guarded", "quit", "disable", "judge", "wait", "unpark", "unparked",
           "started", "return", "quieted", "homing", "await", "park", "parking", "settle",
           "goto", "slew", "slewed", "track", "enable", "enabled", "untracked", "tick",
           "axis", "jog", "move", "moving", "release", "limit", "moved", "pulse",
           "pulsing", "manual", "manually", "unhand"}
Results == {"none", "ok", "failed", "unknown", "parked", "slewing", "tracking",
            "unparked", "0", "1", "lost"}

\* Every variable has its type.
TypeOK ==
    /\ ctl \in [parked : BOOLEAN, athome : BOOLEAN, tracking : BOOLEAN,
                slew : {"none", "home", "park", "goto"}, jog : BOOLEAN, past : BOOLEAN]
    /\ dec \in Flags
    /\ {req, athm, sup} \subseteq BOOLEAN
    /\ held \in Threads \cup {Nobody}
    /\ stack \in [Threads -> Seq([at : Labels, n : 0..2])]
    /\ res \in [Threads -> Results]
    /\ op \in Ops \cup {"none"}
    /\ ended \in [op : Ops \cup {"none"}, r : {"none", "ok", "no", "raised"}]
    /\ budget \in [ops : 0..MaxOps, faults : 0..MaxFaults, stops : 0..MaxStops]
    /\ hist \in [lost : BOOLEAN, refused : BOOLEAN, reset : SUBSET Threads]

\* The guard against unrequested tracking polls the status, which must not call
\* the guard again: that happens only where another thread has reset the shared
\* flag on its way out of its own guard (and then, as long as commands fail, to
\* any depth).
GuardNestsByReset == \A t \in Threads : Nested(t) => t \in hist.reset

\* Between operations no axis is left moving, unless a busy bus refused the stop
\* that _axis_motion sends, and nothing stopped it since.
AxisStops == (op = "none" /\ ctl.jog) => hist.refused

\* A route or disable_tracking that reports success, with no status reply lost
\* during the call, has brought the mount there.
Ends(o, r) == ended'.op = o /\ ended'.r = r /\ op = o
SuccessIsReal ==
    [][/\ Ends("home", "ok") => ctl.athome \/ hist.lost
       /\ Ends("park", "ok") => ctl.parked \/ hist.lost
       /\ Ends("untrack", "ok") => ~ctl.tracking \/ hist.lost]_vars

\* The controller is told to park only at HOME, wherever every status of the call
\* was answered.
Parking == ctl'.slew = "park" /\ ctl.slew # "park"
ParkFromSeenHome == [][Parking => ctl.athome \/ hist.lost]_vars

\* Tracking nobody asked for is switched off, or asked for after all: the poller
\* sees to it, whatever the application does with the bus.
UnrequestedTrackingEnds == (ctl.tracking /\ ~req) ~> (~ctl.tracking \/ req)

\* Every operation ends: no exchange, poll or nested call waits for ever.
OperationsEnd == (op # "none") ~> (op = "none")

==============================================================================
