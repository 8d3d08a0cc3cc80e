----------------------------- MODULE SkyTracking -----------------------------
(***************************************************************************)
(* A mount under the sky: enable_tracking (indi_tracking.py), guide pulses *)
(* (indi_guiding.py), the meridian policy and supervisor                   *)
(* (meridian_policy.py, indi_meridian.py) and emergency stops              *)
(* (indi_stop.py), each in a thread of its own, over one INDI connection   *)
(* to the device (onstep_mock).                                            *)
(*                                                                         *)
(* The hour angle is an integer, in the unit the policy is given in; all   *)
(* that matters of it is the side of the policy's boundaries it is on.     *)
(* Revisions tell a waiter whether a vector is newer than its baseline, so *)
(* they are flags here.  Deadlines are nondeterministic.  A look at the    *)
(* cache reads the status and the meridian state in one step.              *)
(***************************************************************************)
EXTENDS VirtualMount, Integers, Sequences, FiniteSets

CONSTANTS
    EastGuard, WestGuard,  \* firmware limits past the meridian
    FlipLead, StopMargin,  \* derive_meridian_policy
    Allowance, Reserve,
    MinPulse, MaxPulse,    \* MIN_GUIDE_PULSE_MS and MAX_GUIDE_PULSE_MS
    ChunkMs,               \* chunk_ms of the guide controller
    Durations,             \* the pulses that are asked for
    EarlyAck,              \* the driver says Ok when it takes a pulse, not at its end
    MaxEvents,             \* bound: how many of a call, a stop and a fault there are
    MaxInFlight            \* bound: vectors under way when the device adds some

\* derive_meridian_policy: the stricter guard, and what it accepts
Guard == IF EastGuard <= WestGuard THEN EastGuard ELSE WestGuard
FlipAt == Guard - FlipLead
StopAt == Guard - StopMargin
PolicyAccepted ==
    /\ Guard > 0 /\ FlipLead > StopMargin /\ StopMargin > 0
    /\ Allowance > 0 /\ Reserve >= 0
    /\ FlipAt > 0
    /\ StopAt - FlipAt >= Allowance + Reserve

\* The last chunk but one is shortened for the last one, and the constructor does
\* not keep that shortened chunk above the minimum.
ASSUME SkyAssumption ==
    /\ {EastGuard, WestGuard, FlipLead, StopMargin, Allowance, Reserve} \subseteq Nat
    /\ PolicyAccepted
    /\ MinPulse \in Nat \ {0} /\ MaxPulse \in Nat
    /\ ChunkMs \in 2 * MinPulse - 1 .. MaxPulse
    /\ Durations \subseteq MinPulse .. MaxPulse
    /\ EarlyAck \in BOOLEAN
    /\ MaxEvents \in Nat /\ MaxInFlight \in Nat \ {0}

\* "stop" runs the stops of the supervisor and of the application, one at a time.
Callers == {"track", "guide"}
Threads == Callers \cup {"stop"}

\* pulse: the chunks of a duration
ChunksOf[left \in 0 .. MaxPulse] ==
    IF left <= ChunkMs THEN <<left>>
    ELSE LET chunk == IF left - ChunkMs < MinPulse THEN left - MinPulse ELSE ChunkMs
         IN  <<chunk>> \o ChunksOf[left - chunk]

VARIABLES
    mount, ha, pier,     \* the device: the mount, its hour angle and pier side
    trackState,          \* state of TELESCOPE_TRACK_STATE
    pulsing,             \* a guide vector is Busy (_guide_props)
    toDev, toCli, link,  \* the connection
    status, track,       \* the OnStep Status and TELESCOPE_TRACK_STATE recorded last
    guideState,          \* the state of the guide vector recorded last
    fresh, freshVector,  \* a status, a vector newer than the thread's baseline
    auth,                \* session baseline and HOME authority
    policy,              \* tracking_authority_policy
    throttled,           \* the supervisor stopped within the last 3 s
    pc, polls,           \* per thread: place, polls counted
    chunks, completed,   \* pulse: the chunks to come, those completed
    result,              \* per thread: what its last call returned
    events,              \* a call, a stop and a fault, as far as they came
    hist                 \* history: see below

device == <<mount, ha, pier, trackState, pulsing>>
wire == <<toDev, toCli, link>>
cache == <<status, track, guideState, fresh, freshVector, auth>>
locals == <<pc, polls, chunks, completed, result>>
vars == <<device, wire, cache, policy, throttled, locals, events, hist>>

\* hist.disturbed  the pulse began with something under way on the connection, or met
\*                 a stop command or a fault
\* hist.asked      the duration the running pulse was called with
\* hist.taken      what the device accepted of it
\* hist.going      the chunk that the device guides for it
\* hist.ran        what the device guided of it, in chunks to their end
\* hist.short      a chunk out of range was sent

\* A command: TRACK_ON, TRACK_OFF, ABORT, or a pulse of so many ms.
Cmd(c) == [c |-> c, ms |-> 0]
Commands == [c : {"ON", "OFF", "ABORT", "GUIDE"}, ms : 0 .. MaxPulse]

\* What one vector says: the status, the tracking switch, a guide number.
StatusNow(m, h) == [k |-> "status", gu |-> RawGu(m), alert |-> Faulted(m), ha |-> h]
TrackNow(m, s) == [k |-> "track", on |-> m.tracking, state |-> s]
GuideNow(s) == [k |-> "guide", state |-> s]

------------------------------------------------------------------------------
(* classify_meridian and the preflights, on the cached status.             *)

S == DecodeGu(status.gu)
Authority == auth /\ link = "open"
AtLimit == S.at_limit

Phase ==
    IF S.parked \/ S.at_home THEN "mechanical_terminal"
    ELSE IF AtLimit /\ link = "open" THEN "firmware_limit"
    ELSE IF ~Authority THEN "unknown"
    ELSE IF pier = "west" THEN "post_flip"
    ELSE IF status.ha < 0 THEN "pre_meridian_allowed"
    ELSE IF status.ha < FlipAt THEN "post_meridian_allowed"
    ELSE IF status.ha < StopAt THEN "flip_required"
    ELSE "hard_stop"

StopRequired == Phase \in {"firmware_limit", "hard_stop"} /\ (S.tracking \/ S.slewing)

Allowed == {"pre_meridian_allowed", "post_meridian_allowed", "post_flip"}
Strict == policy = "strict"
HardBlocked == link # "open" \/ status.alert \/ AtLimit \/ S.parked \/ S.slewing

TrackingRefused ==
    HardBlocked \/ StopRequired
        \/ (Strict /\ (~Authority \/ S.at_home \/ Phase \notin Allowed))

GuidingRefused ==
    HardBlocked \/ StopRequired \/ ~S.tracking \/ S.at_home
        \/ Phase \in {"hard_stop", "firmware_limit"}
        \/ (Strict /\ (~Authority \/ Phase \notin Allowed \cup {"flip_required"}))

------------------------------------------------------------------------------
(* The device.                                                             *)

Publish(vs) == toCli' = IF link = "open" THEN toCli \o vs ELSE toCli
Quiet == toDev = <<>> /\ toCli = <<>>
Room == Len(toCli) < MaxInFlight
Event(k) == k \notin events /\ Cardinality(events) < MaxEvents /\ events' = events \cup {k}
ClientKeeps == UNCHANGED <<cache, policy, throttled, locals>>

\* set_tracking by TELESCOPE_TRACK_STATE
DeviceSwitches ==
    /\ Room /\ toDev # <<>> /\ Head(toDev).c \in {"ON", "OFF"}
    /\ LET on == Head(toDev).c = "ON"
           refused == SetTrackingRefused(mount, on)
       IN \/ /\ mount' = SetTracking(mount, on)
             /\ trackState' = IF refused THEN "Alert" ELSE "Ok"
             /\ UNCHANGED events
          \/ Event("fault") /\ trackState' = "Alert" /\ UNCHANGED mount
    /\ Publish(<<TrackNow(mount', trackState'), StatusNow(mount', ha)>>)
    /\ toDev' = Tail(toDev)
    /\ UNCHANGED <<ha, pier, pulsing, link, hist>>
    /\ ClientKeeps

DeviceAborts ==
    /\ Room /\ toDev # <<>> /\ Head(toDev).c = "ABORT"
    /\ mount' = Abort(mount)
    /\ hist' = [hist EXCEPT !.going = 0]
    /\ Publish(<<StatusNow(mount', ha)>>)
    /\ toDev' = Tail(toDev)
    /\ UNCHANGED <<ha, pier, trackState, pulsing, link, events>>
    /\ ClientKeeps

\* A pulse, which replaces one that runs; the driver may acknowledge it at once,
\* before it publishes a status.
DeviceGuides ==
    /\ Room /\ toDev # <<>> /\ Head(toDev).c = "GUIDE"
    /\ \/ /\ ~GuideRefused(mount)
          /\ mount' = Guide(mount)
          /\ pulsing' = ~EarlyAck
          /\ hist' = IF hist.asked = 0 THEN hist
                     ELSE [hist EXCEPT !.taken = @ + Head(toDev).ms, !.going = Head(toDev).ms]
          /\ Publish(IF EarlyAck THEN <<GuideNow("Ok")>>
                     ELSE <<GuideNow("Busy"), StatusNow(mount', ha)>>)
          /\ UNCHANGED events
       \/ /\ (GuideRefused(mount) /\ UNCHANGED events) \/ Event("fault")
          /\ Publish(<<GuideNow("Alert"), StatusNow(mount, ha)>>)
          /\ UNCHANGED <<mount, pulsing, hist>>
    /\ toDev' = Tail(toDev)
    /\ UNCHANGED <<ha, pier, trackState, link>>
    /\ ClientKeeps

\* tick and _tick_peripherals: the pulse is over, or was aborted.
PulseEnds ==
    /\ mount.guiding \/ pulsing
    /\ Room
    /\ mount' = GuideEnded(mount)
    /\ pulsing' = FALSE
    /\ hist' = [hist EXCEPT !.ran = @ + hist.going, !.going = 0]
    /\ Publish(IF pulsing THEN <<GuideNow("Ok")>> ELSE <<>>)
    /\ UNCHANGED <<ha, pier, trackState, toDev, link, events>>
    /\ ClientKeeps

\* The periodic _publish_mount
DevicePublishes ==
    /\ Room /\ link = "open"
    /\ Publish(<<StatusNow(mount, ha)>>)
    /\ UNCHANGED <<device, toDev, link, events, hist>>
    /\ ClientKeeps

\* A tracking mount goes west; beyond the hard stop nothing changes any more.
SkyTurns ==
    /\ mount.tracking /\ ha < StopAt
    /\ ha' = ha + 1
    /\ UNCHANGED <<mount, pier, trackState, pulsing, wire, events, hist>>
    /\ ClientKeeps

\* A limit switch: the controller aborts and stops tracking.
LimitReached ==
    /\ Event("fault")
    /\ mount' = SetFault(mount, "LIMIT")
    /\ Publish(<<StatusNow(mount', ha)>>
               \o IF mount.tracking THEN <<TrackNow(mount', trackState)>> ELSE <<>>)
    /\ hist' = [hist EXCEPT !.disturbed = TRUE, !.going = 0]
    /\ UNCHANGED <<ha, pier, trackState, pulsing, toDev, link>>
    /\ ClientKeeps

\* Another client edits time or site: the session baseline is lost.
BaselineLost ==
    /\ auth /\ Event("fault")
    /\ auth' = FALSE
    /\ UNCHANGED <<device, wire, status, track, guideState, fresh, freshVector,
                   policy, throttled, locals, hist>>

ConnectionDrops ==
    /\ link = "open" /\ Event("fault")
    /\ link' = "failed" /\ toCli' = <<>> /\ toDev' \in {toDev, <<>>}
    /\ UNCHANGED <<device, hist>>
    /\ ClientKeeps

\* The places whose baseline is taken.
Waits == {"switch", "answer", "confirm", "issue", "pulse", "over", "spoll"}

\* _read_loop and _record
ReaderRecords ==
    /\ toCli # <<>>
    /\ toCli' = Tail(toCli)
    /\ LET v == Head(toCli)
       IN CASE v.k = "status" ->
                 /\ status' = v
                 /\ fresh' = [t \in Threads |-> pc[t] \in Waits]
                 /\ UNCHANGED <<track, guideState, freshVector>>
            [] v.k = "track" ->
                 /\ track' = v
                 /\ freshVector' = [freshVector EXCEPT !.track = pc["track"] = "answer"]
                 /\ UNCHANGED <<status, guideState, fresh>>
            [] v.k = "guide" ->
                 /\ guideState' = v.state
                 /\ freshVector' = [freshVector EXCEPT !.guide = pc["guide"] = "pulse"]
                 /\ UNCHANGED <<status, track, fresh>>
    /\ UNCHANGED <<device, toDev, link, auth, policy, throttled, locals, events, hist>>

------------------------------------------------------------------------------
(* emergency_stop and stop_mount_via_indi, for every thread.               *)

ClientActs == UNCHANGED <<device, toCli, link, status, track, guideState, auth, policy>>

Jump(t, l) == pc' = [pc EXCEPT ![t] = l]
Take(t) == fresh' = [fresh EXCEPT ![t] = FALSE]

\* The call of t is over.  A call that stops the mount has failed; what the stop of
\* the supervisor or the application returns is left out.
Return(t, r) ==
    /\ Jump(t, "idle")
    /\ result' = [c \in Callers |-> IF c = t THEN r ELSE result[c]]
    /\ polls' = [polls EXCEPT ![t] = 0]
    /\ Take(t)

\* A command leaves, if there is a connection.
Send(c) == toDev' = IF link = "open" THEN Append(toDev, c) ELSE toDev

\* Without a connection emergency_stop raises.
StopBegins(t) ==
    /\ pc[t] = "stop"
    /\ Send(Cmd("ABORT"))
    /\ IF link = "open"
       THEN /\ Jump(t, "stopoff")
            /\ hist' = [hist EXCEPT !.disturbed = TRUE]
            /\ UNCHANGED <<polls, result, fresh>>
       ELSE Return(t, "failed") /\ UNCHANGED hist
    /\ UNCHANGED <<freshVector, chunks, completed, throttled, events>>
    /\ ClientActs

\* Mutant: the mount is left tracking.
StopTrackingLater(t) ==
    /\ pc[t] = "stopoff"
    /\ Take(t) /\ Jump(t, "spoll")
    /\ hist' = [hist EXCEPT !.disturbed = TRUE]
    /\ UNCHANGED <<toDev, freshVector, polls, chunks, completed, result, throttled, events>>
    /\ ClientActs

\* The statuses that count are newer than both commands.
StopTracking(t) ==
    /\ pc[t] = "stopoff"
    /\ Send(Cmd("OFF"))
    /\ Take(t) /\ Jump(t, "spoll")
    /\ hist' = [hist EXCEPT !.disturbed = TRUE]
    /\ UNCHANGED <<freshVector, polls, chunks, completed, result, throttled, events>>
    /\ ClientActs

\* Mutant: one more status.
StopPollThrice(t) ==
    /\ pc[t] = "spoll" /\ fresh[t]
    /\ LET stopped == ~status.alert /\ ~S.tracking /\ ~S.slewing
           n == IF stopped THEN polls[t] + 1 ELSE 0
       IN IF n = 3 THEN Return(t, "failed")
          ELSE polls' = [polls EXCEPT ![t] = n] /\ Take(t) /\ UNCHANGED <<pc, result>>
    /\ UNCHANGED <<toDev, freshVector, chunks, completed, throttled, events, hist>>
    /\ ClientActs

StopPoll(t) ==
    /\ pc[t] = "spoll" /\ fresh[t]
    /\ LET stopped == ~status.alert /\ ~S.tracking /\ ~S.slewing
           n == IF stopped THEN polls[t] + 1 ELSE 0
       IN IF n = 2 THEN Return(t, "failed")
          ELSE polls' = [polls EXCEPT ![t] = n] /\ Take(t) /\ UNCHANGED <<pc, result>>
    /\ UNCHANGED <<toDev, freshVector, chunks, completed, throttled, events, hist>>
    /\ ClientActs

\* The deadline, or the connection failed.
StopUnconfirmed(t) ==
    /\ pc[t] = "spoll"
    /\ Return(t, "failed")
    /\ UNCHANGED <<toDev, freshVector, chunks, completed, throttled, events, hist>>
    /\ ClientActs

------------------------------------------------------------------------------
(* The supervisor and the application's stop.                              *)

StartsStop ==
    /\ pc["stop"] = "idle"
    /\ Jump("stop", "stop")
    /\ Take("stop")
    /\ UNCHANGED <<toDev, freshVector, polls, chunks, completed, result, hist>>
    /\ ClientActs

\* tick, when it stops the mount; other ticks change nothing.
SupervisorTick ==
    /\ StopRequired /\ ~throttled
    /\ throttled' = TRUE
    /\ StartsStop
    /\ UNCHANGED events

\* Mutant: one stop per phase.
ThrottleEndsWithPhase ==
    /\ throttled /\ toDev = <<>> /\ ~StopRequired
    /\ throttled' = FALSE
    /\ UNCHANGED <<device, wire, cache, policy, locals, events, hist>>

\* Three seconds since the last stop began, whatever became of it; by then the
\* device has executed its commands.
ThrottleEnds ==
    /\ throttled /\ toDev = <<>>
    /\ throttled' = FALSE
    /\ UNCHANGED <<device, wire, cache, policy, locals, events, hist>>

AppStops ==
    /\ Event("stop")
    /\ StartsStop
    /\ UNCHANGED throttled

------------------------------------------------------------------------------
(* enable_tracking_via_indi                                                *)

\* Only the places of the thread change.
TrackKeeps ==
    /\ UNCHANGED <<chunks, completed, throttled>>
    /\ ClientActs

Enable ==
    /\ pc["track"] = "idle" /\ link = "open"
    /\ Event("call")
    /\ \/ TrackingRefused /\ Return("track", "refused")
       \/ ~TrackingRefused /\ S.tracking /\ Return("track", "already")
       \/ /\ ~TrackingRefused /\ ~S.tracking
          /\ Jump("track", "switch") /\ Take("track")
          /\ result' = [result EXCEPT !["track"] = "none"]
          /\ UNCHANGED polls
    /\ UNCHANGED <<toDev, freshVector, hist>>
    /\ TrackKeeps

\* set_switch: a vector that says On already ends it.
Switch ==
    /\ pc["track"] = "switch"
    /\ IF link # "open" THEN Return("track", "unsent") /\ UNCHANGED toDev
       ELSE /\ IF track.on /\ track.state = "Ok"
               THEN Jump("track", "confirm") /\ UNCHANGED toDev
               ELSE Jump("track", "answer") /\ Send(Cmd("ON"))
            /\ UNCHANGED <<polls, result, fresh>>
    /\ freshVector' = [freshVector EXCEPT !.track = FALSE]
    /\ UNCHANGED <<events, hist>>
    /\ TrackKeeps

\* An answer that is neither On nor Alert is waited past.
SwitchAnswered ==
    /\ pc["track"] = "answer" /\ freshVector.track
    /\ freshVector' = [freshVector EXCEPT !.track = FALSE]
    /\ IF track.state = "Alert" THEN Return("track", "unsent")
       ELSE /\ IF track.on THEN Jump("track", "confirm") ELSE UNCHANGED pc
            /\ UNCHANGED <<polls, result, fresh>>
    /\ UNCHANGED <<toDev, events, hist>>
    /\ TrackKeeps

\* set_switch timed out: the command counts as not accepted, and nothing stops it.
SwitchDeadline ==
    /\ pc["track"] = "answer"
    /\ Return("track", "unsent")
    /\ UNCHANGED <<toDev, freshVector, events, hist>>
    /\ TrackKeeps

UnsafeNow ==
    \/ AtLimit \/ S.parked
    \/ Strict /\ (S.at_home \/ Phase \notin Allowed \/ StopRequired)

\* Mutant: an accepted command and two statuses are enough.
ConfirmTrackingUnread ==
    /\ pc["track"] = "confirm" /\ fresh["track"]
    /\ LET n == IF ~S.slewing THEN polls["track"] + 1 ELSE 0
       IN IF UnsafeNow
          THEN /\ Jump("track", "stop") /\ Take("track")
               /\ polls' = [polls EXCEPT !["track"] = 0] /\ UNCHANGED result
          ELSE IF n = 2 THEN Return("track", "confirmed")
          ELSE /\ polls' = [polls EXCEPT !["track"] = n] /\ Take("track")
               /\ UNCHANGED <<pc, result>>
    /\ UNCHANGED <<toDev, freshVector, events, hist>>
    /\ TrackKeeps

ConfirmTracking ==
    /\ pc["track"] = "confirm" /\ fresh["track"]
    /\ LET n == IF S.tracking /\ ~S.slewing THEN polls["track"] + 1 ELSE 0
       IN IF UnsafeNow
          THEN /\ Jump("track", "stop") /\ Take("track")
               /\ polls' = [polls EXCEPT !["track"] = 0] /\ UNCHANGED result
          ELSE IF n = 2 THEN Return("track", "confirmed")
          ELSE /\ polls' = [polls EXCEPT !["track"] = n] /\ Take("track")
               /\ UNCHANGED <<pc, result>>
    /\ UNCHANGED <<toDev, freshVector, events, hist>>
    /\ TrackKeeps

\* Mutant: no stop.
ConfirmDeadlineUnstopped ==
    /\ pc["track"] = "confirm"
    /\ Return("track", "failed")
    /\ UNCHANGED <<toDev, freshVector, events, hist>>
    /\ TrackKeeps

\* Mutant: looked at when no status came.
ConfirmDeadlineIfQuiet ==
    /\ pc["track"] = "confirm" /\ ~fresh["track"]
    /\ Jump("track", "stop")
    /\ polls' = [polls EXCEPT !["track"] = 0]
    /\ UNCHANGED <<toDev, fresh, freshVector, result, events, hist>>
    /\ TrackKeeps

ConfirmDeadline ==
    /\ pc["track"] = "confirm"
    /\ Jump("track", "stop")
    /\ polls' = [polls EXCEPT !["track"] = 0]
    /\ UNCHANGED <<toDev, fresh, freshVector, result, events, hist>>
    /\ TrackKeeps

------------------------------------------------------------------------------
(* pulse; another one is refused while it runs.                            *)

GuideKeeps == UNCHANGED throttled /\ ClientActs

\* pulse is over, or only has to stop.  (What a failed one says of its chunks is
\* left out.)
GuideOver ==
    /\ chunks' = <<>> /\ completed' = 0
    /\ hist' = [hist EXCEPT !.asked = 0, !.taken = 0, !.going = 0, !.ran = 0]
GuideReturns(r) == Return("guide", r) /\ GuideOver

\* An exception: emergency stop when a command was issued.
GuideFails ==
    /\ Jump("guide", "stop")
    /\ polls' = [polls EXCEPT !["guide"] = 0]
    /\ GuideOver
    /\ UNCHANGED <<result, fresh>>

Pulse(ms) ==
    /\ pc["guide"] = "idle" /\ link = "open"
    /\ Event("call")
    /\ chunks' = ChunksOf[ms] /\ completed' = 0
    /\ Jump("guide", "preflight") /\ Take("guide")
    /\ result' = [result EXCEPT !["guide"] = "none"]
    /\ hist' = [hist EXCEPT !.disturbed = ~Quiet, !.asked = ms,
                            !.taken = 0, !.going = 0, !.ran = 0,
                            !.short = @ \/ \E i \in DOMAIN chunks' : chunks'[i] < MinPulse
                                                                 \/ chunks'[i] > MaxPulse]
    /\ UNCHANGED <<toDev, freshVector, polls>>
    /\ GuideKeeps

\* The preflight of a chunk, and the one after the last.  Refused between chunks
\* the call returns, refused after the last it fails.
GuidePreflight ==
    /\ pc["guide"] = "preflight"
    /\ IF GuidingRefused
       THEN IF chunks = <<>> THEN GuideFails ELSE GuideReturns("refused")
       ELSE IF chunks = <<>> THEN GuideReturns("completed")
       ELSE /\ Jump("guide", "issue") /\ Take("guide")
            /\ UNCHANGED <<polls, result, chunks, completed, hist>>
    /\ UNCHANGED <<toDev, freshVector, events>>
    /\ GuideKeeps

\* issue_number.  Without a connection the call fails, and stops if a chunk was
\* issued before.
Issue ==
    /\ pc["guide"] = "issue"
    /\ IF link = "open"
       THEN /\ Send([c |-> "GUIDE", ms |-> Head(chunks)])
            /\ Jump("guide", "pulse")
            /\ freshVector' = [freshVector EXCEPT !.guide = FALSE]
            /\ UNCHANGED <<fresh, polls, result, chunks, completed, hist>>
       ELSE GuideReturns("failed") /\ UNCHANGED <<toDev, freshVector>>
    /\ UNCHANGED events
    /\ GuideKeeps

\* _wait_pulse_completion, then the rest of the chunk's time
PulseAnswered ==
    /\ pc["guide"] = "pulse" /\ freshVector.guide
    /\ freshVector' = [freshVector EXCEPT !.guide = FALSE]
    /\ \/ guideState = "Alert" /\ GuideFails
       \/ /\ guideState = "Ok" /\ Jump("guide", "over")
          /\ UNCHANGED <<polls, result, fresh, chunks, completed, hist>>
       \/ /\ guideState = "Busy"
          /\ UNCHANGED <<pc, polls, result, fresh, chunks, completed, hist>>
    /\ UNCHANGED <<toDev, events>>
    /\ GuideKeeps

PulseDeadline ==
    /\ pc["guide"] = "pulse"
    /\ GuideFails
    /\ UNCHANGED <<toDev, freshVector, events>>
    /\ GuideKeeps

\* _wait_onstep_guide_idle: a status newer than the preflight of the chunk
GuideIdle ==
    /\ pc["guide"] = "over"
    /\ fresh["guide"] \/ GuidingRefused
    /\ IF GuidingRefused THEN GuideFails
       ELSE /\ Take("guide")
            /\ IF S.guiding THEN UNCHANGED <<pc, chunks, completed>>
               ELSE /\ Jump("guide", "preflight")
                    /\ chunks' = Tail(chunks) /\ completed' = completed + Head(chunks)
            /\ UNCHANGED <<polls, result, hist>>
    /\ UNCHANGED <<toDev, freshVector, events>>
    /\ GuideKeeps

IdleDeadline ==
    /\ pc["guide"] = "over"
    /\ GuideFails
    /\ UNCHANGED <<toDev, freshVector, events>>
    /\ GuideKeeps

------------------------------------------------------------------------------
Init ==
    /\ mount \in {[m EXCEPT !.tracking = t] : m \in InitialMounts, t \in BOOLEAN}
    /\ mount.tracking => ~mount.parked /\ ~mount.at_home
    /\ ha \in -1 .. StopAt /\ pier \in {"east", "west"}
    /\ trackState = "Ok" /\ pulsing = FALSE
    /\ toDev = <<>> /\ toCli = <<>> /\ link = "open"
    /\ status = StatusNow(mount, ha) /\ track = TrackNow(mount, "Ok") /\ guideState = "Ok"
    /\ fresh = [t \in Threads |-> FALSE]
    /\ freshVector = [track |-> FALSE, guide |-> FALSE]
    /\ auth \in BOOLEAN
    /\ policy \in {"strict", "controller_managed"}
    /\ throttled = FALSE
    /\ pc = [t \in Threads |-> "idle"] /\ polls = [t \in Threads |-> 0]
    /\ chunks = <<>> /\ completed = 0
    /\ result = [t \in Callers |-> "none"]
    /\ events = {}
    /\ hist = [disturbed |-> FALSE, asked |-> 0, taken |-> 0, going |-> 0, ran |-> 0,
               short |-> FALSE]

Device ==
    DeviceSwitches \/ DeviceAborts \/ DeviceGuides \/ PulseEnds
StopStep(t) == StopBegins(t) \/ StopTracking(t) \/ StopPoll(t)
Step(t) ==
    \/ StopStep(t)
    \/ t = "track" /\ (Switch \/ SwitchAnswered \/ ConfirmTracking)
    \/ t = "guide" /\ (GuidePreflight \/ Issue \/ PulseAnswered \/ GuideIdle)
Deadline(t) ==
    \/ StopUnconfirmed(t)
    \/ t = "track" /\ (SwitchDeadline \/ ConfirmDeadline)
    \/ t = "guide" /\ (PulseDeadline \/ IdleDeadline)

Next ==
    \/ Device \/ DevicePublishes \/ SkyTurns \/ ReaderRecords
    \/ LimitReached \/ BaselineLost \/ ConnectionDrops
    \/ \E t \in Threads : Step(t) \/ Deadline(t)
    \/ SupervisorTick \/ ThrottleEnds \/ AppStops \/ Enable
    \/ \E ms \in Durations : Pulse(ms)

Spec == Init /\ [][Next]_vars

\* The device serves its queue and publishes, the reader runs, threads go on,
\* deadlines and the next tick of the supervisor come.  Strong fairness where the
\* bounded wire is full for a while, or a status is old for a while.
Fairness ==
    /\ SF_vars(Device) /\ WF_vars(DevicePublishes) /\ WF_vars(ReaderRecords)
    /\ \A t \in Threads : WF_vars(Step(t)) /\ WF_vars(Deadline(t))
    /\ SF_vars(SupervisorTick) /\ SF_vars(ThrottleEnds)

FairSpec == Spec /\ Fairness

------------------------------------------------------------------------------
(* Properties.                                                             *)

Statuses == [k : {"status"}, gu : SUBSET GuFlags, alert : BOOLEAN, ha : -1 .. StopAt]
TrackVectors == [k : {"track"}, on : BOOLEAN, state : {"Ok", "Alert"}]
GuideStates == {"Ok", "Busy", "Alert"}
GuideVectors == [k : {"guide"}, state : GuideStates]

\* Every variable has its type.
TypeOK ==
    /\ mount \in Mounts /\ ha \in -1 .. StopAt /\ pier \in {"east", "west"}
    /\ trackState \in {"Ok", "Alert"} /\ pulsing \in BOOLEAN
    /\ \A i \in DOMAIN toDev : toDev[i] \in Commands
    /\ \A i \in DOMAIN toCli :
        CASE toCli[i].k = "status" -> toCli[i] \in Statuses
          [] toCli[i].k = "track" -> toCli[i] \in TrackVectors
          [] toCli[i].k = "guide" -> toCli[i] \in GuideVectors
    /\ link \in {"open", "failed"}
    /\ status \in Statuses /\ track \in TrackVectors /\ guideState \in GuideStates
    /\ fresh \in [Threads -> BOOLEAN] /\ freshVector \in [track : BOOLEAN, guide : BOOLEAN]
    /\ {auth, throttled} \subseteq BOOLEAN
    /\ policy \in {"strict", "controller_managed"}
    /\ pc \in [Threads -> {"idle", "stop", "stopoff", "spoll", "switch", "answer",
                           "confirm", "preflight", "issue", "pulse", "over"}]
    /\ polls \in [Threads -> 0 .. 1]
    /\ completed \in 0 .. MaxPulse /\ \A i \in DOMAIN chunks : chunks[i] \in 0 .. MaxPulse
    /\ result \in [Callers -> {"none", "refused", "already", "confirmed",
                               "failed", "unsent", "completed"}]
    /\ events \subseteq {"call", "stop", "fault"}
    /\ hist \in [disturbed : BOOLEAN, asked : 0 .. MaxPulse, taken : Nat,
                 going : 0 .. MaxPulse, ran : Nat, short : BOOLEAN]

Returns(t, r) == pc[t] # "idle" /\ pc'[t] = "idle" /\ result'[t] = r

\* enable_tracking that failed after its command was accepted has tracking off, or
\* the command for it is behind everything sent before, or the device refused it.
FailureStops ==
    [][Returns("track", "failed") /\ link = "open" =>
        ~mount.tracking \/ trackState = "Alert" \/ \E i \in DOMAIN toDev : toDev[i].c = "OFF"]_vars

\* enable_tracking that reports tracking on has it on, or a status on its way says that
\* it went off again.
SaysOn == result["track"] = "none" /\ result'["track"] \in {"already", "confirmed"}
OffReported ==
    \E i \in DOMAIN toCli : toCli[i].k = "status" /\ ~DecodeGu(toCli[i].gu).tracking
TrackingIsReal == [][SaysOn /\ link = "open" => mount.tracking \/ OffReported]_vars

\* A stop that cuts a pulse short shows: its TRACK_OFF is still to come, was
\* executed, or was refused.
StopShows ==
    \/ pc["stop"] = "stopoff" \/ \E i \in DOMAIN toDev : toDev[i].c = "OFF"
    \/ ~mount.tracking \/ trackState = "Alert"

\* The device guided so much to the end, or a stop that cut it short is not over.
Guided(ms) == link = "open" /\ ~EarlyAck => hist.ran = ms \/ StopShows

\* A pulse that completed was accepted by the device for the duration asked for, in
\* chunks within the range, and guided to the end, or a stop that cut it short shows;
\* its mount tracks, or a status on its way says that it does not.  One refused
\* between its chunks reports the chunks that were accepted, and guided to the end.
PulseIsReal ==
    [][/\ Returns("guide", "completed") =>
            /\ hist.taken = hist.asked /\ completed = hist.asked /\ ~hist.short
            /\ Guided(hist.asked)
            /\ mount.tracking \/ (hist.disturbed /\ OffReported)
       /\ Returns("guide", "refused") => hist.taken = completed /\ Guided(completed)]_vars

\* A mount that tracks beyond the hard stop is stopped, while the connection and
\* the authority last.
HardStopEnds ==
    (mount.tracking /\ ha >= StopAt /\ pier = "east") ~>
        (~mount.tracking \/ link # "open" \/ ~auth)

\* Every call returns.
CallsReturn == \A t \in Threads : pc[t] # "idle" ~> pc[t] = "idle"

==============================================================================
