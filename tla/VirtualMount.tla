---------------------------- MODULE VirtualMount ----------------------------
(***************************************************************************)
(* The virtual OnStepX mount (onstep_mock/mount.py) as operators on a      *)
(* mount record, and the compact :GU# status it reports and the adapter    *)
(* decodes (onstep_adapter/indi_gu.py).                                    *)
(*                                                                         *)
(* The pose is abstracted to the three facts the adapter acts on: parked,  *)
(* at_home and on_goal (the pose is the target of the last RA/DEC goto).   *)
(* A :GU# answer is the set of its flag letters; the pulse-guide-rate      *)
(* digits and the mount-type letter, which nothing decodes, are left out.  *)
(***************************************************************************)

CONSTANTS
    AutoTrackOnUnpark,      \* SimConfig.auto_track_on_unpark
    AutoTrackOnGotoArrival  \* SimConfig.auto_track_on_goto_arrival

ASSUME AutoTrackAssumption ==
    /\ AutoTrackOnUnpark \in BOOLEAN
    /\ AutoTrackOnGotoArrival \in BOOLEAN

MotionStates == {"IDLE", "SLEWING", "STOPPING", "MANUAL"}
TargetKinds == {"none", "radec", "home", "park"}
Faults == {"none", "LIMIT", "ERROR"}
ManualAxes == {"ns", "we"}

\* manual is the set of axes whose manual direction is not zero.
Mounts ==
    [parked : BOOLEAN, at_home : BOOLEAN, tracking : BOOLEAN, on_goal : BOOLEAN,
     motion : MotionStates, target_kind : TargetKinds,
     manual : SUBSET ManualAxes, guiding : BOOLEAN, fault : Faults]

\* VirtualMount.create: a mount at rest, parked or not, possibly at HOME.
InitialMounts ==
    {m \in Mounts :
        /\ ~m.tracking /\ m.motion = "IDLE" /\ m.target_kind = "none"
        /\ m.manual = {} /\ ~m.guiding /\ m.fault = "none" /\ ~m.on_goal
        /\ ~(m.parked /\ m.at_home)}

Faulted(m) == m.fault # "none"

Slewing(m) == m.motion # "IDLE"

-----------------------------------------------------------------------------
(* Commands.  A refused command leaves the mount as it is.                 *)

SetTrackingRefused(m, on) == on /\ (m.parked \/ Faulted(m))

SetTracking(m, on) ==
    IF SetTrackingRefused(m, on) \/ m.tracking = on THEN m
    ELSE IF on THEN [m EXCEPT !.tracking = TRUE, !.at_home = FALSE]
    ELSE [m EXCEPT !.tracking = FALSE]

Unpark(m) ==
    IF Faulted(m) \/ ~m.parked THEN m
    ELSE LET free == [m EXCEPT !.parked = FALSE]
         IN  IF AutoTrackOnUnpark THEN SetTracking(free, TRUE) ELSE free

StartGotoRefused(m, kind) == Faulted(m) \/ (kind # "park" /\ m.parked)

StartGoto(m, kind) ==
    IF StartGotoRefused(m, kind) \/ m.parked THEN m
    ELSE SetTracking([m EXCEPT !.manual = {}, !.target_kind = kind, !.on_goal = FALSE,
                               !.motion = "SLEWING", !.at_home = FALSE], FALSE)

StartManualRefused(m) == Faulted(m) \/ m.parked

StartManual(m, axis, on) ==
    LET axes == IF on THEN m.manual \cup {axis} ELSE m.manual \ {axis}
    IN  IF StartManualRefused(m) THEN m
        ELSE IF axes # {} /\ m.motion \in {"IDLE", "MANUAL"}
        THEN [m EXCEPT !.manual = axes, !.motion = "MANUAL",
                       !.at_home = FALSE, !.on_goal = FALSE]
        ELSE IF axes = {} /\ m.motion = "MANUAL"
        THEN [m EXCEPT !.manual = axes, !.motion = "IDLE"]
        ELSE [m EXCEPT !.manual = axes]

GuideRefused(m) == Faulted(m) \/ m.parked

Guide(m) == IF GuideRefused(m) THEN m ELSE [m EXCEPT !.guiding = TRUE]

\* Mutant: a running goto ignores the abort.
AbortManualOnly(m) ==
    IF m.motion # "MANUAL" THEN [m EXCEPT !.manual = {}, !.guiding = FALSE]
    ELSE [m EXCEPT !.manual = {}, !.guiding = FALSE, !.motion = "STOPPING"]

Abort(m) ==
    IF m.motion = "IDLE" THEN [m EXCEPT !.manual = {}, !.guiding = FALSE]
    ELSE [m EXCEPT !.manual = {}, !.guiding = FALSE,
                   !.motion = "STOPPING", !.target_kind = "none"]

SetFault(m, fault) ==
    IF fault = "none" THEN [m EXCEPT !.fault = fault]
    ELSE SetTracking(Abort([m EXCEPT !.fault = fault]), FALSE)

-----------------------------------------------------------------------------
(* Time.  Each is one state edge of tick; a slew arrives after some ticks. *)

StopSettled(m) == [m EXCEPT !.motion = "IDLE"]

GuideEnded(m) == [m EXCEPT !.guiding = FALSE]

Arrive(m) ==
    LET there == [m EXCEPT !.motion = "IDLE", !.target_kind = "none"]
    IN  CASE m.target_kind = "park" -> [there EXCEPT !.parked = TRUE]
          [] m.target_kind = "home" -> [there EXCEPT !.at_home = TRUE]
          [] OTHER -> LET sky == [there EXCEPT !.on_goal = TRUE]
                      IN  IF AutoTrackOnGotoArrival THEN SetTracking(sky, TRUE) ELSE sky

\* A slew to the sky comes within the client's tolerance before it ends.
Near(m) == [m EXCEPT !.on_goal = TRUE]

\* tick: the state edges of one tick of the device loop, from the mount m.
TickEdges(m) ==
    (IF m.motion = "STOPPING" THEN {StopSettled(m)} ELSE {})
        \cup (IF m.motion = "SLEWING" THEN {Arrive(m)} ELSE {})
        \cup (IF m.motion = "SLEWING" /\ m.target_kind = "radec" /\ ~m.on_goal
              THEN {Near(m)} ELSE {})

-----------------------------------------------------------------------------
(* The :GU# status: what the mount reports and what the adapter reads.     *)

GuFlags == {"n", "N", "P", "p", "H", "G", "l", "F", "I", "T", "W"}

RawGu(m) ==
    (IF m.tracking THEN {} ELSE {"n"}) \cup (IF Slewing(m) THEN {} ELSE {"N"})
        \cup {IF m.parked THEN "P" ELSE "p"}
        \cup (IF m.at_home THEN {"H"} ELSE {}) \cup (IF m.guiding THEN {"G"} ELSE {})
        \cup (IF m.fault = "LIMIT" THEN {"l"} ELSE {})

\* decode_gu raises ValueError when none of the four park flags is there.
GuDecodable(raw) == raw \cap {"p", "I", "P", "F"} # {}

DecodeGu(raw) ==
    [parked |-> "P" \in raw, not_parked |-> "p" \in raw /\ "P" \notin raw,
     park_failed |-> "F" \in raw, at_limit |-> "l" \in raw,
     tracking |-> "n" \notin raw, slewing |-> "N" \notin raw,
     at_home |-> "H" \in raw, guiding |-> "G" \in raw]
=============================================================================
