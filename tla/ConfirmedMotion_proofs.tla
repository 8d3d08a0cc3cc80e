---------------------- MODULE ConfirmedMotion_proofs ----------------------
(***************************************************************************)
(* Proofs about what a confirmation in MotionControl says of the mount: a  *)
(* move whose stop was confirmed is halted, as is one that close() stopped;*)
(* a move that was confirmed is where it says, unparking ends quiet, and   *)
(* the HOME authority excludes a parked mount; for any number of threads,  *)
(* moves, calls, faults and messages in flight.                            *)
(***************************************************************************)
EXTENDS MotionControl_proofs

-----------------------------------------------------------------------------
(* The stop of a move.                                                     *)

\* Past its ABORT and in front of the record of its result.
Halting == {"trackoff", "mark", "spoll", "record"}

\* The device will be told to halt after all that moves it, or has halted.
MovesNot == \A i \in DOMAIN toDev : toDev[i] \notin MoveCommands
Halts ==
    \/ \E i \in DOMAIN toDev :
          /\ toDev[i] = "ABORT"
          /\ \A j \in DOMAIN toDev : j > i => toDev[j] \notin MoveCommands
    \/ MovesNot /\ mount.motion # "SLEWING"

\* A stop knows only handles whose token is set, or moves that are over.
StopsOK ==
    /\ \A t \in Threads :
          /\ loc[t].held <= motion /\ loc[t].own <= motion
          /\ motion # 0 /\ motion \in {loc[t].held, loc[t].own} => handle[motion].stopReq
    /\ motion # 0 /\ handle[motion].stopResult # "none" => handle[motion].stopReq

\* A stop of the current move that went well so far halts the device.
HaltsOK ==
    drops = 0 /\ motion # 0 /\ ~handle[motion].late =>
        /\ \A t \in Threads :
              pc[t] \in Halting /\ ~loc[t].err /\ motion \in {loc[t].held, loc[t].own}
                  => Halts
        /\ handle[motion].stopResult = "confirmed" => Halts

HaltInv == StopsOK /\ HaltsOK

-----------------------------------------------------------------------------
(* The confirmation of a move.                                             *)

BeforeGo == {"preflight", "check", "coordset", "coordwait", "issue"}
MoverPlaces == BeforeGo \cup {"loop", "poll", "off"}

\* The statuses on the wire, and the one the client knows.
Known == {cache} \cup {toCli[n] : n \in DOMAIN toCli}

\* A worker runs the move of its handle, and nobody knows a handle of later.
KindsOK ==
    /\ \A i \in Handles : pc[Worker(i)] # "idle" =>
          op[Worker(i)] = handle[i].kind /\ handle[i].kind \in MoveOps
    /\ \A i \in Handles : i > motion => handle[i].kind = "none" /\ ~handle[i].conf

\* Without an unpark no application thread commands the mount by itself, and
\* a mount that parked stays parked, whatever is on its way.
ParkOK ==
    /\ \A a \in Apps : pc[a] \notin MoverPlaces
    /\ \A n \in DOMAIN toDev : toDev[n] # "UNPARK"
    /\ mount.parked => mount.motion = "IDLE" /\ ~mount.tracking
    /\ mount.motion = "SLEWING" => ~mount.tracking /\ mount.target_kind # "none"
    /\ \A st \in Known : "P" \in st.gu => mount.parked

\* No sky target was ever sent, reached or seen.
Untargeted ==
    /\ ~mount.on_goal /\ mount.target_kind # "radec"
    /\ \A n \in DOMAIN toDev : toDev[n] # "TARGET"
    /\ \A st \in Known : ~st.goal

\* The first axis move: the goto is the last command that moves the mount, so
\* what a status says of the target stays true.
Targeted ==
    /\ \A n \in DOMAIN toDev : toDev[n] = "TARGET" =>
          \A k \in DOMAIN toDev : k > n => toDev[k] \notin MoveCommands
    /\ mount.on_goal \/ mount.target_kind = "radec" => MovesNot
    /\ \A st \in Known : st.goal =>
          /\ mount.on_goal
          /\ "N" \in st.gu => mount.motion = "IDLE"
          /\ {"N", "n"} \subseteq st.gu => ~mount.tracking

AxisOK ==
    /\ (\A i \in Handles : handle[i].kind # "axis") => Untargeted
    /\ motion # 0 /\ handle[motion].kind = "axis" /\ FirstAxis(motion) =>
          /\ pc[Worker(motion)] \in BeforeGo => Untargeted
          /\ Targeted

Real(i) ==
    /\ handle[i].kind = "park" => mount.parked
    /\ handle[i].kind = "axis" /\ motion = i /\ FirstAxis(i)
          => mount.on_goal /\ mount.motion = "IDLE" /\ ~mount.tracking

ConfOK ==
    \A i \in Handles :
        handle[i].conf \/ (pc[Worker(i)] = "finish" /\ loc[Worker(i)].conf) => Real(i)

\* Two stable polls end a wait.
StableOK == \A t \in Threads : loc[t].stable < 2

RealInv == StableOK /\ KindsOK /\ (NobodyUnparked => ParkOK /\ AxisOK /\ ConfOK)

-----------------------------------------------------------------------------
(* What a step of a mover does.                                            *)

\* The thread goes to a place, with these locals, running this move.
Runs(t, l, r, o) ==
    /\ pc' = [pc EXCEPT ![t] = l]
    /\ loc' = [loc EXCEPT ![t] = r]
    /\ op' = [op EXCEPT ![t] = o]

\* The status that confirms a move says so.
Seen(o) ==
    /\ o = "park" => "P" \in cache.gu
    /\ o = "axis" => cache.goal /\ {"N", "n"} \subseteq cache.gu

\* It stays out of the stop's halting part, knows no more handles than before,
\* has its preflight behind it, returns to the time before its command only
\* after an unpark, and a worker that succeeds has seen it.
RunsOK(t, l, r, o) ==
    /\ l \in PCs \ (Halting \cup {"preflight"})
    /\ r.held \in {0, loc[t].held} /\ r.own \in {0, loc[t].own} /\ r.stable < 2
    /\ o = op[t] \/ t \notin Workers \/ op[t] \in {"unpark", "route"}
    /\ l \in BeforeGo => pc[t] \in BeforeGo \/ op[t] \in {"unpark", "route"}
    /\ l # "idle" \/ t \notin Workers
    /\ l = "finish" /\ r.conf => Seen(op[t])

LEMMA EndRuns ==
    ASSUME TypeOK, NEW t \in Movers, NEW out, NEW conf \in BOOLEAN, End(t, out, conf),
           conf => Seen(op[t])
    PROVE  \E l, r, o : Runs(t, l, r, o) /\ RunsOK(t, l, r, o)
  <1> DEFINE l == IF IsWorker(t) THEN "finish" ELSE "idle"
             r == Result(IF IsWorker(t) THEN out ELSE "unused", conf)
             o == IF IsWorker(t) THEN op[t] ELSE "none"
  <1>1. t \in Threads /\ op \in [Threads -> AllOps \cup {"none"}]
    BY ThreadFacts DEF TypeOK
  <1>2. Runs(t, l, r, o)
    BY <1>1 DEF End, Jump, Runs
  <1>3. r.held = 0 /\ r.own = 0 /\ r.conf = conf /\ r.stable = 0
    BY DEF Result
  <1>4. l \in {"finish", "idle"} /\ (l = "idle" => t \notin Workers) /\ (o = op[t] \/ t \notin Workers)
    BY DEF IsWorker
  <1> HIDE DEF l, r, o
  <1>5. RunsOK(t, l, r, o)
    BY <1>3, <1>4 DEF RunsOK, PCs, Halting, BeforeGo
  <1> QED BY <1>2, <1>5

LEMMA FailRuns ==
    ASSUME TypeOK, NEW t \in Movers, Fail(t)
    PROVE  \E l, r, o : Runs(t, l, r, o) /\ RunsOK(t, l, r, o)
  <1>1. t \in Threads /\ op = [op EXCEPT ![t] = op[t]]
    BY ThreadFacts DEF TypeOK
  <1>2. NoLocals.held = 0 /\ NoLocals.own = 0 /\ NoLocals.conf = FALSE /\ NoLocals.stable = 0
    BY DEF NoLocals, Result
  <1>3. PICK l \in {"begin", "abort"} : pc' = [pc EXCEPT ![t] = l]
    BY DEF Fail, Jump
  <1>4. Runs(t, l, NoLocals, op[t])
    BY <1>1, <1>3 DEF Fail, Runs
  <1>5. RunsOK(t, l, NoLocals, op[t])
    BY <1>2, <1>3 DEF RunsOK, PCs, Halting, BeforeGo
  <1> QED BY <1>4, <1>5

LEMMA JumpRuns ==
    ASSUME TypeOK, StableOK, NEW t \in Movers, NEW l, Jump(t, l), UNCHANGED <<op, loc>>,
           l \in {"coordset", "coordwait", "check", "issue", "loop", "poll", "off"},
           l \in BeforeGo => pc[t] \in BeforeGo \/ op[t] \in {"unpark", "route"}
    PROVE  \E k, r, o : Runs(t, k, r, o) /\ RunsOK(t, k, r, o)
  <1>1. t \in Threads /\ op = [op EXCEPT ![t] = op[t]] /\ loc = [loc EXCEPT ![t] = loc[t]]
    BY ThreadFacts DEF TypeOK
  <1>2. Runs(t, l, loc[t], op[t])
    BY <1>1 DEF Jump, Runs
  <1>3. RunsOK(t, l, loc[t], op[t])
    BY <1>1 DEF RunsOK, PCs, Halting, StableOK
  <1> QED BY <1>2, <1>3

LEMMA LoopRuns ==
    ASSUME TypeOK, NEW t \in Movers, NEW l \in {"loop", "off"}, NEW r, Jump(t, l), UNCHANGED op,
           loc' = [loc EXCEPT ![t] = r],
           r.held \in {0, loc[t].held}, r.own \in {0, loc[t].own}, r.stable < 2
    PROVE  \E k, q, o : Runs(t, k, q, o) /\ RunsOK(t, k, q, o)
  <1>1. t \in Threads /\ op = [op EXCEPT ![t] = op[t]]
    BY ThreadFacts DEF TypeOK
  <1>2. Runs(t, l, r, op[t])
    BY <1>1 DEF Jump, Runs
  <1>3. RunsOK(t, l, r, op[t])
    BY DEF RunsOK, PCs, Halting, BeforeGo
  <1> QED BY <1>2, <1>3

\* Every step of a mover.
LEMMA MoverRuns ==
    ASSUME TypeOK, StableOK, NEW t \in Movers, MoverStep(t) \/ Deadline(t)
    PROVE  /\ pc[t] \in MoverPlaces
           /\ \E l, r, o : Runs(t, l, r, o) /\ RunsOK(t, l, r, o)
  <1> DEFINE Goal == \E l, r, o : Runs(t, l, r, o) /\ RunsOK(t, l, r, o)
  <1>0. pc[t] \in MoverPlaces
    BY DEF MoverStep, Deadline, PreflightHome, PreflightPark, PreflightAxis, PreflightUnpark,
           CheckToken, SendCoordSet, AwaitCoordSet, IssueCommand, LoopTop, SendTrackOff,
           PollFails, PollGoesOn, PollConfirms, PollUnparked, PollSlice, PollGood, PollReads,
           AxisUnsafe, AxisMoving, AxisConfirming, AxisObserves, MoverPlaces, BeforeGo
  <1> SUFFICES Goal
    BY <1>0
  <1>e. \A out : End(t, out, FALSE) => Goal
    BY EndRuns
  <1>f. Fail(t) => Goal
    BY FailRuns
  <1>l. loc \in [Threads -> Locals] /\ t \in Threads /\ loc[t].stable < 2
    BY ThreadFacts DEF TypeOK, StableOK
  <1>1. CASE PreflightHome(t) \/ PreflightAxis(t) \/ PreflightUnpark(t) \/ PreflightPark(t)
    <2>1. CASE End(t, "succeeded", TRUE) /\ PreflightPark(t) /\ S.parked
      <3>1. op[t] = "park" /\ "P" \in cache.gu
        BY <2>1 DEF PreflightPark, S, DecodeGu
      <3> QED BY <2>1, <3>1, EndRuns DEF Seen
    <2>2. CASE \E out : End(t, out, FALSE)
      BY <1>e, <2>2
    <2>3. CASE Jump(t, "check") /\ UNCHANGED <<op, loc>> /\ pc[t] = "preflight"
      BY <2>3, JumpRuns DEF BeforeGo
    <2> QED BY <1>1, <2>1, <2>2, <2>3
          DEF PreflightHome, PreflightAxis, PreflightUnpark, PreflightPark
  <1>2. CASE CheckToken(t) \/ SendCoordSet(t) \/ AwaitCoordSet(t)
    <2>1. CASE \E out : End(t, out, FALSE)
      BY <1>e, <2>1
    <2>2. ASSUME NEW l \in {"coordset", "coordwait", "issue"}, Jump(t, l), UNCHANGED <<op, loc>>,
                 pc[t] \in BeforeGo
          PROVE  Goal
      BY <2>2, JumpRuns
    <2>3. pc[t] \in BeforeGo
      BY <1>2 DEF CheckToken, SendCoordSet, AwaitCoordSet, BeforeGo
    <2> QED BY <1>2, <2>1, <2>2, <2>3 DEF CheckToken, SendCoordSet, AwaitCoordSet
  <1>3. CASE IssueCommand(t) \/ LoopTop(t) \/ PollSlice(t) \/ Deadline(t) \/ PollFails(t)
             \/ AxisUnsafe(t)
    <2>1. CASE \E out : End(t, out, FALSE)
      BY <1>e, <2>1
    <2>2. ASSUME NEW l \in {"loop", "poll"}, Jump(t, l), UNCHANGED <<op, loc>> PROVE Goal
      BY <2>2, JumpRuns DEF BeforeGo
    <2> QED BY <1>3, <1>f, <2>1, <2>2
          DEF IssueCommand, LoopTop, PollSlice, Deadline, PollFails, AxisUnsafe
  <1>4. CASE PollGoesOn(t)
    <2> DEFINE r == [loc[t] EXCEPT !.stable = StableAfter(t)]
    <2>1. StableAfter(t) < 2
      <3>1. loc[t].stable \in 0 .. 2
        BY <1>l DEF Locals
      <3>2. StableAfter(t) \in Nat
        BY <3>1 DEF StableAfter
      <3>3. StablePolls(op[t]) \in {1, 2} /\ StableAfter(t) < StablePolls(op[t])
        BY <1>4 DEF PollGoesOn, StablePolls
      <3> QED BY <3>2, <3>3
    <2>2. r.held = loc[t].held /\ r.own = loc[t].own /\ r.stable < 2
      BY <1>l, <2>1 DEF Locals
    <2>3. Jump(t, "loop") /\ UNCHANGED op /\ loc' = [loc EXCEPT ![t] = r]
      BY <1>4 DEF PollGoesOn
    <2> HIDE DEF r
    <2> QED BY <2>2, <2>3, LoopRuns
  <1>5. CASE PollConfirms(t)
    <2>1. End(t, "succeeded", TRUE) /\ op[t] \in {"home", "park"}
      BY <1>5 DEF PollConfirms
    <2>2. StableAfter(t) = 2
      BY <1>5 DEF PollConfirms, StablePolls
    <2>3. op[t] = "park" => S.parked
      BY <2>2 DEF StableAfter, Arrived
    <2> QED BY <2>1, <2>3, EndRuns DEF Seen, S, DecodeGu
  <1>6. CASE PollUnparked(t)
    <2>0. op[t] \in {"unpark", "route"}
      BY <1>6 DEF PollUnparked
    <2>1. CASE End(t, "succeeded", TRUE)
      BY <2>0, <2>1, EndRuns DEF Seen
    <2>2. CASE Jump(t, "off") /\ UNCHANGED <<op, loc>>
      BY <2>2, JumpRuns DEF BeforeGo
    <2>3. CASE /\ Jump(t, "check") /\ op' = [op EXCEPT ![t] = "home"]
               /\ loc' = [loc EXCEPT ![t] = NoLocals]
      <3>1. NoLocals.held = 0 /\ NoLocals.own = 0 /\ NoLocals.stable < 2 /\ NoLocals.conf = FALSE
        BY DEF NoLocals, Result
      <3>2. Runs(t, "check", NoLocals, "home")
        BY <2>3 DEF Runs, Jump
      <3>3. RunsOK(t, "check", NoLocals, "home")
        BY <2>0, <3>1 DEF RunsOK, PCs, Halting
      <3> QED BY <3>2, <3>3
    <2> QED BY <1>6, <2>1, <2>2, <2>3 DEF PollUnparked
  <1>7. CASE AxisMoving(t)
    <2>1. PICK p \in {"near", "go"}, l \in {"off", "loop"} :
             loc' = [loc EXCEPT ![t].phase = p] /\ Jump(t, l) /\ UNCHANGED op
      BY <1>7 DEF AxisMoving
    <2> DEFINE r == [loc[t] EXCEPT !.phase = p]
    <2>2. r.held = loc[t].held /\ r.own = loc[t].own /\ r.stable < 2 /\ loc' = [loc EXCEPT ![t] = r]
      BY <1>l, <2>1 DEF Locals
    <2> HIDE DEF r
    <2> QED BY <2>1, <2>2, LoopRuns
  <1>8. CASE AxisConfirming(t)
    <2> DEFINE polls == IF ~fresh[t] THEN loc[t].stable
                        ELSE IF ~S.tracking /\ ~S.slewing THEN loc[t].stable + 1 ELSE 0
    <2>1. CASE polls < 2 /\ Jump(t, "loop") /\ UNCHANGED op /\ loc' = [loc EXCEPT ![t].stable = polls]
      <3> HIDE DEF polls
      <3> DEFINE r == [loc[t] EXCEPT !.stable = polls]
      <3>1. r.held = loc[t].held /\ r.own = loc[t].own /\ r.stable < 2 /\ loc' = [loc EXCEPT ![t] = r]
        BY <1>l, <2>1 DEF Locals
      <3> HIDE DEF r
      <3> QED BY <2>1, <3>1, LoopRuns
    <2>2. CASE polls = 2 /\ cache.goal /\ End(t, "succeeded", TRUE)
      <3>1. ~S.tracking /\ ~S.slewing /\ op[t] = "axis"
        BY <1>8, <1>l, <2>2 DEF AxisConfirming, AxisObserves
      <3>2. {"N", "n"} \subseteq cache.gu
        BY <3>1 DEF S, DecodeGu
      <3> QED BY <2>2, <3>1, <3>2, EndRuns DEF Seen
    <2>3. CASE Fail(t)
      BY <1>f, <2>3
    <2> QED BY <1>8, <2>1, <2>2, <2>3 DEF AxisConfirming
  <1>9. CASE SendTrackOff(t)
    <2>1. CASE Fail(t)
      BY <1>f, <2>1
    <2>2. CASE ~Fail(t)
      <3> DEFINE r == [NoLocals EXCEPT !.phase = "off"]
      <3>1. r.held = 0 /\ r.own = 0 /\ r.stable < 2
        BY DEF NoLocals, Result
      <3>2. Jump(t, "loop") /\ UNCHANGED op /\ loc' = [loc EXCEPT ![t] = r]
        BY <1>9, <2>2 DEF SendTrackOff
      <3> HIDE DEF r
      <3> QED BY <3>1, <3>2, LoopRuns
    <2> QED BY <2>1, <2>2
  <1> QED BY <1>0, <1>1, <1>2, <1>3, <1>4, <1>5, <1>6, <1>7, <1>8, <1>9 DEF MoverStep

\* The command of a move leaves, and marks the move it comes too late for.
Issues(t) ==
    /\ pc[t] = "issue"
    /\ pc' = [pc EXCEPT ![t] = "loop"]
    /\ toDev' = Append(toDev, CommandOf(op[t]))
    /\ handle' = IF CommandOf(op[t]) \in MoveCommands /\ motion # 0
                 THEN [handle EXCEPT ![motion].late = @ \/ handle[motion].stopReq]
                 ELSE handle

\* What a mover sends: the command of its move, or nothing that moves the mount.
LEMMA MoverSends ==
    ASSUME TypeOK, NEW t \in Movers, MoverStep(t) \/ Deadline(t)
    PROVE  /\ UNCHANGED <<mount, toCli, cache, motion, calls, drops>>
           /\ \/ Issues(t)
              \/ /\ UNCHANGED handle
                 /\ toDev' = toDev \/ \E c \in {"SLEW", "TRACK_OFF"} : toDev' = Append(toDev, c)
  <1>1. UNCHANGED <<mount, toCli, cache, motion, calls, drops>>
    BY MoverFrame DEF Sends
  <1>2. CASE IssueCommand(t)
    BY <1>1, <1>2 DEF IssueCommand, Issues, Jump
  <1>3. CASE SendCoordSet(t) \/ SendTrackOff(t)
    BY <1>1, <1>3 DEF SendCoordSet, SendTrackOff, client
  <1>4. CASE ~(IssueCommand(t) \/ SendCoordSet(t) \/ SendTrackOff(t))
    <2>1. UNCHANGED <<handle, toDev>>
      BY <1>4 DEF MoverStep, Deadline, PreflightHome, PreflightPark, PreflightAxis, PreflightUnpark,
           CheckToken, AwaitCoordSet, LoopTop, PollFails, PollGoesOn, PollConfirms, PollUnparked,
           PollSlice, AxisUnsafe, AxisMoving, AxisConfirming, wire, client
    <2> QED BY <1>1, <2>1
  <1> QED BY <1>2, <1>3, <1>4

-----------------------------------------------------------------------------
(* The device halts.                                                       *)

\* Only a goto makes the mount slew.
LEMMA MountHalts ==
    ASSUME NEW m \in Mounts
    PROVE  /\ Abort(m).motion # "SLEWING"
           /\ \A f \in Faults \ {"none"} : SetFault(m, f).motion # "SLEWING"
           /\ m.motion # "SLEWING" =>
                 /\ \A c \in Commands \ MoveCommands : Apply(m, c).motion # "SLEWING"
                 /\ \A n \in TickEdges(m) : n.motion # "SLEWING"
  <1>1. \A n \in Mounts, on \in BOOLEAN : SetTracking(n, on).motion = n.motion
    BY DEF SetTracking, Mounts
  <1>2. \A n \in Mounts : Abort(n) \in Mounts /\ Abort(n).motion # "SLEWING"
    BY DEF Abort, Mounts, MotionStates, TargetKinds, ManualAxes
  <1>3. \A f \in Faults \ {"none"} : SetFault(m, f).motion # "SLEWING"
    <2>1. \A f \in Faults : [m EXCEPT !.fault = f] \in Mounts
      BY DEF Mounts
    <2> QED BY <1>1, <1>2, <2>1 DEF SetFault
  <1>4. ASSUME m.motion # "SLEWING", NEW c \in Commands \ MoveCommands
        PROVE  Apply(m, c).motion # "SLEWING"
    <2>1. [m EXCEPT !.parked = FALSE] \in Mounts /\ [m EXCEPT !.parked = FALSE].motion = m.motion
      BY DEF Mounts
    <2>2. Unpark(m).motion = m.motion
      BY <1>1, <2>1 DEF Unpark
    <2> QED BY <1>1, <1>2, <1>4, <2>2 DEF Apply, Commands, MoveCommands
  <1>5. ASSUME m.motion # "SLEWING", NEW n \in TickEdges(m) PROVE n.motion # "SLEWING"
    BY <1>5 DEF TickEdges, StopSettled, Mounts
  <1> QED BY <1>2, <1>3, <1>4, <1>5

\* Sending keeps the device halting, if it sends no move.
LEMMA HaltsSent ==
    ASSUME toDev \in Seq(Commands), NEW c, UNCHANGED mount, toDev' = Append(toDev, c)
    PROVE  /\ c = "ABORT" => Halts'
           /\ c \notin MoveCommands /\ Halts => Halts'
           /\ c \notin MoveCommands /\ MovesNot => MovesNot'
  <1>1. /\ Len(toDev) \in Nat /\ DOMAIN toDev = 1 .. Len(toDev)
        /\ DOMAIN toDev' = 1 .. Len(toDev) + 1 /\ toDev'[Len(toDev) + 1] = c
        /\ \A i \in DOMAIN toDev : toDev'[i] = toDev[i]
    BY AppendProperties, LenProperties
  <1>2. \A i \in DOMAIN toDev' : i \in DOMAIN toDev \/ i = Len(toDev) + 1
    BY <1>1
  <1>3. CASE c = "ABORT"
    <2>1. Len(toDev) + 1 \in DOMAIN toDev' /\ \A j \in DOMAIN toDev' : ~(j > Len(toDev) + 1)
      BY <1>1
    <2>2. Halts'
      BY <1>1, <1>3, <2>1 DEF Halts
    <2>3. MovesNot => MovesNot'
      BY <1>1, <1>2, <1>3 DEF MovesNot, MoveCommands
    <2> QED BY <2>2, <2>3
  <1>4. CASE c \notin MoveCommands /\ c # "ABORT"
    <2>1. MovesNot => MovesNot'
      BY <1>1, <1>2, <1>4 DEF MovesNot
    <2>2. ASSUME NEW i \in DOMAIN toDev, toDev[i] = "ABORT",
                 \A j \in DOMAIN toDev : j > i => toDev[j] \notin MoveCommands
          PROVE  Halts'
      <3>1. i \in DOMAIN toDev' /\ toDev'[i] = "ABORT"
        BY <1>1, <2>2
      <3>2. \A j \in DOMAIN toDev' : j > i => toDev'[j] \notin MoveCommands
        BY <1>1, <1>2, <1>4, <2>2
      <3> QED BY <3>1, <3>2 DEF Halts
    <2> QED BY <1>4, <2>1, <2>2 DEF Halts
  <1> QED BY <1>3, <1>4

\* Reading one more command keeps the device halting.
LEMMA HaltsRead ==
    ASSUME DataOK, Halts, toDev # <<>>, toDev' = Tail(toDev), mount' = Apply(mount, Head(toDev))
    PROVE  Halts'
  <1>1. /\ Len(toDev) \in Nat \ {0} /\ DOMAIN toDev = 1 .. Len(toDev) /\ Head(toDev) = toDev[1]
        /\ toDev[1] \in Commands
        /\ DOMAIN toDev' = 1 .. Len(toDev) - 1
        /\ \A i \in DOMAIN toDev' : i + 1 \in DOMAIN toDev /\ toDev'[i] = toDev[i + 1]
    BY HeadTailProperties, LenProperties DEF DataOK
  <1>2. ASSUME NEW i \in DOMAIN toDev, toDev[i] = "ABORT",
               \A j \in DOMAIN toDev : j > i => toDev[j] \notin MoveCommands
        PROVE  Halts'
    <2>1. CASE i = 1
      <3>1. mount'.motion # "SLEWING"
        BY <1>1, <1>2, <2>1, MountHalts DEF Apply, DataOK
      <3>2. MovesNot'
        BY <1>1, <1>2, <2>1 DEF MovesNot
      <3> QED BY <3>1, <3>2 DEF Halts
    <2>2. CASE i # 1
      <3>1. i - 1 \in DOMAIN toDev' /\ toDev'[i - 1] = "ABORT"
        BY <1>1, <1>2, <2>2
      <3>2. \A j \in DOMAIN toDev' : j > i - 1 => toDev'[j] \notin MoveCommands
        BY <1>1, <1>2
      <3> QED BY <3>1, <3>2 DEF Halts
    <2> QED BY <2>1, <2>2
  <1>3. CASE MovesNot /\ mount.motion # "SLEWING"
    <2>1. MovesNot' /\ toDev[1] \notin MoveCommands
      BY <1>1, <1>3 DEF MovesNot
    <2>2. mount'.motion # "SLEWING"
      BY <1>1, <1>3, <2>1, MountHalts DEF DataOK
    <2> QED BY <2>1, <2>2 DEF Halts
  <1> QED BY <1>2, <1>3 DEF Halts

\* So does every other step of the device, the wire and the reader, but a drop.
LEMMA HaltsDevice ==
    ASSUME DataOK, Halts, Device \/ ReaderRecords
    PROVE  Halts'
  <1>1. CASE DeviceHandlesWrite
    BY <1>1, HaltsRead DEF DeviceHandlesWrite
  <1>2. CASE ReaderRecords \/ DevicePublishes
    BY <1>2 DEF ReaderRecords, DevicePublishes, Halts, MovesNot
  <1>3. ASSUME UNCHANGED toDev, mount.motion # "SLEWING" => mount'.motion # "SLEWING"
        PROVE  Halts'
    BY <1>3 DEF Halts, MovesNot
  <1>4. CASE DeviceTick
    BY <1>3, <1>4, MountHalts DEF DeviceTick, DataOK
  <1>5. ASSUME NEW f \in Faults \ {"none"}, DeviceFaults(f) PROVE Halts'
    BY <1>3, <1>5, MountHalts DEF DeviceFaults, DataOK
  <1> QED BY <1>1, <1>2, <1>4, <1>5 DEF Device

-----------------------------------------------------------------------------
(* Every step keeps the invariant of the stops.                            *)

\* A step of one thread that starts no move.
LEMMA ThreadHalts ==
    ASSUME TypeOK, HaltInv, NEW t \in Threads, NEW l, NEW r,
           pc' = [pc EXCEPT ![t] = l], loc' = [loc EXCEPT ![t] = r],
           UNCHANGED <<motion, mount, drops>>,
           motion # 0 => /\ handle[motion].stopReq => handle'[motion].stopReq
                         /\ handle[motion].late => handle'[motion].late,
           \* the commands
           \/ toDev' = toDev
           \/ \E c \in Commands :
                 /\ toDev' = Append(toDev, c)
                 /\ c \in MoveCommands /\ motion # 0 /\ handle[motion].stopReq => handle'[motion].late,
           \* the locals of the thread
           r.held <= motion /\ r.own <= motion,
           motion # 0 /\ motion \in {r.held, r.own} => handle'[motion].stopReq,
           l \in Halting =>
              \/ r.err \/ toDev' = Append(toDev, "ABORT")
              \/ /\ pc[t] \in Halting /\ ~loc[t].err
                 /\ r.held = loc[t].held /\ r.own = loc[t].own,
           \* the result of the current move
           motion # 0 =>
              \/ handle'[motion].stopResult = handle[motion].stopResult
              \/ /\ handle'[motion].stopReq
                 /\ handle'[motion].stopResult = "confirmed" =>
                       pc[t] \in Halting /\ ~loc[t].err /\ motion \in {loc[t].held, loc[t].own}
    PROVE  HaltInv'
  <1>1. pc \in [Threads -> PCs] /\ loc \in [Threads -> Locals] /\ toDev \in Seq(Commands)
    BY DEF TypeOK
  <1>2. pc'[t] = l /\ loc'[t] = r /\ \A u \in Threads \ {t} : pc'[u] = pc[u] /\ loc'[u] = loc[u]
    BY <1>1
  <1>3. StopsOK'
    BY <1>2 DEF HaltInv, StopsOK
  <1>4. ASSUME motion # 0, handle[motion].stopReq, ~handle'[motion].late, Halts PROVE Halts'
    <2>1. CASE UNCHANGED toDev
      BY <1>4, <2>1 DEF Halts, MovesNot
    <2>2. CASE toDev' # toDev
      BY <1>1, <1>4, <2>2, HaltsSent
    <2> QED BY <2>1, <2>2
  <1>5. HaltsOK'
    <2> SUFFICES ASSUME drops = 0, motion # 0, ~handle'[motion].late
                 PROVE  /\ \A u \in Threads :
                              /\ pc'[u] \in Halting /\ ~loc'[u].err
                              /\ motion \in {loc'[u].held, loc'[u].own}
                              => Halts'
                        /\ handle'[motion].stopResult = "confirmed" => Halts'
      BY DEF HaltsOK
    <2>1. \A u \in Threads : motion \in {loc[u].held, loc[u].own} => handle[motion].stopReq
      BY DEF HaltInv, StopsOK
    <2>2. \A u \in Threads :
             /\ pc[u] \in Halting /\ ~loc[u].err
             /\ motion \in {loc[u].held, loc[u].own}
             => Halts'
      BY <1>4, <2>1 DEF HaltInv, HaltsOK
    <2>3. ASSUME NEW u \in Threads, pc'[u] \in Halting, ~loc'[u].err,
                 motion \in {loc'[u].held, loc'[u].own}
          PROVE  Halts'
      <3>1. CASE u # t
        BY <1>2, <2>2, <2>3, <3>1
      <3>2. CASE u = t
        <4>1. CASE toDev' = Append(toDev, "ABORT")
          BY <1>1, <4>1, HaltsSent
        <4>2. CASE toDev' # Append(toDev, "ABORT")
          BY <1>2, <2>2, <2>3, <3>2, <4>2
        <4> QED BY <4>1, <4>2
      <3> QED BY <3>1, <3>2
    <2>4. ASSUME handle'[motion].stopResult = "confirmed" PROVE Halts'
      <3>1. CASE handle'[motion].stopResult = handle[motion].stopResult
        <4>1. handle[motion].stopReq /\ Halts
          BY <2>4, <3>1 DEF HaltInv, StopsOK, HaltsOK
        <4> QED BY <1>4, <4>1
      <3>2. CASE handle'[motion].stopResult # handle[motion].stopResult
        BY <2>2, <2>4, <3>2
      <3> QED BY <3>1, <3>2
    <2> QED BY <2>3, <2>4
  <1> QED BY <1>3, <1>5 DEF HaltInv

-----------------------------------------------------------------------------
(* What a step of a stop does.                                             *)

\* It stays out of the moves, confirms none, takes its next handle from
\* client._motion, and halts from its ABORT on as long as it goes well.
StopRunsOK(t, l, r, o) ==
    /\ l \in PCs \ MoverPlaces
    /\ o = op[t] \/ t \notin Workers
    /\ l # "idle" \/ t \notin Workers
    /\ l = "finish" => ~r.conf
    /\ r.stable < 2 /\ r.own \in {0, loc[t].own}
    /\ r.held \in {0, loc[t].held} \/ (pc[t] = "begin" /\ r.held = ActiveMotion)
    /\ l \in Halting =>
          \/ r.err \/ toDev' = Append(toDev, "ABORT")
          \/ /\ pc[t] \in Halting /\ ~loc[t].err
             /\ r.held = loc[t].held /\ r.own = loc[t].own

LEMMA ContinueRuns ==
    ASSUME TypeOK, StableOK, NEW t \in Threads, Continue(t)
    PROVE  \E l, r, o : Runs(t, l, r, o) /\ StopRunsOK(t, l, r, o)
  <1>1. op = [op EXCEPT ![t] = op[t]] /\ loc = [loc EXCEPT ![t] = loc[t]] /\ loc[t].stable < 2
    BY DEF TypeOK, StableOK
  <1>2. CASE t = Cls
    <2>1. Runs(t, "join", loc[t], op[t])
      BY <1>1, <1>2 DEF Continue, Jump, Runs
    <2>2. StopRunsOK(t, "join", loc[t], op[t])
      BY <1>1 DEF StopRunsOK, PCs, MoverPlaces, BeforeGo, Halting
    <2> QED BY <2>1, <2>2
  <1>3. CASE t # Cls
    <2> DEFINE out == IF op[t] = "axis" THEN "failed" ELSE "succeeded"
               l == IF IsWorker(t) THEN "finish" ELSE "idle"
               r == Result(IF IsWorker(t) THEN out ELSE "unused", FALSE)
               o == IF IsWorker(t) THEN op[t] ELSE "none"
    <2>1. Runs(t, l, r, o)
      BY <1>1, <1>3 DEF Continue, End, Jump, Runs
    <2>2. r.held = 0 /\ r.own = 0 /\ r.conf = FALSE /\ r.stable = 0
      BY DEF Result
    <2>3. /\ l \in {"finish", "idle"} /\ (l = "idle" => t \notin Workers)
          /\ o = op[t] \/ t \notin Workers
      BY DEF IsWorker
    <2> HIDE DEF l, r, o
    <2>4. StopRunsOK(t, l, r, o)
      BY <2>2, <2>3 DEF StopRunsOK, PCs, MoverPlaces, BeforeGo, Halting
    <2> QED BY <2>1, <2>4
  <1> QED BY <1>2, <1>3

\* A step that stays in the stop.
LEMMA StaysRuns ==
    ASSUME TypeOK, StableOK, NEW t \in Threads, NEW l, Jump(t, l), UNCHANGED op,
           l \in {"trackoff", "mark", "spoll", "record"},
           \/ /\ UNCHANGED loc
              /\ toDev' = Append(toDev, "ABORT") \/ pc[t] \in Halting
           \/ loc' = [loc EXCEPT ![t].err = TRUE]
           \/ pc[t] \in Halting /\ \E n : loc' = [loc EXCEPT ![t].polls = n]
    PROVE  \E k, r, o : Runs(t, k, r, o) /\ StopRunsOK(t, k, r, o)
  <1>1. op = [op EXCEPT ![t] = op[t]] /\ loc = [loc EXCEPT ![t] = loc[t]] /\ loc[t].stable < 2
        /\ loc[t] \in Locals
    BY DEF TypeOK, StableOK
  <1>2. ASSUME NEW r, loc' = [loc EXCEPT ![t] = r], r.stable < 2,
               r.own = loc[t].own /\ r.held = loc[t].held,
               \/ r.err \/ toDev' = Append(toDev, "ABORT")
               \/ pc[t] \in Halting /\ r.err = loc[t].err
        PROVE  \E k, q, o : Runs(t, k, q, o) /\ StopRunsOK(t, k, q, o)
    <2>1. Runs(t, l, r, op[t])
      BY <1>1, <1>2 DEF Jump, Runs
    <2>2. StopRunsOK(t, l, r, op[t])
      BY <1>1, <1>2 DEF StopRunsOK, PCs, MoverPlaces, BeforeGo, Halting, Locals
    <2> QED BY <2>1, <2>2
  <1>3. CASE UNCHANGED loc /\ (toDev' = Append(toDev, "ABORT") \/ pc[t] \in Halting)
    BY <1>1, <1>2, <1>3
  <1>4. CASE loc' = [loc EXCEPT ![t].err = TRUE]
    <2> DEFINE r == [loc[t] EXCEPT !.err = TRUE]
    <2>1. r.stable = loc[t].stable /\ r.own = loc[t].own /\ r.held = loc[t].held /\ r.err
      BY <1>1 DEF Locals
    <2>2. loc' = [loc EXCEPT ![t] = r]
      BY <1>4
    <2> HIDE DEF r
    <2> QED BY <1>1, <1>2, <2>1, <2>2
  <1>5. ASSUME pc[t] \in Halting, NEW n, loc' = [loc EXCEPT ![t].polls = n]
        PROVE  \E k, q, o : Runs(t, k, q, o) /\ StopRunsOK(t, k, q, o)
    <2> DEFINE r == [loc[t] EXCEPT !.polls = n]
    <2>1. r.stable = loc[t].stable /\ r.own = loc[t].own /\ r.held = loc[t].held /\ r.err = loc[t].err
      BY <1>1 DEF Locals
    <2>2. loc' = [loc EXCEPT ![t] = r]
      BY <1>5
    <2> HIDE DEF r
    <2> QED BY <1>1, <1>2, <1>5, <2>1, <2>2
  <1> QED BY <1>3, <1>4, <1>5

\* Every step of a stop.
LEMMA StopRuns ==
    ASSUME TypeOK, StableOK, NEW t \in Threads, StopStep(t) \/ StopDeadline(t)
    PROVE  \E l, r, o : Runs(t, l, r, o) /\ StopRunsOK(t, l, r, o)
  <1> DEFINE Goal == \E l, r, o : Runs(t, l, r, o) /\ StopRunsOK(t, l, r, o)
  <1>1. CASE Continue(t)
    BY <1>1, ContinueRuns
  <1>2. CASE BeginStop(t) /\ ~Continue(t)
    <2> DEFINE r == [loc[t] EXCEPT !.held = ActiveMotion]
    <2>1. loc[t] \in Locals /\ op = [op EXCEPT ![t] = op[t]] /\ loc[t].stable < 2
      BY DEF TypeOK, StableOK
    <2>2. Jump(t, "abort") /\ loc' = [loc EXCEPT ![t] = r] /\ UNCHANGED op /\ pc[t] = "begin"
      BY <1>2 DEF BeginStop
    <2>3. r.held = ActiveMotion /\ r.own = loc[t].own /\ r.stable = loc[t].stable
      BY <2>1 DEF Locals
    <2> HIDE DEF r
    <2>4. Runs(t, "abort", r, op[t])
      BY <2>1, <2>2 DEF Jump, Runs
    <2>5. StopRunsOK(t, "abort", r, op[t])
      BY <2>1, <2>2, <2>3 DEF StopRunsOK, PCs, MoverPlaces, BeforeGo, Halting
    <2> QED BY <2>4, <2>5
  <1>3. CASE SendAbort(t)
    BY <1>3, StaysRuns DEF SendAbort, SendStop
  <1>4. CASE SendStopTrackOff(t)
    BY <1>4, StaysRuns DEF SendStopTrackOff, SendStop, Halting
  <1>5. CASE MarkRevision(t) \/ StopDeadline(t)
    BY <1>5, StaysRuns DEF MarkRevision, StopDeadline, Halting
  <1>6. CASE PollStopped(t)
    <2> DEFINE polls == IF StatusStopped THEN loc[t].polls + 1 ELSE 0
    <2>1. CASE loc' = [loc EXCEPT ![t].err = TRUE] /\ Jump(t, "record")
      BY <1>6, <2>1, StaysRuns DEF PollStopped
    <2>2. ASSUME NEW l \in {"record", "spoll"}, Jump(t, l), loc' = [loc EXCEPT ![t].polls = polls]
          PROVE  Goal
      <3> HIDE DEF polls
      <3> QED BY <1>6, <2>2, StaysRuns DEF PollStopped, Halting
    <2> QED BY <1>6, <2>1, <2>2 DEF PollStopped
  <1> QED BY <1>1, <1>2, <1>3, <1>4, <1>5, <1>6 DEF StopStep, RecordStop

\* What a stop sends, and what it does to the handles.
LEMMA StopSends ==
    ASSUME TypeOK, NEW t \in Threads, StopStep(t) \/ StopDeadline(t)
    PROVE  /\ UNCHANGED <<mount, toCli, cache, motion, calls, drops>>
           /\ toDev' = toDev \/ \E c \in {"ABORT", "TRACK_OFF"} : toDev' = Append(toDev, c)
           /\ \/ UNCHANGED handle /\ (pc[t] = "begin" => ActiveMotion = 0)
              \/ /\ ActiveMotion # 0 /\ pc[t] = "begin"
                 /\ handle' = [handle EXCEPT ![ActiveMotion].stopReq = TRUE]
              \/ /\ pc[t] = "record"
                 /\ handle' = [i \in Handles |-> IF i \in {loc[t].held, loc[t].own}
                                                 THEN Recorded(handle[i], ResultOf(t))
                                                 ELSE handle[i]]
  <1>1. UNCHANGED <<mount, toCli, cache, motion, calls, drops>>
    BY StopFrame DEF Sends
  <1>2. CASE BeginStop(t)
    BY <1>1, <1>2 DEF BeginStop, wire
  <1>3. CASE SendAbort(t) \/ SendStopTrackOff(t)
    BY <1>1, <1>3 DEF SendAbort, SendStopTrackOff, SendStop, client
  <1>4. CASE MarkRevision(t) \/ PollStopped(t) \/ StopDeadline(t)
    BY <1>1, <1>4 DEF MarkRevision, PollStopped, StopDeadline, wire, client
  <1>5. CASE RecordStop(t)
    BY <1>1, <1>5 DEF RecordStop, wire
  <1> QED BY <1>2, <1>3, <1>4, <1>5 DEF StopStep

-----------------------------------------------------------------------------
(* Every step keeps the invariant of the stops.                            *)

LEMMA MoverKeepsHalts ==
    ASSUME TypeOK, StableOK, HaltInv, NEW t \in Movers, MoverStep(t) \/ Deadline(t)
    PROVE  HaltInv'
  <1>1. PICK l, r, o : Runs(t, l, r, o) /\ RunsOK(t, l, r, o)
    BY MoverRuns
  <1>2. /\ UNCHANGED <<mount, toCli, cache, motion, calls, drops>>
        /\ \/ Issues(t)
           \/ /\ UNCHANGED handle
              /\ toDev' = toDev \/ \E c \in {"SLEW", "TRACK_OFF"} : toDev' = Append(toDev, c)
    BY MoverSends
  <1>3. /\ t \in Threads /\ motion \in 0 .. MaxMoves /\ handle \in [Handles -> HandleRecords]
        /\ motion # 0 => motion \in Handles
    BY ThreadFacts DEF TypeOK, Handles
  <1>4. motion # 0 =>
          /\ handle'[motion].stopReq = handle[motion].stopReq
          /\ handle'[motion].stopResult = handle[motion].stopResult
          /\ handle[motion].late => handle'[motion].late
    BY <1>2, <1>3 DEF Issues, HandleRecords
  <1>5. \/ toDev' = toDev
        \/ \E c \in Commands :
              /\ toDev' = Append(toDev, c)
              /\ c \in MoveCommands /\ motion # 0 /\ handle[motion].stopReq => handle'[motion].late
    <2>1. CASE Issues(t)
      <3>1. CommandOf(op[t]) \in Commands
        BY DEF CommandOf, Commands
      <3>2. CommandOf(op[t]) \in MoveCommands /\ motion # 0 /\ handle[motion].stopReq
               => handle'[motion].late
        BY <1>3, <2>1 DEF Issues, HandleRecords
      <3> QED BY <2>1, <3>1, <3>2 DEF Issues
    <2>2. CASE ~Issues(t)
      BY <1>2, <2>2 DEF Commands, MoveCommands
    <2> QED BY <2>1, <2>2
  <1>6. /\ r.held <= motion /\ r.own <= motion
        /\ motion # 0 /\ motion \in {r.held, r.own} => handle[motion].stopReq
    BY <1>1, <1>3 DEF HaltInv, StopsOK, RunsOK
  <1>7. l \notin Halting
    BY <1>1 DEF RunsOK
  <1> QED BY <1>1, <1>2, <1>3, <1>4, <1>5, <1>6, <1>7, ThreadHalts DEF Runs

LEMMA StopKeepsHalts ==
    ASSUME TypeOK, StableOK, HaltInv, NEW t \in Threads, StopStep(t) \/ StopDeadline(t)
    PROVE  HaltInv'
  <1>1. PICK l, r, o : Runs(t, l, r, o) /\ StopRunsOK(t, l, r, o)
    BY StopRuns
  <1>2. /\ UNCHANGED <<mount, motion, drops>>
        /\ toDev' = toDev \/ \E c \in {"ABORT", "TRACK_OFF"} : toDev' = Append(toDev, c)
    BY StopSends
  <1>3. /\ motion \in 0 .. MaxMoves /\ handle \in [Handles -> HandleRecords]
        /\ motion # 0 => motion \in Handles
        /\ ActiveMotion \in {0, motion}
    BY DEF TypeOK, Handles, ActiveMotion
  <1>4. /\ loc[t].held <= motion /\ loc[t].own <= motion
        /\ motion # 0 /\ motion \in {loc[t].held, loc[t].own} => handle[motion].stopReq
    BY DEF HaltInv, StopsOK
  <1> DEFINE Result2 ==
        motion # 0 =>
          \/ handle'[motion].stopResult = handle[motion].stopResult
          \/ /\ handle'[motion].stopReq
             /\ handle'[motion].stopResult = "confirmed" =>
                   pc[t] \in Halting /\ ~loc[t].err /\ motion \in {loc[t].held, loc[t].own}
  <1>5. /\ motion # 0 => /\ handle[motion].stopReq => handle'[motion].stopReq
                         /\ handle[motion].late => handle'[motion].late
        /\ Result2
        /\ pc[t] = "begin" /\ motion # 0 /\ motion = ActiveMotion => handle'[motion].stopReq
    <2>1. CASE UNCHANGED handle /\ (pc[t] = "begin" => ActiveMotion = 0)
      BY <2>1
    <2>2. CASE /\ ActiveMotion # 0 /\ pc[t] = "begin"
               /\ handle' = [handle EXCEPT ![ActiveMotion].stopReq = TRUE]
      BY <1>3, <2>2 DEF HandleRecords
    <2>3. CASE /\ pc[t] = "record"
               /\ handle' = [i \in Handles |-> IF i \in {loc[t].held, loc[t].own}
                                               THEN Recorded(handle[i], ResultOf(t))
                                               ELSE handle[i]]
      <3>1. \A h \in HandleRecords, res \in StopResults :
              /\ Recorded(h, res).stopReq = h.stopReq /\ Recorded(h, res).late = h.late
              /\ Recorded(h, res).stopResult = res
        BY DEF Recorded, HandleRecords
      <3>2. (ResultOf(t) = "confirmed" => ~loc[t].err) /\ ResultOf(t) \in StopResults
        BY DEF ResultOf, StopResults
      <3>3. CASE motion # 0 /\ motion \in {loc[t].held, loc[t].own}
        <4>1. handle'[motion] = Recorded(handle[motion], ResultOf(t)) /\ handle[motion].stopReq
          BY <1>3, <1>4, <2>3, <3>3
        <4> QED BY <1>3, <2>3, <3>1, <3>2, <3>3, <4>1 DEF Halting
      <3>4. CASE motion # 0 /\ motion \notin {loc[t].held, loc[t].own}
        BY <1>3, <2>3, <3>4
      <3> QED BY <2>3, <3>3, <3>4
    <2> QED BY <2>1, <2>2, <2>3, StopSends
  <1>6. /\ r.held <= motion /\ r.own <= motion
        /\ motion # 0 /\ motion \in {r.held, r.own} => handle'[motion].stopReq
    BY <1>1, <1>3, <1>4, <1>5 DEF StopRunsOK
  <1>7. \/ toDev' = toDev
        \/ \E c \in Commands :
              /\ toDev' = Append(toDev, c)
              /\ c \in MoveCommands /\ motion # 0 /\ handle[motion].stopReq => handle'[motion].late
    BY <1>2 DEF Commands, MoveCommands
  <1>8. l \in Halting =>
              \/ r.err \/ toDev' = Append(toDev, "ABORT")
              \/ /\ pc[t] \in Halting /\ ~loc[t].err
                 /\ r.held = loc[t].held /\ r.own = loc[t].own
    BY <1>1 DEF StopRunsOK
  <1> QED BY <1>1, <1>2, <1>5, <1>6, <1>7, <1>8, ThreadHalts DEF Runs

\* A new move has no stop yet.
LEMMA StartKeepsHalts ==
    ASSUME TypeOK, HaltInv, NEW a \in Apps, NEW k, StartMotion(a, k)
    PROVE  HaltInv'
  <1>1. /\ motion \in 0 .. MaxMoves /\ motion' = motion + 1 /\ motion' \in Handles
        /\ handle' = [handle EXCEPT ![motion'] = NewHandle(k)] /\ handle \in [Handles -> HandleRecords]
        /\ loc' = [loc EXCEPT ![a] = NoLocals] /\ loc \in [Threads -> Locals]
        /\ UNCHANGED <<mount, toDev, drops>>
    <2>1. /\ motion \in 0 .. MaxMoves /\ handle \in [Handles -> HandleRecords]
          /\ loc \in [Threads -> Locals]
      BY DEF TypeOK
    <2>2. /\ motion < MaxMoves /\ motion' = motion + 1
          /\ handle' = [handle EXCEPT ![motion + 1] = NewHandle(k)]
          /\ loc' = [loc EXCEPT ![a] = NoLocals]
          /\ UNCHANGED <<mount, toDev, drops>>
      BY DEF StartMotion, wire, budgets
    <2>3. motion + 1 \in Handles
      BY <2>1, <2>2, BoundsAssumption DEF Handles
    <2> QED BY <2>1, <2>2, <2>3
  <1>2. NewHandle(k).stopResult = "none"
    BY DEF NewHandle, NoHandle
  <1>3. NoLocals.held = 0 /\ NoLocals.own = 0
    BY DEF NoLocals, Result
  <1>4. \A t \in Threads : /\ loc[t].held \in Nat /\ loc[t].own \in Nat
                           /\ loc[t].held <= motion /\ loc[t].own <= motion
    BY <1>1 DEF Locals, HaltInv, StopsOK
  <1>5. \A t \in Threads : /\ loc'[t].held \in Nat /\ loc'[t].own \in Nat
                           /\ loc'[t].held <= motion /\ loc'[t].own <= motion
    <2>1. \A t \in Threads : loc'[t] = loc[t] \/ loc'[t] = NoLocals
      BY <1>1
    <2> QED BY <1>1, <1>3, <1>4, <2>1
  <1>6. \A t \in Threads : /\ loc'[t].held <= motion' /\ loc'[t].own <= motion'
                           /\ motion' \notin {loc'[t].held, loc'[t].own}
    BY <1>1, <1>5
  <1>7. handle'[motion'].stopResult = "none"
    BY <1>1, <1>2
  <1> QED BY <1>6, <1>7 DEF HaltInv, StopsOK, HaltsOK

LEMMA CallKeepsHalts ==
    ASSUME TypeOK, HaltInv,
           \/ \E t \in Workers : WorkerEnd(t)
           \/ \E a \in Apps : AppCall(a)
           \/ SupervisorTick \/ CloseBegins \/ CloseEnds
    PROVE  HaltInv'
  <1> USE ThreadFacts
  <1>1. /\ motion \in 0 .. MaxMoves /\ handle \in [Handles -> HandleRecords]
        /\ motion # 0 => motion \in Handles
        /\ pc \in [Threads -> PCs] /\ loc \in [Threads -> Locals]
    BY DEF TypeOK, Handles
  <1>2. \A t \in Threads :
          /\ loc[t].held <= motion /\ loc[t].own <= motion
          /\ motion # 0 /\ motion \in {loc[t].held, loc[t].own} => handle[motion].stopReq
    BY DEF HaltInv, StopsOK
  <1>3. \A t \in Threads : pc = [pc EXCEPT ![t] = pc[t]] /\ loc = [loc EXCEPT ![t] = loc[t]]
    BY <1>1
  <1>n. /\ NoLocals.held <= motion /\ NoLocals.own <= motion
        /\ motion # 0 => motion \notin {NoLocals.held, NoLocals.own}
    <2>1. NoLocals.held = 0 /\ NoLocals.own = 0
      BY DEF NoLocals, Result
    <2> QED BY <1>1, <2>1, BoundsAssumption
  \* A step that sends nothing, outside the halting part of a stop.
  <1>4. ASSUME NEW t \in Threads, NEW l, NEW r,
               pc' = [pc EXCEPT ![t] = l], loc' = [loc EXCEPT ![t] = r],
               UNCHANGED <<motion, mount, toDev, drops>>,
               motion # 0 => /\ handle[motion].stopReq => handle'[motion].stopReq
                             /\ handle[motion].late => handle'[motion].late
                             /\ handle'[motion].stopResult = handle[motion].stopResult,
               r.held <= motion /\ r.own <= motion,
               motion # 0 /\ motion \in {r.held, r.own} => handle'[motion].stopReq,
               l \notin Halting \/ (l = pc[t] /\ r = loc[t])
        PROVE  HaltInv'
    <2>1. l \in Halting =>
              \/ r.err
              \/ /\ pc[t] \in Halting /\ ~loc[t].err
                 /\ r.held = loc[t].held /\ r.own = loc[t].own
      BY <1>4
    <2> QED BY <1>4, <2>1, ThreadHalts
  <1>0. ASSUME NEW t \in Threads, NEW l,
               pc' = [pc EXCEPT ![t] = l], loc' = [loc EXCEPT ![t] = NoLocals],
               UNCHANGED <<motion, mount, toDev, drops>>,
               motion # 0 => /\ handle[motion].stopReq = handle'[motion].stopReq
                             /\ handle[motion].late = handle'[motion].late
                             /\ handle'[motion].stopResult = handle[motion].stopResult,
               l \notin Halting
        PROVE  HaltInv'
    BY <1>0, <1>4, <1>n
  <1>5. ASSUME NEW t \in Workers, WorkerFinishes(t) PROVE HaltInv'
    <2>1. /\ t \in Threads /\ pc' = [pc EXCEPT ![t] = "setdone"] /\ UNCHANGED loc
          /\ UNCHANGED <<motion, mount, toDev, drops>>
      BY <1>5 DEF WorkerFinishes, Jump, wire, budgets
    <2>2. \A h \in HandleRecords, out \in HandleStates, conf \in BOOLEAN :
            /\ Finished(h, out, conf).stopReq = h.stopReq /\ Finished(h, out, conf).late = h.late
            /\ Finished(h, out, conf).stopResult = h.stopResult
      BY DEF Finished, HandleRecords
    <2>3. motion # 0 => /\ handle[motion].stopReq = handle'[motion].stopReq
                        /\ handle[motion].late = handle'[motion].late
                        /\ handle'[motion].stopResult = handle[motion].stopResult
      <3>1. motion # 0 =>
              \/ handle'[motion] = handle[motion]
              \/ handle'[motion] = Finished(handle[motion], loc[t].out, loc[t].conf)
        BY <1>1, <1>5 DEF WorkerFinishes
      <3>2. loc[t].out \in HandleStates /\ loc[t].conf \in BOOLEAN
        BY <1>1, <2>1 DEF Locals
      <3> QED BY <1>1, <2>2, <3>1, <3>2
    <2> QED BY <1>2, <1>3, <1>4, <2>1, <2>3 DEF Halting
  <1>6. ASSUME NEW t \in Workers, WorkerSetsDone(t) PROVE HaltInv'
    <2>1. /\ t \in Threads /\ pc' = [pc EXCEPT ![t] = "idle"] /\ loc' = [loc EXCEPT ![t] = NoLocals]
          /\ UNCHANGED <<motion, mount, toDev, drops>>
      BY <1>6 DEF WorkerSetsDone, Jump, wire, budgets
    <2>2. motion # 0 => /\ handle[motion].stopReq = handle'[motion].stopReq
                        /\ handle[motion].late = handle'[motion].late
                        /\ handle'[motion].stopResult = handle[motion].stopResult
      BY <1>1, <1>6 DEF WorkerSetsDone, HandleRecords
    <2> QED BY <1>0, <2>1, <2>2 DEF Halting
  <1>7. ASSUME NEW a \in Apps, AppCall(a) PROVE HaltInv'
    <2>1. ASSUME NEW k, StartMotion(a, k) PROVE HaltInv'
      BY <2>1, StartKeepsHalts
    <2>2. ASSUME NEW o, CallBlocking(a, o) \/ CallStop(a) PROVE HaltInv'
      <3>1. /\ a \in Threads /\ loc' = [loc EXCEPT ![a] = NoLocals]
            /\ \E l \in {"preflight", "begin"} : pc' = [pc EXCEPT ![a] = l]
            /\ UNCHANGED <<motion, mount, toDev, drops, handle>>
        BY <2>2 DEF CallBlocking, CallStop, Jump, wire, client
      <3>2. PICK l \in {"preflight", "begin"} : pc' = [pc EXCEPT ![a] = l]
        BY <3>1
      <3> QED BY <1>0, <3>1, <3>2 DEF Halting
    <2>3. ASSUME NEW i \in Handles, CallHandleStop(a, i) PROVE HaltInv'
      <3> DEFINE r == [NoLocals EXCEPT !.own = i]
      <3>1. /\ a \in Threads /\ loc' = [loc EXCEPT ![a] = r] /\ pc' = [pc EXCEPT ![a] = "begin"]
            /\ handle' = [handle EXCEPT ![i].stopReq = TRUE] /\ i <= motion
            /\ UNCHANGED <<motion, mount, toDev, drops>>
        BY <2>3 DEF CallHandleStop, Jump, wire
      <3>2. r.held = 0 /\ r.own = i
        BY DEF NoLocals, Result
      <3> HIDE DEF r
      <3>3. motion # 0 => /\ handle[motion].stopReq => handle'[motion].stopReq
                          /\ handle[motion].late = handle'[motion].late
                          /\ handle'[motion].stopResult = handle[motion].stopResult
                          /\ motion = i => handle'[motion].stopReq
        BY <1>1, <3>1 DEF HandleRecords
      <3>4. r.held <= motion /\ r.own <= motion
        BY <1>1, <3>1, <3>2
      <3>5. motion # 0 /\ motion \in {r.held, r.own} => handle'[motion].stopReq
        BY <3>2, <3>3
      <3>6. motion # 0 => /\ handle[motion].stopReq => handle'[motion].stopReq
                          /\ handle[motion].late => handle'[motion].late
                          /\ handle'[motion].stopResult = handle[motion].stopResult
        BY <3>3
      <3> QED BY <1>4, <3>1, <3>4, <3>5, <3>6 DEF Halting
    <2> QED BY <1>7, <2>1, <2>2, <2>3 DEF AppCall
  <1>8. CASE SupervisorTick
    <2>1. /\ pc[Sup] = "idle" /\ UNCHANGED <<loc, motion, mount, toDev, drops, handle>>
          /\ pc' = [pc EXCEPT ![Sup] = "begin"] \/ pc' = pc
      BY <1>8 DEF SupervisorTick, Jump, wire
    <2> QED BY <1>2, <1>3, <1>4, <2>1 DEF Halting
  <1>9. CASE CloseBegins \/ CloseEnds
    <2>1. /\ UNCHANGED <<loc, motion, mount, toDev, drops, handle>>
          /\ \E l \in {"begin", "join", "closed"} : pc' = [pc EXCEPT ![Cls] = l]
      BY <1>9 DEF CloseBegins, CloseEnds, Jump, wire, client, budgets
    <2> QED BY <1>2, <1>3, <1>4, <2>1 DEF Halting
  <1> QED BY <1>5, <1>6, <1>7, <1>8, <1>9 DEF WorkerEnd

\* The device, the wire and the reader.
LEMMA WireKeepsHalts ==
    ASSUME DataOK, pc \in [Threads -> PCs], HaltInv, Device \/ ConnectionDrops \/ ReaderRecords
    PROVE  HaltInv'
  <1>1. UNCHANGED <<pc, op, loc, handle, motion>>
    BY WireSteps
  <1>2. StopsOK'
    BY <1>1 DEF HaltInv, StopsOK
  <1>3. CASE Device \/ ReaderRecords
    <2>1. UNCHANGED drops /\ (Halts => Halts')
      BY <1>3, HaltsDevice DEF Device, DeviceHandlesWrite, DeviceTick, DevicePublishes, DeviceFaults,
                               ReaderRecords, budgets
    <2>2. HaltsOK'
      BY <1>1, <2>1 DEF HaltInv, HaltsOK
    <2> QED BY <1>2, <2>2 DEF HaltInv
  <1>4. CASE ConnectionDrops
    <2>1. drops' # 0
      BY <1>4 DEF ConnectionDrops, DataOK
    <2> QED BY <1>2, <2>1 DEF HaltInv, HaltsOK
  <1> QED BY <1>3, <1>4

-----------------------------------------------------------------------------
(* A stopped move is halted.                                               *)

\* No step counts a second stable poll and goes on waiting.
LEMMA NextStable == IInv /\ StableOK /\ [Next]_vars => StableOK'
  <1> SUFFICES ASSUME IInv, StableOK, [Next]_vars PROVE StableOK'
    OBVIOUS
  <1> TypeOK /\ DataOK /\ pc \in [Threads -> PCs] /\ loc \in [Threads -> Locals]
    BY IInvTypes DEF IInv, ThreadsOK
  <1>1. ASSUME NEW t \in Threads, NEW r, loc' = [loc EXCEPT ![t] = r], r.stable < 2
        PROVE  StableOK'
    BY <1>1 DEF StableOK
  <1>2. NoLocals.stable = 0
    BY DEF NoLocals, Result
  <1>3. ASSUME NEW t \in Movers, MoverStep(t) \/ Deadline(t) PROVE StableOK'
    <2>1. PICK l, r, o : Runs(t, l, r, o) /\ RunsOK(t, l, r, o)
      BY <1>3, MoverRuns
    <2> QED BY <1>1, <2>1, ThreadFacts DEF Runs, RunsOK
  <1>4. ASSUME NEW t \in Threads, StopStep(t) \/ StopDeadline(t) PROVE StableOK'
    <2>1. PICK l, r, o : Runs(t, l, r, o) /\ StopRunsOK(t, l, r, o)
      BY <1>4, StopRuns
    <2> QED BY <1>1, <2>1 DEF Runs, StopRunsOK
  <1>5. CASE UNCHANGED loc
    BY <1>5 DEF StableOK
  <1>6. ASSUME NEW t \in Workers, WorkerEnd(t) PROVE StableOK'
    BY <1>1, <1>2, <1>5, <1>6, ThreadFacts DEF WorkerEnd, WorkerFinishes, WorkerSetsDone
  <1>7. ASSUME NEW a \in Apps, AppCall(a) PROVE StableOK'
    <2>1. a \in Threads
      BY ThreadFacts
    <2>2. ASSUME NEW i, loc' = [loc EXCEPT ![a] = [NoLocals EXCEPT !.own = i]] PROVE StableOK'
      <3> DEFINE r == [NoLocals EXCEPT !.own = i]
      <3>1. loc' = [loc EXCEPT ![a] = r]
        BY <2>2
      <3>2. r.stable < 2
        BY DEF NoLocals, Result
      <3> HIDE DEF r
      <3> QED BY <1>1, <2>1, <3>1, <3>2
    <2>3. CASE loc' = [loc EXCEPT ![a] = NoLocals]
      <3>1. NoLocals.stable < 2
        BY <1>2
      <3> QED BY <1>1, <2>1, <2>3, <3>1
    <2> QED BY <1>7, <2>2, <2>3 DEF AppCall, StartMotion, CallBlocking, CallStop, CallHandleStop
  <1>8. CASE SupervisorTick \/ CloseBegins \/ CloseEnds \/ UNCHANGED vars
    BY <1>5, <1>8 DEF SupervisorTick, CloseBegins, CloseEnds, vars, threads
  <1>9. CASE Device \/ ConnectionDrops \/ ReaderRecords
    BY <1>5, <1>9, WireSteps
  <1> QED BY <1>3, <1>4, <1>6, <1>7, <1>8, <1>9 DEF Next, Terminated

\* Nothing is requested, sent or counted yet.
LEMMA InitHalts == Init => StableOK /\ HaltInv
  <1> SUFFICES ASSUME Init PROVE StableOK /\ HaltInv
    OBVIOUS
  <1>1. NoLocals.held = 0 /\ NoLocals.own = 0 /\ NoLocals.stable = 0
    BY DEF NoLocals, Result
  <1>2. \A t \in Threads : loc[t] = NoLocals /\ motion = 0
    BY DEF Init
  <1>3. motion = 0
    BY DEF Init
  <1> QED BY <1>1, <1>2, <1>3 DEF StableOK, HaltInv, StopsOK, HaltsOK

\* Every step keeps a stopped move halted.
LEMMA NextHalts == IInv /\ StableOK /\ HaltInv /\ [Next]_vars => HaltInv'
  <1> SUFFICES ASSUME IInv, StableOK, HaltInv, [Next]_vars PROVE HaltInv'
    OBVIOUS
  <1> TypeOK /\ DataOK /\ pc \in [Threads -> PCs]
    BY IInvTypes DEF IInv, ThreadsOK
  <1>1. CASE UNCHANGED vars
    <2>1. UNCHANGED <<mount, toDev, handle, motion, pc, loc, drops>>
      BY <1>1 DEF vars, wire, client, threads, budgets
    <2> QED BY <2>1 DEF HaltInv, StopsOK, HaltsOK, Halts, MovesNot
  <1> QED BY <1>1, MoverKeepsHalts, StopKeepsHalts, CallKeepsHalts, WireKeepsHalts
        DEF Next, Terminated

\* stop_mount_via_indi confirms only what is so: the move whose handle was given
\* a confirmed stop result does not slew once the device has read its commands,
\* unless a command to move left after the request, for every schedule of the
\* worker, the application, the supervisor and close().
THEOREM StoppedHalts == Spec => []StoppedMoveIsHalted
  <1>1. Init => IInv /\ StableOK /\ HaltInv
    BY InitIInv, InitHalts
  <1>2. IInv /\ StableOK /\ HaltInv /\ [Next]_vars => (IInv /\ StableOK /\ HaltInv)'
    BY NextIInv, NextStable, NextHalts
  <1>3. IInv /\ StableOK /\ HaltInv => StoppedMoveIsHalted
    <2> SUFFICES ASSUME HaltInv, NEW i \in Handles, handle[i].stopResult = "confirmed",
                        ~handle[i].late, motion = i, toDev = <<>>, drops = 0
                 PROVE  mount.motion # "SLEWING"
      BY DEF StoppedMoveIsHalted
    <2>1. motion # 0
      BY DEF Handles
    <2>2. Halts
      BY <2>1 DEF HaltInv, HaltsOK
    <2>3. DOMAIN toDev = {}
      OBVIOUS
    <2> QED BY <2>2, <2>3 DEF Halts, MovesNot
  <1> QED BY <1>1, <1>2, <1>3, PTL DEF Spec

-----------------------------------------------------------------------------
(* What the mount does to a parked mount and to one on target.             *)

\* A parked mount rests, and a slew has a target and does not track.
MountSound(m) ==
    /\ m.parked => m.motion = "IDLE" /\ ~m.tracking
    /\ m.motion = "SLEWING" => ~m.tracking /\ m.target_kind # "none"

NoSky(m) == ~m.on_goal /\ m.target_kind # "radec"

\* What is true of a mount at rest stays true.
StaysSo(m, n) ==
    /\ m.on_goal => n.on_goal
    /\ m.motion = "IDLE" => n.motion = "IDLE"
    /\ m.motion = "IDLE" /\ ~m.tracking => ~n.tracking

\* What every command but an unpark, every fault and every edge of the tick keeps.
MountKeeps(m, n) ==
    /\ MountSound(m) => MountSound(n)
    /\ m.parked /\ MountSound(m) => n.parked

LEMMA StatusSays ==
    ASSUME NEW m \in Mounts, NEW acked
    PROVE  LET st == StatusOf(m, acked)
           IN  /\ st.goal = m.on_goal
               /\ "P" \in st.gu => m.parked
               /\ "N" \in st.gu => m.motion = "IDLE"
               /\ "n" \in st.gu => ~m.tracking
  BY DEF StatusOf, RawGu, Slewing

LEMMA TrackingOff ==
    ASSUME NEW m \in Mounts
    PROVE  LET n == SetTracking(m, FALSE)
           IN  /\ n \in Mounts /\ ~n.tracking
               /\ n.parked = m.parked /\ n.motion = m.motion /\ n.on_goal = m.on_goal
               /\ n.target_kind = m.target_kind
  BY DEF SetTracking, SetTrackingRefused, Mounts

LEMMA Aborts ==
    ASSUME NEW m \in Mounts
    PROVE  LET n == Abort(m)
           IN  /\ n \in Mounts /\ n.tracking = m.tracking
               /\ n.parked = m.parked /\ n.on_goal = m.on_goal
               /\ n.target_kind \in {m.target_kind, "none"}
               /\ n.motion = IF m.motion = "IDLE" THEN "IDLE" ELSE "STOPPING"
  <1>1. m.motion \in MotionStates /\ m.manual \in SUBSET ManualAxes
    BY DEF Mounts
  <1> QED BY <1>1 DEF Abort, Mounts, MotionStates, TargetKinds, ManualAxes

LEMMA Goes ==
    ASSUME NEW m \in Mounts, NEW k \in {"park", "home", "radec"}
    PROVE  LET n == StartGoto(m, k)
           IN  /\ MountKeeps(m, n)
               /\ ~m.on_goal => ~n.on_goal
               /\ n.target_kind \in {m.target_kind, k}
  <1> DEFINE s == [m EXCEPT !.manual = {}, !.target_kind = k, !.on_goal = FALSE,
                            !.motion = "SLEWING", !.at_home = FALSE]
  <1>1. CASE StartGoto(m, k) = m
    BY <1>1 DEF MountKeeps
  <1>2. CASE ~m.parked /\ StartGoto(m, k) = SetTracking(s, FALSE)
    <2>1. /\ s \in Mounts /\ ~s.parked /\ s.motion = "SLEWING" /\ ~s.on_goal
          /\ s.target_kind = k
      BY <1>2 DEF Mounts, MotionStates, TargetKinds, ManualAxes
    <2> HIDE DEF s
    <2> QED BY <1>2, <2>1, TrackingOff DEF MountKeeps, MountSound
  <1> QED BY <1>1, <1>2 DEF StartGoto

LEMMA CommandsKeep ==
    ASSUME NEW m \in Mounts, NEW c \in Commands \ {"UNPARK"}
    PROVE  LET n == Apply(m, c)
           IN  /\ MountKeeps(m, n)
               /\ ~m.on_goal => ~n.on_goal
               /\ NoSky(m) /\ c # "TARGET" => NoSky(n)
               /\ c \notin MoveCommands =>
                     StaysSo(m, n) /\ n.target_kind \in {m.target_kind, "none"}
  <1>1. CASE c = "ABORT"
    BY <1>1, Aborts DEF Apply, MountKeeps, MountSound, NoSky, StaysSo
  <1>2. CASE c = "TRACK_OFF"
    BY <1>2, TrackingOff DEF Apply, MountKeeps, MountSound, NoSky, StaysSo
  <1>3. CASE c \in MoveCommands
    <2>1. PICK k \in {"park", "home", "radec"} :
             Apply(m, c) = StartGoto(m, k) /\ (k = "radec" => c = "TARGET")
      BY <1>3 DEF Apply, MoveCommands
    <2> QED BY <1>3, <2>1, Goes DEF NoSky
  <1>4. CASE c = "SLEW"
    BY <1>4 DEF Apply, MountKeeps, NoSky, StaysSo
  <1> QED BY <1>1, <1>2, <1>3, <1>4 DEF Commands, MoveCommands

\* A step of the device loop, or a fault.
LEMMA EdgesKeep ==
    ASSUME NEW m \in Mounts, MountSound(m), NEW n,
           n \in TickEdges(m) \/ \E f \in Faults \ {"none"} : n = SetFault(m, f)
    PROVE  MountKeeps(m, n) /\ StaysSo(m, n) /\ (NoSky(m) => NoSky(n))
           /\ (n.target_kind = "radec" \/ n.on_goal => m.target_kind = "radec" \/ m.on_goal)
  <1>1. ASSUME NEW f \in Faults \ {"none"}, n = SetFault(m, f)
        PROVE  MountKeeps(m, n) /\ StaysSo(m, n) /\ (NoSky(m) => NoSky(n))
               /\ (n.target_kind = "radec" \/ n.on_goal => m.target_kind = "radec" \/ m.on_goal)
    <2> DEFINE g == [m EXCEPT !.fault = f]
    <2>1. /\ g \in Mounts /\ g.tracking = m.tracking /\ g.parked = m.parked
          /\ g.on_goal = m.on_goal /\ g.target_kind = m.target_kind /\ g.motion = m.motion
      BY DEF Mounts
    <2> DEFINE a == Abort(g)
    <2>2. n = SetTracking(a, FALSE)
      BY <1>1 DEF SetFault
    <2> HIDE DEF g
    <2>3. /\ a \in Mounts /\ a.parked = m.parked /\ a.on_goal = m.on_goal
          /\ a.target_kind \in {m.target_kind, "none"}
          /\ a.motion = IF m.motion = "IDLE" THEN "IDLE" ELSE "STOPPING"
      BY <2>1, Aborts
    <2> HIDE DEF a
    <2>4. /\ ~n.tracking /\ n.parked = a.parked /\ n.on_goal = a.on_goal
          /\ n.target_kind = a.target_kind /\ n.motion = a.motion
      BY <2>2, <2>3, TrackingOff
    <2> QED BY <2>3, <2>4 DEF MountKeeps, MountSound, NoSky, StaysSo
  <1>2. CASE n = StopSettled(m) /\ m.motion = "STOPPING"
    BY <1>2 DEF StopSettled, Mounts, MountKeeps, MountSound, NoSky, StaysSo
  <1>3. CASE n = Near(m) /\ m.motion = "SLEWING" /\ m.target_kind = "radec"
    BY <1>3 DEF Near, Mounts, MountKeeps, MountSound, NoSky, StaysSo
  <1>4. CASE n = Arrive(m) /\ m.motion = "SLEWING"
    <2> DEFINE there == [m EXCEPT !.motion = "IDLE", !.target_kind = "none"]
    <2>1. /\ there \in Mounts /\ there.motion = "IDLE" /\ there.target_kind = "none"
          /\ there.tracking = m.tracking /\ there.parked = m.parked /\ there.on_goal = m.on_goal
      BY DEF Mounts, MotionStates, TargetKinds
    <2>2. ~m.tracking /\ ~m.parked /\ m.target_kind \in {"radec", "home", "park"}
      BY <1>4 DEF MountSound, Mounts, TargetKinds
    <2>3. CASE m.target_kind = "park"
      <3>1. n = [there EXCEPT !.parked = TRUE]
        BY <1>4, <2>3 DEF Arrive
      <3> HIDE DEF there
      <3> QED BY <1>4, <2>1, <2>2, <2>3, <3>1 DEF Mounts, MountKeeps, MountSound, NoSky, StaysSo
    <2>4. CASE m.target_kind = "home"
      <3>1. n = [there EXCEPT !.at_home = TRUE]
        BY <1>4, <2>4 DEF Arrive
      <3> HIDE DEF there
      <3> QED BY <1>4, <2>1, <2>2, <2>4, <3>1 DEF Mounts, MountKeeps, MountSound, NoSky, StaysSo
    <2>5. CASE m.target_kind = "radec"
      <3> DEFINE sky == [there EXCEPT !.on_goal = TRUE]
      <3>1. n = sky \/ n = SetTracking(sky, TRUE)
        BY <1>4, <2>5 DEF Arrive
      <3>2. sky \in Mounts /\ sky.motion = "IDLE" /\ sky.parked = m.parked /\ sky.on_goal
        <4> HIDE DEF there
        <4> QED BY <2>1 DEF Mounts
      <3> HIDE DEF sky
      <3>3. /\ SetTracking(sky, TRUE).motion = "IDLE" /\ SetTracking(sky, TRUE).parked = m.parked
            /\ SetTracking(sky, TRUE).on_goal
        BY <3>2 DEF SetTracking, Mounts
      <3> QED BY <1>4, <2>2, <2>5, <3>1, <3>2, <3>3 DEF MountKeeps, MountSound, NoSky, StaysSo
    <2> QED BY <2>2, <2>3, <2>4, <2>5
  <1> QED BY <1>1, <1>2, <1>3, <1>4 DEF TickEdges

-----------------------------------------------------------------------------
(* A step of a thread keeps what was confirmed.                            *)

\* The moves stay, and a new confirmation is one that a worker brought along.
SameMoves ==
    /\ UNCHANGED motion
    /\ \A i \in Handles :
          /\ handle'[i].kind = handle[i].kind
          /\ handle'[i].conf =>
                \/ handle[i].conf
                \/ pc[Worker(i)] = "finish" /\ loc[Worker(i)].conf

LEMMA ThreadKinds ==
    ASSUME TypeOK, OneMoveAtATime, KindsOK, SameMoves,
           NEW t \in Threads, NEW l, NEW r, NEW o, Runs(t, l, r, o),
           t \in Workers /\ l # "idle" => pc[t] # "idle" /\ o = op[t]
    PROVE  KindsOK'
  <1>1. /\ pc'[t] = l /\ op'[t] = o
        /\ \A u \in Threads \ {t} : pc'[u] = pc[u] /\ op'[u] = op[u]
    BY DEF TypeOK, Runs
  <1>2. \A i \in Handles : Worker(i) \in Workers /\ Worker(i) \in Threads
    BY ThreadFacts
  <1>3. \A i \in Handles : handle'[i].kind = handle[i].kind
    BY DEF SameMoves
  <1>4. ASSUME NEW i \in Handles, pc'[Worker(i)] # "idle"
        PROVE  op'[Worker(i)] = handle'[i].kind /\ handle'[i].kind \in MoveOps
    BY <1>1, <1>2, <1>3, <1>4 DEF KindsOK
  <1>5. ASSUME NEW i \in Handles, i > motion'
        PROVE  handle'[i].kind = "none" /\ ~handle'[i].conf
    <2>1. i > motion /\ i # motion
      <3>1. i \in Nat /\ motion \in Nat /\ motion' = motion
        BY DEF Handles, TypeOK, SameMoves
      <3> QED BY <1>5, <3>1
    <2>2. pc[Worker(i)] = "idle"
      BY <2>1 DEF OneMoveAtATime
    <2> QED BY <1>5, <2>1, <2>2 DEF KindsOK, SameMoves
  <1> QED BY <1>4, <1>5 DEF KindsOK

\* A command that is not a move, or the goto of the first axis move, leaves the
\* sky target what it was.
LEMMA TargetSent ==
    ASSUME toDev \in Seq(Commands), NEW c \in Commands, toDev' = Append(toDev, c),
           UNCHANGED <<mount, cache, toCli>>
    PROVE  /\ Untargeted /\ c # "TARGET" => Untargeted'
           /\ Targeted /\ c \notin MoveCommands => Targeted'
           /\ Untargeted => Targeted'
  <1>1. /\ Len(toDev) \in Nat /\ DOMAIN toDev = 1 .. Len(toDev)
        /\ DOMAIN toDev' = 1 .. Len(toDev) + 1 /\ toDev'[Len(toDev) + 1] = c
        /\ \A i \in DOMAIN toDev : toDev'[i] = toDev[i]
    BY AppendProperties, LenProperties
  <1>2. \A i \in DOMAIN toDev' : i \in DOMAIN toDev \/ (i = Len(toDev) + 1 /\ toDev'[i] = c)
    BY <1>1
  <1>3. Known' = Known
    BY DEF Known
  <1>4. Untargeted /\ c # "TARGET" => Untargeted'
    BY <1>1, <1>2, <1>3 DEF Untargeted
  <1>5. ASSUME Targeted, c \notin MoveCommands PROVE Targeted'
    <2>1. ASSUME NEW n \in DOMAIN toDev', toDev'[n] = "TARGET", NEW k \in DOMAIN toDev', k > n
          PROVE  toDev'[k] \notin MoveCommands
      <3>1. n \in DOMAIN toDev /\ toDev[n] = "TARGET"
        BY <1>1, <1>2, <1>5, <2>1 DEF MoveCommands
      <3> QED BY <1>1, <1>2, <1>5, <2>1, <3>1 DEF Targeted
    <2>2. MovesNot => MovesNot'
      BY <1>5, HaltsSent
    <2> QED BY <1>3, <1>5, <2>1, <2>2 DEF Targeted
  <1>6. ASSUME Untargeted PROVE Targeted'
    <2>1. ASSUME NEW n \in DOMAIN toDev', toDev'[n] = "TARGET", NEW k \in DOMAIN toDev', k > n
          PROVE  toDev'[k] \notin MoveCommands
      <3>1. n = Len(toDev) + 1
        BY <1>1, <1>2, <1>6, <2>1 DEF Untargeted
      <3> QED BY <1>1, <2>1, <3>1
    <2> QED BY <1>3, <1>6, <2>1 DEF Targeted, Untargeted
  <1> QED BY <1>4, <1>5, <1>6

LEMMA ThreadReal ==
    ASSUME TypeOK, OneMoveAtATime, KindsOK, ParkOK, AxisOK, ConfOK, SameMoves,
           UNCHANGED mount, toCli' = toCli \/ toCli' = <<>>, UNCHANGED cache,
           NEW t \in Threads, NEW l, NEW r, NEW o, Runs(t, l, r, o),
           t \in Workers /\ l # "idle" => pc[t] # "idle" /\ o = op[t],
           t \in Apps => l \notin MoverPlaces,
           t \in Workers /\ l \in BeforeGo => pc[t] \in BeforeGo,
           t \in Workers /\ l = "finish" /\ r.conf => Seen(op[t]),
           \/ UNCHANGED toDev
           \/ /\ UNCHANGED toCli
              /\ \E c \in Commands \ {"UNPARK"} :
                    /\ toDev' = Append(toDev, c)
                    /\ c \in MoveCommands =>
                          /\ motion # 0 /\ t = Worker(motion) /\ pc[t] = "issue" /\ l = "loop"
                          /\ c = CommandOf(handle[motion].kind)
    PROVE  ParkOK' /\ AxisOK' /\ ConfOK'
  <1>1. /\ pc'[t] = l /\ op'[t] = o /\ loc'[t] = r
        /\ \A u \in Threads \ {t} : pc'[u] = pc[u] /\ op'[u] = op[u] /\ loc'[u] = loc[u]
    BY DEF TypeOK, Runs
  <1>2. \A i \in Handles : Worker(i) \in Workers /\ Worker(i) \in Threads
    BY ThreadFacts
  <1>3. /\ motion' = motion /\ (motion # 0 => motion \in Handles)
        /\ \A i \in Handles : handle'[i].kind = handle[i].kind
    BY DEF SameMoves, TypeOK, Handles
  <1>4. Known' \subseteq Known
    BY DEF Known
  <1>5. toDev \in Seq(Commands)
    BY DEF TypeOK
  <1>6. ParkOK'
    <2>1. \A a \in Apps : a \in Threads /\ pc'[a] \notin MoverPlaces
      BY <1>1, ThreadFacts DEF ParkOK
    <2>2. \A n \in DOMAIN toDev' : toDev'[n] # "UNPARK"
      <3>1. ASSUME NEW c \in Commands \ {"UNPARK"}, toDev' = Append(toDev, c),
                   NEW n \in DOMAIN toDev'
            PROVE  toDev'[n] # "UNPARK"
        BY <1>5, <3>1, AppendProperties, LenProperties DEF ParkOK
      <3> QED BY <3>1 DEF ParkOK
    <2> QED BY <1>4, <2>1, <2>2 DEF ParkOK
  <1>7. AxisOK'
    <2>1. CASE UNCHANGED toDev
      <3>1. (Untargeted => Untargeted') /\ (Targeted => Targeted')
        BY <1>4, <2>1 DEF Untargeted, Targeted, MovesNot
      <3>2. ASSUME motion # 0, pc'[Worker(motion)] \in BeforeGo
            PROVE  pc[Worker(motion)] \in BeforeGo
        BY <1>1, <1>2, <1>3, <3>2
      <3> QED BY <1>3, <3>1, <3>2 DEF AxisOK, FirstAxis
    <2>2. ASSUME NEW c \in Commands \ {"UNPARK"}, toDev' = Append(toDev, c), UNCHANGED toCli,
                 c \in MoveCommands =>
                          /\ motion # 0 /\ t = Worker(motion) /\ pc[t] = "issue" /\ l = "loop"
                          /\ c = CommandOf(handle[motion].kind)
          PROVE  AxisOK'
      <3>1. /\ Untargeted /\ c # "TARGET" => Untargeted'
            /\ Targeted /\ c \notin MoveCommands => Targeted'
            /\ Untargeted => Targeted'
        BY <1>5, <2>2, TargetSent
      <3>2. ASSUME \A i \in Handles : handle'[i].kind # "axis" PROVE Untargeted'
        <4>1. c # "TARGET"
          BY <1>3, <2>2, <3>2 DEF CommandOf, MoveCommands
        <4> QED BY <1>3, <3>1, <3>2, <4>1 DEF AxisOK
      <3>3. ASSUME motion' # 0, handle'[motion'].kind = "axis", FirstAxis(motion)'
            PROVE  (pc'[Worker(motion')] \in BeforeGo => Untargeted') /\ Targeted'
        <4>1. motion # 0 /\ handle[motion].kind = "axis" /\ FirstAxis(motion)
          BY <1>3, <3>3 DEF FirstAxis
        <4>2. (pc[Worker(motion)] \in BeforeGo => Untargeted) /\ Targeted
          BY <4>1 DEF AxisOK
        <4>3. CASE c \in MoveCommands
          BY <1>1, <1>3, <2>2, <3>1, <4>2, <4>3 DEF BeforeGo
        <4>4. CASE c \notin MoveCommands
          <5>1. pc'[Worker(motion)] \in BeforeGo => pc[Worker(motion)] \in BeforeGo
            BY <1>1, <1>2, <1>3, <4>1
          <5> QED BY <1>3, <3>1, <4>2, <4>4, <5>1 DEF MoveCommands
        <4> QED BY <4>3, <4>4
      <3> QED BY <3>2, <3>3 DEF AxisOK
    <2> QED BY <2>1, <2>2
  <1>8. ConfOK'
    <2>1. \A i \in Handles : Real(i) => Real(i)'
      BY <1>3 DEF Real, FirstAxis
    <2>2. ASSUME NEW i \in Handles, handle'[i].conf PROVE Real(i)
      BY <2>2 DEF SameMoves, ConfOK
    <2>3. ASSUME NEW i \in Handles, pc'[Worker(i)] = "finish", loc'[Worker(i)].conf
          PROVE  Real(i)
      <3>1. CASE Worker(i) # t
        BY <1>1, <1>2, <2>3, <3>1 DEF ConfOK
      <3>2. CASE Worker(i) = t
        <4>1. /\ Seen(op[t]) /\ pc[t] # "idle"
          BY <1>1, <1>2, <2>3, <3>2
        <4>2. op[t] = handle[i].kind
          BY <3>2, <4>1 DEF KindsOK
        <4>3. cache \in Known
          BY DEF Known
        <4>4. handle[i].kind = "park" => mount.parked
          BY <4>1, <4>2, <4>3 DEF Seen, ParkOK
        <4>5. ASSUME handle[i].kind = "axis", motion = i, FirstAxis(i)
              PROVE  mount.on_goal /\ mount.motion = "IDLE" /\ ~mount.tracking
          <5>1. Targeted
            BY <4>5 DEF AxisOK, Handles
          <5>2. cache.goal /\ {"N", "n"} \subseteq cache.gu
            BY <4>1, <4>2, <4>5 DEF Seen
          <5> QED BY <4>3, <5>1, <5>2 DEF Targeted
        <4> QED BY <4>4, <4>5 DEF Real
      <3> QED BY <3>1, <3>2
    <2> QED BY <2>1, <2>2, <2>3 DEF ConfOK
  <1> QED BY <1>6, <1>7, <1>8

\* What the step lemmas start from.
RealHere ==
    /\ IInv /\ StableOK /\ KindsOK
    /\ ParkOK /\ AxisOK /\ ConfOK

\* A worker that is not idle runs the current move.
LEMMA WorkerRuns ==
    ASSUME OneMoveAtATime, KindsOK, motion \in 0 .. MaxMoves,
           NEW t \in Workers, pc[t] # "idle"
    PROVE  /\ motion \in Handles /\ t = Worker(motion) /\ t[2] = motion
           /\ op[t] = handle[motion].kind /\ op[t] \in MoveOps
  <1>1. t[2] \in Handles /\ t = Worker(t[2])
    BY ThreadFacts
  <1>2. motion = t[2]
    BY <1>1 DEF OneMoveAtATime
  <1> QED BY <1>1, <1>2 DEF KindsOK

\* A mover only marks a move that its command comes too late for.
LEMMA MoverSameMoves ==
    ASSUME TypeOK, NEW t \in Movers, MoverStep(t) \/ Deadline(t)
    PROVE  SameMoves
  <1>1. handle \in [Handles -> HandleRecords]
    BY DEF TypeOK
  <1>2. UNCHANGED motion
    BY MoverFrame
  <1>3. CASE UNCHANGED handle
    BY <1>2, <1>3 DEF SameMoves
  <1>4. ASSUME NEW b \in BOOLEAN, handle' = [handle EXCEPT ![motion].late = b] PROVE SameMoves
    BY <1>1, <1>2, <1>4 DEF SameMoves, HandleRecords
  <1> QED BY <1>3, <1>4, MoverFrame

\* Neither does a stop start or confirm a move.
LEMMA StopSameMoves ==
    ASSUME TypeOK, NEW t \in Threads, StopStep(t) \/ StopDeadline(t)
    PROVE  SameMoves
  <1>1. handle \in [Handles -> HandleRecords]
    BY DEF TypeOK
  <1>2. UNCHANGED motion
    BY StopFrame
  <1>3. CASE UNCHANGED handle
    BY <1>2, <1>3 DEF SameMoves
  <1>4. CASE handle' = [handle EXCEPT ![ActiveMotion].stopReq = TRUE]
    BY <1>1, <1>2, <1>4 DEF SameMoves, HandleRecords
  <1>5. ASSUME NEW res, NEW I \in SUBSET Handles,
               handle' = [i \in Handles |-> IF i \in I THEN Recorded(handle[i], res) ELSE handle[i]]
        PROVE  SameMoves
    <2>1. \A h \in HandleRecords : Recorded(h, res).kind = h.kind /\ Recorded(h, res).conf = h.conf
      BY DEF Recorded, HandleRecords
    <2> QED BY <1>1, <1>2, <1>5, <2>1 DEF SameMoves
  <1> QED BY <1>3, <1>4, <1>5, StopFrame

LEMMA MoverKinds ==
    ASSUME IInv, StableOK, KindsOK, NEW t \in Movers, MoverStep(t) \/ Deadline(t)
    PROVE  KindsOK'
  <1>1. TypeOK /\ OneMoveAtATime /\ motion \in 0 .. MaxMoves /\ t \in Threads
    BY IInvTypes, ThreadFacts DEF IInv, HandlesOK, TypeOK
  <1>2. PICK l, r, o : Runs(t, l, r, o) /\ RunsOK(t, l, r, o)
    BY <1>1, MoverRuns
  <1>3. pc[t] # "idle"
    BY <1>1, MoverRuns DEF MoverPlaces, BeforeGo
  <1>4. t \in Workers => o = op[t]
    BY <1>1, <1>2, <1>3, WorkerRuns DEF RunsOK, MoveOps
  <1>5. SameMoves
    BY <1>1, MoverSameMoves
  <1> QED BY <1>1, <1>2, <1>3, <1>4, <1>5, ThreadKinds

LEMMA MoverReal ==
    ASSUME RealHere, NEW t \in Movers, MoverStep(t) \/ Deadline(t)
    PROVE  ParkOK' /\ AxisOK' /\ ConfOK'
  <1>1. /\ TypeOK /\ OneMoveAtATime /\ KindsOK /\ StableOK /\ ParkOK /\ AxisOK /\ ConfOK
        /\ motion \in 0 .. MaxMoves /\ t \in Threads /\ pc \in [Threads -> PCs]
    BY IInvTypes, ThreadFacts DEF RealHere, IInv, HandlesOK, TypeOK
  <1>2. PICK l, r, o : Runs(t, l, r, o) /\ RunsOK(t, l, r, o)
    BY <1>1, MoverRuns
  <1>3. pc[t] \in MoverPlaces /\ pc[t] # "idle"
    BY <1>1, MoverRuns DEF MoverPlaces, BeforeGo
  <1>4. t \in Workers /\ t \notin Apps
    BY <1>1, <1>3 DEF ParkOK, Movers
  <1>5. /\ motion \in Handles /\ t = Worker(motion)
        /\ op[t] = handle[motion].kind /\ op[t] \in MoveOps
    BY <1>1, <1>3, <1>4, WorkerRuns
  <1>6. /\ o = op[t]
        /\ l \in BeforeGo => pc[t] \in BeforeGo
        /\ l = "finish" /\ r.conf => Seen(op[t])
    BY <1>2, <1>4, <1>5 DEF RunsOK, MoveOps
  <1>7. SameMoves
    BY <1>1, MoverSameMoves
  <1>8. UNCHANGED <<mount, toCli, cache>>
    BY <1>1, MoverSends
  <1>9. \/ UNCHANGED toDev
        \/ \E c \in Commands \ {"UNPARK"} :
              /\ toDev' = Append(toDev, c)
              /\ c \in MoveCommands =>
                    /\ motion # 0 /\ t = Worker(motion) /\ pc[t] = "issue" /\ l = "loop"
                    /\ c = CommandOf(handle[motion].kind)
    <2>1. CASE Issues(t)
      <3>1. l = "loop" /\ pc[t] = "issue"
        BY <1>1, <1>2, <2>1 DEF Issues, Runs
      <3>2. CommandOf(op[t]) \in Commands \ {"UNPARK"}
        BY <1>5 DEF CommandOf, Commands, MoveOps
      <3>3. motion # 0
        BY <1>5 DEF Handles
      <3> QED BY <1>5, <2>1, <3>1, <3>2, <3>3 DEF Issues
    <2>2. CASE ~Issues(t)
      BY <1>1, <2>2, MoverSends DEF Commands, MoveCommands
    <2> QED BY <2>1, <2>2
  <1> QED BY <1>1, <1>2, <1>3, <1>4, <1>6, <1>7, <1>8, <1>9, ThreadReal

LEMMA StopReal ==
    ASSUME IInv, StableOK, KindsOK, NEW t \in Threads, StopStep(t) \/ StopDeadline(t)
    PROVE  /\ KindsOK'
           /\ ParkOK /\ AxisOK /\ ConfOK => ParkOK' /\ AxisOK' /\ ConfOK'
  <1>1. TypeOK /\ OneMoveAtATime
    BY IInvTypes DEF IInv, HandlesOK
  <1>2. PICK l, r, o : Runs(t, l, r, o) /\ StopRunsOK(t, l, r, o)
    BY <1>1, StopRuns
  <1>3. pc[t] # "idle"
    BY DEF StopStep, BeginStop, SendAbort, SendStopTrackOff, SendStop, MarkRevision, PollStopped,
           RecordStop, StopDeadline
  <1>4. /\ t \in Workers => o = op[t]
        /\ l \notin MoverPlaces /\ l \notin BeforeGo
        /\ ~(l = "finish" /\ r.conf)
    BY <1>2 DEF StopRunsOK, MoverPlaces
  <1>5. SameMoves
    BY <1>1, StopSameMoves
  <1>6. /\ UNCHANGED <<mount, toCli, cache>>
        /\ \/ UNCHANGED toDev
           \/ \E c \in Commands \ {"UNPARK"} :
                 toDev' = Append(toDev, c) /\ c \notin MoveCommands
    BY <1>1, StopSends DEF Commands, MoveCommands
  <1>7. KindsOK'
    BY <1>1, <1>2, <1>3, <1>4, <1>5, ThreadKinds
  <1>8. ASSUME ParkOK, AxisOK, ConfOK PROVE ParkOK' /\ AxisOK' /\ ConfOK'
    BY <1>1, <1>2, <1>3, <1>4, <1>5, <1>6, <1>8, ThreadReal
  <1> QED BY <1>7, <1>8

-----------------------------------------------------------------------------
(* The calls, and the end of a worker.                                     *)

\* Nobody takes back an unpark.
LEMMA QuietBefore ==
    ASSUME IInv, [Next]_vars, NobodyUnparked'
    PROVE  NobodyUnparked
  <1>0. TypeOK /\ DataOK /\ calls \in [Threads -> Nat] /\ pc \in [Threads -> PCs]
        /\ Apps \subseteq Threads
    BY IInvTypes, ThreadFacts DEF IInv, ThreadsOK, TypeOK
  <1>1. CASE UNCHANGED calls
    BY <1>1 DEF NobodyUnparked
  <1>2. ASSUME NEW t \in Threads, calls' = [calls EXCEPT ![t] = @ + 1] PROVE NobodyUnparked
    <2>1. \A a \in Apps : calls'[a] = 0 => calls[a] = 0
      BY <1>0, <1>2
    <2> QED BY <2>1 DEF NobodyUnparked
  <1>3. ASSUME NEW t \in Movers, MoverStep(t) \/ Deadline(t) PROVE NobodyUnparked
    BY <1>0, <1>1, <1>3, MoverFrame
  <1>4. ASSUME NEW t \in Threads, StopStep(t) \/ StopDeadline(t) PROVE NobodyUnparked
    BY <1>0, <1>1, <1>4, StopFrame
  <1>5. ASSUME NEW t \in Workers, WorkerEnd(t) PROVE NobodyUnparked
    BY <1>1, <1>5 DEF WorkerEnd, WorkerFinishes, WorkerSetsDone, budgets
  <1>6. ASSUME NEW a \in Apps, AppCall(a) PROVE NobodyUnparked
    BY <1>0, <1>1, <1>2, <1>6
       DEF AppCall, StartMotion, CallBlocking, CallStop, CallHandleStop, budgets
  <1>7. CASE SupervisorTick
    BY <1>1, <1>2, <1>7, ThreadFacts DEF SupervisorTick
  <1>8. CASE CloseBegins \/ CloseEnds \/ UNCHANGED vars
    BY <1>1, <1>8 DEF CloseBegins, CloseEnds, vars, budgets
  <1>9. CASE Device \/ ConnectionDrops \/ ReaderRecords
    BY <1>1, <1>9 DEF Device, DeviceHandlesWrite, DeviceTick, DevicePublishes, DeviceFaults,
                      ConnectionDrops, ReaderRecords, budgets
  <1> QED BY <1>3, <1>4, <1>5, <1>6, <1>7, <1>8, <1>9 DEF Next, Terminated

\* A new move is the latest, and has confirmed nothing.
LEMMA StartReal ==
    ASSUME IInv, KindsOK, NEW a \in Apps, NEW k \in MoveOps, StartMotion(a, k)
    PROVE  /\ KindsOK'
           /\ ParkOK /\ AxisOK /\ ConfOK => ParkOK' /\ AxisOK' /\ ConfOK'
  <1>1. /\ motion \in 0 .. MaxMoves /\ handle \in [Handles -> HandleRecords]
        /\ pc \in [Threads -> PCs] /\ loc \in [Threads -> Locals]
        /\ op \in [Threads -> AllOps \cup {"none"}]
    BY IInvTypes DEF TypeOK
  <1> DEFINE n == motion + 1
  <1>2. /\ n \in Handles /\ motion' = n /\ n > motion /\ n # 0
        /\ \A i \in Handles : i > n => i > motion /\ i # n
        /\ \A i \in Handles : i < n \/ i = n \/ i > motion
    <2>1. motion < MaxMoves /\ motion' = n
      BY DEF StartMotion
    <2> QED BY <1>1, <2>1, BoundsAssumption DEF Handles
  <1>3. /\ handle'[n] = NewHandle(k)
        /\ \A i \in Handles \ {n} : handle'[i] = handle[i]
        /\ pc'[Worker(n)] = "preflight" /\ op'[Worker(n)] = k
        /\ \A u \in Threads \ {Worker(n)} : pc'[u] = pc[u] /\ op'[u] = op[u]
        /\ \A u \in Workers : loc'[u] = loc[u]
        /\ UNCHANGED <<mount, toDev, toCli, cache>>
    <2>1. Worker(n) \in Threads /\ a \in Threads /\ a \notin Workers
      BY <1>2, ThreadFacts
    <2> QED BY <1>1, <1>2, <2>1, ThreadFacts DEF StartMotion, Jump, wire
  <1>4. NewHandle(k).kind = k /\ NewHandle(k).conf = FALSE
    BY DEF NewHandle, NoHandle
  <1>5. \A i \in Handles \ {n} : Worker(i) \in Threads \ {Worker(n)} /\ Worker(i) \in Workers
    BY <1>2, ThreadFacts
  <1>6. handle[n].kind = "none"
    BY <1>2 DEF KindsOK
  <1> HIDE DEF n
  <1>7. KindsOK'
    <2>1. ASSUME NEW i \in Handles, pc'[Worker(i)] # "idle"
          PROVE  op'[Worker(i)] = handle'[i].kind /\ handle'[i].kind \in MoveOps
      <3>1. CASE i = n
        BY <1>3, <1>4, <3>1
      <3>2. CASE i # n
        BY <1>3, <1>5, <2>1, <3>2 DEF KindsOK
      <3> QED BY <3>1, <3>2
    <2>2. ASSUME NEW i \in Handles, i > motion'
          PROVE  handle'[i].kind = "none" /\ ~handle'[i].conf
      BY <1>2, <1>3, <2>2 DEF KindsOK
    <2> QED BY <2>1, <2>2 DEF KindsOK
  <1>8. ASSUME ParkOK, AxisOK, ConfOK PROVE ParkOK' /\ AxisOK' /\ ConfOK'
    <2>1. Known' = Known
      BY <1>3 DEF Known
    <2>2. ParkOK'
      <3>1. \A b \in Apps : b \in Threads \ {Worker(n)}
        BY <1>2, ThreadFacts
      <3> QED BY <1>3, <1>8, <2>1, <3>1 DEF ParkOK
    <2>3. Untargeted => Untargeted' /\ Targeted'
      BY <1>3, <2>1 DEF Untargeted, Targeted
    <2>4. AxisOK'
      <3>1. ASSUME \A i \in Handles : handle'[i].kind # "axis" PROVE Untargeted'
        <4>1. \A i \in Handles : handle[i].kind # "axis"
          BY <1>3, <1>6, <3>1
        <4> QED BY <1>8, <2>3, <4>1 DEF AxisOK
      <3>2. ASSUME motion' # 0, handle'[motion'].kind = "axis", FirstAxis(motion)'
            PROVE  (pc'[Worker(motion')] \in BeforeGo => Untargeted') /\ Targeted'
        <4>1. \A i \in Handles : i < n => handle'[i].kind # "axis"
          BY <1>2, <3>2 DEF FirstAxis
        <4>2. \A i \in Handles : i > motion => handle[i].kind # "axis"
          BY DEF KindsOK
        <4>3. \A i \in Handles : handle[i].kind # "axis"
          <5> SUFFICES ASSUME NEW i \in Handles PROVE handle[i].kind # "axis"
            OBVIOUS
          <5>1. CASE i = n
            BY <1>6, <5>1
          <5>2. CASE i # n /\ i < n
            BY <1>3, <4>1, <5>2
          <5>3. CASE i > motion
            BY <4>2, <5>3
          <5> QED BY <1>2, <5>1, <5>2, <5>3
        <4> QED BY <1>8, <2>3, <4>3 DEF AxisOK
      <3> QED BY <3>1, <3>2 DEF AxisOK
    <2>5. ConfOK'
      <3> SUFFICES ASSUME NEW i \in Handles,
                          handle'[i].conf \/ (pc'[Worker(i)] = "finish" /\ loc'[Worker(i)].conf)
                   PROVE  Real(i)'
        BY DEF ConfOK
      <3>1. i # n
        BY <1>3, <1>4
      <3>2. Real(i)
        BY <1>3, <1>5, <1>8, <3>1 DEF ConfOK
      <3> QED BY <1>2, <1>3, <3>1, <3>2 DEF Real
    <2> QED BY <2>2, <2>4, <2>5
  <1> QED BY <1>7, <1>8

\* Every other call, and the end of a worker.
LEMMA CallReal ==
    ASSUME IInv, KindsOK,
           \/ \E t \in Workers : WorkerEnd(t)
           \/ \E a \in Apps : AppCall(a)
           \/ SupervisorTick \/ CloseBegins \/ CloseEnds
    PROVE  /\ KindsOK'
           /\ NobodyUnparked' /\ ParkOK /\ AxisOK /\ ConfOK => ParkOK' /\ AxisOK' /\ ConfOK'
  <1>0. /\ TypeOK /\ OneMoveAtATime /\ handle \in [Handles -> HandleRecords]
        /\ op \in [Threads -> AllOps \cup {"none"}] /\ loc \in [Threads -> Locals]
        /\ pc \in [Threads -> PCs] /\ calls \in [Threads -> Nat]
    BY IInvTypes DEF IInv, HandlesOK, TypeOK
  <1>k. \A t \in Threads : op = [op EXCEPT ![t] = op[t]] /\ loc = [loc EXCEPT ![t] = loc[t]]
                           /\ pc = [pc EXCEPT ![t] = pc[t]]
    BY <1>0
  \* A thread whose step moves nothing, and brings nothing to its end.
  <1>1. ASSUME SameMoves, NEW t \in Threads, NEW l, NEW r, NEW o, Runs(t, l, r, o),
               t \in Workers => l \in {"idle", "setdone"} /\ pc[t] # "idle" /\ (o = op[t] \/ l = "idle"),
               UNCHANGED <<mount, cache, toDev>>, toCli' = toCli \/ toCli' = <<>>
        PROVE  /\ KindsOK'
               /\ ParkOK /\ AxisOK /\ ConfOK /\ (t \in Apps => l = "begin")
                     => ParkOK' /\ AxisOK' /\ ConfOK'
    <2>1. t \in Workers /\ l # "idle" => pc[t] # "idle" /\ o = op[t]
      BY <1>1
    <2>2. KindsOK'
      BY <1>0, <1>1, <2>1, ThreadKinds
    <2>3. t \in Workers => l \notin BeforeGo /\ l # "finish"
      BY <1>1 DEF BeforeGo
    <2>4. "begin" \notin MoverPlaces
      BY DEF MoverPlaces, BeforeGo
    <2>5. ASSUME ParkOK, AxisOK, ConfOK, t \in Apps => l = "begin"
          PROVE  ParkOK' /\ AxisOK' /\ ConfOK'
      BY <1>0, <1>1, <2>1, <2>3, <2>4, <2>5, ThreadReal
    <2> QED BY <2>2, <2>5
  <1>2. ASSUME UNCHANGED handle, UNCHANGED motion PROVE SameMoves
    BY <1>2 DEF SameMoves
  <1> DEFINE Goal ==
        /\ KindsOK'
        /\ NobodyUnparked' /\ ParkOK /\ AxisOK /\ ConfOK => ParkOK' /\ AxisOK' /\ ConfOK'
  <1>3. ASSUME NEW t \in Workers, WorkerFinishes(t) PROVE Goal
    <2>1. /\ t \in Threads /\ t \notin Apps /\ t[2] \in Handles /\ t = Worker(t[2])
      BY ThreadFacts
    <2>2. Runs(t, "setdone", loc[t], op[t]) /\ pc[t] = "finish"
          /\ UNCHANGED <<mount, cache, toDev, toCli, motion>>
      BY <1>3, <1>k, <2>1 DEF WorkerFinishes, Runs, Jump, wire
    <2>3. \A h \in HandleRecords, out \in HandleStates, conf \in BOOLEAN :
            Finished(h, out, conf).kind = h.kind /\ Finished(h, out, conf).conf = conf
      BY DEF Finished, HandleRecords
    <2>4. loc[t].out \in HandleStates /\ loc[t].conf \in BOOLEAN
      BY <1>0, <2>1 DEF Locals
    <2>5. SameMoves
      <3>1. handle' = [handle EXCEPT ![t[2]] = Finished(handle[t[2]], loc[t].out, loc[t].conf)]
        BY <1>3 DEF WorkerFinishes
      <3>2. \A i \in Handles \ {t[2]} : handle'[i] = handle[i]
        BY <1>0, <3>1
      <3>3. handle'[t[2]].kind = handle[t[2]].kind /\ handle'[t[2]].conf = loc[t].conf
        BY <1>0, <2>1, <2>3, <2>4, <3>1
      <3> QED BY <2>1, <2>2, <3>2, <3>3 DEF SameMoves
    <2> QED BY <1>1, <2>1, <2>2, <2>5
  <1>4. ASSUME NEW t \in Workers, WorkerSetsDone(t) PROVE Goal
    <2>1. t \in Threads /\ t \notin Apps
      BY ThreadFacts
    <2>2. Runs(t, "idle", NoLocals, "none") /\ pc[t] # "idle"
          /\ UNCHANGED <<mount, cache, toDev, toCli>>
      BY <1>4 DEF WorkerSetsDone, Runs, Jump, wire
    <2>3. SameMoves
      BY <1>0, <1>4 DEF WorkerSetsDone, SameMoves, HandleRecords
    <2> QED BY <1>1, <2>1, <2>2, <2>3
  <1>5. ASSUME NEW a \in Apps, AppCall(a) PROVE Goal
    <2>0. a \in Threads /\ a \notin Workers
      BY ThreadFacts
    <2>1. ASSUME NEW k \in Ops \cap MoveOps, StartMotion(a, k) PROVE Goal
      BY <2>1, StartReal
    <2>2. ASSUME NEW o \in Ops \ MoveOps, CallBlocking(a, o) PROVE Goal
      <3>1. Runs(a, "preflight", NoLocals, o) /\ UNCHANGED <<mount, cache, toDev, toCli>>
        BY <2>2 DEF CallBlocking, Runs, Jump, wire, client
      <3>2. SameMoves
        BY <1>2, <2>2 DEF CallBlocking, client
      <3>3. KindsOK'
        BY <1>1, <2>0, <3>1, <3>2
      <3>4. calls'[a] # 0
        BY <1>0, <2>0, <2>2 DEF CallBlocking
      <3>5. ~NobodyUnparked'
        BY <2>2, <3>4 DEF NobodyUnparked
      <3> QED BY <3>3, <3>5
    <2>3. CASE CallStop(a)
      <3>1. Runs(a, "begin", NoLocals, op[a]) /\ UNCHANGED <<mount, cache, toDev, toCli>>
        BY <1>k, <2>0, <2>3 DEF CallStop, Runs, Jump, wire, client
      <3>2. SameMoves
        BY <1>2, <2>3 DEF CallStop, client
      <3> QED BY <1>1, <2>0, <3>1, <3>2
    <2>4. ASSUME NEW i \in Handles, CallHandleStop(a, i) PROVE Goal
      <3>1. Runs(a, "begin", [NoLocals EXCEPT !.own = i], op[a])
            /\ UNCHANGED <<mount, cache, toDev, toCli>>
        BY <1>k, <2>0, <2>4 DEF CallHandleStop, Runs, Jump, wire
      <3>2. SameMoves
        BY <1>0, <2>4 DEF CallHandleStop, SameMoves, HandleRecords
      <3> QED BY <1>1, <2>0, <3>1, <3>2
    <2> QED BY <1>5, <2>1, <2>2, <2>3, <2>4 DEF AppCall
  <1>6. CASE SupervisorTick
    <2>1. Sup \in Threads /\ Sup \notin Workers /\ Sup \notin Apps
      BY ThreadFacts
    <2>2. PICK l \in {pc[Sup], "begin"} : Runs(Sup, l, loc[Sup], op[Sup])
      BY <1>6, <1>k, <2>1 DEF SupervisorTick, Runs, Jump
    <2>3. SameMoves /\ UNCHANGED <<mount, cache, toDev, toCli>>
      BY <1>2, <1>6 DEF SupervisorTick, wire
    <2> QED BY <1>1, <2>1, <2>2, <2>3
  <1>7. CASE CloseBegins \/ CloseEnds
    <2>1. Cls \in Threads /\ Cls \notin Workers /\ Cls \notin Apps
      BY ThreadFacts
    <2>2. PICK l \in {"begin", "join", "closed"} : Runs(Cls, l, loc[Cls], op[Cls])
      BY <1>7, <1>k, <2>1 DEF CloseBegins, CloseEnds, Runs, Jump
    <2>3. SameMoves /\ UNCHANGED <<mount, cache, toDev>> /\ (toCli' = toCli \/ toCli' = <<>>)
      BY <1>2, <1>7 DEF CloseBegins, CloseEnds, wire, client
    <2> QED BY <1>1, <2>1, <2>2, <2>3
  <1> QED BY <1>3, <1>4, <1>5, <1>6, <1>7 DEF WorkerEnd

-----------------------------------------------------------------------------
(* The device, the wire and the reader.                                    *)

\* A step that only takes s commands off the wire, moves the mount, and lets
\* the client see no more than the mount it leaves.
LEMMA DeviceReal ==
    ASSUME DataOK, KindsOK, motion \in 0 .. MaxMoves, ParkOK, AxisOK, ConfOK,
           UNCHANGED <<pc, op, loc, handle, motion>>,
           mount' \in Mounts,
           NEW acked, Known' \subseteq Known \cup {StatusOf(mount', acked)},
           NEW s \in Nat,
           \A n \in DOMAIN toDev' :
              n \in Nat \ {0} /\ n + s \in DOMAIN toDev /\ toDev'[n] = toDev[n + s],
           MountKeeps(mount, mount'),
           NoSky(mount) /\ (\A n \in DOMAIN toDev : toDev[n] # "TARGET") => NoSky(mount'),
           MovesNot => StaysSo(mount, mount'),
           \/ NoSky(mount')
           \/ ~NoSky(mount)
           \/ 1 \in DOMAIN toDev /\ toDev[1] = "TARGET" /\ s = 1
    PROVE  ParkOK' /\ AxisOK' /\ ConfOK'
  <1>1. LET st == StatusOf(mount', acked)
        IN  /\ st.goal = mount'.on_goal
            /\ "P" \in st.gu => mount'.parked
            /\ "N" \in st.gu => mount'.motion = "IDLE"
            /\ "n" \in st.gu => ~mount'.tracking
    BY StatusSays
  <1>2. ParkOK'
    <2>1. MountSound(mount) /\ MountSound(mount') /\ (mount.parked => mount'.parked)
      BY DEF ParkOK, MountKeeps, MountSound
    <2>2. ASSUME NEW st \in Known', "P" \in st.gu PROVE mount'.parked
      <3>1. st \in Known \/ st = StatusOf(mount', acked)
        OBVIOUS
      <3> QED BY <1>1, <2>1, <2>2, <3>1 DEF ParkOK
    <2>3. \A n \in DOMAIN toDev' : toDev'[n] # "UNPARK"
      BY DEF ParkOK
    <2> QED BY <2>1, <2>2, <2>3 DEF ParkOK, MountSound
  <1>3. MovesNot => MovesNot'
    BY DEF MovesNot
  <1>4. Untargeted => Untargeted'
    <2> SUFFICES ASSUME Untargeted PROVE Untargeted'
      OBVIOUS
    <2>1. NoSky(mount')
      BY DEF Untargeted, NoSky
    <2>2. \A n \in DOMAIN toDev' : toDev'[n] # "TARGET"
      BY DEF Untargeted
    <2>3. ASSUME NEW st \in Known' PROVE ~st.goal
      <3>1. st \in Known \/ st = StatusOf(mount', acked)
        OBVIOUS
      <3> QED BY <1>1, <2>1, <3>1 DEF Untargeted, NoSky
    <2> QED BY <2>1, <2>2, <2>3 DEF Untargeted, NoSky
  <1>5. Targeted => Targeted' /\ (mount.on_goal => StaysSo(mount, mount'))
    <2> SUFFICES ASSUME Targeted
                 PROVE  Targeted' /\ (mount.on_goal => StaysSo(mount, mount'))
      OBVIOUS
    <2>1. ~NoSky(mount) => MovesNot /\ StaysSo(mount, mount')
      BY DEF Targeted, NoSky
    <2>2. ASSUME NEW n \in DOMAIN toDev', toDev'[n] = "TARGET", NEW k \in DOMAIN toDev', k > n
          PROVE  toDev'[k] \notin MoveCommands
      <3>1. /\ n \in Nat /\ k \in Nat /\ n + s \in DOMAIN toDev /\ k + s \in DOMAIN toDev
            /\ toDev[n + s] = "TARGET" /\ toDev'[k] = toDev[k + s]
        BY <2>2
      <3>2. k + s > n + s
        BY <2>2, <3>1
      <3> QED BY <3>1, <3>2 DEF Targeted
    <2>3. ~NoSky(mount') => MovesNot'
      <3>1. CASE 1 \in DOMAIN toDev /\ toDev[1] = "TARGET" /\ s = 1
        <4>1. ASSUME NEW k \in DOMAIN toDev' PROVE toDev'[k] \notin MoveCommands
          <5>1. k \in Nat \ {0} /\ k + 1 \in DOMAIN toDev /\ toDev'[k] = toDev[k + 1]
            BY <3>1
          <5>2. k + 1 > 1
            BY <5>1
          <5> QED BY <3>1, <5>1, <5>2 DEF Targeted
        <4> QED BY <4>1 DEF MovesNot
      <3> QED BY <1>3, <2>1, <3>1
    <2>4. ASSUME NEW st \in Known', st.goal
          PROVE  /\ mount'.on_goal
                 /\ "N" \in st.gu => mount'.motion = "IDLE"
                 /\ {"N", "n"} \subseteq st.gu => ~mount'.tracking
      <3>1. CASE st = StatusOf(mount', acked)
        BY <1>1, <2>4, <3>1
      <3>2. CASE st \in Known
        <4>1. /\ mount.on_goal
              /\ "N" \in st.gu => mount.motion = "IDLE"
              /\ {"N", "n"} \subseteq st.gu => ~mount.tracking
          BY <2>4, <3>2 DEF Targeted
        <4>2. StaysSo(mount, mount')
          BY <2>1, <4>1 DEF NoSky
        <4> QED BY <4>1, <4>2 DEF StaysSo
      <3> QED BY <3>1, <3>2
    <2>5. mount.on_goal => StaysSo(mount, mount')
      BY <2>1 DEF NoSky
    <2>6. Targeted'
      BY <2>2, <2>3, <2>4 DEF Targeted, NoSky
    <2> QED BY <2>5, <2>6
  <1>6. AxisOK'
    BY <1>4, <1>5 DEF AxisOK, FirstAxis
  <1>7. ConfOK'
    <2> SUFFICES ASSUME NEW i \in Handles,
                        handle[i].conf \/ (pc[Worker(i)] = "finish" /\ loc[Worker(i)].conf)
                 PROVE  Real(i)'
      BY DEF ConfOK
    <2>1. Real(i)
      BY DEF ConfOK
    <2>2. mount.parked => mount'.parked
      BY DEF ParkOK, MountKeeps, MountSound
    <2>3. ASSUME handle[i].kind = "axis", motion = i, FirstAxis(i)
          PROVE  mount'.on_goal /\ mount'.motion = "IDLE" /\ ~mount'.tracking
      <3>1. mount.on_goal /\ mount.motion = "IDLE" /\ ~mount.tracking
        BY <2>1, <2>3 DEF Real
      <3>2. Targeted
        BY <2>3 DEF AxisOK, Handles
      <3> QED BY <1>5, <3>1, <3>2 DEF StaysSo
    <2> QED BY <2>1, <2>2, <2>3 DEF Real, FirstAxis
  <1> QED BY <1>2, <1>6, <1>7

\* What the device publishes is all the client learns.
LEMMA KnownPublished ==
    ASSUME toCli \in Seq(Updates), UNCHANGED cache, NEW m, NEW acked, Publish(m, acked),
           StatusOf(m, acked) \in Updates
    PROVE  Known' \subseteq Known \cup {StatusOf(m, acked)}
  <1>1. CASE toCli' = toCli
    BY <1>1 DEF Known
  <1>2. CASE toCli' = Append(toCli, StatusOf(m, acked))
    <2>1. \A n \in DOMAIN toCli' : toCli'[n] = StatusOf(m, acked) \/ (n \in DOMAIN toCli /\ toCli'[n] = toCli[n])
      BY <1>2, AppendProperties, LenProperties
    <2> QED BY <2>1 DEF Known
  <1> QED BY <1>1, <1>2 DEF Publish

\* What the reader records was on the wire.
LEMMA KnownRead ==
    ASSUME toCli \in Seq(Updates), ReaderRecords
    PROVE  Known' \subseteq Known
  <1>1. /\ Len(toCli) \in Nat \ {0} /\ DOMAIN toCli = 1 .. Len(toCli) /\ cache' = toCli[1]
        /\ \A n \in DOMAIN toCli' : n + 1 \in DOMAIN toCli /\ toCli'[n] = toCli[n + 1]
    BY HeadTailProperties, LenProperties DEF ReaderRecords
  <1>2. 1 \in DOMAIN toCli
    BY <1>1
  <1> QED BY <1>1, <1>2 DEF Known

LEMMA WireReal ==
    ASSUME IInv, KindsOK, ParkOK, AxisOK, ConfOK, Device \/ ConnectionDrops \/ ReaderRecords
    PROVE  ParkOK' /\ AxisOK' /\ ConfOK'
  <1>1. /\ DataOK /\ DataOK' /\ motion \in 0 .. MaxMoves /\ UNCHANGED <<pc, op, loc, handle, motion>>
        /\ mount \in Mounts /\ mount' \in Mounts /\ toDev \in Seq(Commands)
        /\ toCli \in Seq(Updates)
    BY WireSteps, IInvTypes DEF IInv, ThreadsOK, TypeOK, DataOK
  <1>2. MountSound(mount)
    BY DEF ParkOK, MountSound
  <1>3. /\ \A n \in DOMAIN toDev : n \in Nat \ {0}
        /\ 0 \in Nat
    BY <1>1, LenProperties
  <1>4. \A n \in Nat : n + 0 = n
    OBVIOUS
  <1>5. CASE ReaderRecords \/ ConnectionDrops
    <2>1. UNCHANGED mount /\ (toDev' = toDev \/ toDev' = <<>>)
      BY <1>5 DEF ReaderRecords, ConnectionDrops
    <2>2. Known' \subseteq Known
      BY <1>1, <1>5, KnownRead DEF ConnectionDrops, Known
    <2>3. \A n \in DOMAIN toDev' : n \in Nat \ {0} /\ n + 0 \in DOMAIN toDev /\ toDev'[n] = toDev[n + 0]
      BY <1>3, <1>4, <2>1
    <2>4. MountKeeps(mount, mount') /\ StaysSo(mount, mount')
      BY <2>1 DEF MountKeeps, StaysSo
    <2> QED BY <1>1, <1>3, <2>1, <2>2, <2>3, <2>4, DeviceReal
  <1>6. ASSUME UNCHANGED <<cache, toDev>>, Publish(mount', FALSE),
               \/ UNCHANGED mount
               \/ mount' \in TickEdges(mount)
               \/ \E f \in Faults \ {"none"} : mount' = SetFault(mount, f)
        PROVE  ParkOK' /\ AxisOK' /\ ConfOK'
    <2>1. Known' \subseteq Known \cup {StatusOf(mount', FALSE)}
      BY <1>1, <1>6, KnownPublished, MountTypes
    <2>2. \A n \in DOMAIN toDev' : n \in Nat \ {0} /\ n + 0 \in DOMAIN toDev /\ toDev'[n] = toDev[n + 0]
      BY <1>3, <1>4, <1>6
    <2>3. /\ MountKeeps(mount, mount') /\ StaysSo(mount, mount')
          /\ NoSky(mount) => NoSky(mount')
      <3>1. CASE UNCHANGED mount
        BY <3>1 DEF MountKeeps, StaysSo, NoSky
      <3>2. CASE mount' # mount
        <4>1. PICK n : n = mount'
          OBVIOUS
        <4>2. n \in TickEdges(mount) \/ \E f \in Faults \ {"none"} : n = SetFault(mount, f)
          BY <1>6, <3>2, <4>1
        <4> QED BY <1>1, <1>2, <4>1, <4>2, EdgesKeep
      <3> QED BY <3>1, <3>2
    <2> QED BY <1>1, <1>3, <2>1, <2>2, <2>3, DeviceReal
  <1>7. CASE DeviceTick \/ DevicePublishes \/ \E f \in Faults \ {"none"} : DeviceFaults(f)
    BY <1>6, <1>7 DEF DeviceTick, DevicePublishes, DeviceFaults, client
  <1>8. CASE DeviceHandlesWrite
    <2>1. /\ Head(toDev) = toDev[1] /\ 1 \in DOMAIN toDev /\ toDev[1] \in Commands
          /\ mount' = Apply(mount, toDev[1]) /\ UNCHANGED cache
          /\ \A n \in DOMAIN toDev' :
                n \in Nat \ {0} /\ n + 1 \in DOMAIN toDev /\ toDev'[n] = toDev[n + 1]
      <3>1. toDev # <<>> /\ toDev' = Tail(toDev) /\ UNCHANGED cache
            /\ mount' = Apply(mount, Head(toDev))
        BY <1>8 DEF DeviceHandlesWrite, client
      <3>2. Len(toDev) \in Nat \ {0} /\ DOMAIN toDev = 1 .. Len(toDev)
        BY <1>1, <3>1, LenProperties
      <3>3. /\ Head(toDev) = toDev[1] /\ toDev[1] \in Commands /\ DOMAIN toDev' = 1 .. Len(toDev) - 1
            /\ \A i \in 1 .. Len(toDev) - 1 : toDev'[i] = toDev[i + 1]
        BY <1>1, <3>1, <3>2, HeadTailProperties
      <3> QED BY <3>1, <3>2, <3>3
    <2>2. PICK acked \in BOOLEAN : Publish(mount', acked)
      BY <1>8 DEF DeviceHandlesWrite
    <2>3. Known' \subseteq Known \cup {StatusOf(mount', acked)}
      BY <1>1, <2>1, <2>2, KnownPublished, MountTypes
    <2>4. PICK c \in Commands \ {"UNPARK"} : c = toDev[1]
      BY <2>1 DEF ParkOK
    <2>5. /\ MountKeeps(mount, mount')
          /\ NoSky(mount) /\ c # "TARGET" => NoSky(mount')
          /\ c \notin MoveCommands => StaysSo(mount, mount')
      BY <1>1, <2>1, <2>4, CommandsKeep
    <2>6. MovesNot => c \notin MoveCommands
      BY <2>1, <2>4 DEF MovesNot
    <2> QED BY <1>1, <2>1, <2>3, <2>4, <2>5, <2>6, DeviceReal
  <1> QED BY <1>5, <1>7, <1>8 DEF Device

-----------------------------------------------------------------------------
(* What was confirmed is so.                                               *)

\* A mount that is created rests, and was sent nowhere.
LEMMA InitReal == Init => RealInv
  <1> SUFFICES ASSUME Init PROVE RealInv
    OBVIOUS
  <1>1. /\ mount \in Mounts /\ ~mount.tracking /\ mount.motion = "IDLE"
        /\ mount.target_kind = "none" /\ ~mount.on_goal
        /\ toDev = <<>> /\ toCli = <<>> /\ cache = StatusOf(mount, FALSE) /\ motion = 0
    BY DEF Init, InitialMounts
  <1>2. /\ \A t \in Threads : pc[t] = "idle" /\ loc[t] = NoLocals
        /\ \A i \in Handles : handle[i] = NoHandle
    BY DEF Init
  <1>3. NoHandle.kind = "none" /\ NoHandle.conf = FALSE
    BY DEF NoHandle
  <1>4. \A i \in Handles : Worker(i) \in Threads
    BY ThreadFacts
  <1>5. KindsOK
    BY <1>2, <1>3, <1>4 DEF KindsOK
  <1>6. ConfOK
    BY <1>2, <1>3, <1>4 DEF ConfOK
  <1>7. Known = {StatusOf(mount, FALSE)}
    BY <1>1 DEF Known
  <1>8. ParkOK
    <2>1. \A a \in Apps : a \in Threads
      BY ThreadFacts
    <2>2. "idle" \notin MoverPlaces
      BY DEF MoverPlaces, BeforeGo
    <2>3. "P" \in StatusOf(mount, FALSE).gu => mount.parked
      BY <1>1, StatusSays
    <2>4. \A a \in Apps : pc[a] \notin MoverPlaces
      BY <1>2, <2>1, <2>2
    <2>5. DOMAIN toDev = {}
      BY <1>1
    <2>6. mount.motion # "SLEWING"
      BY <1>1
    <2>7. \A st \in Known : "P" \in st.gu => mount.parked
      BY <1>7, <2>3
    <2> QED BY <1>1, <2>4, <2>5, <2>6, <2>7 DEF ParkOK
  <1>9. AxisOK
    <2>1. StatusOf(mount, FALSE).goal = mount.on_goal
      BY DEF StatusOf
    <2>2. DOMAIN toDev = {}
      BY <1>1
    <2>3. \A st \in Known : ~st.goal
      BY <1>1, <1>7, <2>1
    <2>4. Untargeted
      BY <1>1, <2>2, <2>3 DEF Untargeted
    <2> QED BY <1>1, <2>4 DEF AxisOK
  <1> QED BY <1>5, <1>6, <1>8, <1>9, InitHalts DEF RealInv

\* Every step keeps what was confirmed.
LEMMA NextReal == IInv /\ RealInv /\ [Next]_vars => RealInv'
  <1> SUFFICES ASSUME IInv, RealInv, [Next]_vars PROVE RealInv'
    OBVIOUS
  <1>1. StableOK /\ KindsOK /\ StableOK'
    BY NextStable DEF RealInv
  <1>2. NobodyUnparked' => ParkOK /\ AxisOK /\ ConfOK
    BY QuietBefore DEF RealInv
  <1> DEFINE Goal ==
        /\ KindsOK'
        /\ NobodyUnparked' => ParkOK' /\ AxisOK' /\ ConfOK'
  <1>3. ASSUME NEW t \in Movers, MoverStep(t) \/ Deadline(t) PROVE Goal
    BY <1>1, <1>2, <1>3, MoverKinds, MoverReal DEF RealHere
  <1>4. ASSUME NEW t \in Threads, StopStep(t) \/ StopDeadline(t) PROVE Goal
    BY <1>1, <1>2, <1>4, StopReal
  <1>5. ASSUME \/ \E t \in Workers : WorkerEnd(t)
               \/ \E a \in Apps : AppCall(a)
               \/ SupervisorTick \/ CloseBegins \/ CloseEnds
        PROVE  Goal
    BY <1>1, <1>2, <1>5, CallReal
  <1>6. ASSUME Device \/ ConnectionDrops \/ ReaderRecords PROVE Goal
    <2>1. UNCHANGED <<pc, op, handle, motion>>
      BY <1>6, WireSteps DEF IInv, ThreadsOK
    <2>2. KindsOK'
      BY <1>1, <2>1 DEF KindsOK
    <2> QED BY <1>1, <1>2, <1>6, <2>2, WireReal
  <1>7. ASSUME UNCHANGED vars PROVE Goal
    <2>1. UNCHANGED <<mount, toDev, toCli, cache, handle, motion, pc, op, loc>>
      BY <1>7 DEF vars, wire, client, threads
    <2> QED BY <1>1, <1>2, <2>1
          DEF KindsOK, ParkOK, AxisOK, ConfOK, Known, Untargeted, Targeted, MovesNot, Real, FirstAxis
  <1>8. Goal
    BY <1>3, <1>4, <1>5, <1>6, <1>7 DEF Next, Terminated
  <1> QED BY <1>1, <1>8 DEF RealInv

\* What IndiHomeRouter and IndiAxisMover call confirmed is true of the mount and
\* not only of the statuses they saw, although each of them may be as old as the
\* wire allows: as long as nobody unparked, a confirmed park stays parked at
\* rest, and the first axis move, confirmed, stays on target until the next move.
THEOREM ConfirmedReal == Spec => []ConfirmedMoveIsReal
  <1>1. Init => IInv /\ RealInv
    BY InitIInv, InitReal
  <1>2. IInv /\ RealInv /\ [Next]_vars => (IInv /\ RealInv)'
    BY NextIInv, NextReal
  <1>3. IInv /\ RealInv => ConfirmedMoveIsReal
    BY DEF RealInv, ParkOK, ConfOK, Real, ConfirmedMoveIsReal
  <1> QED BY <1>1, <1>2, <1>3, PTL DEF Spec

-----------------------------------------------------------------------------
(* Unparking.  One application thread calls, so what the client knows, what *)
(* the wire says and what the mount is differ by one change at most: the    *)
(* mount falls out of PARK, or rises to it.                                 *)

\* The cached status, and behind it those on the wire.
Statuses == 0 .. Len(toCli)
At(n) == IF n = 0 THEN cache ELSE toCli[n]
Says(n) == "P" \in At(n).gu

\* The mount is parked, or was and rests since: nothing is behind the UNPARK
\* that moves it, and a status that says it does not track stays true.
FallingSeen ==
    /\ \A j, k \in Statuses : j < k /\ ~Says(j) => ~Says(k)
    /\ \A n \in Statuses : ~Says(n) =>
          ~mount.parked /\ ("n" \in At(n).gu => ~mount.tracking)
FallingSent ==
    IF mount.parked
    THEN \A i, j \in DOMAIN toDev : i < j /\ toDev[i] = "UNPARK" => toDev[j] \notin MoveCommands
    ELSE MovesNot /\ mount.motion # "SLEWING"
Falling == FallingSeen /\ FallingSent

\* The mount is not parked, or came to PARK: no UNPARK is on its way that could
\* take it from there.
RisingSeen ==
    /\ \A j, k \in Statuses : j < k /\ Says(j) => Says(k)
    /\ \A n \in Statuses : Says(n) => mount.parked
NoUnpark == \A i \in DOMAIN toDev : toDev[i] # "UNPARK"
RisingSent ==
    /\ \A i, j \in DOMAIN toDev : i < j /\ toDev[i] \in MoveCommands => toDev[j] # "UNPARK"
    /\ mount.parked \/ mount.motion = "SLEWING" => NoUnpark
Rising == RisingSeen /\ RisingSent

\* Unparked, not tracking, and sent nowhere but to HOME.
HomeBound(m) == m.motion = "SLEWING" => m.target_kind = "home"
Quiet ==
    /\ Rising /\ ~mount.parked /\ ~mount.tracking /\ HomeBound(mount)
    /\ \A i \in DOMAIN toDev : toDev[i] \notin {"PARK", "TARGET"}

\* A worker past its preflight, and an application thread past that of unpark.
Going == BeforeGo \ {"preflight"}
WorkerGoes == \E i \in Handles : pc[Worker(i)] \in Going
Unparks(a) == op[a] \in {"unpark", "route"} /\ pc[a] # "preflight"
Unparked(a) == op[a] = "home" \/ loc[a].conf

\* A blocking call runs beside no move.
CallsOK(a) ==
    /\ op[a] \in {"none", "unpark", "route", "home"}
    /\ op[a] = "none" => pc[a] \notin MoverPlaces
    /\ pc[a] = "idle" => op[a] = "none"
    /\ loc[a].conf => pc[a] = "idle"
    /\ op[a] # "none" \/ loc[a].conf => \A i \in Handles : pc[Worker(i)] = "idle"

FlipOK(a) ==
    /\ Falling \/ Rising
    /\ WorkerGoes => Rising
    /\ Unparks(a) => Falling
    /\ Unparked(a) => Quiet

FlipInv == MountSound(mount) /\ \A a \in Apps : Apps = {a} => CallsOK(a) /\ FlipOK(a)

\* What the client knows says which of the two it is.
LEMMA Flips ==
    ASSUME DataOK
    PROVE  /\ Falling /\ ~Says(0) => Rising
           /\ Rising /\ Says(0) => Falling /\ mount.parked /\ NoUnpark
  <1>1. 0 \in Statuses /\ \A n \in Statuses : n = 0 \/ 0 < n
    BY LenProperties DEF Statuses, DataOK
  <1>2. ASSUME Falling, ~Says(0) PROVE Rising
    <2>1. ~mount.parked /\ \A n \in Statuses : ~Says(n)
      BY <1>1, <1>2 DEF Falling, FallingSeen
    <2> QED BY <1>2, <2>1 DEF Falling, FallingSent, MovesNot, Rising, RisingSeen, RisingSent
  <1>3. ASSUME Rising, Says(0) PROVE Falling /\ mount.parked /\ NoUnpark
    <2>1. mount.parked /\ \A n \in Statuses : Says(n)
      BY <1>1, <1>3 DEF Rising, RisingSeen
    <2>2. NoUnpark
      BY <1>3, <2>1 DEF Rising, RisingSent
    <2> QED BY <2>1, <2>2 DEF Falling, FallingSeen, FallingSent, NoUnpark
  <1> QED BY <1>2, <1>3

\* A thread sends a command.
LEMMA FlipsSent ==
    ASSUME DataOK, NEW c \in Commands, toDev' = Append(toDev, c), UNCHANGED <<mount, toCli, cache>>
    PROVE  /\ c \notin MoveCommands =>
                 /\ Falling => Falling'
                 /\ Rising /\ c # "UNPARK" => Rising'
                 /\ Quiet /\ c # "UNPARK" => Quiet'
           /\ c \in MoveCommands =>
                 /\ Rising => Rising'
                 /\ Quiet /\ c = "GO" => Quiet'
  <1>1. /\ Len(toDev) \in Nat /\ DOMAIN toDev = 1 .. Len(toDev)
        /\ DOMAIN toDev' = 1 .. Len(toDev) + 1 /\ toDev'[Len(toDev) + 1] = c
        /\ \A i \in DOMAIN toDev : toDev'[i] = toDev[i]
    BY AppendProperties, LenProperties DEF DataOK
  <1>2. \A i \in DOMAIN toDev' : i \in DOMAIN toDev \/ (i = Len(toDev) + 1 /\ toDev'[i] = c)
    BY <1>1
  <1>3. \A i, j \in DOMAIN toDev' : i < j => i \in DOMAIN toDev
    BY <1>1
  <1>4. /\ FallingSeen => FallingSeen'
        /\ RisingSeen => RisingSeen'
    BY DEF FallingSeen, RisingSeen, Statuses, At, Says
  <1>5. c \notin MoveCommands /\ FallingSent => FallingSent'
    BY <1>1, <1>2, <1>3 DEF FallingSent, MovesNot
  <1>6. c # "UNPARK" /\ RisingSent => RisingSent'
    BY <1>1, <1>2, <1>3 DEF RisingSent, NoUnpark
  <1>7. c \notin {"PARK", "TARGET", "UNPARK"} /\ Quiet => Quiet'
    BY <1>1, <1>2, <1>4, <1>6 DEF Quiet, Rising
  <1> QED BY <1>4, <1>5, <1>6, <1>7 DEF Falling, Rising, MoveCommands

\* A step of the device or the wire: what the client may see is what it might
\* have seen, with a status of the mount behind it.
Flows ==
    \E d \in {0, 1}, acked \in BOOLEAN : \A n \in Statuses' :
        \/ n + d \in Statuses /\ At(n)' = At(n + d)
        \/ d = 0 /\ n = Len(toCli) + 1 /\ At(n)' = StatusOf(mount', acked)

LEMMA StatusesFlow ==
    ASSUME DataOK, mount' \in Mounts,
           \/ UNCHANGED cache /\ (toCli' \in {toCli, <<>>} \/ \E acked \in BOOLEAN : Publish(mount', acked))
           \/ ReaderRecords
    PROVE  Flows
  <1>1. Len(toCli) \in Nat /\ toCli \in Seq(Updates) /\ DOMAIN toCli = 1 .. Len(toCli)
    BY LenProperties DEF DataOK
  <1>2. CASE UNCHANGED <<cache, toCli>>
    <2>1. \A n \in Statuses' : n + 0 \in Statuses /\ At(n)' = At(n + 0)
      BY <1>1, <1>2 DEF Statuses, At
    <2> QED BY <2>1 DEF Flows
  <1>3. CASE UNCHANGED cache /\ toCli' = <<>>
    <2>1. \A n \in Statuses' : n = 0 /\ n + 0 \in Statuses
      BY <1>1, <1>3 DEF Statuses
    <2>2. \A n \in Statuses' : n + 0 \in Statuses /\ At(n)' = At(n + 0)
      BY <1>3, <2>1 DEF At
    <2> QED BY <2>2 DEF Flows
  <1>4. ASSUME UNCHANGED cache, NEW acked \in BOOLEAN, toCli' = Append(toCli, StatusOf(mount', acked))
        PROVE  Flows
    <2>1. /\ Len(toCli') = Len(toCli) + 1 /\ toCli'[Len(toCli) + 1] = StatusOf(mount', acked)
          /\ \A n \in 1 .. Len(toCli) : toCli'[n] = toCli[n]
      <3>1. StatusOf(mount', acked) \in Updates
        BY MountTypes
      <3>2. PICK st \in Updates : st = StatusOf(mount', acked)
        BY <3>1
      <3>3. /\ Len(Append(toCli, st)) = Len(toCli) + 1 /\ Append(toCli, st)[Len(toCli) + 1] = st
            /\ \A n \in 1 .. Len(toCli) : Append(toCli, st)[n] = toCli[n]
        BY <1>1, AppendProperties
      <3> QED BY <1>4, <3>2, <3>3
    <2>2. ASSUME NEW n \in Statuses'
          PROVE  \/ n + 0 \in Statuses /\ At(n)' = At(n + 0)
                 \/ n = Len(toCli) + 1 /\ At(n)' = StatusOf(mount', acked)
      <3>1. n \in 0 .. Len(toCli) + 1 /\ n + 0 = n
        BY <1>1, <2>1, <2>2 DEF Statuses
      <3>2. CASE n = 0
        <4>1. n \in Statuses
          BY <1>1, <3>2 DEF Statuses
        <4>2. cache' = cache
          BY <1>4
        <4> QED BY <3>1, <3>2, <4>1, <4>2 DEF At
      <3>3. CASE n \in 1 .. Len(toCli)
        BY <1>1, <2>1, <3>1, <3>3 DEF Statuses, At
      <3>4. CASE n = Len(toCli) + 1
        BY <1>1, <2>1, <3>4 DEF At
      <3>5. n = 0 \/ n \in 1 .. Len(toCli) \/ n = Len(toCli) + 1
        BY <1>1, <3>1
      <3> QED BY <3>2, <3>3, <3>4, <3>5
    <2> QED BY <2>2 DEF Flows
  <1>5. CASE ReaderRecords
    <2>1. /\ toCli # <<>> /\ cache' = toCli[1] /\ Len(toCli') = Len(toCli) - 1
          /\ \A n \in 1 .. Len(toCli) - 1 : toCli'[n] = toCli[n + 1]
      <3>1. toCli # <<>> /\ cache' = Head(toCli) /\ toCli' = Tail(toCli)
        BY <1>5 DEF ReaderRecords
      <3>2. Len(toCli) \in Nat \ {0} /\ Head(toCli) = toCli[1]
        BY <3>1, LenProperties, HeadTailProperties DEF DataOK
      <3>3. Len(Tail(toCli)) = Len(toCli) - 1
        BY <1>1, <3>1, HeadTailProperties
      <3>4. \A n \in 1 .. Len(Tail(toCli)) : Tail(toCli)[n] = toCli[n + 1]
        BY <1>1, <3>1, HeadTailProperties
      <3> QED BY <3>1, <3>2, <3>3, <3>4
    <2>2. ASSUME NEW n \in Statuses' PROVE n + 1 \in Statuses /\ At(n)' = At(n + 1)
      <3>1. n \in 0 .. Len(toCli) - 1 /\ Len(toCli) > 0
        BY <1>1, <2>1, <2>2 DEF Statuses
      <3>2. CASE n = 0
        BY <1>1, <2>1, <3>1, <3>2 DEF Statuses, At
      <3>3. CASE n # 0
        BY <1>1, <2>1, <3>1, <3>3 DEF Statuses, At
      <3> QED BY <3>2, <3>3
    <2> QED BY <2>2 DEF Flows
  <1> QED BY <1>2, <1>3, <1>4, <1>5 DEF Publish

\* What the statuses say stays true of a mount that does not change back.
LEMMA SeenFlows ==
    ASSUME DataOK, mount' \in Mounts, Flows
    PROVE  /\ /\ FallingSeen
              /\ ~mount.parked => ~mount'.parked
              /\ ~mount.parked /\ ~mount.tracking => ~mount'.tracking
              => FallingSeen'
           /\ RisingSeen /\ (mount.parked => mount'.parked) => RisingSeen'
  <1>1. PICK d \in {0, 1}, acked \in BOOLEAN : \A n \in Statuses' :
           \/ n + d \in Statuses /\ At(n)' = At(n + d)
           \/ d = 0 /\ n = Len(toCli) + 1 /\ At(n)' = StatusOf(mount', acked)
    BY DEF Flows
  <1>2. /\ "P" \in StatusOf(mount', acked).gu <=> mount'.parked
        /\ "n" \in StatusOf(mount', acked).gu => ~mount'.tracking
    BY DEF StatusOf, RawGu, Slewing, Mounts
  <1>3. \A n \in Statuses' : n \in Int /\ Len(toCli) \in Nat
    BY LenProperties DEF Statuses, DataOK
  <1>4. \A n \in Statuses : n \in 0 .. Len(toCli)
    BY DEF Statuses
  <1>5. ASSUME FallingSeen, ~mount.parked => ~mount'.parked,
               ~mount.parked /\ ~mount.tracking => ~mount'.tracking
        PROVE  FallingSeen'
    <2>1. ASSUME NEW n \in Statuses', ~Says(n)'
          PROVE  ~mount'.parked /\ ("n" \in At(n)'.gu => ~mount'.tracking)
      BY <1>1, <1>2, <1>5, <2>1 DEF FallingSeen, Says
    <2>2. ASSUME NEW j \in Statuses', NEW k \in Statuses', j < k, ~Says(j)' PROVE ~Says(k)'
      <3>1. CASE k + d \in Statuses /\ At(k)' = At(k + d)
        <4>1. j + d \in Statuses /\ At(j)' = At(j + d) /\ j + d < k + d
          BY <1>1, <1>3, <1>4, <2>2, <3>1
        <4> QED BY <1>5, <2>2, <3>1, <4>1 DEF FallingSeen, Says
      <3>2. CASE At(k)' = StatusOf(mount', acked)
        BY <1>2, <2>1, <2>2, <3>2 DEF Says
      <3> QED BY <1>1, <3>1, <3>2
    <2> QED BY <2>1, <2>2 DEF FallingSeen
  <1>6. ASSUME RisingSeen, mount.parked => mount'.parked PROVE RisingSeen'
    <2>1. ASSUME NEW n \in Statuses', Says(n)' PROVE mount'.parked
      BY <1>1, <1>2, <1>6, <2>1 DEF RisingSeen, Says
    <2>2. ASSUME NEW j \in Statuses', NEW k \in Statuses', j < k, Says(j)' PROVE Says(k)'
      <3>1. CASE k + d \in Statuses /\ At(k)' = At(k + d)
        <4>1. j + d \in Statuses /\ At(j)' = At(j + d) /\ j + d < k + d
          BY <1>1, <1>3, <1>4, <2>2, <3>1
        <4> QED BY <1>6, <2>2, <3>1, <4>1 DEF RisingSeen, Says
      <3>2. CASE At(k)' = StatusOf(mount', acked)
        BY <1>2, <2>1, <2>2, <3>2 DEF Says
      <3> QED BY <1>1, <3>1, <3>2
    <2> QED BY <2>1, <2>2 DEF RisingSeen
  <1> QED BY <1>5, <1>6


\* No command but an UNPARK moves a parked mount, and none parks another at once.
LEMMA CommandsFlip ==
    ASSUME NEW m \in Mounts, MountSound(m), NEW c \in Commands
    PROVE  LET n == Apply(m, c)
           IN  /\ MountSound(n)
               /\ m.parked /\ c # "UNPARK" => n.parked
               /\ c \notin MoveCommands \/ m.parked =>
                     (m.motion # "SLEWING" => n.motion # "SLEWING")
               /\ ~m.parked =>
                     /\ ~n.parked
                     /\ ~m.tracking => ~n.tracking
                     /\ c \notin {"PARK", "TARGET"} /\ HomeBound(m) => HomeBound(n)
  <1>1. CASE c = "UNPARK"
    <2> DEFINE free == [m EXCEPT !.parked = FALSE]
    <2>1. free \in Mounts /\ free.motion = m.motion /\ ~free.parked
      BY DEF Mounts
    <2>2. Apply(m, c) \in {m, free, SetTracking(free, TRUE)}
      BY <1>1 DEF Apply, Unpark
    <2>3. ~m.parked => Apply(m, c) = m
      BY <1>1 DEF Apply, Unpark
    <2>4. m.parked => m.motion = "IDLE"
      BY DEF MountSound
    <2> HIDE DEF free
    <2>5. SetTracking(free, TRUE).motion = m.motion /\ ~SetTracking(free, TRUE).parked
      BY <2>1 DEF SetTracking, Mounts
    <2>6. CASE m.parked
      <3>1. Apply(m, c) \in {m, free, SetTracking(free, TRUE)} /\ m.motion = "IDLE"
        BY <2>2, <2>4, <2>6
      <3>2. MountSound(Apply(m, c)) /\ Apply(m, c).motion = "IDLE"
        BY <2>1, <2>5, <3>1 DEF MountSound
      <3> QED BY <1>1, <2>6, <3>2
    <2> QED BY <1>1, <2>3, <2>6
  <1>2. CASE c = "ABORT"
    <2>1. Apply(m, c) = Abort(m)
      BY <1>2 DEF Apply
    <2> QED BY <1>2, <2>1, Aborts DEF MountSound, HomeBound
  <1>3. CASE c = "TRACK_OFF"
    <2>1. Apply(m, c) = SetTracking(m, FALSE)
      BY <1>3 DEF Apply
    <2> QED BY <1>3, <2>1, TrackingOff DEF MountSound, HomeBound
  <1>4. CASE c \in MoveCommands
    <2>1. PICK k \in {"park", "home", "radec"} :
             Apply(m, c) = StartGoto(m, k) /\ (c \notin {"PARK", "TARGET"} => k = "home")
      BY <1>4 DEF Apply, MoveCommands
    <2> DEFINE s == [m EXCEPT !.manual = {}, !.target_kind = k, !.on_goal = FALSE,
                              !.motion = "SLEWING", !.at_home = FALSE]
    <2>2. CASE Apply(m, c) = m
      BY <1>4, <2>2 DEF MoveCommands
    <2>3. CASE ~m.parked /\ Apply(m, c) = SetTracking(s, FALSE)
      <3>1. s \in Mounts /\ ~s.parked /\ s.motion = "SLEWING" /\ s.target_kind = k
        BY <2>3 DEF Mounts, MotionStates, TargetKinds, ManualAxes
      <3> HIDE DEF s
      <3> QED BY <1>4, <2>1, <2>3, <3>1, TrackingOff DEF MountSound, HomeBound
    <2> QED BY <2>1, <2>2, <2>3 DEF StartGoto
  <1>5. CASE c = "SLEW"
    BY <1>5 DEF Apply
  <1> QED BY <1>1, <1>2, <1>3, <1>4, <1>5 DEF Commands, MoveCommands

\* Neither does a step of the device loop, unless it is the end of a slew.
LEMMA EdgesFlip ==
    ASSUME NEW m \in Mounts, MountSound(m), NEW n,
           n \in TickEdges(m) \/ \E f \in Faults \ {"none"} : n = SetFault(m, f)
    PROVE  /\ MountSound(n)
           /\ m.parked => n.parked
           /\ m.motion # "SLEWING" => n.motion # "SLEWING"
           /\ ~m.parked /\ m.motion # "SLEWING" => ~n.parked /\ (~m.tracking => ~n.tracking)
           /\ ~m.parked /\ ~m.tracking /\ HomeBound(m) => ~n.parked /\ ~n.tracking /\ HomeBound(n)
           /\ n.parked \/ n.motion = "SLEWING" => m.parked \/ m.motion = "SLEWING"
  <1>1. MountKeeps(m, n)
    BY EdgesKeep
  <1>2. ASSUME NEW f \in Faults \ {"none"}, n = SetFault(m, f)
        PROVE  n.parked = m.parked /\ ~n.tracking /\ n.motion # "SLEWING"
    <2> DEFINE g == [m EXCEPT !.fault = f]
    <2>1. g \in Mounts /\ g.parked = m.parked
      BY DEF Mounts
    <2> DEFINE a == Abort(g)
    <2>2. n = SetTracking(a, FALSE)
      BY <1>2 DEF SetFault
    <2> HIDE DEF g
    <2>3. a \in Mounts /\ a.parked = m.parked
      BY <2>1, Aborts
    <2> HIDE DEF a
    <2>4. ~n.tracking /\ n.parked = m.parked
      BY <2>2, <2>3, TrackingOff
    <2> QED BY <1>2, <2>4, MountHalts
  <1>3. CASE n = StopSettled(m) /\ m.motion = "STOPPING"
    BY <1>1, <1>3 DEF StopSettled, Mounts, MountKeeps, HomeBound
  <1>4. CASE n = Near(m) /\ m.motion = "SLEWING" /\ m.target_kind = "radec"
    BY <1>1, <1>4 DEF Near, Mounts, MountKeeps, HomeBound
  <1>5. CASE n = Arrive(m) /\ m.motion = "SLEWING"
    <2>1. n.motion = "IDLE"
      <3> DEFINE there == [m EXCEPT !.motion = "IDLE", !.target_kind = "none"]
      <3>1. there \in Mounts /\ there.motion = "IDLE"
        BY DEF Mounts, MotionStates, TargetKinds
      <3>2. n \in {[there EXCEPT !.parked = TRUE], [there EXCEPT !.at_home = TRUE],
                   [there EXCEPT !.on_goal = TRUE],
                   SetTracking([there EXCEPT !.on_goal = TRUE], TRUE)}
        BY <1>5 DEF Arrive
      <3> HIDE DEF there
      <3>3. [there EXCEPT !.on_goal = TRUE] \in Mounts /\ [there EXCEPT !.on_goal = TRUE].motion = "IDLE"
        BY <3>1 DEF Mounts
      <3>4. SetTracking([there EXCEPT !.on_goal = TRUE], TRUE).motion = "IDLE"
        BY <3>3 DEF SetTracking, Mounts
      <3> QED BY <3>1, <3>2, <3>3, <3>4 DEF Mounts
    <2>2. m.target_kind = "home" => n.parked = m.parked /\ n.tracking = m.tracking
      BY <1>5 DEF Arrive, Mounts
    <2> QED BY <1>1, <1>5, <2>1, <2>2 DEF MountKeeps, HomeBound
  <1>6. CASE \E f \in Faults \ {"none"} : n = SetFault(m, f)
    BY <1>1, <1>2, <1>6 DEF MountKeeps, HomeBound
  <1> QED BY <1>3, <1>4, <1>5, <1>6 DEF TickEdges

\* Every step of the device, the wire and the reader.
LEMMA WorldFlips ==
    ASSUME DataOK, DataOK', MountSound(mount), Device \/ ConnectionDrops \/ ReaderRecords
    PROVE  /\ MountSound(mount)'
           /\ Falling => Falling'
           /\ Rising => Rising'
           /\ Quiet => Quiet'
  <1>1. mount \in Mounts /\ mount' \in Mounts /\ toDev \in Seq(Commands)
    BY DEF DataOK
  <1>2. Flows
    BY <1>1, StatusesFlow DEF Device, DeviceHandlesWrite, DeviceTick, DevicePublishes, DeviceFaults,
          ConnectionDrops, ReaderRecords, client
  <1>3. CASE DeviceHandlesWrite
    <2>1. /\ Len(toDev) \in Nat \ {0} /\ DOMAIN toDev = 1 .. Len(toDev) /\ 1 \in DOMAIN toDev
          /\ mount' = Apply(mount, toDev[1]) /\ toDev[1] \in Commands
          /\ \A i \in DOMAIN toDev' : i + 1 \in DOMAIN toDev /\ toDev'[i] = toDev[i + 1]
          /\ \A i \in DOMAIN toDev' : 1 < i + 1
          /\ \A i, j \in DOMAIN toDev' : i < j => i + 1 < j + 1
      <3>1. toDev # <<>> /\ toDev' = Tail(toDev) /\ mount' = Apply(mount, Head(toDev))
        BY <1>3 DEF DeviceHandlesWrite
      <3>2. Len(toDev) \in Nat \ {0} /\ DOMAIN toDev = 1 .. Len(toDev)
        BY <1>1, <3>1, LenProperties
      <3>3. /\ Head(toDev) = toDev[1] /\ toDev[1] \in Commands /\ DOMAIN toDev' = 1 .. Len(toDev) - 1
            /\ \A i \in 1 .. Len(toDev) - 1 : toDev'[i] = toDev[i + 1]
        BY <1>1, <3>1, <3>2, HeadTailProperties
      <3> QED BY <3>1, <3>2, <3>3
    <2>2. PICK c \in Commands : c = toDev[1]
      BY <2>1
    <2>3. /\ MountSound(mount')
          /\ mount.parked /\ c # "UNPARK" => mount'.parked
          /\ c \notin MoveCommands \/ mount.parked =>
                (mount.motion # "SLEWING" => mount'.motion # "SLEWING")
          /\ ~mount.parked =>
                /\ ~mount'.parked
                /\ ~mount.tracking => ~mount'.tracking
                /\ c \notin {"PARK", "TARGET"} /\ HomeBound(mount) => HomeBound(mount')
      BY <1>1, <2>1, <2>2, CommandsFlip
    <2>4. ASSUME Falling PROVE Falling'
      <3>1. FallingSeen'
        BY <1>1, <1>2, <2>3, <2>4, SeenFlows DEF Falling
      <3> SUFFICES FallingSent'
        BY <3>1 DEF Falling
      <3>2. CASE mount.parked /\ mount'.parked
        BY <2>1, <2>4, <3>2 DEF Falling, FallingSent
      <3>3. CASE mount.parked /\ ~mount'.parked
        <4>1. c = "UNPARK" /\ mount.motion # "SLEWING"
          BY <2>3, <3>3 DEF MountSound
        <4>2. MovesNot'
          BY <2>1, <2>2, <2>4, <3>3, <4>1 DEF Falling, FallingSent, MovesNot
        <4> QED BY <2>3, <3>3, <4>1, <4>2 DEF FallingSent
      <3>4. CASE ~mount.parked
        <4>1. MovesNot /\ mount.motion # "SLEWING"
          BY <2>4, <3>4 DEF Falling, FallingSent
        <4>2. MovesNot' /\ c \notin MoveCommands
          BY <2>1, <2>2, <4>1 DEF MovesNot
        <4> QED BY <2>3, <3>4, <4>1, <4>2 DEF FallingSent
      <3> QED BY <3>2, <3>3, <3>4
    <2>5. ASSUME Rising PROVE Rising'
      <3>1. mount.parked => c # "UNPARK"
        BY <2>1, <2>2, <2>5 DEF Rising, RisingSent, NoUnpark
      <3>2. RisingSeen'
        BY <1>1, <1>2, <2>3, <2>5, <3>1, SeenFlows DEF Rising
      <3>3. c \in MoveCommands => NoUnpark'
        BY <2>1, <2>2, <2>5 DEF Rising, RisingSent, NoUnpark
      <3>4. mount.parked \/ mount.motion = "SLEWING" => NoUnpark'
        BY <2>1, <2>5 DEF Rising, RisingSent, NoUnpark
      <3>5. mount'.parked \/ mount'.motion = "SLEWING" => NoUnpark'
        BY <2>3, <3>3, <3>4
      <3>6. \A i, j \in DOMAIN toDev' : i < j /\ toDev'[i] \in MoveCommands => toDev'[j] # "UNPARK"
        BY <2>1, <2>5 DEF Rising, RisingSent
      <3> QED BY <3>2, <3>5, <3>6 DEF Rising, RisingSent
    <2>6. ASSUME Quiet PROVE Quiet'
      <3>1. c \notin {"PARK", "TARGET"} /\ \A i \in DOMAIN toDev' : toDev'[i] \notin {"PARK", "TARGET"}
        BY <2>1, <2>2, <2>6 DEF Quiet
      <3> QED BY <2>3, <2>5, <2>6, <3>1 DEF Quiet
    <2> QED BY <2>3, <2>4, <2>5, <2>6
  <1>4. ASSUME toDev' \in {toDev, <<>>}, MountSound(mount'),
               mount.parked => mount'.parked,
               mount.motion # "SLEWING" => mount'.motion # "SLEWING",
               ~mount.parked /\ mount.motion # "SLEWING" =>
                  ~mount'.parked /\ (~mount.tracking => ~mount'.tracking),
               ~mount.parked /\ ~mount.tracking /\ HomeBound(mount) =>
                  ~mount'.parked /\ ~mount'.tracking /\ HomeBound(mount'),
               mount'.parked \/ mount'.motion = "SLEWING" => mount.parked \/ mount.motion = "SLEWING"
        PROVE  /\ Falling => Falling'
               /\ Rising => Rising'
               /\ Quiet => Quiet'
    <2>1. \A i \in DOMAIN toDev' : i \in DOMAIN toDev /\ toDev'[i] = toDev[i]
      BY <1>4
    <2>2. Falling => Falling'
      <3>1. FallingSent /\ ~mount.parked => mount.motion # "SLEWING"
        BY DEF FallingSent
      <3>2. Falling => FallingSeen'
        BY <1>1, <1>2, <1>4, <3>1, SeenFlows DEF Falling
      <3>3. FallingSent => FallingSent'
        BY <1>4, <2>1 DEF FallingSent, MovesNot
      <3> QED BY <3>2, <3>3 DEF Falling
    <2>3. Rising => Rising'
      <3>1. Rising => RisingSeen'
        BY <1>1, <1>2, <1>4, SeenFlows DEF Rising
      <3>2. RisingSent => RisingSent'
        BY <1>4, <2>1 DEF RisingSent, NoUnpark
      <3> QED BY <3>1, <3>2 DEF Rising
    <2>4. Quiet => Quiet'
      BY <1>4, <2>1, <2>3 DEF Quiet
    <2> QED BY <2>2, <2>3, <2>4
  <1>5. CASE ReaderRecords \/ ConnectionDrops \/ DevicePublishes
    <2>1. UNCHANGED mount /\ toDev' \in {toDev, <<>>}
      BY <1>5 DEF ReaderRecords, ConnectionDrops, DevicePublishes
    <2> QED BY <1>4, <2>1
  <1>6. CASE DeviceTick \/ \E f \in Faults \ {"none"} : DeviceFaults(f)
    <2>1. PICK n : n = mount'
      OBVIOUS
    <2>2. n \in TickEdges(mount) \/ \E f \in Faults \ {"none"} : n = SetFault(mount, f)
      BY <1>6, <2>1 DEF DeviceTick, DeviceFaults
    <2>3. toDev' = toDev
      BY <1>6 DEF DeviceTick, DeviceFaults
    <2>4. /\ MountSound(n)
          /\ mount.parked => n.parked
          /\ mount.motion # "SLEWING" => n.motion # "SLEWING"
          /\ ~mount.parked /\ mount.motion # "SLEWING" => ~n.parked /\ (~mount.tracking => ~n.tracking)
          /\ ~mount.parked /\ ~mount.tracking /\ HomeBound(mount) =>
                ~n.parked /\ ~n.tracking /\ HomeBound(n)
          /\ n.parked \/ n.motion = "SLEWING" => mount.parked \/ mount.motion = "SLEWING"
      BY <1>1, <2>2, EdgesFlip
    <2> QED BY <1>4, <2>1, <2>3, <2>4
  <1> QED BY <1>3, <1>5, <1>6 DEF Device

\* close() throws away what is on its way to the client.
LEMMA CloseFlips ==
    ASSUME DataOK, toCli' = <<>>, UNCHANGED <<mount, toDev, cache>>
    PROVE  /\ Falling => Falling'
           /\ Rising => Rising'
           /\ Quiet => Quiet'
  <1>1. mount' \in Mounts /\ Flows
    BY StatusesFlow DEF DataOK
  <1>2. /\ FallingSeen => FallingSeen'
        /\ RisingSeen => RisingSeen'
    BY <1>1, SeenFlows
  <1>3. /\ FallingSent => FallingSent'
        /\ RisingSent => RisingSent'
    BY DEF FallingSent, RisingSent, MovesNot, NoUnpark
  <1> QED BY <1>2, <1>3 DEF Falling, Rising, Quiet, HomeBound

\* A status that is not parked and does not track, of a mount that falls.
Calm == ~Says(0) /\ "n" \in cache.gu

LEMMA CalmQuiet ==
    ASSUME DataOK, Falling, Calm
    PROVE  Quiet
  <1>1. 0 \in Statuses /\ At(0) = cache
    BY LenProperties DEF Statuses, At, DataOK
  <1>2. ~mount.parked /\ ~mount.tracking
    BY <1>1 DEF Falling, FallingSeen, Calm
  <1>3. MovesNot /\ mount.motion # "SLEWING"
    BY <1>2 DEF Falling, FallingSent
  <1>4. Rising
    BY Flips DEF Calm
  <1> QED BY <1>2, <1>3, <1>4 DEF Quiet, HomeBound, MovesNot, MoveCommands

\* What a step of a thread has to bring along.
LEMMA ThreadFlips ==
    ASSUME DataOK, NEW a \in Apps, FlipOK(a),
           UNCHANGED <<mount, toCli, cache>>,
           \/ UNCHANGED toDev
           \/ \E c \in Commands :
                 /\ toDev' = Append(toDev, c)
                 /\ c = "UNPARK" => Falling /\ ~WorkerGoes' /\ ~Unparked(a)'
                 /\ c \in MoveCommands =>
                       Rising /\ ~Unparks(a)' /\ (Unparked(a)' => c = "GO"),
           WorkerGoes' => Rising,
           Unparks(a)' => Falling,
           Unparked(a)' => Quiet
    PROVE  FlipOK(a)'
  <1>1. CASE UNCHANGED toDev
    <2>1. (Falling => Falling') /\ (Rising => Rising') /\ (Quiet => Quiet')
      BY <1>1 DEF Falling, FallingSeen, FallingSent, MovesNot, Rising, RisingSeen, RisingSent,
                  NoUnpark, Quiet, Statuses, At, Says
    <2> QED BY <2>1 DEF FlipOK
  <1>2. ASSUME NEW c \in Commands, toDev' = Append(toDev, c),
               c = "UNPARK" => Falling /\ ~WorkerGoes' /\ ~Unparked(a)',
               c \in MoveCommands => Rising /\ ~Unparks(a)' /\ (Unparked(a)' => c = "GO")
        PROVE  FlipOK(a)'
    <2>1. /\ c \notin MoveCommands =>
                /\ Falling => Falling'
                /\ Rising /\ c # "UNPARK" => Rising'
                /\ Quiet /\ c # "UNPARK" => Quiet'
          /\ c \in MoveCommands =>
                /\ Rising => Rising'
                /\ Quiet /\ c = "GO" => Quiet'
      BY <1>2, FlipsSent
    <2>2. CASE c = "UNPARK"
      <3>1. c \notin MoveCommands
        BY <2>2 DEF MoveCommands
      <3> QED BY <1>2, <2>1, <2>2, <3>1 DEF FlipOK
    <2>3. CASE c \in MoveCommands
      BY <1>2, <2>1, <2>3 DEF FlipOK
    <2>4. CASE c # "UNPARK" /\ c \notin MoveCommands
      BY <2>1, <2>4 DEF FlipOK
    <2> QED BY <2>2, <2>3, <2>4
  <1> QED BY <1>1, <1>2

-----------------------------------------------------------------------------
(* What the steps of the application and the workers bring along.          *)

\* A worker is past its preflight only with a status that is not parked.
LEMMA WorkerPreflight ==
    ASSUME TypeOK, NEW t \in Workers, MoverStep(t) \/ Deadline(t),
           pc[t] = "preflight", op[t] \in MoveOps, pc'[t] \in Going
    PROVE  ~Says(0)
  <1>1. t \in Threads /\ pc \in [Threads -> PCs] /\ IsWorker(t)
    BY ThreadFacts DEF TypeOK, IsWorker
  <1>2. PreflightHome(t) \/ PreflightPark(t) \/ PreflightAxis(t)
    BY DEF MoverStep, Deadline, PreflightUnpark, MoveOps,
           CheckToken, SendCoordSet, AwaitCoordSet, IssueCommand, LoopTop, SendTrackOff,
           PollFails, PollGoesOn, PollConfirms, PollUnparked, PollSlice, PollGood, PollReads,
           AxisUnsafe, AxisMoving, AxisConfirming, AxisObserves
  <1>3. ~\E out, conf : End(t, out, conf)
    <2>1. "finish" \notin Going
      BY DEF Going, BeforeGo
    <2> QED BY <1>1, <2>1 DEF End, Jump
  <1>4. ~S.parked
    BY <1>2, <1>3 DEF PreflightHome, PreflightPark, PreflightAxis, AxisCheck
  <1> QED BY <1>4 DEF S, DecodeGu, Says, At

\* A blocking call goes on, returns, or is a route that goes on to HOME.
CallRunsOK(t, l, r, o) ==
    \/ /\ o = op[t] /\ l \notin {"idle", "preflight"} /\ ~r.conf
       /\ pc[t] # "preflight" \/ op[t] = "home" \/ Says(0)
    \/ /\ o = "none" /\ l = "idle"
       /\ r.conf => op[t] = "home" \/ (Unparks(t) /\ Calm)
    \/ /\ o = "home" /\ l = "check" /\ ~r.conf /\ Unparks(t) /\ Calm

LEMMA CallRuns ==
    ASSUME TypeOK, NEW t \in Apps, op[t] \in {"unpark", "route", "home"}, ~loc[t].conf,
           MoverStep(t) \/ Deadline(t)
    PROVE  \E l, r, o : Runs(t, l, r, o) /\ CallRunsOK(t, l, r, o)
  <1> DEFINE Goal == \E l, r, o : Runs(t, l, r, o) /\ CallRunsOK(t, l, r, o)
  <1>1. /\ t \in Threads /\ ~IsWorker(t) /\ loc[t] \in Locals
        /\ op = [op EXCEPT ![t] = op[t]] /\ loc = [loc EXCEPT ![t] = loc[t]]
    BY ThreadFacts DEF TypeOK, IsWorker
  <1>2. NoLocals.conf = FALSE /\ \A out, conf : Result(out, conf).conf = conf
    BY DEF NoLocals, Result
  <1>3. ASSUME NEW out, NEW conf, End(t, out, conf),
               conf => op[t] = "home" \/ (Unparks(t) /\ Calm)
        PROVE  Goal
    <2>1. Runs(t, "idle", Result("unused", conf), "none")
      BY <1>1, <1>3 DEF End, Jump, Runs
    <2>2. CallRunsOK(t, "idle", Result("unused", conf), "none")
      BY <1>2, <1>3 DEF CallRunsOK
    <2> QED BY <2>1, <2>2
  <1>4. ASSUME NEW l, NEW r, Jump(t, l), UNCHANGED op, loc' = [loc EXCEPT ![t] = r], ~r.conf,
               l \notin {"idle", "preflight"},
               pc[t] # "preflight" \/ op[t] = "home" \/ Says(0)
        PROVE  Goal
    <2>1. Runs(t, l, r, op[t])
      BY <1>1, <1>4 DEF Jump, Runs
    <2>2. CallRunsOK(t, l, r, op[t])
      BY <1>4 DEF CallRunsOK
    <2> QED BY <2>1, <2>2
  <1>5. ASSUME Fail(t), pc[t] # "preflight" PROVE Goal
    <2>1. PICK l \in {"begin", "abort"} : Jump(t, l)
      BY <1>5 DEF Fail
    <2> QED BY <1>2, <1>4, <1>5, <2>1 DEF Fail
  <1>6. ASSUME NEW l, Jump(t, l), UNCHANGED <<op, loc>>, l \notin {"idle", "preflight"},
               pc[t] # "preflight" \/ op[t] = "home" \/ Says(0)
        PROVE  Goal
    BY <1>1, <1>4, <1>6
  <1>7. CASE PreflightHome(t) \/ PreflightUnpark(t)
    <2>1. CASE \E out : End(t, out, FALSE)
      BY <1>3, <2>1
    <2>2. CASE Jump(t, "check") /\ UNCHANGED <<op, loc>> /\ (op[t] = "home" \/ S.parked)
      <3>1. op[t] = "home" \/ Says(0)
        BY <2>2 DEF S, DecodeGu, Says, At
      <3> QED BY <1>6, <2>2, <3>1
    <2> QED BY <1>7, <2>1, <2>2 DEF PreflightHome, PreflightUnpark
  <1>8. CASE CheckToken(t) \/ SendCoordSet(t) \/ AwaitCoordSet(t)
    <2>1. CASE \E out : End(t, out, FALSE)
      BY <1>3, <2>1
    <2>2. pc[t] # "preflight"
      BY <1>8 DEF CheckToken, SendCoordSet, AwaitCoordSet
    <2>3. \A l \in {"coordset", "coordwait", "issue"} : Jump(t, l) /\ UNCHANGED <<op, loc>> => Goal
      BY <1>6, <2>2
    <2> QED BY <1>8, <2>1, <2>3 DEF CheckToken, SendCoordSet, AwaitCoordSet
  <1>9. CASE IssueCommand(t) \/ LoopTop(t) \/ PollSlice(t) \/ Deadline(t) \/ PollFails(t)
    <2>1. CASE \E out : End(t, out, FALSE)
      BY <1>3, <2>1
    <2>2. pc[t] # "preflight"
      BY <1>9 DEF IssueCommand, LoopTop, PollSlice, Deadline, PollFails, PollReads
    <2>3. \A l \in {"loop", "poll"} : Jump(t, l) /\ UNCHANGED <<op, loc>> => Goal
      BY <1>6, <2>2
    <2> QED BY <1>9, <1>5, <2>1, <2>2, <2>3
          DEF IssueCommand, LoopTop, PollSlice, Deadline, PollFails
  <1>10. CASE PollGoesOn(t)
    <2> DEFINE r == [loc[t] EXCEPT !.stable = StableAfter(t)]
    <2>1. ~r.conf
      BY <1>1 DEF Locals
    <2>2. Jump(t, "loop") /\ UNCHANGED op /\ loc' = [loc EXCEPT ![t] = r] /\ pc[t] = "poll"
      BY <1>10 DEF PollGoesOn, PollGood, PollReads
    <2> HIDE DEF r
    <2> QED BY <1>4, <2>1, <2>2
  <1>11. CASE PollConfirms(t)
    <2>1. End(t, "succeeded", TRUE) /\ op[t] = "home"
      BY <1>11 DEF PollConfirms
    <2> QED BY <1>3, <2>1
  <1>12. CASE PollUnparked(t)
    <2>1. op[t] \in {"unpark", "route"} /\ pc[t] = "poll" /\ StableAfter(t) = 1
      BY <1>12 DEF PollUnparked, PollGood, PollReads, StablePolls
    <2>2. Unparks(t)
      BY <2>1 DEF Unparks
    <2>3. ~Says(0) /\ (~S.tracking => "n" \in cache.gu)
      <3>1. Arrived(op[t], loc[t].phase)
        BY <2>1 DEF StableAfter
      <3>2. S.not_parked
        BY <2>1, <3>1 DEF Arrived
      <3> QED BY <3>2 DEF S, DecodeGu, Says, At
    <2>4. CASE Jump(t, "off") /\ UNCHANGED <<op, loc>>
      BY <1>6, <2>1, <2>4
    <2>5. CASE ~S.tracking /\ End(t, "succeeded", TRUE)
      BY <1>3, <2>2, <2>3, <2>5 DEF Calm
    <2>6. CASE /\ ~S.tracking /\ Jump(t, "check") /\ op' = [op EXCEPT ![t] = "home"]
               /\ loc' = [loc EXCEPT ![t] = NoLocals]
      <3>1. Runs(t, "check", NoLocals, "home")
        BY <2>6 DEF Runs, Jump
      <3>2. CallRunsOK(t, "check", NoLocals, "home")
        BY <1>2, <2>2, <2>3, <2>6 DEF CallRunsOK, Calm
      <3> QED BY <3>1, <3>2
    <2> QED BY <1>12, <2>4, <2>5, <2>6 DEF PollUnparked
  <1>13. CASE SendTrackOff(t)
    <2>1. pc[t] = "off"
      BY <1>13 DEF SendTrackOff
    <2>2. CASE Fail(t)
      BY <1>5, <2>1, <2>2
    <2>3. CASE ~Fail(t)
      <3> DEFINE r == [NoLocals EXCEPT !.phase = "off"]
      <3>1. ~r.conf
        BY DEF NoLocals, Result
      <3>2. Jump(t, "loop") /\ UNCHANGED op /\ loc' = [loc EXCEPT ![t] = r]
        BY <1>13, <2>3 DEF SendTrackOff
      <3> HIDE DEF r
      <3> QED BY <1>4, <2>1, <3>1, <3>2
    <2> QED BY <2>2, <2>3
  <1> QED BY <1>7, <1>8, <1>9, <1>10, <1>11, <1>12, <1>13
        DEF MoverStep, PreflightPark, PreflightAxis, AxisUnsafe, AxisMoving, AxisConfirming, AxisObserves

-----------------------------------------------------------------------------
(* Every step keeps what is known of the unparking.                        *)

\* What the step lemmas start from.
FlipHere(a) ==
    /\ IInv /\ StableOK /\ KindsOK
    /\ MountSound(mount) /\ CallsOK(a) /\ FlipOK(a)

LEMMA WorkerFlips ==
    ASSUME NEW a \in Apps, FlipHere(a), NEW t \in Workers, MoverStep(t) \/ Deadline(t)
    PROVE  CallsOK(a)' /\ FlipOK(a)'
  <1>1. /\ TypeOK /\ OneMoveAtATime /\ KindsOK /\ StableOK /\ motion \in 0 .. MaxMoves /\ DataOK
        /\ t \in Movers /\ t \in Threads /\ a \in Threads /\ a # t
    BY IInvTypes, ThreadFacts DEF FlipHere, IInv, HandlesOK, TypeOK
  <1>2. PICK l, r, o : Runs(t, l, r, o) /\ RunsOK(t, l, r, o)
    BY <1>1, MoverRuns
  <1>3. pc[t] # "idle"
    BY <1>1, MoverRuns DEF MoverPlaces, BeforeGo
  <1>4. motion \in Handles /\ t = Worker(motion) /\ op[t] \in MoveOps
    BY <1>1, <1>3, WorkerRuns
  <1>5. op[a] = "none" /\ ~loc[a].conf
    BY <1>3, <1>4 DEF FlipHere, CallsOK
  <1>6. /\ pc'[t] = l /\ \A u \in Threads \ {t} : pc'[u] = pc[u]
        /\ pc'[a] = pc[a] /\ op'[a] = op[a] /\ loc'[a] = loc[a]
    BY <1>1, <1>2 DEF Runs, TypeOK
  <1>7. ~Unparks(a)' /\ ~Unparked(a)'
    BY <1>5, <1>6 DEF Unparks, Unparked
  <1>8. WorkerGoes' => Rising
    <2> SUFFICES ASSUME NEW i \in Handles, pc'[Worker(i)] \in Going PROVE Rising
      BY DEF WorkerGoes
    <2>1. Worker(i) \in Threads
      BY ThreadFacts
    <2>2. CASE pc[Worker(i)] \in Going
      BY <2>2 DEF FlipHere, FlipOK, WorkerGoes
    <2>3. CASE pc[Worker(i)] \notin Going
      <3>1. Worker(i) = t
        BY <1>6, <2>1, <2>3
      <3>2. pc[t] = "preflight"
        BY <1>2, <1>4, <1>6, <2>3, <3>1 DEF RunsOK, Going, MoveOps
      <3>3. ~Says(0)
        BY <1>1, <1>4, <3>1, <3>2, WorkerPreflight
      <3> QED BY <1>1, <3>3, Flips DEF FlipHere, FlipOK
    <2> QED BY <2>2, <2>3
  <1>9. UNCHANGED <<mount, toCli, cache>>
    BY <1>1, MoverSends
  <1>10. \/ UNCHANGED toDev
         \/ \E c \in Commands :
               /\ toDev' = Append(toDev, c)
               /\ c # "UNPARK"
               /\ c \in MoveCommands => Rising
    <2>1. CASE Issues(t)
      <3>1. CommandOf(op[t]) \in Commands \ {"UNPARK"}
        BY <1>4 DEF CommandOf, Commands, MoveOps
      <3>2. Rising
        <4>1. pc[Worker(motion)] \in Going
          BY <1>4, <2>1 DEF Issues, Going, BeforeGo
        <4> QED BY <1>4, <4>1 DEF FlipHere, FlipOK, WorkerGoes
      <3> QED BY <2>1, <3>1, <3>2 DEF Issues
    <2>2. CASE ~Issues(t)
      BY <1>1, <2>2, MoverSends DEF Commands, MoveCommands
    <2> QED BY <2>1, <2>2
  <1>11. FlipOK(a)'
    BY <1>1, <1>7, <1>8, <1>9, <1>10, ThreadFlips DEF FlipHere
  <1>12. CallsOK(a)'
    BY <1>5, <1>6 DEF FlipHere, CallsOK
  <1> QED BY <1>11, <1>12

LEMMA CallFlips ==
    ASSUME NEW a \in Apps, FlipHere(a), MoverStep(a) \/ Deadline(a)
    PROVE  CallsOK(a)' /\ FlipOK(a)'
  <1>1. /\ TypeOK /\ DataOK /\ StableOK /\ a \in Movers /\ a \in Threads
        /\ \A i \in Handles : Worker(i) \in Threads /\ Worker(i) # a
    BY IInvTypes, ThreadFacts DEF FlipHere, IInv
  <1>2. pc[a] \in MoverPlaces /\ pc[a] # "idle"
    BY <1>1, MoverRuns DEF MoverPlaces, BeforeGo
  <1>3. /\ op[a] \in {"unpark", "route", "home"} /\ ~loc[a].conf
        /\ \A i \in Handles : pc[Worker(i)] = "idle"
    BY <1>2 DEF FlipHere, CallsOK
  <1>4. PICK l, r, o : Runs(a, l, r, o) /\ CallRunsOK(a, l, r, o)
    BY <1>1, <1>3, CallRuns
  <1>5. /\ pc'[a] = l /\ op'[a] = o /\ loc'[a] = r
        /\ \A i \in Handles : pc'[Worker(i)] = "idle"
    BY <1>1, <1>3, <1>4 DEF Runs, TypeOK
  <1>6. ~WorkerGoes'
    <2>1. "idle" \notin Going
      BY DEF Going, BeforeGo
    <2> QED BY <1>5, <2>1 DEF WorkerGoes
  <1>7. Unparks(a)' => Falling
    <2>1. ASSUME Unparks(a)' PROVE Unparks(a) \/ Says(0)
      <3>1. o \in {"unpark", "route"}
        BY <1>5, <2>1 DEF Unparks
      <3> QED BY <1>4, <3>1 DEF CallRunsOK, Unparks
    <2>2. Says(0) => Falling
      BY <1>1, Flips DEF FlipHere, FlipOK
    <2> QED BY <2>1, <2>2 DEF FlipHere, FlipOK
  <1>8. Unparked(a)' => Quiet
    <2>1. ASSUME Unparked(a)' PROVE op[a] = "home" \/ (Unparks(a) /\ Calm)
      <3>1. o = "home" \/ r.conf
        BY <1>5, <2>1 DEF Unparked
      <3> QED BY <1>4, <3>1 DEF CallRunsOK
    <2>2. op[a] = "home" => Quiet
      BY DEF FlipHere, FlipOK, Unparked
    <2>3. Unparks(a) /\ Calm => Quiet
      BY <1>1, CalmQuiet DEF FlipHere, FlipOK
    <2> QED BY <2>1, <2>2, <2>3
  <1>9. UNCHANGED <<mount, toCli, cache>>
    BY <1>1, MoverSends
  <1>10. \/ UNCHANGED toDev
         \/ \E c \in Commands :
               /\ toDev' = Append(toDev, c)
               /\ c = "UNPARK" => Falling /\ ~WorkerGoes' /\ ~Unparked(a)'
               /\ c \in MoveCommands =>
                     Rising /\ ~Unparks(a)' /\ (Unparked(a)' => c = "GO")
    <2>1. CASE Issues(a)
      <3>1. l = "loop" /\ pc[a] = "issue"
        BY <1>1, <1>4, <2>1 DEF Issues, Runs, TypeOK
      <3>2. o = op[a] /\ ~r.conf
        BY <1>4, <3>1 DEF CallRunsOK
      <3>3. toDev' = Append(toDev, CommandOf(op[a]))
        BY <2>1 DEF Issues
      <3>4. CASE op[a] = "home"
        <4>1. CommandOf(op[a]) = "GO" /\ "GO" \in Commands
          BY <3>4 DEF CommandOf, Commands
        <4>2. Rising
          BY <3>4 DEF FlipHere, FlipOK, Unparked, Quiet
        <4>3. ~Unparks(a)'
          BY <1>5, <3>2, <3>4 DEF Unparks
        <4> QED BY <3>3, <4>1, <4>2, <4>3
      <3>5. CASE op[a] \in {"unpark", "route"}
        <4>1. CommandOf(op[a]) = "UNPARK" /\ "UNPARK" \in Commands \ MoveCommands
          BY <3>5 DEF CommandOf, Commands, MoveCommands
        <4>2. Falling
          BY <3>1, <3>5 DEF FlipHere, FlipOK, Unparks
        <4>3. ~Unparked(a)'
          BY <1>5, <3>2, <3>5 DEF Unparked
        <4> QED BY <1>6, <3>3, <4>1, <4>2, <4>3
      <3> QED BY <1>3, <3>4, <3>5
    <2>2. CASE ~Issues(a)
      BY <1>1, <2>2, MoverSends DEF Commands, MoveCommands
    <2> QED BY <2>1, <2>2
  <1>11. FlipOK(a)'
    BY <1>1, <1>6, <1>7, <1>8, <1>9, <1>10, ThreadFlips DEF FlipHere
  <1>12. CallsOK(a)'
    <2>1. /\ o \in {"none", "unpark", "route", "home"}
          /\ l = "idle" <=> o = "none"
          /\ r.conf => l = "idle"
      BY <1>3, <1>4 DEF CallRunsOK
    <2>2. "idle" \notin MoverPlaces
      BY DEF MoverPlaces, BeforeGo
    <2> QED BY <1>5, <2>1, <2>2 DEF CallsOK
  <1> QED BY <1>11, <1>12

\* A thread whose step sends nothing that moves the mount, and which leaves the
\* moves: it ends its blocking call at most, and confirms nothing.
LEMMA EndFlips ==
    ASSUME NEW a \in Apps, FlipHere(a),
           UNCHANGED <<mount, toCli, cache>>,
           \/ UNCHANGED toDev
           \/ \E c \in Commands \ MoveCommands : c # "UNPARK" /\ toDev' = Append(toDev, c),
           NEW t \in Threads, NEW l, NEW r, NEW o, Runs(t, l, r, o),
           l \notin MoverPlaces, t \in Workers => pc[t] # "idle",
           t = a => /\ (o = op[a] /\ l # "idle") \/ o = "none"
                    /\ ~r.conf /\ pc[a] # "preflight"
    PROVE  CallsOK(a)' /\ FlipOK(a)'
  <1>1. DataOK /\ TypeOK /\ a \in Threads /\ a \notin Workers
        /\ \A i \in Handles : Worker(i) \in Threads /\ Worker(i) \in Workers
    BY IInvTypes, ThreadFacts DEF FlipHere, IInv
  <1>2. /\ pc'[t] = l /\ op'[t] = o /\ loc'[t] = r
        /\ \A u \in Threads \ {t} : pc'[u] = pc[u] /\ op'[u] = op[u] /\ loc'[u] = loc[u]
    BY DEF FlipHere, IInv, ThreadsOK, Runs
  <1>3. l \notin Going
    BY DEF Going, MoverPlaces
  <1>4. WorkerGoes' => WorkerGoes
    <2> SUFFICES ASSUME NEW i \in Handles, pc'[Worker(i)] \in Going PROVE pc[Worker(i)] \in Going
      BY DEF WorkerGoes
    <2> QED BY <1>1, <1>2, <1>3
  <1>5. /\ Unparks(a)' => Unparks(a)
        /\ Unparked(a)' => Unparked(a)
    BY <1>1, <1>2 DEF Unparks, Unparked
  <1>6. FlipOK(a)'
    <2>1. /\ WorkerGoes' => Rising
          /\ Unparks(a)' => Falling
          /\ Unparked(a)' => Quiet
      BY <1>4, <1>5 DEF FlipHere, FlipOK
    <2> QED BY <1>1, <2>1, ThreadFlips DEF FlipHere
  <1>7. CallsOK(a)'
    <2>1. CASE t = a
      <3>1. \A i \in Handles : pc'[Worker(i)] = pc[Worker(i)]
        BY <1>1, <1>2, <2>1
      <3>2. pc'[a] \notin MoverPlaces /\ ~loc'[a].conf /\ op'[a] \in {op[a], "none"}
            /\ (pc'[a] = "idle" => op'[a] = "none")
        BY <1>2, <2>1
      <3> QED BY <3>1, <3>2 DEF FlipHere, CallsOK
    <2>2. CASE t # a
      <3>1. pc'[a] = pc[a] /\ op'[a] = op[a] /\ loc'[a] = loc[a]
        BY <1>1, <1>2, <2>2
      <3>2. op[a] # "none" \/ loc[a].conf => \A i \in Handles : pc'[Worker(i)] = "idle"
        BY <1>1, <1>2 DEF FlipHere, CallsOK
      <3> QED BY <3>1, <3>2 DEF FlipHere, CallsOK
    <2> QED BY <2>1, <2>2
  <1> QED BY <1>6, <1>7

\* A stop of the application ends its call, if it was the stop of one.
LEMMA StopEndsCall ==
    ASSUME TypeOK, NEW a \in Apps, ~loc[a].conf, StopStep(a) \/ StopDeadline(a)
    PROVE  /\ pc[a] \notin {"idle", "preflight"}
           /\ (op'[a] = op[a] /\ pc'[a] # "idle") \/ op'[a] = "none"
           /\ ~loc'[a].conf
  <1>1. /\ a \in Threads /\ ~IsWorker(a) /\ a # Cls /\ loc \in [Threads -> Locals]
        /\ op \in [Threads -> AllOps \cup {"none"}] /\ pc \in [Threads -> PCs]
    BY ThreadFacts DEF TypeOK, IsWorker
  <1>2. pc[a] \notin {"idle", "preflight"}
    BY DEF StopStep, BeginStop, SendAbort, SendStopTrackOff, SendStop, MarkRevision, PollStopped,
           RecordStop, StopDeadline
  <1>3. CASE Continue(a)
    <2>1. PICK out : End(a, out, FALSE)
      BY <1>1, <1>3 DEF Continue
    <2>2. op'[a] = "none" /\ loc'[a] = Result("unused", FALSE)
      BY <1>1, <2>1 DEF End
    <2> QED BY <1>2, <2>2 DEF Result
  <1>4. CASE ~Continue(a)
    <2>1. UNCHANGED op /\ \E l \in PCs \ {"idle"} : Jump(a, l)
      BY <1>4 DEF StopStep, BeginStop, SendAbort, SendStopTrackOff, SendStop, MarkRevision,
           PollStopped, RecordStop, StopDeadline, PCs
    <2>2. loc[a] \in Locals
      BY <1>1
    <2>3. \/ UNCHANGED loc
          \/ \E v : loc' = [loc EXCEPT ![a].held = v]
          \/ \E v : loc' = [loc EXCEPT ![a].err = v]
          \/ \E v : loc' = [loc EXCEPT ![a].polls = v]
      BY <1>4 DEF StopStep, BeginStop, SendAbort, SendStopTrackOff, SendStop, MarkRevision,
           PollStopped, RecordStop, StopDeadline
    <2>4. loc'[a].conf = loc[a].conf
      <3>1. ASSUME NEW v, loc' = [loc EXCEPT ![a].held = v] PROVE loc'[a].conf = loc[a].conf
        BY <1>1, <2>2, <3>1 DEF Locals
      <3>2. ASSUME NEW v, loc' = [loc EXCEPT ![a].err = v] PROVE loc'[a].conf = loc[a].conf
        BY <1>1, <2>2, <3>2 DEF Locals
      <3>3. ASSUME NEW v, loc' = [loc EXCEPT ![a].polls = v] PROVE loc'[a].conf = loc[a].conf
        BY <1>1, <2>2, <3>3 DEF Locals
      <3> QED BY <2>3, <3>1, <3>2, <3>3
    <2> QED BY <1>1, <1>2, <2>1, <2>4 DEF Jump
  <1> QED BY <1>3, <1>4

LEMMA StopFlips ==
    ASSUME NEW a \in Apps, Apps = {a}, FlipHere(a), NEW t \in Threads, StopStep(t) \/ StopDeadline(t)
    PROVE  CallsOK(a)' /\ FlipOK(a)'
  <1>1. TypeOK /\ StableOK /\ pc \in [Threads -> PCs]
        /\ op \in [Threads -> AllOps \cup {"none"}] /\ loc \in [Threads -> Locals]
    BY IInvTypes DEF FlipHere, TypeOK
  <1>2. PICK l, r, o : Runs(t, l, r, o) /\ StopRunsOK(t, l, r, o)
    BY <1>1, StopRuns
  <1>3. l \notin MoverPlaces
    BY <1>2 DEF StopRunsOK
  <1>4. pc[t] # "idle"
    BY DEF StopStep, BeginStop, SendAbort, SendStopTrackOff, SendStop, MarkRevision, PollStopped,
           RecordStop, StopDeadline
  <1>5. t = a => /\ (o = op[a] /\ l # "idle") \/ o = "none"
                 /\ ~r.conf /\ pc[a] # "preflight"
    <2> SUFFICES ASSUME t = a
                 PROVE  ((o = op[a] /\ l # "idle") \/ o = "none") /\ ~r.conf /\ pc[a] # "preflight"
      OBVIOUS
    <2>1. ~loc[a].conf
      BY <1>4 DEF FlipHere, CallsOK
    <2>2. pc'[a] = l /\ op'[a] = o /\ loc'[a] = r
      BY <1>1, <1>2 DEF Runs
    <2> QED BY <1>1, <2>1, <2>2, StopEndsCall
  <1>6. /\ UNCHANGED <<mount, toCli, cache>>
        /\ \/ UNCHANGED toDev
           \/ \E c \in Commands \ MoveCommands : c # "UNPARK" /\ toDev' = Append(toDev, c)
    BY <1>1, StopSends DEF Commands, MoveCommands
  <1> QED BY <1>2, <1>3, <1>4, <1>5, <1>6, EndFlips

\* The calls, and the end of a worker.
LEMMA StartFlips ==
    ASSUME NEW a \in Apps, FlipHere(a), NEW k, StartMotion(a, k)
    PROVE  CallsOK(a)' /\ FlipOK(a)'
  <1>1. /\ DataOK /\ a \in Threads /\ a \notin Workers
        /\ pc \in [Threads -> PCs] /\ loc \in [Threads -> Locals]
        /\ op \in [Threads -> AllOps \cup {"none"}]
        /\ \A i \in Handles : Worker(i) \in Threads /\ Worker(i) \in Workers
    BY IInvTypes, ThreadFacts DEF FlipHere, IInv, TypeOK
  <1> DEFINE n == motion + 1
  <1>2. pc' = [pc EXCEPT ![Worker(n)] = "preflight"] /\ op' = [op EXCEPT ![Worker(n)] = k]
        /\ loc' = [loc EXCEPT ![a] = NoLocals] /\ pc[a] = "idle"
    BY DEF StartMotion, Jump
  <1>3. Worker(n) \in Threads /\ Worker(n) # a
    <2>1. n \in Handles
      <3>1. motion \in Nat /\ motion < MaxMoves
        BY DEF FlipHere, IInv, HandlesOK, StartMotion
      <3> QED BY <3>1, BoundsAssumption DEF Handles
    <2> QED BY <1>1, <2>1
  <1> HIDE DEF n
  <1>4. /\ pc'[a] = "idle" /\ op'[a] = "none" /\ ~loc'[a].conf
        /\ \A u \in Threads : pc'[u] \in {pc[u], "preflight"}
    <2>1. NoLocals.conf = FALSE
      BY DEF NoLocals, Result
    <2> QED BY <1>1, <1>2, <1>3, <2>1 DEF FlipHere, CallsOK
  <1>5. CallsOK(a)'
    <2>1. "idle" \notin MoverPlaces
      BY DEF MoverPlaces, BeforeGo
    <2> QED BY <1>4, <2>1 DEF CallsOK
  <1>6. ~Unparks(a)' /\ ~Unparked(a)'
    BY <1>4 DEF Unparks, Unparked
  <1>7. WorkerGoes' => Rising
    <2>1. "preflight" \notin Going
      BY DEF Going
    <2>2. WorkerGoes' => WorkerGoes
      BY <1>1, <1>4, <2>1 DEF WorkerGoes
    <2> QED BY <2>2 DEF FlipHere, FlipOK
  <1>8. UNCHANGED <<mount, toDev, toCli, cache>>
    BY DEF StartMotion, wire
  <1>9. FlipOK(a)'
    BY <1>1, <1>6, <1>7, <1>8, ThreadFlips DEF FlipHere
  <1> QED BY <1>5, <1>9

LEMMA BlockingFlips ==
    ASSUME NEW a \in Apps, FlipHere(a), NEW o \in Ops \ MoveOps, CallBlocking(a, o)
    PROVE  CallsOK(a)' /\ FlipOK(a)'
  <1>1. /\ DataOK /\ OneMoveAtATime /\ a \in Threads /\ a \notin Workers
        /\ pc \in [Threads -> PCs] /\ loc \in [Threads -> Locals]
        /\ op \in [Threads -> AllOps \cup {"none"}]
        /\ \A i \in Handles : Worker(i) \in Threads /\ Worker(i) # a
    BY IInvTypes, ThreadFacts DEF FlipHere, IInv, HandlesOK, TypeOK
  <1>2. /\ pc'[a] = "preflight" /\ op'[a] = o /\ ~loc'[a].conf
        /\ \A i \in Handles : pc'[Worker(i)] = pc[Worker(i)]
    <2>1. NoLocals.conf = FALSE
      BY DEF NoLocals, Result
    <2> QED BY <1>1, <2>1 DEF CallBlocking, Jump
  <1>3. o \in {"unpark", "route"}
    BY BoundsAssumption DEF AllOps, MoveOps
  <1>4. \A i \in Handles : pc[Worker(i)] = "idle"
    <2>1. ActiveMotion = 0
      BY DEF CallBlocking
    <2> SUFFICES ASSUME NEW i \in Handles, pc[Worker(i)] # "idle" PROVE FALSE
      OBVIOUS
    <2>2. motion = i /\ ~handle[i].done /\ i # 0
      BY <1>1 DEF OneMoveAtATime, Underway, Handles
    <2> QED BY <2>1, <2>2 DEF ActiveMotion
  <1>5. CallsOK(a)'
    BY <1>2, <1>3, <1>4 DEF CallsOK
  <1>6. ~Unparks(a)' /\ ~Unparked(a)'
    BY <1>2, <1>3 DEF Unparks, Unparked
  <1>7. ~WorkerGoes'
    <2>1. "idle" \notin Going
      BY DEF Going, BeforeGo
    <2> QED BY <1>2, <1>4, <2>1 DEF WorkerGoes
  <1>8. UNCHANGED <<mount, toDev, toCli, cache>>
    BY DEF CallBlocking, wire, client
  <1>9. FlipOK(a)'
    BY <1>1, <1>6, <1>7, <1>8, ThreadFlips DEF FlipHere
  <1> QED BY <1>5, <1>9

LEMMA CallsFlip ==
    ASSUME NEW a \in Apps, Apps = {a}, FlipHere(a),
           \/ \E t \in Workers : WorkerEnd(t)
           \/ \E b \in Apps : AppCall(b)
           \/ SupervisorTick \/ CloseBegins \/ CloseEnds
    PROVE  CallsOK(a)' /\ FlipOK(a)'
  <1>1. \A t \in Threads : op = [op EXCEPT ![t] = op[t]] /\ loc = [loc EXCEPT ![t] = loc[t]]
                           /\ pc = [pc EXCEPT ![t] = pc[t]]
    BY DEF FlipHere, IInv, ThreadsOK
  <1>2. /\ DataOK /\ a \in Threads /\ a \notin Workers /\ a # Sup /\ a # Cls
        /\ Sup \in Threads /\ Cls \in Threads /\ Sup \notin Workers /\ Cls \notin Workers
        /\ Workers \subseteq Threads
    BY ThreadFacts DEF FlipHere, IInv
  <1>3. {"setdone", "idle", "begin", "join", "closed"} \cap MoverPlaces = {}
    BY DEF MoverPlaces, BeforeGo
  <1> DEFINE Goal == CallsOK(a)' /\ FlipOK(a)'
  <1>4. ASSUME NEW t \in Workers, WorkerEnd(t) PROVE Goal
    <2>1. UNCHANGED <<mount, toDev, toCli, cache>> /\ pc[t] # "idle"
      BY <1>4 DEF WorkerEnd, WorkerFinishes, WorkerSetsDone, wire
    <2>2. \E l, r, o : l \in {"setdone", "idle"} /\ Runs(t, l, r, o)
      <3>1. CASE WorkerFinishes(t)
        <4>1. Runs(t, "setdone", loc[t], op[t])
          BY <1>1, <1>2, <3>1 DEF WorkerFinishes, Runs, Jump
        <4> QED BY <4>1
      <3>2. CASE WorkerSetsDone(t)
        <4>1. Runs(t, "idle", NoLocals, "none")
          BY <3>2 DEF WorkerSetsDone, Runs, Jump
        <4> QED BY <4>1
      <3> QED BY <1>4, <3>1, <3>2 DEF WorkerEnd
    <2> QED BY <1>2, <1>3, <2>1, <2>2, EndFlips
  <1>5. CASE AppCall(a)
    <2>1. CASE \E k \in Ops \cap MoveOps : StartMotion(a, k)
      BY <2>1, StartFlips
    <2>2. CASE \E o \in Ops \ MoveOps : CallBlocking(a, o)
      BY <2>2, BlockingFlips
    <2>3. ASSUME NEW r, Jump(a, "begin"), loc' = [loc EXCEPT ![a] = r], UNCHANGED op, ~r.conf,
                 pc[a] = "idle", UNCHANGED <<mount, toDev, toCli, cache>>
          PROVE  Goal
      <3>1. Runs(a, "begin", r, op[a])
        BY <1>1, <1>2, <2>3 DEF Runs, Jump
      <3> QED BY <1>2, <1>3, <2>3, <3>1, EndFlips
    <2>4. NoLocals.conf = FALSE /\ \A i : [NoLocals EXCEPT !.own = i].conf = FALSE
      BY DEF NoLocals, Result
    <2>5. CASE CallStop(a)
      BY <2>3, <2>4, <2>5 DEF CallStop, wire, client
    <2>6. ASSUME NEW i \in Handles, CallHandleStop(a, i) PROVE Goal
      <3> DEFINE r == [NoLocals EXCEPT !.own = i]
      <3>1. ~r.conf
        BY <2>4
      <3>2. /\ Jump(a, "begin") /\ loc' = [loc EXCEPT ![a] = r] /\ UNCHANGED op
            /\ pc[a] = "idle" /\ UNCHANGED <<mount, toDev, toCli, cache>>
        BY <2>6 DEF CallHandleStop, wire
      <3> HIDE DEF r
      <3> QED BY <2>3, <3>1, <3>2
    <2> QED BY <1>5, <2>1, <2>2, <2>5, <2>6 DEF AppCall
  <1>6. CASE SupervisorTick \/ CloseBegins
    <2>1. UNCHANGED <<mount, toDev, toCli, cache, op, loc>>
          /\ \/ UNCHANGED pc
             \/ \E t \in {Sup, Cls}, l \in {"begin", "join"} : Jump(t, l)
      BY <1>6 DEF SupervisorTick, CloseBegins, wire, client
    <2>2. CASE UNCHANGED pc
      <3>1. CallsOK(a)'
        BY <2>1, <2>2 DEF FlipHere, CallsOK
      <3>2. /\ WorkerGoes' => Rising
            /\ Unparks(a)' => Falling
            /\ Unparked(a)' => Quiet
        BY <2>1, <2>2 DEF FlipHere, FlipOK, WorkerGoes, Unparks, Unparked
      <3>3. FlipOK(a)'
        BY <1>2, <2>1, <3>2, ThreadFlips DEF FlipHere
      <3> QED BY <3>1, <3>3
    <2>3. ASSUME NEW t \in {Sup, Cls}, NEW l \in {"begin", "join"}, Jump(t, l) PROVE Goal
      <3>1. t \in Threads /\ t # a /\ t \notin Workers
        BY <1>2
      <3>2. Runs(t, l, loc[t], op[t])
        BY <1>1, <2>1, <2>3, <3>1 DEF Runs, Jump
      <3> QED BY <1>3, <2>1, <3>1, <3>2, EndFlips
    <2> QED BY <2>1, <2>2, <2>3
  <1>7. CASE CloseEnds
    <2>1. /\ toCli' = <<>> /\ UNCHANGED <<mount, toDev, cache, op, loc>>
          /\ pc' = [pc EXCEPT ![Cls] = "closed"]
      BY <1>7 DEF CloseEnds, Jump
    <2>2. (Falling => Falling') /\ (Rising => Rising') /\ (Quiet => Quiet')
      BY <1>2, <2>1, CloseFlips
    <2>3. pc'[a] = pc[a] /\ \A i \in Handles : pc'[Worker(i)] = pc[Worker(i)]
      <3>1. \A i \in Handles : Worker(i) \in Threads /\ Worker(i) # Cls
        BY <1>2, ThreadFacts
      <3> QED BY <1>1, <1>2, <2>1, <3>1 DEF FlipHere, IInv, ThreadsOK
    <2>4. CallsOK(a)'
      BY <2>1, <2>3 DEF FlipHere, CallsOK
    <2>5. FlipOK(a)'
      BY <2>1, <2>2, <2>3 DEF FlipHere, FlipOK, WorkerGoes, Unparks, Unparked
    <2> QED BY <2>4, <2>5
  <1>8. \A b \in Apps : b = a
    OBVIOUS
  <1> QED BY <1>4, <1>5, <1>6, <1>7, <1>8

\* A mount that is created is what the client knows, and nothing was sent.
LEMMA InitFlip == Init => FlipInv
  <1> SUFFICES ASSUME Init PROVE FlipInv
    OBVIOUS
  <1>1. /\ mount \in Mounts /\ ~mount.tracking /\ mount.motion = "IDLE"
        /\ toDev = <<>> /\ toCli = <<>> /\ cache = StatusOf(mount, FALSE)
    BY DEF Init, InitialMounts
  <1>2. \A t \in Threads : pc[t] = "idle" /\ op[t] = "none" /\ loc[t] = NoLocals
    BY DEF Init
  <1>3. NoLocals.conf = FALSE /\ "idle" \notin MoverPlaces
    BY DEF NoLocals, Result, MoverPlaces, BeforeGo
  <1>4. MountSound(mount)
    BY <1>1 DEF MountSound
  <1>5. Falling \/ Rising
    <2>1. Statuses = {0} /\ At(0) = cache /\ DOMAIN toDev = {}
      BY <1>1 DEF Statuses, At
    <2>2. \A n \in Statuses : n = 0 /\ (Says(n) <=> mount.parked)
      BY <1>1, <2>1 DEF Says, StatusOf, RawGu, Slewing, Mounts
    <2>3. \A j, k \in Statuses : ~(j < k)
      BY <2>1
    <2>4. mount.parked => Falling
      BY <2>1, <2>2, <2>3 DEF Falling, FallingSeen, FallingSent
    <2>5. ~mount.parked => Rising
      BY <1>1, <2>1, <2>2, <2>3 DEF Rising, RisingSeen, RisingSent, NoUnpark
    <2> QED BY <2>4, <2>5
  <1>6. \A a \in Apps : CallsOK(a) /\ FlipOK(a)
    <2> SUFFICES ASSUME NEW a \in Apps PROVE CallsOK(a) /\ FlipOK(a)
      OBVIOUS
    <2>1. pc[a] = "idle" /\ op[a] = "none" /\ ~loc[a].conf
      BY <1>2, <1>3, ThreadFacts
    <2>2. ~WorkerGoes
      <3>1. "idle" \notin Going
        BY DEF Going, BeforeGo
      <3> QED BY <1>2, <3>1, ThreadFacts DEF WorkerGoes
    <2> QED BY <1>3, <1>5, <2>1, <2>2 DEF CallsOK, FlipOK, Unparks, Unparked
  <1> QED BY <1>4, <1>6 DEF FlipInv

\* Every step keeps it.
LEMMA NextFlip == IInv /\ RealInv /\ FlipInv /\ [Next]_vars => FlipInv'
  <1> SUFFICES ASSUME IInv, RealInv, FlipInv, [Next]_vars PROVE FlipInv'
    OBVIOUS
  <1>1. DataOK /\ TypeOK /\ StableOK /\ KindsOK /\ MountSound(mount) /\ DataOK'
    BY IInvTypes, NextIInv DEF RealInv, FlipInv, IInv
  <1>2. CASE Device \/ ConnectionDrops \/ ReaderRecords
    <2>1. UNCHANGED <<pc, op, loc>>
      BY <1>1, <1>2, WireSteps DEF IInv, ThreadsOK
    <2>2. MountSound(mount)' /\ (Falling => Falling') /\ (Rising => Rising') /\ (Quiet => Quiet')
      BY <1>1, <1>2, WorldFlips
    <2>3. \A a \in Apps : /\ CallsOK(a) => CallsOK(a)'
                          /\ FlipOK(a) => FlipOK(a)'
      BY <2>1, <2>2 DEF CallsOK, FlipOK, WorkerGoes, Unparks, Unparked
    <2> QED BY <2>2, <2>3 DEF FlipInv
  <1>3. CASE ~(Device \/ ConnectionDrops \/ ReaderRecords)
    <2>1. UNCHANGED mount
      <3>1. ASSUME NEW t \in Movers, MoverStep(t) \/ Deadline(t) PROVE UNCHANGED mount
        BY <1>1, <3>1, MoverSends
      <3>2. ASSUME NEW t \in Threads, StopStep(t) \/ StopDeadline(t) PROVE UNCHANGED mount
        BY <1>1, <3>2, StopSends
      <3>3. ASSUME NEW t \in Workers, WorkerEnd(t) PROVE UNCHANGED mount
        BY <3>3 DEF WorkerEnd, WorkerFinishes, WorkerSetsDone, wire
      <3>4. ASSUME NEW a \in Apps, AppCall(a) PROVE UNCHANGED mount
        BY <3>4 DEF AppCall, StartMotion, CallBlocking, CallStop, CallHandleStop, wire
      <3>5. CASE SupervisorTick \/ CloseBegins \/ CloseEnds \/ UNCHANGED vars
        BY <3>5 DEF SupervisorTick, CloseBegins, CloseEnds, vars, wire
      <3> QED BY <1>3, <3>1, <3>2, <3>3, <3>4, <3>5 DEF Next, Terminated
    <2> SUFFICES ASSUME NEW a \in Apps, Apps = {a} PROVE CallsOK(a)' /\ FlipOK(a)'
      BY <1>1, <2>1 DEF FlipInv
    <2>2. FlipHere(a)
      BY <1>1 DEF FlipHere, FlipInv
    <2>3. ASSUME NEW t \in Movers, MoverStep(t) \/ Deadline(t) PROVE CallsOK(a)' /\ FlipOK(a)'
      BY <2>2, <2>3, WorkerFlips, CallFlips DEF Movers
    <2>4. ASSUME NEW t \in Threads, StopStep(t) \/ StopDeadline(t) PROVE CallsOK(a)' /\ FlipOK(a)'
      BY <2>2, <2>4, StopFlips
    <2>5. CASE \/ \E t \in Workers : WorkerEnd(t)
               \/ \E b \in Apps : AppCall(b)
               \/ SupervisorTick \/ CloseBegins \/ CloseEnds
      BY <2>2, <2>5, CallsFlip
    <2>6. CASE UNCHANGED vars
      <3>1. UNCHANGED <<mount, toDev, toCli, cache, pc, op, loc>>
        BY <2>6 DEF vars, wire, client, threads
      <3>2. CallsOK(a)'
        BY <2>2, <3>1 DEF FlipHere, CallsOK
      <3>3. /\ WorkerGoes' => Rising
            /\ Unparks(a)' => Falling
            /\ Unparked(a)' => Quiet
        BY <2>2, <3>1 DEF FlipHere, FlipOK, WorkerGoes, Unparks, Unparked
      <3>4. FlipOK(a)'
        BY <1>1, <2>2, <3>1, <3>3, ThreadFlips DEF FlipHere
      <3> QED BY <3>2, <3>4
    <2> QED BY <1>3, <2>3, <2>4, <2>5, <2>6 DEF Next, Terminated
  <1> QED BY <1>2, <1>3

\* What OnStepIndiClient.unpark and route_park_to_home promise holds of the
\* mount: once one of them returned confirmed, and until the application's next
\* call, the mount is not parked and does not track, although OnStepX may track
\* by itself when it unparks, whatever is still on the wire and however often
\* the application unparked or moved before.
THEOREM UnparkQuiet == Spec => []UnparkIsQuiet
  <1>1. Init => IInv /\ RealInv /\ FlipInv
    BY InitIInv, InitReal, InitFlip
  <1>2. IInv /\ RealInv /\ FlipInv /\ [Next]_vars => (IInv /\ RealInv /\ FlipInv)'
    BY NextIInv, NextReal, NextFlip
  <1>3. FlipInv => UnparkIsQuiet
    BY DEF FlipInv, FlipOK, Unparked, Quiet, UnparkIsQuiet
  <1> QED BY <1>1, <1>2, <1>3, PTL DEF Spec

-----------------------------------------------------------------------------
(* The HOME authority.  It is taken from statuses too, so it is true of the *)
(* mount only if no PARK that was given up is still on its way.             *)

\* Not parked and not on the way there.
Homely ==
    /\ ~mount.parked
    /\ ~(mount.motion = "SLEWING" /\ mount.target_kind = "park")
    /\ \A i \in DOMAIN toDev : toDev[i] # "PARK"

\* The move is confirmed, or its worker is about to say so.
Confirms(i) == handle[i].conf \/ (pc[Worker(i)] = "finish" /\ loc[Worker(i)].conf)

\* The current move, past its preflight: a PARK, or a worker that goes elsewhere.
Parking == motion # 0 /\ handle[motion].kind = "park" /\ pc[Worker(motion)] # "preflight"
OnItsWay == motion # 0 /\ pc[Worker(motion)] \in MoverPlaces \ {"preflight"}

\* The last PARK so far was confirmed.
Reached == IF Parking THEN Confirms(motion) ELSE ParkWasReached

\* A PARK that was confirmed has nothing behind it, and what moves the mount
\* after it saw it unparked; the authority is not held while a PARK is going on.
AuthOK ==
    /\ Reached => Falling \/ Homely
    /\ Reached /\ OnItsWay /\ ~Parking => Homely
    /\ authority /\ (ParkWasReached \/ Reached) => Homely
    /\ OnItsWay /\ Parking => ~authority
    /\ motion # 0 /\ pc[Worker(motion)] \in MoverPlaces => ~handle[motion].conf

AuthInv == \A a \in Apps : Apps = {a} => AuthOK

\* What says so: the poll that saw the mount leave PARK, the end of an unpark.
LEMMA HomelySeen ==
    ASSUME DataOK
    PROVE  /\ Falling /\ ~Says(0) => Homely
           /\ Quiet => Homely
  <1>1. 0 \in Statuses
    BY LenProperties DEF Statuses, DataOK
  <1>2. ASSUME Falling, ~Says(0) PROVE Homely
    <2>1. ~mount.parked
      BY <1>1, <1>2 DEF Falling, FallingSeen
    <2>2. MovesNot /\ mount.motion # "SLEWING"
      BY <1>2, <2>1 DEF Falling, FallingSent
    <2> QED BY <2>1, <2>2 DEF Homely, MovesNot, MoveCommands
  <1>3. Quiet => Homely
    BY DEF Quiet, HomeBound, Homely
  <1> QED BY <1>2, <1>3

LEMMA HomelySent ==
    ASSUME DataOK, UNCHANGED mount, Homely,
           UNCHANGED toDev \/ \E c \in Commands \ {"PARK"} : toDev' = Append(toDev, c)
    PROVE  Homely'
  <1>1. CASE UNCHANGED toDev
    BY <1>1 DEF Homely
  <1>2. ASSUME NEW c \in Commands \ {"PARK"}, toDev' = Append(toDev, c) PROVE Homely'
    <2>1. /\ DOMAIN toDev = 1 .. Len(toDev) /\ DOMAIN toDev' = 1 .. Len(toDev) + 1
          /\ toDev'[Len(toDev) + 1] = c /\ Len(toDev) \in Nat
          /\ \A i \in DOMAIN toDev : toDev'[i] = toDev[i]
      BY <1>2, AppendProperties, LenProperties DEF DataOK
    <2>2. \A i \in DOMAIN toDev' : i \in DOMAIN toDev \/ i = Len(toDev) + 1
      BY <2>1
    <2> QED BY <1>2, <2>1, <2>2 DEF Homely
  <1> QED BY <1>1, <1>2

\* Only a PARK sends the mount to PARK.
LEMMA HomelyMount ==
    ASSUME NEW m \in Mounts, ~m.parked, ~(m.motion = "SLEWING" /\ m.target_kind = "park"), NEW n,
           \/ \E c \in Commands \ {"PARK"} : n = Apply(m, c)
           \/ n \in TickEdges(m)
           \/ \E f \in Faults \ {"none"} : n = SetFault(m, f)
    PROVE  ~n.parked /\ ~(n.motion = "SLEWING" /\ n.target_kind = "park")
  <1> DEFINE Good(k) == ~k.parked /\ ~(k.motion = "SLEWING" /\ k.target_kind = "park")
  <1>1. \A k \in Mounts, on \in BOOLEAN : Good(k) => Good(SetTracking(k, on))
    BY DEF SetTracking, Mounts
  <1>2. ASSUME NEW k \in Mounts, Good(k) PROVE Good(Abort(k)) /\ Abort(k) \in Mounts
    BY <1>2 DEF Abort, Mounts, MotionStates, TargetKinds
  <1>3. ASSUME NEW kind \in {"home", "radec"} PROVE Good(StartGoto(m, kind))
    <2> DEFINE k == [m EXCEPT !.manual = {}, !.target_kind = kind, !.on_goal = FALSE,
                              !.motion = "SLEWING", !.at_home = FALSE]
    <2>1. k \in Mounts /\ Good(k)
      BY <1>3 DEF Mounts, MotionStates, TargetKinds
    <2> HIDE DEF Good
    <2>2. Good(SetTracking(k, FALSE))
      BY <1>1, <2>1
    <2>3. Good(m)
      BY DEF Good
    <2> QED BY <2>2, <2>3 DEF StartGoto
  <1>4. ASSUME NEW c \in Commands \ {"PARK"} PROVE Good(Apply(m, c))
    <2>1. c \in {"ABORT", "TRACK_OFF", "UNPARK", "GO", "SLEW", "TARGET"}
      BY <1>4 DEF Commands
    <2>2. Good(m) /\ Unpark(m) = m
      BY DEF Unpark
    <2> HIDE DEF Good
    <2> QED BY <1>1, <1>2, <1>3, <2>1, <2>2 DEF Apply
  <1>5. ASSUME n \in TickEdges(m) PROVE Good(n)
    <2>1. Good(StopSettled(m)) /\ Good(Near(m))
      BY DEF StopSettled, Near, Mounts
    <2>2. m.motion = "SLEWING" => Good(Arrive(m))
      <3> SUFFICES ASSUME m.motion = "SLEWING" PROVE Good(Arrive(m))
        OBVIOUS
      <3> DEFINE there == [m EXCEPT !.motion = "IDLE", !.target_kind = "none"]
                 sky == [there EXCEPT !.on_goal = TRUE]
      <3>1. m.target_kind # "park"
        OBVIOUS
      <3>2. sky \in Mounts /\ Good(sky) /\ Good([there EXCEPT !.at_home = TRUE])
        BY DEF Mounts, MotionStates, TargetKinds
      <3>3. Good(SetTracking(sky, TRUE))
        BY <1>1, <3>2
      <3> HIDE DEF Good
      <3> QED BY <3>1, <3>2, <3>3 DEF Arrive
    <2> HIDE DEF Good
    <2> QED BY <1>5, <2>1, <2>2 DEF TickEdges
  <1>6. ASSUME NEW f \in Faults \ {"none"} PROVE Good(SetFault(m, f))
    <2> DEFINE k == [m EXCEPT !.fault = f]
    <2>1. k \in Mounts /\ Good(k)
      BY DEF Mounts
    <2> HIDE DEF Good, k
    <2>2. Good(SetTracking(Abort(k), FALSE))
      BY <1>1, <1>2, <2>1
    <2> QED BY <2>2 DEF SetFault, k
  <1> QED BY <1>4, <1>5, <1>6

LEMMA HomelyWorld ==
    ASSUME DataOK, Homely, Device \/ ConnectionDrops \/ ReaderRecords
    PROVE  Homely'
  <1>1. mount \in Mounts /\ toDev \in Seq(Commands)
    BY DEF DataOK
  <1>2. PICK n : n = mount'
    OBVIOUS
  <1>3. CASE DeviceHandlesWrite
    <2>1. toDev # <<>> /\ toDev' = Tail(toDev) /\ mount' = Apply(mount, Head(toDev))
      BY <1>3 DEF DeviceHandlesWrite
    <2>2. Len(toDev) \in Nat \ {0} /\ DOMAIN toDev = 1 .. Len(toDev)
      BY <1>1, <2>1, LenProperties
    <2>3. /\ Head(toDev) = toDev[1] /\ toDev[1] \in Commands /\ DOMAIN toDev' = 1 .. Len(toDev) - 1
          /\ \A i \in 1 .. Len(toDev) - 1 : toDev'[i] = toDev[i + 1]
      BY <1>1, <2>1, <2>2, HeadTailProperties
    <2>4. toDev[1] # "PARK" /\ \A i \in DOMAIN toDev' : toDev'[i] # "PARK"
      BY <2>2, <2>3 DEF Homely
    <2>5. ~n.parked /\ ~(n.motion = "SLEWING" /\ n.target_kind = "park")
      BY <1>1, <1>2, <2>1, <2>3, <2>4, HomelyMount DEF Homely
    <2> QED BY <1>2, <2>4, <2>5 DEF Homely
  <1>4. CASE DeviceTick \/ \E f \in Faults \ {"none"} : DeviceFaults(f)
    <2>1. UNCHANGED toDev
          /\ (n \in TickEdges(mount) \/ \E f \in Faults \ {"none"} : n = SetFault(mount, f))
      BY <1>2, <1>4 DEF DeviceTick, DeviceFaults
    <2>2. ~n.parked /\ ~(n.motion = "SLEWING" /\ n.target_kind = "park")
      BY <1>1, <2>1, HomelyMount DEF Homely
    <2> QED BY <1>2, <2>1, <2>2 DEF Homely
  <1>5. CASE DevicePublishes \/ ConnectionDrops \/ ReaderRecords
    <2>1. UNCHANGED mount /\ toDev' \in {toDev, <<>>}
      BY <1>5 DEF DevicePublishes, ConnectionDrops, ReaderRecords
    <2> QED BY <2>1 DEF Homely
  <1> QED BY <1>3, <1>4, <1>5 DEF Device

\* The moves before the current one stay confirmed or not, and the current one
\* is confirmed only by its own worker.
LEMMA ReachedBefore ==
    ASSUME OneMoveAtATime, motion \in 0 .. MaxMoves, SameMoves
    PROVE  /\ ParkWasReached' => ParkWasReached
           /\ \A i \in Handles : handle'[i].conf => Confirms(i)
  <1>1. \A i \in Handles : i < motion => pc[Worker(i)] # "finish"
    <2> SUFFICES ASSUME NEW i \in Handles, i < motion, pc[Worker(i)] = "finish" PROVE FALSE
      OBVIOUS
    <2>1. motion = i
      BY DEF OneMoveAtATime
    <2> QED BY <2>1 DEF Handles
  <1>2. ParkWasReached' => ParkWasReached
    BY <1>1 DEF ParkWasReached, SameMoves
  <1> QED BY <1>2 DEF SameMoves, Confirms

\* A step that is not one of the worker's on its way.
LEMMA AuthSame ==
    ASSUME OneMoveAtATime, motion \in 0 .. MaxMoves, AuthOK, SameMoves,
           LET W == Worker(motion)
           IN  \/ motion = 0
               \/ pc'[W] = pc[W] /\ loc'[W] = loc[W]
               \/ /\ {pc[W], pc'[W]} \cap MoverPlaces = {}
                  /\ pc'[W] = "finish" => ~loc'[W].conf,
           authority' => \/ authority
                         \/ Homely /\ (motion # 0 => pc'[Worker(motion)] \notin MoverPlaces),
           Falling => Falling' \/ Homely',
           Homely => Homely'
    PROVE  AuthOK'
  <1> DEFINE W == Worker(motion)
  <1>1. motion' = motion /\ (motion # 0 => motion \in Handles)
    BY DEF SameMoves, Handles
  <1>2. /\ ParkWasReached' => ParkWasReached
        /\ motion # 0 => /\ handle'[motion].conf => Confirms(motion)
                         /\ handle'[motion].kind = handle[motion].kind
    BY <1>1, ReachedBefore DEF SameMoves
  <1>3. "preflight" \in MoverPlaces /\ "finish" \notin MoverPlaces
    BY DEF MoverPlaces, BeforeGo
  <1>4. Parking' <=> Parking
    BY <1>1, <1>2, <1>3 DEF Parking
  <1>5. OnItsWay' => OnItsWay
    BY <1>1, <1>3 DEF OnItsWay
  <1>6. Confirms(motion)' /\ motion # 0 => Confirms(motion)
    BY <1>1, <1>2 DEF Confirms
  <1>7. Reached' => Reached
    BY <1>1, <1>2, <1>4, <1>6 DEF Reached, Parking
  <1>8. motion # 0 /\ pc'[W] \in MoverPlaces => ~handle'[motion].conf
    BY <1>1, <1>2, <1>3 DEF AuthOK, Confirms
  <1>9. OnItsWay' => pc'[W] \in MoverPlaces /\ motion # 0
    BY <1>1 DEF OnItsWay
  <1> HIDE DEF W
  <1>10. (Reached => Falling \/ Homely)'
    BY <1>7 DEF AuthOK
  <1>11. (Reached /\ OnItsWay /\ ~Parking => Homely)'
    BY <1>4, <1>5, <1>7 DEF AuthOK
  <1>12. (authority /\ (ParkWasReached \/ Reached) => Homely)'
    BY <1>2, <1>7 DEF AuthOK
  <1>13. (OnItsWay /\ Parking => ~authority)'
    BY <1>4, <1>5, <1>9 DEF AuthOK, W
  <1>14. (motion # 0 /\ pc[Worker(motion)] \in MoverPlaces => ~handle[motion].conf)'
    BY <1>1, <1>8 DEF W
  <1> QED BY <1>10, <1>11, <1>12, <1>13, <1>14 DEF AuthOK

\* What the step lemmas start from.
AuthHere(a) == FlipHere(a) /\ AuthOK

\* What a send leaves of the two.
LEMMA AuthSent ==
    ASSUME DataOK, UNCHANGED <<mount, toCli, cache>>,
           UNCHANGED toDev \/ \E c \in Commands \ {"PARK"} : toDev' = Append(toDev, c)
    PROVE  /\ Homely => Homely'
           /\ UNCHANGED toDev \/ (\E c \in Commands \ MoveCommands : toDev' = Append(toDev, c))
                 => (Falling => Falling')
  <1>1. Homely => Homely'
    BY HomelySent
  <1>2. UNCHANGED toDev => (Falling => Falling')
    BY DEF Falling, FallingSeen, FallingSent, MovesNot, Statuses, At, Says
  <1>3. (\E c \in Commands \ MoveCommands : toDev' = Append(toDev, c)) => (Falling => Falling')
    BY FlipsSent
  <1> QED BY <1>1, <1>2, <1>3

\* Who may set the authority, and what a preflight does to it.
LEMMA AuthorityKept ==
    ASSUME TypeOK, NEW t \in Movers, MoverStep(t) \/ Deadline(t)
    PROVE  /\ authority' => authority \/ (op[t] = "home" /\ pc[t] = "poll")
           /\ pc[t] = "preflight" =>
                 /\ pc'[t] \in {"check", "finish", "idle"}
                 /\ op[t] = "park" /\ authority' =>
                       pc'[t] \in {"finish", "idle"} /\ ~loc'[t].conf
  <1>0. t \in Threads /\ pc \in [Threads -> PCs] /\ loc \in [Threads -> Locals]
    BY ThreadFacts DEF TypeOK
  <1>1. authority' => authority \/ (op[t] = "home" /\ pc[t] = "poll")
    BY DEF MoverStep, Deadline, PreflightHome, PreflightPark, PreflightAxis, PreflightUnpark,
           CheckToken, SendCoordSet, AwaitCoordSet, IssueCommand, LoopTop, SendTrackOff,
           PollFails, PollGoesOn, PollConfirms, PollUnparked, PollSlice, PollGood, PollReads,
           AxisUnsafe, AxisMoving, AxisConfirming, AxisObserves, AuthorityRead, client
  <1>2. ASSUME pc[t] = "preflight"
        PROVE  PreflightHome(t) \/ PreflightPark(t) \/ PreflightAxis(t) \/ PreflightUnpark(t)
    BY <1>2 DEF MoverStep, Deadline,
           CheckToken, SendCoordSet, AwaitCoordSet, IssueCommand, LoopTop, SendTrackOff,
           PollFails, PollGoesOn, PollConfirms, PollUnparked, PollSlice, PollGood, PollReads,
           AxisUnsafe, AxisMoving, AxisConfirming, AxisObserves
  <1>3. ASSUME NEW out, NEW conf, End(t, out, conf)
        PROVE  pc'[t] \in {"finish", "idle"} /\ loc'[t].conf = conf
    BY <1>0, <1>3 DEF End, Jump, Result
  <1>4. Jump(t, "check") => pc'[t] = "check"
    BY <1>0 DEF Jump
  <1>5. ASSUME pc[t] = "preflight" PROVE pc'[t] \in {"check", "finish", "idle"}
    BY <1>2, <1>3, <1>4, <1>5 DEF PreflightHome, PreflightPark, PreflightAxis, PreflightUnpark
  <1>6. ASSUME pc[t] = "preflight", op[t] = "park", authority'
        PROVE  pc'[t] \in {"finish", "idle"} /\ ~loc'[t].conf
    <2>1. End(t, "succeeded", FALSE)
      BY <1>2, <1>6 DEF PreflightHome, PreflightPark, PreflightAxis, PreflightUnpark
    <2> QED BY <1>3, <2>1
  <1> QED BY <1>1, <1>5, <1>6

-----------------------------------------------------------------------------
(* Every step keeps what the authority rests on.                           *)

LEMMA AuthWorker ==
    ASSUME NEW a \in Apps, AuthHere(a), NEW t \in Workers, MoverStep(t) \/ Deadline(t)
    PROVE  AuthOK'
  <1>1. /\ TypeOK /\ OneMoveAtATime /\ KindsOK /\ StableOK /\ motion \in 0 .. MaxMoves /\ DataOK
        /\ t \in Movers /\ t \in Threads
    BY IInvTypes, ThreadFacts DEF AuthHere, FlipHere, IInv, HandlesOK, TypeOK
  <1>2. PICK l, r, o : Runs(t, l, r, o) /\ RunsOK(t, l, r, o)
    BY <1>1, MoverRuns
  <1>3. pc[t] \in MoverPlaces /\ pc[t] # "idle" /\ pc[t] # "finish"
    BY <1>1, MoverRuns DEF MoverPlaces, BeforeGo
  <1>4. /\ motion \in Handles /\ motion # 0 /\ t = Worker(motion)
        /\ op[t] = handle[motion].kind /\ op[t] \in MoveOps
    BY <1>1, <1>3, WorkerRuns DEF Handles
  <1>5. pc'[t] = l /\ loc'[t] = r /\ l # "preflight"
    BY <1>1, <1>2 DEF Runs, RunsOK, TypeOK
  <1>6. SameMoves /\ motion' = motion
    BY <1>1, MoverSameMoves DEF SameMoves
  <1>7. /\ ParkWasReached' => ParkWasReached
        /\ handle'[motion].kind = handle[motion].kind
        /\ ~handle[motion].conf /\ ~handle'[motion].conf
    <2>1. ~handle[motion].conf
      BY <1>3, <1>4 DEF AuthHere, AuthOK
    <2> QED BY <1>1, <1>3, <1>4, <1>6, <2>1, ReachedBefore DEF SameMoves
  <1>8. /\ UNCHANGED <<mount, toCli, cache>>
        /\ \/ Issues(t)
           \/ UNCHANGED toDev \/ \E c \in Commands \ MoveCommands : toDev' = Append(toDev, c)
    BY <1>1, MoverSends DEF Commands, MoveCommands
  <1>9. Issues(t) => l = "loop" /\ pc[t] = "issue"
    BY <1>1, <1>5 DEF Issues, TypeOK
  <1>10. ~Issues(t) => (Falling => Falling') /\ (Homely => Homely')
    BY <1>1, <1>8, AuthSent DEF MoveCommands
  <1>11. /\ Confirms(motion)' <=> l = "finish" /\ r.conf
         /\ ~Confirms(motion)
    BY <1>3, <1>4, <1>5, <1>6, <1>7 DEF Confirms
  <1>12. /\ Parking' <=> handle[motion].kind = "park"
         /\ Parking <=> handle[motion].kind = "park" /\ pc[t] # "preflight"
         /\ OnItsWay' <=> l \in MoverPlaces
         /\ OnItsWay <=> pc[t] # "preflight"
    BY <1>3, <1>4, <1>5, <1>6, <1>7 DEF Parking, OnItsWay
  <1>13. (motion # 0 /\ pc[Worker(motion)] \in MoverPlaces => ~handle[motion].conf)'
    BY <1>6, <1>7
  <1>14. /\ authority' => authority \/ (op[t] = "home" /\ pc[t] = "poll")
         /\ pc[t] = "preflight" =>
              /\ l \in {"check", "finish", "idle"}
              /\ op[t] = "park" /\ authority' => l # "check" /\ ~r.conf
    BY <1>1, <1>5, AuthorityKept
  <1>15. "loop" \in MoverPlaces /\ "finish" \notin MoverPlaces /\ "idle" \notin MoverPlaces
    BY DEF MoverPlaces, BeforeGo
  <1>16. CASE handle[motion].kind = "park"
    <2>1. Reached' <=> l = "finish" /\ r.conf
      BY <1>6, <1>11, <1>12, <1>16 DEF Reached
    <2>2. pc[t] # "preflight" => ~authority'
      BY <1>4, <1>12, <1>14, <1>16 DEF AuthHere, AuthOK
    <2>3. (Reached => Falling \/ Homely)'
      <3> SUFFICES ASSUME l = "finish", r.conf PROVE Falling'
        BY <2>1
      <3>1. Says(0)
        BY <1>2, <1>4, <1>16 DEF RunsOK, Seen, Says, At
      <3>2. Falling
        BY <1>1, <3>1, Flips DEF AuthHere, FlipHere, FlipOK
      <3> QED BY <1>9, <1>10, <3>2
    <2>4. (authority /\ (ParkWasReached \/ Reached) => Homely)'
      <3> SUFFICES ASSUME authority', ParkWasReached' \/ Reached' PROVE Homely'
        OBVIOUS
      <3>1. pc[t] = "preflight" /\ ~r.conf /\ authority
        BY <1>4, <1>14, <1>16, <2>2
      <3>2. ParkWasReached
        BY <1>7, <2>1, <3>1
      <3>3. Homely
        BY <3>1, <3>2 DEF AuthHere, AuthOK
      <3> QED BY <1>9, <1>10, <3>1, <3>3
    <2>5. (OnItsWay /\ Parking => ~authority)'
      BY <1>4, <1>12, <1>14, <1>15, <1>16, <2>2
    <2> QED BY <1>12, <1>13, <1>16, <2>3, <2>4, <2>5 DEF AuthOK
  <1>17. CASE handle[motion].kind # "park"
    <2>1. (Reached' => ParkWasReached) /\ (Reached <=> ParkWasReached) /\ ~Parking' /\ ~Parking
      BY <1>7, <1>12, <1>17 DEF Reached
    <2>2. Homely => Homely'
      <3>1. CASE Issues(t)
        <4>1. CommandOf(op[t]) \in Commands \ {"PARK"}
          BY <1>4, <1>17 DEF CommandOf, Commands, MoveOps
        <4> QED BY <1>1, <1>8, <3>1, <4>1, HomelySent DEF Issues
      <3> QED BY <1>10, <3>1
    <2>3. ParkWasReached /\ pc[t] # "preflight" => Homely
      BY <1>12, <2>1 DEF AuthHere, AuthOK
    <2>4. ParkWasReached /\ pc[t] = "preflight" /\ l = "check" => Homely
      <3> SUFFICES ASSUME ParkWasReached, pc[t] = "preflight", l = "check" PROVE Homely
        OBVIOUS
      <3>1. "check" \in Going
        BY DEF Going, BeforeGo
      <3>2. ~Says(0)
        BY <1>1, <1>4, <1>5, <3>1, WorkerPreflight
      <3> QED BY <1>1, <2>1, <3>2, HomelySeen DEF AuthHere, AuthOK
    <2>5. (Reached => Falling \/ Homely)'
      <3>1. Issues(t) => pc[t] # "preflight"
        BY <1>9
      <3>2. ParkWasReached => Falling \/ Homely
        BY <2>1 DEF AuthHere, AuthOK
      <3> QED BY <1>10, <2>1, <2>2, <2>3, <3>1, <3>2
    <2>6. (Reached /\ OnItsWay /\ ~Parking => Homely)'
      BY <1>12, <1>14, <1>15, <2>1, <2>2, <2>3, <2>4
    <2>7. (authority /\ (ParkWasReached \/ Reached) => Homely)'
      <3> SUFFICES ASSUME authority', ParkWasReached PROVE Homely'
        BY <1>7, <2>1
      <3>1. authority => Homely
        BY DEF AuthHere, AuthOK
      <3> QED BY <1>14, <2>2, <2>3, <3>1
    <2> QED BY <1>13, <2>1, <2>5, <2>6, <2>7 DEF AuthOK
  <1> QED BY <1>16, <1>17

LEMMA AuthCall ==
    ASSUME NEW a \in Apps, AuthHere(a), MoverStep(a) \/ Deadline(a)
    PROVE  AuthOK'
  <1>1. /\ TypeOK /\ OneMoveAtATime /\ StableOK /\ DataOK /\ motion \in 0 .. MaxMoves
        /\ a \in Movers /\ a \in Threads
        /\ \A i \in Handles : Worker(i) \in Threads /\ Worker(i) # a
    BY IInvTypes, ThreadFacts DEF AuthHere, FlipHere, IInv, HandlesOK, TypeOK
  <1>2. pc[a] \in MoverPlaces /\ pc[a] # "idle"
    BY <1>1, MoverRuns DEF MoverPlaces, BeforeGo
  <1>3. /\ op[a] \in {"unpark", "route", "home"}
        /\ \A i \in Handles : pc[Worker(i)] = "idle"
    BY <1>2 DEF AuthHere, FlipHere, CallsOK
  <1>4. PICK l, r, o : Runs(a, l, r, o)
    BY <1>1, MoverRuns
  <1>5. motion # 0 =>
           /\ pc'[Worker(motion)] = pc[Worker(motion)] /\ loc'[Worker(motion)] = loc[Worker(motion)]
           /\ pc'[Worker(motion)] = "idle"
    BY <1>1, <1>3, <1>4 DEF Runs, TypeOK, Handles
  <1>6. op[a] = "home" => Homely
    BY <1>1, HomelySeen DEF AuthHere, FlipHere, FlipOK, Unparked
  <1>7. /\ SameMoves
        /\ authority' => authority \/ op[a] = "home"
        /\ UNCHANGED <<mount, toCli, cache>>
        /\ \/ Issues(a)
           \/ UNCHANGED toDev \/ \E c \in Commands \ MoveCommands : toDev' = Append(toDev, c)
    BY <1>1, MoverSameMoves, AuthorityKept, MoverSends DEF Commands, MoveCommands
  <1>8. (Falling => Falling' \/ Homely') /\ (Homely => Homely')
    <2>1. CASE Issues(a) /\ op[a] = "home"
      <3>1. toDev' = Append(toDev, "GO") /\ "GO" \in Commands \ {"PARK"}
        BY <2>1 DEF Issues, CommandOf, Commands
      <3> QED BY <1>1, <1>6, <1>7, <2>1, <3>1, HomelySent
    <2>2. CASE ~(Issues(a) /\ op[a] = "home")
      <3>1. UNCHANGED toDev \/ \E c \in Commands \ MoveCommands : toDev' = Append(toDev, c)
        <4>1. op[a] # "home" => CommandOf(op[a]) \in Commands \ MoveCommands
          BY <1>3 DEF CommandOf, Commands, MoveCommands
        <4> QED BY <1>7, <2>2, <4>1 DEF Issues
      <3>2. UNCHANGED toDev \/ \E c \in Commands \ {"PARK"} : toDev' = Append(toDev, c)
        BY <3>1 DEF MoveCommands
      <3> QED BY <1>1, <1>7, <3>1, <3>2, AuthSent
    <2> QED BY <2>1, <2>2
  <1>9. "idle" \notin MoverPlaces
    BY DEF MoverPlaces, BeforeGo
  <1> QED BY <1>1, <1>5, <1>6, <1>7, <1>8, <1>9, AuthSame DEF AuthHere

\* A thread that is not on its way in a move, and whose step confirms none.
LEMMA AuthElsewhere ==
    ASSUME NEW a \in Apps, AuthHere(a), SameMoves, authority' => authority,
           UNCHANGED <<mount, toCli, cache>>,
           UNCHANGED toDev \/ \E c \in Commands \ MoveCommands : toDev' = Append(toDev, c),
           NEW t \in Threads, NEW l, NEW r, NEW o, Runs(t, l, r, o),
           t \notin Workers \/ ({pc[t], l} \cap MoverPlaces = {} /\ (l = "finish" => ~r.conf))
    PROVE  AuthOK'
  <1>1. /\ DataOK /\ OneMoveAtATime /\ motion \in 0 .. MaxMoves
        /\ pc \in [Threads -> PCs] /\ loc \in [Threads -> Locals]
        /\ \A i \in Handles : Worker(i) \in Threads /\ Worker(i) \in Workers
    BY IInvTypes, ThreadFacts DEF AuthHere, FlipHere, IInv, HandlesOK, TypeOK
  <1>2. /\ pc'[t] = l /\ loc'[t] = r
        /\ \A u \in Threads \ {t} : pc'[u] = pc[u] /\ loc'[u] = loc[u]
    BY <1>1 DEF Runs
  <1>3. \/ motion = 0
        \/ /\ pc'[Worker(motion)] = pc[Worker(motion)]
           /\ loc'[Worker(motion)] = loc[Worker(motion)]
        \/ /\ {pc[Worker(motion)], pc'[Worker(motion)]} \cap MoverPlaces = {}
           /\ pc'[Worker(motion)] = "finish" => ~loc'[Worker(motion)].conf
    <2>1. motion # 0 => Worker(motion) \in Threads /\ Worker(motion) \in Workers
      BY <1>1 DEF Handles
    <2> QED BY <1>2, <2>1
  <1>4. (Falling => Falling') /\ (Homely => Homely')
    <2>1. UNCHANGED toDev \/ \E c \in Commands \ {"PARK"} : toDev' = Append(toDev, c)
      BY DEF MoveCommands
    <2> QED BY <1>1, <2>1, AuthSent
  <1> QED BY <1>1, <1>3, <1>4, AuthSame DEF AuthHere

LEMMA AuthStop ==
    ASSUME NEW a \in Apps, AuthHere(a), NEW t \in Threads, StopStep(t) \/ StopDeadline(t)
    PROVE  AuthOK'
  <1>1. TypeOK /\ StableOK
    BY IInvTypes DEF AuthHere, FlipHere
  <1>2. PICK l, r, o : Runs(t, l, r, o) /\ StopRunsOK(t, l, r, o)
    BY <1>1, StopRuns
  <1>3. {pc[t], l} \cap MoverPlaces = {} /\ (l = "finish" => ~r.conf)
    <2>1. pc[t] \notin MoverPlaces
      BY DEF StopStep, BeginStop, SendAbort, SendStopTrackOff, SendStop, MarkRevision, PollStopped,
             RecordStop, StopDeadline, MoverPlaces, BeforeGo
    <2> QED BY <1>2, <2>1 DEF StopRunsOK
  <1>4. /\ UNCHANGED <<mount, toCli, cache>>
        /\ UNCHANGED toDev \/ \E c \in Commands \ MoveCommands : toDev' = Append(toDev, c)
    BY <1>1, StopSends DEF Commands, MoveCommands
  <1>5. SameMoves
    BY <1>1, StopSameMoves
  <1>6. authority' => authority
    BY DEF StopStep, BeginStop, SendAbort, SendStopTrackOff, SendStop, MarkRevision, PollStopped,
           RecordStop, StopDeadline, Continue, client
  <1> QED BY <1>2, <1>3, <1>4, <1>5, <1>6, AuthElsewhere

\* A move begins when the one before is over.
LEMMA AuthStart ==
    ASSUME NEW a \in Apps, AuthHere(a), NEW k, StartMotion(a, k)
    PROVE  AuthOK'
  <1>1. /\ OneMoveAtATime /\ motion \in 0 .. MaxMoves /\ handle \in [Handles -> HandleRecords]
        /\ pc \in [Threads -> PCs] /\ \A i \in Handles : Worker(i) \in Threads
        /\ \A i, j \in Handles : Worker(i) = Worker(j) => i = j
    BY IInvTypes, ThreadFacts DEF AuthHere, FlipHere, IInv, HandlesOK, TypeOK
  <1> DEFINE n == motion + 1
  <1>2. /\ motion' = n /\ handle' = [handle EXCEPT ![n] = NewHandle(k)]
        /\ pc' = [pc EXCEPT ![Worker(n)] = "preflight"]
        /\ ActiveMotion = 0 /\ motion < MaxMoves
        /\ UNCHANGED <<mount, toDev, toCli, cache, authority>>
    BY DEF StartMotion, Jump, wire
  <1>3. n \in Handles /\ n # 0 /\ motion \in Nat /\ \A i \in Handles : i < n <=> i <= motion
    BY <1>1, <1>2, BoundsAssumption DEF Handles
  <1> HIDE DEF n
  <1>4. /\ pc'[Worker(n)] = "preflight" /\ ~handle'[n].conf
        /\ \A i \in Handles : i < n => handle'[i] = handle[i]
    <2>1. \A i \in Handles : i < n => i # n
      BY <1>3 DEF Handles
    <2>2. ~NewHandle(k).conf
      BY DEF NewHandle, NoHandle
    <2> QED BY <1>1, <1>2, <1>3, <2>1, <2>2
  <1>5. motion # 0 => motion \in Handles /\ pc[Worker(motion)] = "idle"
    <2> SUFFICES ASSUME motion # 0 PROVE motion \in Handles /\ pc[Worker(motion)] = "idle"
      OBVIOUS
    <2>1. motion \in Handles /\ handle[motion].done
      BY <1>1, <1>2 DEF Handles, ActiveMotion
    <2> QED BY <2>1, <1>1 DEF OneMoveAtATime, Underway
  <1>6. ParkWasReached' => Reached
    <2> SUFFICES ASSUME ParkWasReached' PROVE Reached
      OBVIOUS
    <2>1. \A i \in Handles :
             (/\ i <= motion /\ handle[i].kind = "park"
              /\ \A j \in Handles : i < j /\ j <= motion => handle[j].kind # "park")
                 => handle[i].conf
      BY <1>2, <1>3, <1>4 DEF ParkWasReached
    <2>2. CASE Parking
      <3>1. motion \in Handles /\ handle[motion].kind = "park"
        BY <1>5, <2>2 DEF Parking
      <3>2. \A j \in Handles : ~(motion < j /\ j <= motion) /\ motion <= motion
        BY <3>1 DEF Handles
      <3> QED BY <2>1, <2>2, <3>1, <3>2 DEF Reached, Confirms
    <2>3. CASE ~Parking
      <3>1. motion # 0 => handle[motion].kind # "park"
        BY <1>5, <2>3 DEF Parking
      <3>2. \A i \in Handles : i < motion => i <= motion
        BY <1>1 DEF Handles
      <3>3. \A j \in Handles : j <= motion => j < motion \/ j = motion
        BY <1>1 DEF Handles
      <3>4. ParkWasReached
        BY <2>1, <3>1, <3>2, <3>3 DEF ParkWasReached, Handles
      <3> QED BY <2>3, <3>4 DEF Reached
    <2> QED BY <2>2, <2>3
  <1>7. ~Parking' /\ ~OnItsWay'
    BY <1>2, <1>4 DEF Parking, OnItsWay
  <1>8. Reached' => Reached
    BY <1>6, <1>7 DEF Reached
  <1>9. (Falling => Falling') /\ (Homely => Homely')
    BY <1>2 DEF Falling, FallingSeen, FallingSent, MovesNot, Statuses, At, Says, Homely
  <1>10. (motion # 0 /\ pc[Worker(motion)] \in MoverPlaces => ~handle[motion].conf)'
    BY <1>2, <1>4
  <1> QED BY <1>2, <1>6, <1>7, <1>8, <1>9, <1>10 DEF AuthHere, AuthOK

\* The other calls, the end of a worker, supervisor and close().
LEMMA AuthCalls ==
    ASSUME NEW a \in Apps, Apps = {a}, AuthHere(a),
           \/ \E t \in Workers : WorkerEnd(t)
           \/ \E b \in Apps : AppCall(b)
           \/ SupervisorTick \/ CloseBegins \/ CloseEnds
    PROVE  AuthOK'
  <1>1. /\ \A t \in Threads : op = [op EXCEPT ![t] = op[t]] /\ loc = [loc EXCEPT ![t] = loc[t]]
                              /\ pc = [pc EXCEPT ![t] = pc[t]]
        /\ DataOK /\ OneMoveAtATime /\ motion \in 0 .. MaxMoves
        /\ handle \in [Handles -> HandleRecords]
    BY DEF AuthHere, FlipHere, IInv, ThreadsOK, HandlesOK
  <1>2. /\ a \in Threads /\ a \notin Workers
        /\ Sup \in Threads /\ Cls \in Threads /\ Sup \notin Workers /\ Cls \notin Workers
        /\ Workers \subseteq Threads
    BY ThreadFacts
  <1>3. {"setdone", "idle", "finish", "begin", "join", "closed"} \cap MoverPlaces = {}
    BY DEF MoverPlaces, BeforeGo
  <1>4. ASSUME NEW t \in Workers, WorkerEnd(t) PROVE AuthOK'
    <2>1. UNCHANGED <<mount, toDev, toCli, cache, authority, motion>> /\ t[2] \in Handles
          /\ t = Worker(t[2])
      BY <1>4, ThreadFacts DEF WorkerEnd, WorkerFinishes, WorkerSetsDone, wire
    <2>2. SameMoves
      <3>1. CASE WorkerFinishes(t)
        <4>1. pc[t] = "finish" /\ handle' = [handle EXCEPT ![t[2]] = Finished(@, loc[t].out, loc[t].conf)]
          BY <3>1 DEF WorkerFinishes
        <4>2. \A h \in HandleRecords : /\ Finished(h, loc[t].out, loc[t].conf).kind = h.kind
                                       /\ Finished(h, loc[t].out, loc[t].conf).conf = loc[t].conf
          BY DEF Finished, HandleRecords
        <4> QED BY <1>1, <2>1, <4>1, <4>2 DEF SameMoves
      <3>2. CASE WorkerSetsDone(t)
        BY <1>1, <2>1, <3>2 DEF WorkerSetsDone, SameMoves, HandleRecords
      <3> QED BY <1>4, <3>1, <3>2 DEF WorkerEnd
    <2>3. \E l, r, o : /\ Runs(t, l, r, o) /\ {pc[t], l} \cap MoverPlaces = {} /\ l # "finish"
      <3>1. CASE WorkerFinishes(t)
        <4>1. Runs(t, "setdone", loc[t], op[t]) /\ pc[t] = "finish"
          BY <1>1, <1>2, <3>1 DEF WorkerFinishes, Runs, Jump
        <4> QED BY <1>3, <4>1
      <3>2. CASE WorkerSetsDone(t)
        <4>1. Runs(t, "idle", NoLocals, "none") /\ pc[t] = "setdone"
          BY <3>2 DEF WorkerSetsDone, Runs, Jump
        <4> QED BY <1>3, <4>1
      <3> QED BY <1>4, <3>1, <3>2 DEF WorkerEnd
    <2> QED BY <1>2, <2>1, <2>2, <2>3, AuthElsewhere
  <1>5. CASE AppCall(a)
    <2>1. CASE \E k \in Ops \cap MoveOps : StartMotion(a, k)
      BY <2>1, AuthStart
    <2>2. CASE \E o \in Ops \ MoveOps : CallBlocking(a, o)
      <3>1. PICK o : CallBlocking(a, o)
        BY <2>2
      <3>2. Runs(a, "preflight", NoLocals, o)
        BY <3>1 DEF CallBlocking, Runs, Jump
      <3>3. SameMoves /\ UNCHANGED <<mount, toDev, toCli, cache, authority>>
        BY <3>1 DEF CallBlocking, wire, client, SameMoves
      <3> QED BY <1>2, <3>2, <3>3, AuthElsewhere
    <2>3. CASE CallStop(a)
      <3>1. Runs(a, "begin", NoLocals, op[a])
        BY <1>1, <1>2, <2>3 DEF CallStop, Runs, Jump
      <3>2. SameMoves /\ UNCHANGED <<mount, toDev, toCli, cache, authority>>
        BY <2>3 DEF CallStop, wire, client, SameMoves
      <3> QED BY <1>2, <3>1, <3>2, AuthElsewhere
    <2>4. ASSUME NEW i \in Handles, CallHandleStop(a, i) PROVE AuthOK'
      <3>1. Runs(a, "begin", [NoLocals EXCEPT !.own = i], op[a])
        BY <1>1, <1>2, <2>4 DEF CallHandleStop, Runs, Jump
      <3>2. SameMoves /\ UNCHANGED <<mount, toDev, toCli, cache, authority>>
        BY <1>1, <2>4 DEF CallHandleStop, wire, SameMoves, HandleRecords
      <3> QED BY <1>2, <3>1, <3>2, AuthElsewhere
    <2> QED BY <1>5, <2>1, <2>2, <2>3, <2>4 DEF AppCall
  <1>6. CASE SupervisorTick \/ CloseBegins
    <2>a. UNCHANGED <<mount, toDev, toCli, cache, op, loc, handle, motion>>
      BY <1>6 DEF SupervisorTick, CloseBegins, wire, client
    <2>b. authority' => authority
      <3>1. SupervisorTick => (authority' <=> AuthorityRead)
        BY DEF SupervisorTick
      <3>2. CloseBegins => authority' = authority
        BY DEF CloseBegins, client
      <3> QED BY <1>6, <3>1, <3>2 DEF AuthorityRead
    <2>1. /\ SameMoves /\ UNCHANGED <<mount, toDev, toCli, cache, op, loc>>
          /\ authority' => authority
      BY <2>a, <2>b DEF SameMoves
    <2>2. \E t \in {Sup, Cls} : \E l : Runs(t, l, loc[t], op[t])
      <3>1. UNCHANGED pc \/ \E t \in {Sup, Cls} : \E l : Jump(t, l)
        BY <1>6 DEF SupervisorTick, CloseBegins
      <3>2. CASE UNCHANGED pc
        <4>1. Runs(Sup, pc[Sup], loc[Sup], op[Sup])
          BY <1>1, <1>2, <2>1, <3>2 DEF Runs
        <4> QED BY <4>1
      <3>3. ASSUME NEW t \in {Sup, Cls}, NEW l, Jump(t, l) PROVE Runs(t, l, loc[t], op[t])
        BY <1>1, <1>2, <2>1, <3>3 DEF Runs, Jump
      <3> QED BY <3>1, <3>2, <3>3
    <2> QED BY <1>2, <2>1, <2>2, AuthElsewhere
  <1>7. CASE CloseEnds
    <2>1. /\ toCli' = <<>> /\ ~authority' /\ UNCHANGED <<mount, toDev, cache, loc>>
          /\ pc' = [pc EXCEPT ![Cls] = "closed"] /\ SameMoves
      BY <1>7 DEF CloseEnds, Jump, SameMoves
    <2>2. (Falling => Falling') /\ (Homely => Homely')
      BY <1>1, <2>1, CloseFlips DEF Homely
    <2>3. motion # 0 => pc'[Worker(motion)] = pc[Worker(motion)] /\ loc'[Worker(motion)] = loc[Worker(motion)]
      <3>1. \A i \in Handles : Worker(i) \in Threads /\ Worker(i) # Cls
        BY <1>2, ThreadFacts
      <3> QED BY <1>1, <2>1, <3>1 DEF AuthHere, FlipHere, IInv, ThreadsOK, Handles
    <2> QED BY <1>1, <2>1, <2>2, <2>3, AuthSame DEF AuthHere
  <1>8. \A b \in Apps : b = a
    OBVIOUS
  <1> QED BY <1>4, <1>5, <1>6, <1>7, <1>8

\* Nothing is under way and nobody has the authority.
LEMMA InitAuth == Init => AuthInv
  <1> SUFFICES ASSUME Init PROVE AuthOK
    BY DEF AuthInv
  <1>1. /\ mount \in Mounts /\ mount.motion = "IDLE" /\ toDev = <<>> /\ toCli = <<>>
        /\ cache = StatusOf(mount, FALSE) /\ ~authority /\ motion = 0
    BY DEF Init, InitialMounts
  <1>2. mount.parked => Falling
    <2>1. Statuses = {0} /\ At(0) = cache /\ DOMAIN toDev = {}
      BY <1>1 DEF Statuses, At
    <2>2. \A n \in Statuses : n = 0 /\ (Says(n) <=> mount.parked)
      BY <1>1, <2>1 DEF Says, StatusOf, RawGu, Slewing, Mounts
    <2>3. \A j, k \in Statuses : ~(j < k)
      BY <2>1
    <2> QED BY <2>1, <2>2, <2>3 DEF Falling, FallingSeen, FallingSent
  <1>3. ~mount.parked => Homely
    BY <1>1 DEF Homely
  <1> QED BY <1>1, <1>2, <1>3 DEF AuthOK, OnItsWay

LEMMA NextAuth == IInv /\ RealInv /\ FlipInv /\ AuthInv /\ [Next]_vars => AuthInv'
  <1> SUFFICES ASSUME IInv, RealInv, FlipInv, AuthOK, [Next]_vars, NEW a \in Apps, Apps = {a}
               PROVE  AuthOK'
    BY DEF AuthInv
  <1>1. AuthHere(a) /\ DataOK /\ DataOK' /\ MountSound(mount)
        /\ OneMoveAtATime /\ motion \in 0 .. MaxMoves
    BY NextIInv DEF AuthHere, FlipHere, FlipInv, RealInv, IInv, HandlesOK
  <1>2. CASE Device \/ ConnectionDrops \/ ReaderRecords
    <2>1. UNCHANGED <<pc, op, loc, handle, motion>>
      BY <1>1, <1>2, WireSteps DEF AuthHere, FlipHere, IInv, ThreadsOK
    <2>2. UNCHANGED authority
      BY <1>2 DEF Device, DeviceHandlesWrite, DeviceTick, DevicePublishes, DeviceFaults,
             ConnectionDrops, ReaderRecords, client
    <2>3. (Falling => Falling') /\ (Homely => Homely')
      BY <1>1, <1>2, WorldFlips, HomelyWorld
    <2>4. SameMoves
      BY <2>1 DEF SameMoves
    <2> QED BY <1>1, <2>1, <2>2, <2>3, <2>4, AuthSame
  <1>3. ASSUME NEW t \in Movers, MoverStep(t) \/ Deadline(t) PROVE AuthOK'
    BY <1>1, <1>3, AuthWorker, AuthCall DEF Movers
  <1>4. ASSUME NEW t \in Threads, StopStep(t) \/ StopDeadline(t) PROVE AuthOK'
    BY <1>1, <1>4, AuthStop
  <1>5. CASE \/ \E t \in Workers : WorkerEnd(t)
             \/ \E b \in Apps : AppCall(b)
             \/ SupervisorTick \/ CloseBegins \/ CloseEnds
    BY <1>1, <1>5, AuthCalls
  <1>6. CASE UNCHANGED vars
    <2>1. UNCHANGED <<mount, toDev, toCli, cache, pc, loc, handle, motion, authority>>
      BY <1>6 DEF vars, wire, client, threads
    <2>2. (Falling => Falling') /\ (Homely => Homely') /\ SameMoves
      BY <2>1 DEF Falling, FallingSeen, FallingSent, MovesNot, Statuses, At, Says, Homely, SameMoves
    <2> QED BY <1>1, <2>1, <2>2, AuthSame
  <1> QED BY <1>2, <1>3, <1>4, <1>5, <1>6 DEF Next, Terminated

\* IndiHomeRouter.authority_established is cleared by a PARK and taken by a
\* confirmed HOME: for one application thread it is not held while the mount is
\* parked, in any history and with any latency, unless the last PARK was given up.
THEOREM AuthorityUnparked == Spec => []AuthorityExcludesParked
  <1>1. Init => IInv /\ RealInv /\ FlipInv /\ AuthInv
    BY InitIInv, InitReal, InitFlip, InitAuth
  <1>2. IInv /\ RealInv /\ FlipInv /\ AuthInv /\ [Next]_vars
           => (IInv /\ RealInv /\ FlipInv /\ AuthInv)'
    BY NextIInv, NextReal, NextFlip, NextAuth
  <1>3. AuthInv => AuthorityExcludesParked
    BY DEF AuthInv, AuthOK, Homely, AuthorityExcludesParked
  <1> QED BY <1>1, <1>2, <1>3, PTL DEF Spec

-----------------------------------------------------------------------------
(* One caller, one mover.                                                  *)

\* "Only one move runs at a time" is kept between the application thread that
\* looks at client._motion and the workers it starts: as long as one thread
\* makes the calls, a blocking unpark or route and the move of a worker never
\* wait for the mount together, however the worker's end and the call interleave.
THEOREM OneCaller == Spec => []OneCallerOneMover
  <1>1. Init => IInv /\ RealInv /\ FlipInv
    BY InitIInv, InitReal, InitFlip
  <1>2. IInv /\ RealInv /\ FlipInv /\ [Next]_vars => (IInv /\ RealInv /\ FlipInv)'
    BY NextIInv, NextReal, NextFlip
  <1>3. IInv /\ RealInv /\ FlipInv => OneCallerOneMover
    <2> SUFFICES ASSUME IInv, RealInv, FlipInv, NEW a \in Apps, Apps = {a},
                        NEW t \in Movers, NEW u \in Movers,
                        pc[t] \in {"loop", "poll", "off"}, pc[u] \in {"loop", "poll", "off"}
                 PROVE  t = u
      BY DEF OneCallerOneMover, OnlyOneMover
    <2>1. OneMoveAtATime /\ KindsOK /\ motion \in 0 .. MaxMoves /\ CallsOK(a)
      BY DEF IInv, HandlesOK, RealInv, FlipInv
    <2>2. ASSUME NEW v \in Workers, pc[v] # "idle" PROVE v = Worker(motion)
      BY <2>1, <2>2, WorkerRuns
    <2>3. ASSUME pc[a] \in {"loop", "poll", "off"} PROVE \A v \in Workers : pc[v] = "idle"
      <3>1. op[a] # "none"
        BY <2>1, <2>3 DEF CallsOK, MoverPlaces
      <3> QED BY <2>1, <3>1, ThreadFacts DEF CallsOK
    <2> QED BY <2>2, <2>3 DEF Movers
  <1> QED BY <1>1, <1>2, <1>3, PTL DEF Spec

-----------------------------------------------------------------------------
(* close() halts the move it found.                                        *)

\* close() past the ABORT of its stop; a close() that was not asked to stop
\* holds no move.
PastAbort == pc[Cls] \in Halting \cup {"join", "closed"}

\* The connection is there for the ABORT, and the ABORT stays in front of
\* nothing that moves the mount.
CloseOK ==
    /\ pc[Cls] = "idle" => loc[Cls].held = 0
    /\ drops = 0 /\ pc[Cls] # "closed" => link = "open"
    /\ drops = 0 /\ motion # 0 /\ ~handle[motion].late /\ loc[Cls].held = motion /\ PastAbort
          => Halts

\* A step of a thread that starts no move keeps a device that was stopped halting.
LEMMA HaltsKept ==
    ASSUME TypeOK, motion # 0, handle[motion].stopReq, ~handle'[motion].late,
           ~handle[motion].late => Halts,
           \/ \E t \in Movers : MoverStep(t) \/ Deadline(t)
           \/ \E t \in Threads : StopStep(t) \/ StopDeadline(t)
    PROVE  Halts'
  <1>1. toDev \in Seq(Commands) /\ handle \in [Handles -> HandleRecords] /\ motion \in Handles
    BY DEF TypeOK, Handles
  <1>2. ASSUME Halts, UNCHANGED mount, toDev' = toDev PROVE Halts'
    BY <1>2 DEF Halts, MovesNot
  <1>3. ASSUME Halts, UNCHANGED mount, NEW c, c \notin MoveCommands, toDev' = Append(toDev, c)
        PROVE  Halts'
    BY <1>1, <1>3, HaltsSent
  <1>4. ASSUME NEW t \in Movers, MoverStep(t) \/ Deadline(t)
        PROVE  Halts'
    <2>1. UNCHANGED mount
      BY <1>4, MoverSends
    <2>4. handle[motion].late => handle'[motion].late
      BY <1>1, <1>4, MoverSends DEF Issues, HandleRecords
    <2>5. Halts
      BY <2>4
    <2>2. CASE Issues(t)
      <3>1. CommandOf(op[t]) \notin MoveCommands
        BY <1>1, <2>2 DEF Issues, HandleRecords
      <3>2. toDev' = Append(toDev, CommandOf(op[t])) /\ UNCHANGED handle
        BY <2>2, <3>1 DEF Issues
      <3> QED BY <1>3, <2>1, <2>5, <3>1, <3>2
    <2>3. CASE /\ UNCHANGED handle
               /\ toDev' = toDev \/ \E c \in {"SLEW", "TRACK_OFF"} : toDev' = Append(toDev, c)
      BY <1>2, <1>3, <2>1, <2>3, <2>5 DEF MoveCommands
    <2> QED BY <1>4, <2>2, <2>3, MoverSends
  <1>5. ASSUME NEW t \in Threads, StopStep(t) \/ StopDeadline(t)
        PROVE  Halts'
    <2>1. /\ UNCHANGED mount
          /\ toDev' = toDev \/ \E c \in {"ABORT", "TRACK_OFF"} : toDev' = Append(toDev, c)
      BY <1>5, StopSends
    <2>2. \A h \in HandleRecords, res \in StopResults : Recorded(h, res).late = h.late
      BY DEF Recorded, HandleRecords
    <2>3. ResultOf(t) \in StopResults
      BY DEF ResultOf, StopResults
    <2>4. handle'[motion].late = handle[motion].late
      <3>1. CASE UNCHANGED handle
        BY <3>1
      <3>2. CASE handle' = [handle EXCEPT ![ActiveMotion].stopReq = TRUE]
        BY <1>1, <3>2 DEF HandleRecords
      <3>3. CASE handle' = [i \in Handles |-> IF i \in {loc[t].held, loc[t].own}
                                              THEN Recorded(handle[i], ResultOf(t))
                                              ELSE handle[i]]
        BY <1>1, <2>2, <2>3, <3>3
      <3> QED BY <1>5, <3>1, <3>2, <3>3, StopSends
    <2> QED BY <1>2, <1>3, <2>1, <2>4 DEF MoveCommands
  <1> QED BY <1>4, <1>5

\* close() itself: its ABORT finds the connection open.
LEMMA CloserKeepsClose ==
    ASSUME TypeOK, StableOK, HaltInv, CloseOK, StopStep(Cls) \/ StopDeadline(Cls)
    PROVE  CloseOK'
  <1>1. PICK l, r, o : Runs(Cls, l, r, o) /\ StopRunsOK(Cls, l, r, o)
    BY StopRuns, ThreadFacts
  <1>2. /\ pc'[Cls] = l /\ loc'[Cls] = r
        /\ UNCHANGED <<motion, drops, link, mount>>
    <2>1. pc \in [Threads -> PCs] /\ loc \in [Threads -> Locals] /\ Cls \in Threads
      BY ThreadFacts DEF TypeOK
    <2> QED BY <1>1, <2>1, StopFrame DEF Runs, Sends
  <1>3. pc[Cls] \in Halting \cup {"begin", "abort"} /\ l \notin {"idle", "closed"}
    <2>1. pc[Cls] \in Halting \cup {"begin", "abort"}
      BY DEF StopStep, StopDeadline, BeginStop, SendAbort, SendStopTrackOff, SendStop, MarkRevision,
             PollStopped, RecordStop, Halting
    <2>2. Continue(Cls) => pc' = [pc EXCEPT ![Cls] = "join"]
      BY DEF Continue, Jump
    <2>3. pc'[Cls] \in Halting \cup {"abort", "join"}
      <3>1. pc \in [Threads -> PCs] /\ Cls \in Threads
        BY ThreadFacts DEF TypeOK
      <3> QED BY <2>2, <3>1 DEF StopStep, StopDeadline, BeginStop, SendAbort, SendStopTrackOff,
             SendStop, MarkRevision, PollStopped, RecordStop, Halting, Jump
    <2> QED BY <1>2, <2>1, <2>3 DEF Halting
  <1>4. ASSUME drops = 0, motion # 0, ~handle'[motion].late, r.held = motion,
               l \in Halting \cup {"join", "closed"}
        PROVE  Halts'
    <2>1. link = "open"
      BY <1>3, <1>4 DEF CloseOK, Halting
    <2>2. CASE pc[Cls] = "begin"
      <3>1. BeginStop(Cls)
        BY <2>2 DEF StopStep, StopDeadline, BeginStop, SendAbort, SendStopTrackOff, SendStop,
                    MarkRevision, PollStopped, RecordStop
      <3>2. pc' = [pc EXCEPT ![Cls] = "abort"]
        BY <2>1, <3>1 DEF BeginStop, Jump
      <3>3. l = "abort"
        BY <1>2, <3>2, ThreadFacts DEF TypeOK
      <3> QED BY <1>4, <3>3 DEF Halting
    <2>3. CASE pc[Cls] = "abort"
      <3>1. SendAbort(Cls)
        BY <2>3 DEF StopStep, StopDeadline, BeginStop, SendAbort, SendStopTrackOff, SendStop,
                    MarkRevision, PollStopped, RecordStop
      <3>2. toDev' = Append(toDev, "ABORT") /\ UNCHANGED mount /\ toDev \in Seq(Commands)
        BY <2>1, <3>1 DEF SendAbort, SendStop, TypeOK
      <3> QED BY <3>2, HaltsSent
    <2>4. CASE pc[Cls] \in Halting
      <3>1. loc[Cls].held = motion
        BY <1>1, <1>4, <2>4 DEF StopRunsOK, Halting
      <3>2. handle[motion].stopReq
        BY <1>4, <3>1, ThreadFacts DEF HaltInv, StopsOK
      <3>3. ~handle[motion].late => Halts
        BY <1>4, <2>4, <3>1 DEF CloseOK, PastAbort
      <3> QED BY <1>4, <3>2, <3>3, HaltsKept, ThreadFacts
    <2> QED BY <1>3, <2>2, <2>3, <2>4
  <1> QED BY <1>2, <1>3, <1>4 DEF CloseOK, PastAbort, Halting

\* Every other thread: the stop that close() asked for stays asked for.
LEMMA OthersKeepClose ==
    ASSUME TypeOK, HaltInv, CloseOK, NEW t \in Threads \ {Cls},
           (t \in Movers /\ (MoverStep(t) \/ Deadline(t))) \/ StopStep(t) \/ StopDeadline(t),
           UNCHANGED <<pc[Cls], loc[Cls], link, motion, drops>>
    PROVE  CloseOK'
  <1> SUFFICES ASSUME drops = 0, motion # 0, ~handle'[motion].late, loc[Cls].held = motion, PastAbort
               PROVE  Halts'
    BY DEF CloseOK, PastAbort
  <1>1. handle[motion].stopReq
    BY ThreadFacts DEF HaltInv, StopsOK
  <1>2. ~handle[motion].late => Halts
    BY DEF CloseOK
  <1> QED BY <1>1, <1>2, HaltsKept

\* The calls, the worker's end, the supervisor, and close() at its two ends.
LEMMA CallsKeepClose ==
    ASSUME TypeOK, HaltInv, CloseOK,
           \/ \E t \in Workers : WorkerEnd(t)
           \/ \E a \in Apps : AppCall(a)
           \/ SupervisorTick \/ CloseBegins \/ CloseEnds
    PROVE  CloseOK'
  <1>0. /\ pc \in [Threads -> PCs] /\ loc \in [Threads -> Locals]
        /\ handle \in [Handles -> HandleRecords] /\ motion \in 0 .. MaxMoves
        /\ motion # 0 => motion \in Handles
        /\ Cls \in Threads /\ Cls \notin Workers /\ Cls \notin Apps /\ Cls # Sup
    BY ThreadFacts DEF TypeOK, Handles
  \* A step that sends nothing and leaves close() and the move alone.
  <1>1. ASSUME UNCHANGED <<pc[Cls], loc[Cls], link, motion, drops, mount, toDev>>,
               motion # 0 /\ handle[motion].late => handle'[motion].late
        PROVE  CloseOK'
    BY <1>1 DEF CloseOK, PastAbort, Halts, MovesNot
  <1>2. ASSUME NEW t \in Workers, WorkerEnd(t) PROVE CloseOK'
    <2>1. t # Cls
      BY <1>0
    <2>2. CASE WorkerFinishes(t)
      <3>1. UNCHANGED <<pc[Cls], loc[Cls], link, motion, drops, mount, toDev>>
        BY <1>0, <2>1, <2>2 DEF WorkerFinishes, Jump, wire, budgets
      <3>2. \A h \in HandleRecords, out \in HandleStates, conf \in BOOLEAN :
               Finished(h, out, conf).late = h.late
        BY DEF Finished, HandleRecords
      <3>3. t \in Threads /\ loc[t].out \in HandleStates /\ loc[t].conf \in BOOLEAN
        BY <1>0, ThreadFacts DEF Locals
      <3>4. motion # 0 =>
               \/ handle'[motion] = handle[motion]
               \/ handle'[motion] = Finished(handle[motion], loc[t].out, loc[t].conf)
        BY <1>0, <2>2 DEF WorkerFinishes
      <3>5. motion # 0 /\ handle[motion].late => handle'[motion].late
        BY <1>0, <3>2, <3>3, <3>4
      <3> QED BY <1>1, <3>1, <3>5
    <2>3. CASE WorkerSetsDone(t)
      <3>1. UNCHANGED <<pc[Cls], loc[Cls], link, motion, drops, mount, toDev>>
        BY <1>0, <2>1, <2>3 DEF WorkerSetsDone, Jump, wire, budgets
      <3>2. motion # 0 /\ handle[motion].late => handle'[motion].late
        BY <1>0, <2>3 DEF WorkerSetsDone, HandleRecords
      <3> QED BY <1>1, <3>1, <3>2
    <2> QED BY <1>2, <2>2, <2>3 DEF WorkerEnd
  <1>3. ASSUME NEW a \in Apps, AppCall(a) PROVE CloseOK'
    <2>1. a # Cls
      BY <1>0
    <2>2. ASSUME NEW k, StartMotion(a, k) PROVE CloseOK'
      <3>1. /\ motion' = motion + 1 /\ motion < MaxMoves
            /\ pc' = [pc EXCEPT ![Worker(motion + 1)] = "preflight"]
            /\ loc' = [loc EXCEPT ![a] = NoLocals]
            /\ UNCHANGED <<link, drops>>
        BY <2>2 DEF StartMotion, Jump, budgets
      <3>2. Worker(motion + 1) \in Workers
        <4>1. motion + 1 \in Handles
          BY <1>0, <3>1, BoundsAssumption DEF Handles
        <4> QED BY <4>1, ThreadFacts
      <3>3. pc'[Cls] = pc[Cls] /\ loc'[Cls] = loc[Cls]
        BY <1>0, <2>1, <3>1, <3>2
      <3>4. loc[Cls].held # motion'
        <4>1. loc[Cls].held \in Nat /\ loc[Cls].held <= motion
          BY <1>0 DEF Locals, HaltInv, StopsOK
        <4> QED BY <1>0, <3>1, <4>1
      <3> QED BY <3>1, <3>3, <3>4 DEF CloseOK
    <2>3. ASSUME NEW o, CallBlocking(a, o) \/ CallStop(a) PROVE CloseOK'
      <3>1. UNCHANGED <<pc[Cls], loc[Cls], link, motion, drops, mount, toDev, handle>>
        BY <1>0, <2>1, <2>3 DEF CallBlocking, CallStop, Jump, wire, client
      <3> QED BY <1>1, <3>1
    <2>4. ASSUME NEW i \in Handles, CallHandleStop(a, i) PROVE CloseOK'
      <3>1. UNCHANGED <<pc[Cls], loc[Cls], link, motion, drops, mount, toDev>>
        BY <1>0, <2>1, <2>4 DEF CallHandleStop, Jump, wire
      <3>2. motion # 0 /\ handle[motion].late => handle'[motion].late
        BY <1>0, <2>4 DEF CallHandleStop, HandleRecords
      <3> QED BY <1>1, <3>1, <3>2
    <2> QED BY <1>3, <2>2, <2>3, <2>4 DEF AppCall
  <1>4. CASE SupervisorTick
    <2>1. UNCHANGED <<pc[Cls], loc[Cls], link, motion, drops, mount, toDev, handle>>
      BY <1>0, <1>4 DEF SupervisorTick, Jump, wire
    <2> QED BY <1>1, <2>1
  <1>5. CASE CloseBegins
    <2>1. /\ pc[Cls] = "idle" /\ pc'[Cls] \in {"begin", "join"}
          /\ UNCHANGED <<loc, link, motion, drops>>
      BY <1>0, <1>5 DEF CloseBegins, Jump, client, budgets
    <2> QED BY <2>1 DEF CloseOK
  <1>6. CASE CloseEnds
    <2>1. /\ pc[Cls] = "join" /\ pc'[Cls] = "closed"
          /\ UNCHANGED <<loc, motion, drops, mount, toDev, handle>>
      BY <1>0, <1>6 DEF CloseEnds, Jump, budgets
    <2> QED BY <2>1 DEF CloseOK, PastAbort, Halts, MovesNot
  <1> QED BY <1>2, <1>3, <1>4, <1>5, <1>6

\* The device, the wire and the reader: only a drop takes the connection away.
LEMMA WireKeepsClose ==
    ASSUME DataOK, pc \in [Threads -> PCs], CloseOK, Device \/ ConnectionDrops \/ ReaderRecords
    PROVE  CloseOK'
  <1>1. UNCHANGED <<pc, op, loc, handle, motion>>
    BY WireSteps
  <1>2. CASE Device \/ ReaderRecords
    <2>1. UNCHANGED <<link, drops>> /\ (Halts => Halts')
      BY <1>2, HaltsDevice DEF Device, DeviceHandlesWrite, DeviceTick, DevicePublishes, DeviceFaults,
                               ReaderRecords, budgets, client
    <2> QED BY <1>1, <2>1 DEF CloseOK, PastAbort
  <1>3. CASE ConnectionDrops
    <2>1. drops' # 0
      BY <1>3 DEF ConnectionDrops, DataOK
    <2> QED BY <1>1, <2>1 DEF CloseOK
  <1> QED BY <1>2, <1>3

\* Every step keeps a move that close() stopped halted.
LEMMA NextClose == IInv /\ StableOK /\ HaltInv /\ CloseOK /\ [Next]_vars => CloseOK'
  <1> SUFFICES ASSUME IInv, StableOK, HaltInv, CloseOK, [Next]_vars PROVE CloseOK'
    OBVIOUS
  <1> TypeOK /\ DataOK /\ pc \in [Threads -> PCs] /\ loc \in [Threads -> Locals]
    BY IInvTypes DEF IInv, ThreadsOK
  <1>1. CASE UNCHANGED vars
    <2>1. UNCHANGED <<mount, toDev, handle, motion, pc, loc, link, drops>>
      BY <1>1 DEF vars, wire, client, threads, budgets
    <2> QED BY <2>1 DEF CloseOK, PastAbort, Halts, MovesNot
  <1>2. ASSUME NEW t \in Movers, MoverStep(t) \/ Deadline(t) PROVE CloseOK'
    <2>1. t \in Threads \ {Cls}
      BY ThreadFacts
    <2>2. \E l, r, o : Runs(t, l, r, o)
      BY <1>2, MoverRuns
    <2>3. UNCHANGED <<pc[Cls], loc[Cls], link, motion, drops>>
      BY <1>2, <2>1, <2>2, MoverFrame, ThreadFacts DEF Runs, Sends
    <2> QED BY <1>2, <2>1, <2>3, OthersKeepClose
  <1>3. ASSUME NEW t \in Threads \ {Cls}, StopStep(t) \/ StopDeadline(t) PROVE CloseOK'
    <2>1. \E l, r, o : Runs(t, l, r, o)
      BY <1>3, StopRuns
    <2>2. UNCHANGED <<pc[Cls], loc[Cls], link, motion, drops>>
      BY <1>3, <2>1, StopFrame, ThreadFacts DEF Runs, Sends
    <2> QED BY <1>3, <2>2, OthersKeepClose
  <1> QED BY <1>1, <1>2, <1>3, CloserKeepsClose, CallsKeepClose, WireKeepsClose, ThreadFacts
        DEF Next, Terminated

\* OnStepIndiClient.close keeps its word when the connection lasts: the move it
\* found running does not slew once the device has read what it was sent, even if
\* the stop could not be confirmed in time, unless a command to move left after
\* the request; for every schedule of the threads, calls and faults.
THEOREM CloseHalts == Spec => []CloseHaltsMove
  <1> DEFINE I == IInv /\ StableOK /\ HaltInv /\ CloseOK
  <1>1. Init => I
    <2>1. Init => CloseOK
      <3> SUFFICES ASSUME Init PROVE CloseOK
        OBVIOUS
      <3>1. NoLocals.held = 0
        BY DEF NoLocals, Result
      <3> QED BY <3>1, ThreadFacts DEF Init, CloseOK
    <2> QED BY <2>1, InitIInv, InitHalts
  <1>2. I /\ [Next]_vars => I'
    BY NextIInv, NextStable, NextHalts, NextClose
  <1>3. I => CloseHaltsMove
    <2> SUFFICES ASSUME CloseOK, pc[Cls] = "closed", loc[Cls].held # 0, loc[Cls].held = motion,
                        ~handle[motion].late, toDev = <<>>, drops = 0
                 PROVE  mount.motion # "SLEWING"
      BY DEF CloseHaltsMove
    <2>1. Halts
      BY DEF CloseOK, PastAbort
    <2>2. DOMAIN toDev = {}
      OBVIOUS
    <2> QED BY <2>1, <2>2 DEF Halts, MovesNot
  <1> QED BY <1>1, <1>2, <1>3, PTL DEF Spec

=============================================================================
