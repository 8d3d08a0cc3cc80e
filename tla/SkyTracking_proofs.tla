-------------------------- MODULE SkyTracking_proofs --------------------------
(***************************************************************************)
(* Proofs about SkyTracking, for any policy, any pulses and any latency.   *)
(***************************************************************************)
EXTENDS SkyTracking, SequenceTheorems, WellFoundedInduction, TLAPS

USE SkyAssumption

-----------------------------------------------------------------------------
(* The invariant.                                                          *)

Places == {"idle", "stop", "stopoff", "spoll", "switch", "answer", "confirm",
           "preflight", "issue", "pulse", "over"}

\* What the steps below need to know of the types; the queue is a sequence,
\* whatever the chunks in it are.
Shapes ==
    /\ mount \in Mounts /\ pc \in [Threads -> Places]
    /\ \E C : toDev \in Seq(C)

\* What the device will do of what was sent leaves tracking off.
OffBehindOn ==
    \E i \in DOMAIN toDev :
        toDev[i].c = "OFF" /\ \A j \in DOMAIN toDev : j > i => toDev[j].c # "ON"
NoneOn == \A j \in DOMAIN toDev : toDev[j].c # "ON"
TurnsOff == OffBehindOn \/ (NoneOn /\ (~mount.tracking \/ trackState = "Alert"))

\* A stop of enable_tracking that waits for its statuses turns tracking off.
IInv == Shapes /\ (pc["track"] = "spoll" /\ link = "open" => TurnsOff)

-----------------------------------------------------------------------------
(* Queues and mounts.                                                      *)

LEMMA Appended ==
    ASSUME NEW C, NEW q \in Seq(C), NEW e
    PROVE  /\ \E D : Append(q, e) \in Seq(D)
           /\ Len(q) \in Nat /\ DOMAIN q = 1..Len(q)
           /\ DOMAIN Append(q, e) = 1..Len(q) + 1 /\ Append(q, e)[Len(q) + 1] = e
           /\ \A i \in DOMAIN q : Append(q, e)[i] = q[i]
  <1> DEFINE D == C \cup {e}
  <1>1. Len(q) \in Nat /\ DOMAIN q = 1..Len(q) /\ \A i \in 1..Len(q) : q[i] \in D
    BY LenProperties, ElementOfSeq
  <1>2. q \in Seq(D)
    BY <1>1, LenProperties, SeqDef
  <1>3. e \in D
    OBVIOUS
  <1> HIDE DEF D
  <1> QED BY <1>1, <1>2, <1>3, AppendProperties

LEMMA Popped ==
    ASSUME NEW C, NEW q \in Seq(C), q # <<>>
    PROVE  /\ \E D : Tail(q) \in Seq(D)
           /\ Len(q) \in Nat /\ Len(q) > 0 /\ DOMAIN q = 1..Len(q) /\ Head(q) = q[1]
           /\ DOMAIN Tail(q) = 1..Len(q) - 1
           /\ \A i \in DOMAIN Tail(q) : Tail(q)[i] = q[i + 1]
  BY HeadTailProperties, EmptySeq, LenProperties

LEMMA SwitchFacts ==
    ASSUME NEW m \in Mounts, NEW on \in BOOLEAN
    PROVE  SetTracking(m, on) \in Mounts /\ (~on => ~SetTracking(m, on).tracking)
  BY DEF SetTracking, SetTrackingRefused, Mounts

LEMMA MountFacts ==
    ASSUME NEW m \in Mounts
    PROVE  /\ Abort(m) \in Mounts /\ Abort(m).tracking = m.tracking
           /\ Guide(m) \in Mounts /\ Guide(m).tracking = m.tracking
           /\ GuideEnded(m) \in Mounts /\ GuideEnded(m).tracking = m.tracking
           /\ SetFault(m, "LIMIT") \in Mounts /\ ~SetFault(m, "LIMIT").tracking
  <1>1. ASSUME NEW k \in Mounts PROVE Abort(k) \in Mounts /\ Abort(k).tracking = k.tracking
    BY DEF Abort, Mounts, MotionStates, TargetKinds
  <1>2. Guide(m) \in Mounts /\ Guide(m).tracking = m.tracking
    BY DEF Guide, Mounts
  <1>3. GuideEnded(m) \in Mounts /\ GuideEnded(m).tracking = m.tracking
    BY DEF GuideEnded, Mounts
  <1>4. [m EXCEPT !.fault = "LIMIT"] \in Mounts
    BY DEF Mounts, Faults
  <1>5. SetFault(m, "LIMIT") = SetTracking(Abort([m EXCEPT !.fault = "LIMIT"]), FALSE)
    BY DEF SetFault
  <1>6. SetFault(m, "LIMIT") \in Mounts /\ ~SetFault(m, "LIMIT").tracking
    BY <1>1, <1>4, <1>5, SwitchFacts
  <1> QED BY <1>1, <1>2, <1>3, <1>6

-----------------------------------------------------------------------------
(* Steps of the queue.                                                     *)

\* The device takes a command that is no ON, or one that is.
LEMMA TakenStep ==
    ASSUME Shapes, toDev # <<>>, toDev' = Tail(toDev), TurnsOff, mount'.tracking = mount.tracking,
           trackState' = trackState, Head(toDev).c \notin {"ON", "OFF"}
    PROVE  TurnsOff'
  <1>1. PICK C : toDev \in Seq(C)
    BY DEF Shapes
  <1>2. /\ Len(toDev) \in Nat /\ DOMAIN toDev = 1..Len(toDev) /\ Head(toDev) = toDev[1]
        /\ DOMAIN toDev' = 1..Len(toDev) - 1
        /\ \A i \in DOMAIN toDev' : toDev'[i] = toDev[i + 1]
    BY <1>1, Popped
  <1>3. CASE OffBehindOn
    <2>1. PICK i \in DOMAIN toDev :
              toDev[i].c = "OFF" /\ \A j \in DOMAIN toDev : j > i => toDev[j].c # "ON"
      BY <1>3 DEF OffBehindOn
    <2>2. i # 1 /\ i - 1 \in DOMAIN toDev' /\ toDev'[i - 1] = toDev[i]
      BY <1>2, <2>1
    <2>3. \A j \in DOMAIN toDev' : j > i - 1 => j + 1 \in DOMAIN toDev /\ j + 1 > i
      BY <1>2, <2>1
    <2> QED BY <1>2, <2>1, <2>2, <2>3 DEF OffBehindOn, TurnsOff
  <1>4. CASE NoneOn
    <2>1. \A j \in DOMAIN toDev' : j + 1 \in DOMAIN toDev
      BY <1>2
    <2>2. NoneOn'
      BY <1>2, <1>4, <2>1 DEF NoneOn
    <2> QED BY <1>3, <2>2 DEF TurnsOff
  <1> QED BY <1>3, <1>4 DEF TurnsOff

LEMMA SwitchedStep ==
    ASSUME Shapes, DeviceSwitches, TurnsOff
    PROVE  TurnsOff'
  <1>1. PICK C : toDev \in Seq(C)
    BY DEF Shapes
  <1>2. toDev # <<>> /\ toDev' = Tail(toDev)
    BY DEF DeviceSwitches
  <1>3. /\ Len(toDev) \in Nat /\ DOMAIN toDev = 1..Len(toDev) /\ Head(toDev) = toDev[1]
        /\ DOMAIN toDev' = 1..Len(toDev) - 1 /\ Len(toDev) > 0
        /\ \A i \in DOMAIN toDev' : toDev'[i] = toDev[i + 1]
    BY <1>1, <1>2, Popped
  <1>4. \A j \in DOMAIN toDev' : j + 1 \in DOMAIN toDev /\ j + 1 > 1
    BY <1>3
  <1>5. Head(toDev).c = "OFF" => ~mount'.tracking \/ trackState' = "Alert"
    <2> SUFFICES ASSUME Head(toDev).c = "OFF" PROVE ~mount'.tracking \/ trackState' = "Alert"
      OBVIOUS
    <2> DEFINE on == Head(toDev).c = "ON"
    <2>1. on \in BOOLEAN /\ ~on
      OBVIOUS
    <2>2. mount' = SetTracking(mount, on) \/ trackState' = "Alert"
      BY DEF DeviceSwitches
    <2> HIDE DEF on
    <2> QED BY <2>1, <2>2, SwitchFacts DEF Shapes
  <1>6. CASE OffBehindOn
    <2>1. PICK i \in DOMAIN toDev :
              toDev[i].c = "OFF" /\ \A j \in DOMAIN toDev : j > i => toDev[j].c # "ON"
      BY <1>6 DEF OffBehindOn
    <2>2. CASE i = 1
      <3>1. NoneOn'
        BY <1>3, <1>4, <2>1, <2>2 DEF NoneOn
      <3> QED BY <1>3, <1>5, <2>1, <2>2, <3>1 DEF TurnsOff
    <2>3. CASE i # 1
      <3>1. i - 1 \in DOMAIN toDev' /\ toDev'[i - 1] = toDev[i]
        BY <1>3, <2>1, <2>3
      <3>2. \A j \in DOMAIN toDev' : j > i - 1 => j + 1 \in DOMAIN toDev /\ j + 1 > i
        BY <1>3, <2>1
      <3> QED BY <1>3, <2>1, <3>1, <3>2 DEF OffBehindOn, TurnsOff
    <2> QED BY <2>2, <2>3
  <1>7. CASE NoneOn
    <2>1. NoneOn' /\ Head(toDev).c # "ON"
      BY <1>3, <1>4, <1>7 DEF NoneOn
    <2>2. Head(toDev).c = "OFF"
      BY <2>1 DEF DeviceSwitches
    <2> QED BY <1>5, <2>1, <2>2 DEF TurnsOff
  <1> QED BY <1>6, <1>7 DEF TurnsOff

\* A command that is no ON is sent behind the others.
LEMMA SentStep ==
    ASSUME Shapes, NEW e, toDev' = Append(toDev, e), e.c # "ON", TurnsOff \/ e.c = "OFF",
           UNCHANGED <<mount, trackState>>
    PROVE  TurnsOff'
  <1>1. PICK C : toDev \in Seq(C)
    BY DEF Shapes
  <1>2. /\ Len(toDev) \in Nat /\ DOMAIN toDev = 1..Len(toDev)
        /\ DOMAIN toDev' = 1..Len(toDev) + 1 /\ toDev'[Len(toDev) + 1] = e
        /\ \A i \in DOMAIN toDev : toDev'[i] = toDev[i]
    BY <1>1, Appended
  <1>3. \A i \in DOMAIN toDev' : i = Len(toDev) + 1 \/ i \in DOMAIN toDev
    BY <1>2
  <1>4. \A i \in DOMAIN toDev : i \in DOMAIN toDev'
    BY <1>2
  <1>5. CASE e.c = "OFF"
    <2>1. Len(toDev) + 1 \in DOMAIN toDev'
          /\ \A j \in DOMAIN toDev' : ~(j > Len(toDev) + 1)
      BY <1>2
    <2> QED BY <1>2, <1>5, <2>1 DEF OffBehindOn, TurnsOff
  <1>6. CASE OffBehindOn
    <2>1. OffBehindOn'
      BY <1>2, <1>3, <1>4, <1>6 DEF OffBehindOn
    <2> QED BY <2>1 DEF TurnsOff
  <1>7. CASE NoneOn /\ (~mount.tracking \/ trackState = "Alert")
    <2>1. NoneOn'
      BY <1>2, <1>3, <1>7 DEF NoneOn
    <2> QED BY <1>7, <2>1 DEF TurnsOff
  <1> QED BY <1>5, <1>6, <1>7 DEF TurnsOff

-----------------------------------------------------------------------------
(* The invariant holds, and what it implies.                               *)

LEMMA InitIInv == Init => IInv
  <1> SUFFICES ASSUME Init PROVE IInv
    OBVIOUS
  <1>1. mount \in Mounts
    <2>1. PICK m \in InitialMounts, t \in BOOLEAN : mount = [m EXCEPT !.tracking = t]
      BY DEF Init
    <2> QED BY <2>1 DEF InitialMounts, Mounts
  <1>2. toDev \in Seq({})
    BY EmptySeq DEF Init
  <1>3. pc \in [Threads -> Places] /\ pc["track"] = "idle"
    BY DEF Init, Places, Threads, Callers
  <1> QED BY <1>1, <1>2, <1>3 DEF IInv, Shapes

\* The device takes a command that switches nothing; it takes none; the
\* connection drops.
TakesOther ==
    /\ toDev # <<>> /\ toDev' = Tail(toDev) /\ Head(toDev).c \notin {"ON", "OFF"}
    /\ trackState' = trackState /\ link' = link /\ pc' = pc
    /\ mount' = Abort(mount) \/ mount' = Guide(mount) \/ mount' = mount
TakesNone ==
    /\ toDev' = toDev /\ trackState' = trackState /\ link' = link /\ pc' = pc
    /\ mount' = GuideEnded(mount) \/ mount' = SetFault(mount, "LIMIT") \/ mount' = mount
Drops == link' = "failed" /\ toDev' \in {toDev, <<>>} /\ mount' = mount /\ pc' = pc

LEMMA WorldActions ==
    ASSUME \/ Device \/ DevicePublishes \/ SkyTurns \/ ReaderRecords
           \/ LimitReached \/ BaselineLost \/ ConnectionDrops \/ ThrottleEnds
    PROVE  DeviceSwitches \/ TakesOther \/ TakesNone \/ Drops
  <1>1. CASE DeviceAborts
    BY <1>1 DEF DeviceAborts, TakesOther, ClientKeeps, locals
  <1>2. CASE DeviceGuides
    BY <1>2 DEF DeviceGuides, TakesOther, ClientKeeps, locals
  <1>3. CASE PulseEnds
    BY <1>3 DEF PulseEnds, TakesNone, ClientKeeps, locals
  <1>4. CASE DevicePublishes
    BY <1>4 DEF DevicePublishes, TakesNone, ClientKeeps, device, locals
  <1>5. CASE SkyTurns
    BY <1>5 DEF SkyTurns, TakesNone, ClientKeeps, wire, locals
  <1>6. CASE ReaderRecords
    BY <1>6 DEF ReaderRecords, TakesNone, device, locals
  <1>7. CASE LimitReached
    BY <1>7 DEF LimitReached, TakesNone, ClientKeeps, locals
  <1>8. CASE BaselineLost
    BY <1>8 DEF BaselineLost, TakesNone, device, wire, locals
  <1>9. CASE ConnectionDrops
    BY <1>9 DEF ConnectionDrops, Drops, ClientKeeps, device, locals
  <1>10. CASE ThrottleEnds
    BY <1>10 DEF ThrottleEnds, TakesNone, device, wire, locals
  <1> QED BY <1>1, <1>2, <1>3, <1>4, <1>5, <1>6, <1>7, <1>8, <1>9, <1>10 DEF Device

LEMMA WorldStep ==
    ASSUME IInv, \/ Device \/ DevicePublishes \/ SkyTurns \/ ReaderRecords
                 \/ LimitReached \/ BaselineLost \/ ConnectionDrops \/ ThrottleEnds
    PROVE  IInv'
  <1>1. DeviceSwitches \/ TakesOther \/ TakesNone \/ Drops
    BY WorldActions
  <1>2. CASE DeviceSwitches
    <2>1. toDev # <<>> /\ toDev' = Tail(toDev) /\ link' = link /\ pc' = pc
      BY <1>2 DEF DeviceSwitches, ClientKeeps, locals
    <2>2. mount' \in Mounts
      <3> DEFINE on == Head(toDev).c = "ON"
      <3>1. on \in BOOLEAN
        OBVIOUS
      <3>2. mount' = SetTracking(mount, on) \/ mount' = mount
        BY <1>2 DEF DeviceSwitches
      <3> HIDE DEF on
      <3> QED BY <3>1, <3>2, SwitchFacts DEF IInv, Shapes
    <2> QED BY <1>2, <2>1, <2>2, Popped, SwitchedStep DEF IInv, Shapes
  <1>3. CASE TakesOther
    <2>1. mount' \in Mounts /\ mount'.tracking = mount.tracking
      BY <1>3, MountFacts DEF TakesOther, IInv, Shapes
    <2>2. TurnsOff => TurnsOff'
      BY <1>3, <2>1, TakenStep DEF TakesOther, IInv
    <2>3. \E C : toDev' \in Seq(C)
      BY <1>3, Popped DEF TakesOther, IInv, Shapes
    <2> QED BY <1>3, <2>1, <2>2, <2>3 DEF TakesOther, IInv, Shapes
  <1>4. CASE TakesNone
    <2>1. mount' \in Mounts /\ (mount'.tracking = mount.tracking \/ ~mount'.tracking)
      BY <1>4, MountFacts DEF TakesNone, IInv, Shapes
    <2>2. TurnsOff => TurnsOff'
      BY <1>4, <2>1 DEF TakesNone, TurnsOff, OffBehindOn, NoneOn
    <2> QED BY <1>4, <2>1, <2>2 DEF TakesNone, IInv, Shapes
  <1>5. CASE Drops
    <2>1. \E C : toDev' \in Seq(C)
      BY <1>5, EmptySeq DEF Drops, IInv, Shapes
    <2> QED BY <1>5, <2>1 DEF Drops, IInv, Shapes
  <1> QED BY <1>1, <1>2, <1>3, <1>4, <1>5

\* What a step of thread t writes; Sends is a command that leaves, if any does.
Sends(e) == toDev' \in {toDev, Append(toDev, e)}
Goes(t, l) == pc' = [pc EXCEPT ![t] = l] \/ (pc' = pc /\ pc[t] = l)

LEMMA ThreadStep ==
    ASSUME IInv, NEW t \in Threads, NEW l \in Places, Goes(t, l), NEW e, Sends(e),
           UNCHANGED <<mount, trackState, link>>,
           e.c # "ON" \/ (t = "track" /\ l # "spoll"),
           t = "track" /\ l = "spoll" /\ link = "open"
               => pc["track"] = "spoll" \/ (toDev' = Append(toDev, e) /\ e.c = "OFF")
    PROVE  IInv'
  <1>1. Shapes'
    <2>1. PICK C : toDev \in Seq(C)
      BY DEF IInv, Shapes
    <2>2. \E D : toDev' \in Seq(D)
      <3>1. \E D : Append(toDev, e) \in Seq(D)
        BY <2>1, Appended
      <3>2. toDev' = toDev \/ toDev' = Append(toDev, e)
        BY DEF Sends
      <3> QED BY <2>1, <3>1, <3>2
    <2>3. pc' \in [Threads -> Places] /\ mount' \in Mounts
      BY DEF IInv, Shapes, Goes
    <2> QED BY <2>2, <2>3 DEF Shapes
  <1>2. /\ pc'[t] = l /\ \A u \in Threads \ {t} : pc'[u] = pc[u]
        /\ "track" \in Threads
    BY DEF IInv, Shapes, Goes, Threads, Callers
  <1>3. ASSUME pc'["track"] = "spoll", link' = "open" PROVE TurnsOff'
    <2>1. e.c # "ON" /\ (TurnsOff \/ (toDev' = Append(toDev, e) /\ e.c = "OFF"))
      BY <1>2, <1>3 DEF IInv
    <2>2. CASE toDev' = Append(toDev, e)
      BY <2>1, <2>2, SentStep DEF IInv
    <2>3. CASE toDev' = toDev /\ TurnsOff
      BY <2>3 DEF TurnsOff, OffBehindOn, NoneOn
    <2> QED BY <2>1, <2>2, <2>3 DEF Sends
  <1> QED BY <1>1, <1>3 DEF IInv

LEMMA StopsStep ==
    ASSUME IInv, NEW t \in Threads, StopStep(t) \/ StopUnconfirmed(t)
    PROVE  IInv'
  <1> USE DEF ClientActs, device, Sends, Goes
  <1>1. UNCHANGED <<mount, trackState, link>>
        /\ {"idle", "stopoff", "spoll"} \subseteq Places /\ Cmd("ABORT").c # "ON" /\ Cmd("OFF").c = "OFF"
    BY DEF StopStep, StopBegins, StopTracking, StopPoll, StopUnconfirmed, Places, Cmd
  <1>2. CASE StopBegins(t)
    <2>1. (Goes(t, "stopoff") \/ Goes(t, "idle")) /\ Sends(Cmd("ABORT"))
      BY <1>2 DEF StopBegins, Send, Jump, Return
    <2> QED BY <1>1, <2>1, ThreadStep
  <1>3. CASE StopTracking(t)
    <2>1. Goes(t, "spoll") /\ Sends(Cmd("OFF"))
          /\ (link = "open" => toDev' = Append(toDev, Cmd("OFF")))
      BY <1>3 DEF StopTracking, Send, Jump
    <2> QED BY <1>1, <2>1, ThreadStep
  <1>4. CASE StopPoll(t) \/ StopUnconfirmed(t)
    <2>1. (Goes(t, "spoll") \/ Goes(t, "idle")) /\ Sends(Cmd("OFF")) /\ pc[t] = "spoll"
      BY <1>4 DEF StopPoll, StopUnconfirmed, Jump, Return
    <2> QED BY <1>1, <2>1, ThreadStep
  <1> QED BY <1>2, <1>3, <1>4 DEF StopStep

\* The other steps of a thread t: it goes to l and sends e, if anything.
Acts(t, l, e) == Goes(t, l) /\ Sends(e) /\ UNCHANGED <<mount, trackState, link>>

LEMMA ActsStep ==
    ASSUME IInv, NEW t \in Threads, NEW l \in Places \ {"spoll"}, NEW e, Acts(t, l, e),
           e.c # "ON" \/ t = "track"
    PROVE  IInv'
  BY ThreadStep DEF Acts

LEMMA TrackStep ==
    ASSUME IInv, \/ Enable \/ Switch \/ SwitchAnswered \/ SwitchDeadline
                 \/ ConfirmTracking \/ ConfirmDeadline
    PROVE  IInv'
  <1> USE DEF TrackKeeps, ClientActs, device, Sends, Goes, Jump, Return, Acts
  <1>1. {"idle", "switch", "answer", "confirm", "stop"} \subseteq Places \ {"spoll"}
        /\ "track" \in Threads
    BY DEF Places, Threads, Callers
  <1>2. CASE Enable
    <2>1. \E l \in {"idle", "switch"} : Acts("track", l, Cmd("ON"))
      BY <1>2 DEF Enable
    <2> HIDE DEF Acts
    <2> QED BY <1>1, <2>1, ActsStep
  <1>3. CASE Switch
    <2>1. \E l \in {"idle", "confirm", "answer"} : Acts("track", l, Cmd("ON"))
      BY <1>3 DEF Switch, Send
    <2> HIDE DEF Acts
    <2> QED BY <1>1, <2>1, ActsStep
  <1>4. CASE SwitchAnswered \/ SwitchDeadline
    <2>1. \E l \in {"idle", "confirm", "answer"} : Acts("track", l, Cmd("ON"))
      BY <1>4 DEF SwitchAnswered, SwitchDeadline
    <2> HIDE DEF Acts
    <2> QED BY <1>1, <2>1, ActsStep
  <1>5. CASE ConfirmTracking \/ ConfirmDeadline
    <2>1. \E l \in {"idle", "confirm", "stop"} : Acts("track", l, Cmd("ON"))
      BY <1>5 DEF ConfirmTracking, ConfirmDeadline
    <2> HIDE DEF Acts
    <2> QED BY <1>1, <2>1, ActsStep
  <1> QED BY <1>2, <1>3, <1>4, <1>5

LEMMA GuideStep ==
    ASSUME IInv, \/ GuidePreflight \/ Issue \/ PulseAnswered \/ PulseDeadline
                 \/ GuideIdle \/ IdleDeadline \/ \E ms \in Durations : Pulse(ms)
    PROVE  IInv'
  <1> USE DEF GuideKeeps, ClientActs, device, Sends, Goes, Jump, Return, Acts,
              GuideReturns, GuideFails
  <1> DEFINE chunk == [c |-> "GUIDE", ms |-> Head(chunks)]
  <1>1. {"idle", "preflight", "issue", "pulse", "over", "stop"} \subseteq Places \ {"spoll"}
        /\ "guide" \in Threads /\ chunk.c # "ON"
    BY DEF Places, Threads, Callers
  <1>2. \E l \in {"idle", "preflight", "issue", "pulse", "over", "stop"} : Acts("guide", l, chunk)
    <2>1. CASE GuidePreflight
      BY <2>1 DEF GuidePreflight
    <2>2. CASE Issue
      BY <2>2 DEF Issue, Send
    <2>3. CASE PulseAnswered \/ PulseDeadline
      BY <2>3 DEF PulseAnswered, PulseDeadline
    <2>4. CASE GuideIdle \/ IdleDeadline
      BY <2>4 DEF GuideIdle, IdleDeadline
    <2>5. CASE \E ms \in Durations : Pulse(ms)
      BY <2>5 DEF Pulse
    <2> QED BY <2>1, <2>2, <2>3, <2>4, <2>5
  <1> HIDE DEF Acts, chunk
  <1> QED BY <1>1, <1>2, ActsStep

LEMMA SupervisorStep == ASSUME IInv, SupervisorTick \/ AppStops PROVE IInv'
  <1>1. Acts("stop", "stop", Cmd("OFF"))
    BY DEF SupervisorTick, AppStops, StartsStop, ClientActs, device, Acts, Goes, Sends, Jump
  <1>2. "stop" \in Places \ {"spoll"} /\ "stop" \in Threads /\ Cmd("OFF").c # "ON"
    BY DEF Places, Threads, Cmd
  <1> QED BY <1>1, <1>2, ActsStep

LEMMA NextIInv == IInv /\ [Next]_vars => IInv'
  <1> SUFFICES ASSUME IInv, [Next]_vars PROVE IInv'
    OBVIOUS
  <1>1. ASSUME NEW t \in Threads, Step(t) \/ Deadline(t) PROVE IInv'
    BY <1>1, StopsStep, TrackStep, GuideStep DEF Step, Deadline
  <1>2. CASE UNCHANGED vars
    BY <1>2 DEF vars, device, wire, locals, IInv, Shapes, TurnsOff, OffBehindOn, NoneOn
  <1> QED BY <1>1, <1>2, WorldStep, SupervisorStep, TrackStep, GuideStep DEF Next

LEMMA Invariance == Spec => []IInv
  <1> QED BY InitIInv, NextIInv, PTL DEF Spec

\* Only a stop that waits for its statuses returns "failed" over an open connection.
LEMMA FailsFromStop ==
    ASSUME IInv, Next, Returns("track", "failed"), link = "open"
    PROVE  pc["track"] = "spoll"
  <1> USE DEF Returns, Jump, Return
  <1>1. "track" \in Callers /\ "track" \in Threads /\ "guide" # "track" /\ "stop" # "track"
        /\ pc \in [Threads -> Places]
    BY DEF Threads, Callers, IInv, Shapes
  <1>2. pc'["track"] # pc["track"]
    OBVIOUS
  <1>3. ASSUME NEW t \in Threads, StopStep(t) \/ StopUnconfirmed(t)
        PROVE  pc["track"] = "spoll"
    <2>1. pc' = pc \/ \E l : pc' = [pc EXCEPT ![t] = l]
      BY <1>3 DEF StopStep, StopBegins, StopTracking, StopPoll, StopUnconfirmed
    <2>2. t = "track"
      BY <1>1, <1>2, <2>1
    <2>3. CASE StopBegins(t)
      BY <1>1, <2>2, <2>3 DEF StopBegins
    <2>4. CASE StopTracking(t)
      BY <1>1, <2>2, <2>4 DEF StopTracking
    <2>5. CASE StopPoll(t) \/ StopUnconfirmed(t)
      BY <2>2, <2>5 DEF StopPoll, StopUnconfirmed
    <2> QED BY <1>3, <2>3, <2>4, <2>5 DEF StopStep
  <1>4. ~Enable
    BY <1>1 DEF Enable
  <1>5. ~(Switch \/ SwitchAnswered \/ SwitchDeadline)
    BY <1>1 DEF Switch, SwitchAnswered, SwitchDeadline
  <1>6. ~(ConfirmTracking \/ ConfirmDeadline)
    BY <1>1 DEF ConfirmTracking, ConfirmDeadline
  <1>7. ~(\/ GuidePreflight \/ Issue \/ PulseAnswered \/ PulseDeadline
          \/ GuideIdle \/ IdleDeadline \/ \E ms \in Durations : Pulse(ms))
    <2>1. SUFFICES ASSUME \/ GuidePreflight \/ Issue \/ PulseAnswered \/ PulseDeadline
                          \/ GuideIdle \/ IdleDeadline \/ \E ms \in Durations : Pulse(ms)
                   PROVE  pc' = pc \/ \E l : pc' = [pc EXCEPT !["guide"] = l]
      BY <1>1, <1>2
    <2> QED BY <2>1 DEF GuidePreflight, Issue, PulseAnswered, PulseDeadline, GuideIdle,
                        IdleDeadline, Pulse, GuideFails, GuideReturns
  <1>8. ~(SupervisorTick \/ AppStops)
    BY <1>1, <1>2 DEF SupervisorTick, AppStops, StartsStop
  <1>9. ~(\/ Device \/ DevicePublishes \/ SkyTurns \/ ReaderRecords
          \/ LimitReached \/ BaselineLost \/ ConnectionDrops \/ ThrottleEnds)
    BY <1>2, WorldActions DEF TakesOther, TakesNone, Drops, DeviceSwitches, ClientKeeps, locals
  <1> QED BY <1>3, <1>4, <1>5, <1>6, <1>7, <1>8, <1>9 DEF Next, Step, Deadline

\* enable_tracking that fails after its command was accepted leaves tracking off,
\* or the command for it behind everything sent before, or refused by the device.
THEOREM FailedStops == Spec => FailureStops
  <1>1. ASSUME IInv, Next, Returns("track", "failed"), link = "open"
        PROVE  ~mount.tracking \/ trackState = "Alert" \/ \E i \in DOMAIN toDev : toDev[i].c = "OFF"
    <2>1. pc["track"] = "spoll"
      BY <1>1, FailsFromStop
    <2> QED BY <1>1, <2>1 DEF IInv, TurnsOff, OffBehindOn
  <1> QED BY <1>1, Invariance, PTL DEF Spec, FailureStops

-----------------------------------------------------------------------------
(* The chunks of a pulse.  Induction over the durations is carried by sets  *)
(* of naturals, which the provers can instantiate.                          *)

LEMMA SmallestOf ==
    ASSUME NEW T, T \subseteq Nat, T # {}
    PROVE  \E x \in T : \A y \in T : x <= y
  <1> DEFINE R == {ss \in Nat \X Nat : ss[1] < ss[2]}
  <1>1. IsWellFoundedOn(R, Nat)
    BY NatLessThanWellFounded DEF OpToRel
  <1> HIDE DEF R
  <1>2. PICK x \in T : \A y \in T : ~(<<y, x>> \in R)
    BY <1>1, WFMin
  <1>3. ASSUME NEW y \in T PROVE x <= y
    <2>1. <<y, x>> \notin R /\ x \in Nat /\ y \in Nat
      BY <1>2
    <2>2. ~(y < x)
      BY <2>1 DEF R
    <2> QED BY <2>1, <2>2
  <1> QED BY <1>3

LEMMA SetInduction ==
    ASSUME NEW D, 0 \in D, \A n \in Nat : n \in D => n + 1 \in D
    PROVE  Nat \subseteq D
  <1> SUFFICES ASSUME ~(Nat \subseteq D) PROVE FALSE
    OBVIOUS
  <1> DEFINE T == Nat \ D
  <1>1. PICK x \in T : \A y \in T : x <= y
    <2>1. T \subseteq Nat /\ T # {}
      OBVIOUS
    <2> HIDE DEF T
    <2> QED BY <2>1, SmallestOf
  <1>2. x - 1 \in Nat /\ x - 1 \notin T
    BY <1>1
  <1> QED BY <1>1, <1>2

\* The first chunk of what is left, and the right side of the definition of ChunksOf.
FirstChunk(left) == IF left - ChunkMs < MinPulse THEN left - MinPulse ELSE ChunkMs
ChunksFrom(g, left) ==
    IF left <= ChunkMs THEN <<left>>
    ELSE <<FirstChunk(left)>> \o g[left - FirstChunk(left)]

\* There is a function that satisfies the recursion of ChunksOf, so ChunksOf does.
LEMMA ChunksOfEquation == ChunksOf = [left \in 0 .. MaxPulse |-> ChunksFrom(ChunksOf, left)]
  <1> DEFINE Upto(n) == \E g : g = [left \in 0 .. n |-> ChunksFrom(g, left)]
  <1>1. Upto(0)
    <2> DEFINE g == [left \in 0 .. 0 |-> <<left>>]
    <2>1. g = [left \in 0 .. 0 |-> ChunksFrom(g, left)]
      BY DEF ChunksFrom
    <2> QED BY <2>1
  <1>2. ASSUME NEW n \in Nat, Upto(n) PROVE Upto(n + 1)
    <2>1. PICK g : g = [left \in 0 .. n |-> ChunksFrom(g, left)]
      BY <1>2
    <2>4. \A left \in 0 .. n : g[left] = ChunksFrom(g, left)
      <3> DEFINE F(left) == ChunksFrom(g, left)
      <3>1. g = [left \in 0 .. n |-> F(left)]
        BY <2>1
      <3> HIDE DEF F
      <3>2. \A left \in 0 .. n : g[left] = F(left)
        BY <3>1
      <3> QED BY <3>2 DEF F
    <2> DEFINE h == [left \in 0 .. n + 1 |-> IF left <= n THEN g[left] ELSE ChunksFrom(g, left)]
    <2>2. ASSUME NEW left \in 0 .. n + 1 PROVE h[left] = ChunksFrom(h, left)
      <3>1. left > ChunkMs => left - FirstChunk(left) \in 0 .. n
        BY DEF FirstChunk
      <3>2. left > ChunkMs => h[left - FirstChunk(left)] = g[left - FirstChunk(left)]
        BY <3>1
      <3>3. ChunksFrom(h, left) = ChunksFrom(g, left)
        BY <3>2 DEF ChunksFrom
      <3>4. CASE left <= n
        BY <2>4, <3>3, <3>4
      <3>5. CASE ~(left <= n)
        BY <3>3, <3>5
      <3> QED BY <3>4, <3>5
    <2>3. h = [left \in 0 .. n + 1 |-> ChunksFrom(h, left)]
      BY <2>2
    <2> HIDE DEF h
    <2> QED BY <2>3
  <1>3. Upto(MaxPulse)
    <2> HIDE DEF Upto
    <2> DEFINE D == {n \in Nat : Upto(n)}
    <2>1. 0 \in D
      BY <1>1
    <2>2. \A n \in Nat : n \in D => n + 1 \in D
      BY <1>2
    <2> HIDE DEF D
    <2>3. Nat \subseteq D
      BY <2>1, <2>2, SetInduction
    <2> QED BY <2>3 DEF D
  <1>4. ChunksOf = CHOOSE g : g = [left \in 0 .. MaxPulse |-> ChunksFrom(g, left)]
    BY DEF ChunksOf, ChunksFrom, FirstChunk
  <1> QED BY <1>3, <1>4

LEMMA ChunksAt ==
    ASSUME NEW left \in 0 .. MaxPulse
    PROVE  ChunksOf[left] = ChunksFrom(ChunksOf, left)
  <1> DEFINE F(n) == ChunksFrom(ChunksOf, n)
  <1>1. ChunksOf = [n \in 0 .. MaxPulse |-> F(n)]
    BY ChunksOfEquation
  <1> HIDE DEF F
  <1>2. ChunksOf[left] = F(left)
    BY <1>1
  <1> QED BY <1>2 DEF F

\* Putting an element in front of a sequence, and taking it off.
LEMMA InFront ==
    ASSUME NEW C, NEW s \in Seq(C), NEW e \in C
    PROVE  /\ <<e>> \o s \in Seq(C) /\ <<e>> \o s # <<>>
           /\ Head(<<e>> \o s) = e /\ Tail(<<e>> \o s) = s
  <1> DEFINE q == <<e>> \o s
  <1>1. <<e>> \in Seq(C) /\ Len(<<e>>) = 1 /\ <<e>>[1] = e
    OBVIOUS
  <1>2. /\ q \in Seq(C) /\ Len(q) = 1 + Len(s) /\ Len(s) \in Nat
        /\ \A i \in 1 .. Len(q) : q[i] = IF i <= 1 THEN e ELSE s[i - 1]
    BY <1>1, ConcatProperties, LenProperties
  <1> HIDE DEF q
  <1>3. q # <<>> /\ Head(q) = e
    BY <1>2, EmptySeq, HeadTailProperties
  <1>4. /\ Tail(q) \in Seq(C) /\ Len(Tail(q)) = Len(s)
        /\ \A i \in 1 .. Len(Tail(q)) : Tail(q)[i] = q[i + 1]
    BY <1>2, <1>3, HeadTailProperties
  <1>5. \A i \in 1 .. Len(s) : Tail(q)[i] = s[i]
    BY <1>2, <1>4
  <1>6. Tail(q) = s
    BY <1>2, <1>4, <1>5, SeqEqual
  <1> QED BY <1>2, <1>3, <1>6 DEF q

\* Every chunk of a duration in the range is in the range.
LEMMA ChunkRange ==
    ASSUME NEW ms \in MinPulse .. MaxPulse
    PROVE  ChunksOf[ms] \in Seq(MinPulse .. MaxPulse)
  <1> DEFINE Sizes == MinPulse .. MaxPulse
             Good(n) == \A left \in Sizes : left <= n => ChunksOf[left] \in Seq(Sizes)
  <1>1. Good(0)
    OBVIOUS
  <1>2. ASSUME NEW n \in Nat, Good(n) PROVE Good(n + 1)
    <2> SUFFICES ASSUME NEW left \in Sizes, left <= n + 1 PROVE ChunksOf[left] \in Seq(Sizes)
      OBVIOUS
    <2>1. left \in 0 .. MaxPulse /\ ChunksOf[left] = ChunksFrom(ChunksOf, left)
      BY ChunksAt
    <2>2. CASE left <= ChunkMs
      <3>1. ChunksOf[left] = <<left>>
        BY <2>1, <2>2 DEF ChunksFrom
      <3> QED BY <3>1
    <2>3. CASE left > ChunkMs
      <3>1. FirstChunk(left) \in Sizes /\ left - FirstChunk(left) \in Sizes
            /\ left - FirstChunk(left) <= n
        BY <2>3 DEF FirstChunk
      <3>2. ChunksOf[left - FirstChunk(left)] \in Seq(Sizes)
        BY <1>2, <3>1
      <3>3. <<FirstChunk(left)>> \o ChunksOf[left - FirstChunk(left)] \in Seq(Sizes)
        BY <3>1, <3>2, InFront
      <3>4. ~(left <= ChunkMs)
        BY <2>3
      <3>5. ChunksFrom(ChunksOf, left)
                = <<FirstChunk(left)>> \o ChunksOf[left - FirstChunk(left)]
        BY <3>4 DEF ChunksFrom
      <3> QED BY <2>1, <3>3, <3>5
    <2> QED BY <2>2, <2>3
  <1> HIDE DEF Good
  <1> DEFINE D == {n \in Nat : Good(n)}
  <1>3. 0 \in D /\ \A n \in Nat : n \in D => n + 1 \in D
    BY <1>1, <1>2
  <1> HIDE DEF D
  <1>4. ms \in D
    BY <1>3, SetInduction
  <1> QED BY <1>4 DEF D, Good

\* The chunks of a duration are a first one and those of what it leaves, none when
\* it leaves nothing.
LEMMA ChunkStep ==
    ASSUME NEW ms \in MinPulse .. MaxPulse
    PROVE  /\ ChunksOf[ms] # <<>> /\ Head(ChunksOf[ms]) \in 1 .. ms
           /\ IF Head(ChunksOf[ms]) = ms THEN Tail(ChunksOf[ms]) = <<>>
              ELSE /\ ms - Head(ChunksOf[ms]) \in MinPulse .. MaxPulse
                   /\ Tail(ChunksOf[ms]) = ChunksOf[ms - Head(ChunksOf[ms])]
  <1>1. ChunksOf[ms] = ChunksFrom(ChunksOf, ms)
    BY ChunksAt
  <1>2. CASE ms <= ChunkMs
    <2>1. ChunksOf[ms] = <<ms>>
      BY <1>1, <1>2 DEF ChunksFrom
    <2> QED BY <2>1
  <1>3. CASE ms > ChunkMs
    <2> DEFINE first == FirstChunk(ms)
    <2>1. first \in MinPulse .. MaxPulse /\ first < ms /\ ms - first \in MinPulse .. MaxPulse
      BY <1>3 DEF FirstChunk
    <2>2. ChunksOf[ms - first] \in Seq(MinPulse .. MaxPulse)
      BY <2>1, ChunkRange
    <2>3. ChunksOf[ms] = <<first>> \o ChunksOf[ms - first]
      BY <1>1, <1>3 DEF ChunksFrom
    <2> HIDE DEF first
    <2> DEFINE rest == ChunksOf[ms - first]
    <2>4. rest \in Seq(MinPulse .. MaxPulse) /\ ChunksOf[ms] = <<first>> \o rest
      BY <2>2, <2>3
    <2> DEFINE Sizes == MinPulse .. MaxPulse
    <2>6. rest \in Seq(Sizes) /\ first \in Sizes
      BY <2>1, <2>4
    <2> HIDE DEF rest, Sizes
    <2>5. ChunksOf[ms] # <<>> /\ Head(ChunksOf[ms]) = first /\ Tail(ChunksOf[ms]) = rest
      BY <2>4, <2>6, InFront
    <2> QED BY <2>1, <2>5 DEF rest
  <1> QED BY <1>2, <1>3

-----------------------------------------------------------------------------
(* The types.                                                              *)

Vectors == Statuses \cup TrackVectors \cup GuideVectors
Histories == [disturbed : BOOLEAN, asked : 0 .. MaxPulse, taken : Nat,
              going : 0 .. MaxPulse, ran : Nat, short : BOOLEAN]

DeviceTyped ==
    /\ mount \in Mounts /\ ha \in -1 .. StopAt /\ pier \in {"east", "west"}
    /\ trackState \in {"Ok", "Alert"} /\ pulsing \in BOOLEAN
WireTyped == toDev \in Seq(Commands) /\ toCli \in Seq(Vectors) /\ link \in {"open", "failed"}
CacheTyped ==
    /\ status \in Statuses /\ track \in TrackVectors /\ guideState \in GuideStates
    /\ fresh \in [Threads -> BOOLEAN] /\ freshVector \in [track : BOOLEAN, guide : BOOLEAN]
    /\ auth \in BOOLEAN /\ throttled \in BOOLEAN
    /\ policy \in {"strict", "controller_managed"}
ThreadsTyped ==
    /\ pc \in [Threads -> Places]
    /\ polls \in [Threads -> 0 .. 1]
    /\ result \in [Callers -> {"none", "refused", "already", "confirmed",
                               "failed", "unsent", "completed"}]
    /\ events \subseteq {"call", "stop", "fault"}
PulseTyped ==
    chunks \in Seq(0 .. MaxPulse) /\ completed \in Nat /\ hist \in Histories

Typed == DeviceTyped /\ WireTyped /\ CacheTyped /\ ThreadsTyped /\ PulseTyped

\* While pulse runs no other call does, and what it guided and has still to guide is
\* what was asked for.
GuidePlaces == {"preflight", "issue", "pulse", "over"}

CallOK ==
    /\ ~hist.short
    /\ "call" \notin events => pc["guide"] = "idle" /\ pc["track"] = "idle"
    /\ IF pc["guide"] \in GuidePlaces
       THEN /\ pc["track"] = "idle"
            /\ hist.asked \in MinPulse .. MaxPulse
            /\ IF chunks = <<>> THEN completed = hist.asked /\ pc["guide"] = "preflight"
               ELSE /\ hist.asked - completed \in MinPulse .. MaxPulse
                    /\ chunks = ChunksOf[hist.asked - completed]
       ELSE chunks = <<>> /\ completed = 0

LEMMA TypedIsTypeOK == Typed /\ CallOK => TypeOK
  <1> SUFFICES ASSUME Typed, CallOK PROVE TypeOK
    OBVIOUS
  <1>0. completed \in 0 .. MaxPulse
    BY DEF Typed, PulseTyped, CallOK
  <1>1. \A i \in DOMAIN toDev : toDev[i] \in Commands
    BY LenProperties, ElementOfSeq DEF Typed, WireTyped
  <1>2. \A i \in DOMAIN chunks : chunks[i] \in 0 .. MaxPulse
    BY LenProperties, ElementOfSeq DEF Typed, PulseTyped
  <1>3. ASSUME NEW i \in DOMAIN toCli
        PROVE  CASE toCli[i].k = "status" -> toCli[i] \in Statuses
                 [] toCli[i].k = "track" -> toCli[i] \in TrackVectors
                 [] toCli[i].k = "guide" -> toCli[i] \in GuideVectors
    <2>1. toCli[i] \in Vectors
      BY LenProperties, ElementOfSeq DEF Typed, WireTyped
    <2> QED BY <2>1 DEF Vectors, Statuses, TrackVectors, GuideVectors
  <1> QED BY <1>0, <1>1, <1>2, <1>3
      DEF Typed, DeviceTyped, WireTyped, CacheTyped, ThreadsTyped, PulseTyped, TypeOK, Places, Histories

\* The hour angle at which the supervisor stops is one.
LEMMA StopAtNat == StopAt \in Nat /\ MaxPulse \in Nat /\ MinPulse \in Nat
  <1>1. /\ EastGuard \in Nat /\ WestGuard \in Nat /\ FlipLead \in Nat /\ StopMargin \in Nat
        /\ Allowance \in Nat /\ Reserve \in Nat /\ PolicyAccepted
    OBVIOUS
  <1>2. Guard \in Nat
    BY <1>1 DEF Guard
  <1>3. Guard - FlipLead > 0 /\ (Guard - StopMargin) - (Guard - FlipLead) >= Allowance + Reserve
    BY <1>1 DEF PolicyAccepted, FlipAt, StopAt
  <1>4. Guard - StopMargin \in Nat
    BY <1>1, <1>2, <1>3
  <1> QED BY <1>4 DEF StopAt

LEMMA VectorFacts ==
    /\ \A m \in Mounts, h \in -1 .. StopAt : StatusNow(m, h) \in Statuses
    /\ \A m \in Mounts, s \in {"Ok", "Alert"} : TrackNow(m, s) \in TrackVectors
    /\ \A g \in GuideStates : GuideNow(g) \in GuideVectors
  <1>1. ASSUME NEW m \in Mounts, NEW h \in -1 .. StopAt PROVE StatusNow(m, h) \in Statuses
    <2>1. RawGu(m) \in SUBSET GuFlags
      BY DEF RawGu, GuFlags
    <2> QED BY <2>1 DEF StatusNow, Statuses, Faulted
  <1>2. ASSUME NEW m \in Mounts, NEW s \in {"Ok", "Alert"} PROVE TrackNow(m, s) \in TrackVectors
    BY DEF TrackNow, TrackVectors, Mounts
  <1>3. ASSUME NEW g \in GuideStates PROVE GuideNow(g) \in GuideVectors
    BY DEF GuideNow, GuideVectors
  <1> QED BY <1>1, <1>2, <1>3

\* The wire after a step.
LEMMA WireFacts ==
    ASSUME WireTyped
    PROVE  /\ \A c \in Commands : Append(toDev, c) \in Seq(Commands)
           /\ toDev # <<>> => Tail(toDev) \in Seq(Commands) /\ Head(toDev) \in Commands
           /\ toCli # <<>> => Tail(toCli) \in Seq(Vectors) /\ Head(toCli) \in Vectors
           /\ \A v \in Vectors : toCli \o <<v>> \in Seq(Vectors)
           /\ \A v, w \in Vectors : toCli \o <<v, w>> \in Seq(Vectors)
           /\ toCli \o <<>> = toCli /\ <<>> \in Seq(Vectors) /\ <<>> \in Seq(Commands)
  <1> USE DEF WireTyped
  <1>1. \A c \in Commands : Append(toDev, c) \in Seq(Commands)
    BY AppendProperties
  <1>2. toDev # <<>> => Tail(toDev) \in Seq(Commands) /\ Head(toDev) \in Commands
    BY HeadTailProperties
  <1>3. toCli # <<>> => Tail(toCli) \in Seq(Vectors) /\ Head(toCli) \in Vectors
    BY HeadTailProperties
  <1>4. ASSUME NEW v \in Vectors, NEW w \in Vectors
        PROVE  toCli \o <<v>> \in Seq(Vectors) /\ toCli \o <<v, w>> \in Seq(Vectors)
    BY ConcatProperties
  <1>5. toCli \o <<>> = toCli
    BY ConcatEmptySeq
  <1> QED BY <1>1, <1>2, <1>3, <1>4, <1>5, EmptySeq
LEMMA QueueIndex ==
    ASSUME NEW C, NEW q \in Seq(C)
    PROVE  /\ Len(q) \in Nat /\ DOMAIN q = 1 .. Len(q)
           /\ \A i \in DOMAIN q : q[i] \in C
  BY LenProperties, ElementOfSeq

\* Elements are those of a larger set, and a set they all belong to.
LEMMA SeqOf ==
    ASSUME NEW C, NEW D, NEW q \in Seq(C), \A i \in DOMAIN q : q[i] \in D
    PROVE  q \in Seq(D)
  BY LenProperties, SeqDef

\* What is published is appended, if it goes anywhere.
LEMMA Published ==
    ASSUME NEW G, toCli \in Seq(G), NEW vs \in Seq(G), Publish(vs)
    PROVE  toCli' \in Seq(G)
  BY ConcatProperties DEF Publish

-----------------------------------------------------------------------------
(* The steps of the world keep the types.                                  *)

LEMMA ClientKept ==
    ASSUME Typed, ClientKeeps, DeviceTyped', WireTyped', events' \subseteq {"call", "stop", "fault"},
           hist' \in Histories
    PROVE  Typed'
  BY DEF Typed, ClientKeeps, cache, locals, CacheTyped, ThreadsTyped, PulseTyped

LEMMA DeviceSwitchesTyped == ASSUME Typed, DeviceSwitches PROVE Typed'
  <1> DEFINE on == Head(toDev).c = "ON"
  <1>1. mount' = SetTracking(mount, on) \/ mount' = mount
    BY DEF DeviceSwitches
  <1>2. mount' \in Mounts
    <2>1. on \in BOOLEAN
      OBVIOUS
    <2> HIDE DEF on
    <2> QED BY <1>1, <2>1, SwitchFacts DEF Typed, DeviceTyped
  <1>3. trackState' \in {"Ok", "Alert"}
    BY DEF DeviceSwitches
  <1>4. DeviceTyped'
    BY <1>2, <1>3 DEF DeviceSwitches, Typed, DeviceTyped
  <1>5. <<TrackNow(mount', trackState'), StatusNow(mount', ha)>> \in Seq(Vectors)
    BY <1>2, <1>3, VectorFacts DEF Typed, DeviceTyped, Vectors
  <1>6. WireTyped'
    BY <1>5, Published, WireFacts DEF DeviceSwitches, Typed, WireTyped
  <1>7. ClientKeeps /\ hist' = hist /\ events' \subseteq {"call", "stop", "fault"}
    BY DEF DeviceSwitches, Event, Typed, ThreadsTyped
  <1> QED BY <1>4, <1>6, <1>7, ClientKept DEF Typed, PulseTyped

LEMMA MoreHistory ==
    ASSUME NEW h \in Histories, NEW n \in 0 .. MaxPulse
    PROVE  /\ [h EXCEPT !.going = 0] \in Histories
           /\ [h EXCEPT !.disturbed = TRUE, !.going = 0] \in Histories
           /\ [h EXCEPT !.taken = h.taken + n, !.going = n] \in Histories
           /\ [h EXCEPT !.ran = h.ran + h.going, !.going = 0] \in Histories
  <1>1. h.taken + n \in Nat /\ h.ran + h.going \in Nat /\ 0 \in 0 .. MaxPulse
    BY StopAtNat DEF Histories
  <1> QED BY <1>1 DEF Histories

LEMMA DeviceAbortsTyped == ASSUME Typed, DeviceAborts PROVE Typed'
  <1>1. mount' \in Mounts
    BY MountFacts DEF DeviceAborts, Typed, DeviceTyped
  <1>2. DeviceTyped'
    BY <1>1 DEF DeviceAborts, Typed, DeviceTyped
  <1>3. <<StatusNow(mount', ha)>> \in Seq(Vectors)
    BY <1>1, VectorFacts DEF Typed, DeviceTyped, Vectors
  <1>4. WireTyped'
    BY <1>3, Published, WireFacts DEF DeviceAborts, Typed, WireTyped
  <1>5. ClientKeeps /\ hist' \in Histories /\ events' \subseteq {"call", "stop", "fault"}
    <2>1. hist \in Histories /\ 0 \in 0 .. MaxPulse
      BY StopAtNat DEF Typed, PulseTyped
    <2>2. hist' \in Histories
      BY <2>1, MoreHistory DEF DeviceAborts
    <2> QED BY <2>2 DEF DeviceAborts, Typed, ThreadsTyped
  <1> QED BY <1>2, <1>4, <1>5, ClientKept

LEMMA DeviceGuidesTyped == ASSUME Typed, DeviceGuides PROVE Typed'
  <1>1. mount' \in Mounts
    BY MountFacts DEF DeviceGuides, Typed, DeviceTyped
  <1>2. DeviceTyped'
    BY <1>1 DEF DeviceGuides, Typed, DeviceTyped
  <1>3. StatusNow(mount, ha) \in Vectors /\ StatusNow(mount', ha) \in Vectors
        /\ \A g \in GuideStates : GuideNow(g) \in Vectors
    BY <1>1, VectorFacts DEF Typed, DeviceTyped, Vectors
  <1>4. PICK vs : Publish(vs) /\ vs \in {<<GuideNow("Ok")>>,
                <<GuideNow("Busy"), StatusNow(mount', ha)>>, <<GuideNow("Alert"), StatusNow(mount, ha)>>}
    BY DEF DeviceGuides
  <1>5. vs \in Seq(Vectors)
    <2>1. GuideNow("Ok") \in Vectors /\ GuideNow("Busy") \in Vectors /\ GuideNow("Alert") \in Vectors
      BY <1>3 DEF GuideStates
    <2>2. \A v, w \in Vectors : <<v>> \in Seq(Vectors) /\ <<v, w>> \in Seq(Vectors)
      OBVIOUS
    <2> QED BY <1>3, <1>4, <2>1, <2>2
  <1>6. toDev # <<>> /\ toDev' = Tail(toDev) /\ link' = link
    BY DEF DeviceGuides
  <1>7. WireTyped' /\ Head(toDev) \in Commands
    BY <1>4, <1>5, <1>6, Published, WireFacts DEF Typed, WireTyped
  <1>8. hist' \in Histories
    <2>1. Head(toDev).ms \in 0 .. MaxPulse
      BY <1>7 DEF Commands
    <2>2. \/ hist' = hist
          \/ hist' = [hist EXCEPT !.taken = hist.taken + Head(toDev).ms, !.going = Head(toDev).ms]
      BY DEF DeviceGuides
    <2>3. hist \in Histories
      BY DEF Typed, PulseTyped
    <2> QED BY <2>1, <2>2, <2>3, MoreHistory
  <1>9. ClientKeeps /\ events' \subseteq {"call", "stop", "fault"}
    BY DEF DeviceGuides, Event, Typed, ThreadsTyped
  <1> QED BY <1>2, <1>7, <1>8, <1>9, ClientKept

LEMMA PulseEndsTyped == ASSUME Typed, PulseEnds PROVE Typed'
  <1>1. mount' \in Mounts
    BY MountFacts DEF PulseEnds, Typed, DeviceTyped
  <1>2. DeviceTyped'
    BY <1>1 DEF PulseEnds, Typed, DeviceTyped
  <1>3. PICK vs : Publish(vs) /\ vs \in {<<GuideNow("Ok")>>, <<>>}
    BY DEF PulseEnds
  <1>4. vs \in Seq(Vectors)
    <2>1. GuideNow("Ok") \in Vectors
      BY VectorFacts DEF Vectors, GuideStates
    <2>2. <<GuideNow("Ok")>> \in Seq(Vectors) /\ <<>> \in Seq(Vectors)
      BY <2>1
    <2> QED BY <1>3, <2>2
  <1>5. WireTyped'
    BY <1>3, <1>4, Published DEF PulseEnds, Typed, WireTyped
  <1>6. ClientKeeps /\ hist' \in Histories /\ events' \subseteq {"call", "stop", "fault"}
    <2>1. hist \in Histories /\ 0 \in 0 .. MaxPulse
      BY StopAtNat DEF Typed, PulseTyped
    <2>2. hist' \in Histories
      BY <2>1, MoreHistory DEF PulseEnds
    <2> QED BY <2>2 DEF PulseEnds, Typed, ThreadsTyped
  <1> QED BY <1>2, <1>5, <1>6, ClientKept

LEMMA DevicePublishesTyped == ASSUME Typed, DevicePublishes PROVE Typed'
  <1>1. DeviceTyped'
    BY DEF DevicePublishes, device, Typed, DeviceTyped
  <1>2. <<StatusNow(mount, ha)>> \in Seq(Vectors)
    BY VectorFacts DEF Typed, DeviceTyped, Vectors
  <1>3. WireTyped'
    BY <1>2, Published DEF DevicePublishes, Typed, WireTyped
  <1> QED BY <1>1, <1>3, ClientKept DEF DevicePublishes, Typed, PulseTyped, ThreadsTyped

LEMMA SkyTurnsTyped == ASSUME Typed, SkyTurns PROVE Typed'
  <1>1. ha' \in -1 .. StopAt
    BY StopAtNat DEF SkyTurns, Typed, DeviceTyped
  <1>2. DeviceTyped' /\ WireTyped'
    BY <1>1 DEF SkyTurns, wire, Typed, DeviceTyped, WireTyped
  <1> QED BY <1>2, ClientKept DEF SkyTurns, Typed, PulseTyped, ThreadsTyped

LEMMA LimitReachedTyped == ASSUME Typed, LimitReached PROVE Typed'
  <1>1. mount' \in Mounts
    BY MountFacts DEF LimitReached, Typed, DeviceTyped
  <1>2. DeviceTyped'
    BY <1>1 DEF LimitReached, Typed, DeviceTyped
  <1>3. StatusNow(mount', ha) \in Vectors /\ TrackNow(mount', trackState) \in Vectors
    BY <1>1, VectorFacts DEF Typed, DeviceTyped, Vectors
  <1>4. PICK vs : Publish(<<StatusNow(mount', ha)>> \o vs)
                  /\ vs \in {<<TrackNow(mount', trackState)>>, <<>>}
    BY DEF LimitReached
  <1>5. <<StatusNow(mount', ha)>> \o vs \in Seq(Vectors)
    <2>1. /\ <<>> \in Seq(Vectors) /\ <<StatusNow(mount', ha)>> \in Seq(Vectors)
          /\ <<TrackNow(mount', trackState)>> \in Seq(Vectors)
      BY <1>3
    <2>2. vs \in Seq(Vectors)
      BY <1>4, <2>1
    <2> QED BY <2>1, <2>2, ConcatProperties
  <1>6. WireTyped'
    BY <1>4, <1>5, Published DEF LimitReached, Typed, WireTyped
  <1>7. ClientKeeps /\ hist' \in Histories /\ events' \subseteq {"call", "stop", "fault"}
    <2>1. hist \in Histories /\ 0 \in 0 .. MaxPulse
      BY StopAtNat DEF Typed, PulseTyped
    <2>2. hist' \in Histories
      BY <2>1, MoreHistory DEF LimitReached
    <2> QED BY <2>2 DEF LimitReached, Event, Typed, ThreadsTyped
  <1> QED BY <1>2, <1>6, <1>7, ClientKept

LEMMA FaultsTyped == ASSUME Typed, BaselineLost \/ ConnectionDrops \/ ThrottleEnds PROVE Typed'
  <1>1. CASE BaselineLost
    BY <1>1 DEF BaselineLost, Event, device, wire, locals,
                Typed, DeviceTyped, WireTyped, CacheTyped, ThreadsTyped, PulseTyped
  <1>2. CASE ConnectionDrops
    <2>1. DeviceTyped' /\ WireTyped'
      BY <1>2, WireFacts DEF ConnectionDrops, device, Typed, DeviceTyped, WireTyped
    <2>2. ClientKeeps /\ hist' \in Histories /\ events' \subseteq {"call", "stop", "fault"}
      BY <1>2 DEF ConnectionDrops, Event, Typed, ThreadsTyped, PulseTyped
    <2> QED BY <2>1, <2>2, ClientKept
  <1>3. CASE ThrottleEnds
    BY <1>3 DEF ThrottleEnds, device, wire, cache, locals,
                Typed, DeviceTyped, WireTyped, CacheTyped, ThreadsTyped, PulseTyped
  <1> QED BY <1>1, <1>2, <1>3

LEMMA ReaderRecordsTyped == ASSUME Typed, ReaderRecords PROVE Typed'
  <1>1. toCli # <<>> /\ toCli' = Tail(toCli)
        /\ UNCHANGED <<device, toDev, link, auth, policy, throttled, locals, events, hist>>
    BY DEF ReaderRecords
  <1>2. WireTyped' /\ Head(toCli) \in Vectors
    BY <1>1, WireFacts DEF Typed, WireTyped
  <1>3. CacheTyped'
    <2>1. CASE Head(toCli).k = "status"
      <3>1. Head(toCli) \in Statuses
        BY <1>2, <2>1 DEF Vectors, TrackVectors, GuideVectors
      <3>2. UNCHANGED <<track, guideState, freshVector>> /\ status' = Head(toCli)
            /\ fresh' = [t \in Threads |-> pc[t] \in Waits]
        BY <2>1 DEF ReaderRecords
      <3> QED BY <1>1, <3>1, <3>2 DEF Typed, CacheTyped
    <2>2. CASE Head(toCli).k = "track"
      <3>1. Head(toCli) \in TrackVectors
        BY <1>2, <2>2 DEF Vectors, Statuses, GuideVectors
      <3>2. UNCHANGED <<status, guideState, fresh>> /\ track' = Head(toCli)
            /\ freshVector' = [freshVector EXCEPT !.track = pc["track"] = "answer"]
        BY <2>2 DEF ReaderRecords
      <3>3. freshVector' \in [track : BOOLEAN, guide : BOOLEAN]
        BY <3>2 DEF Typed, CacheTyped
      <3> QED BY <1>1, <3>1, <3>2, <3>3 DEF Typed, CacheTyped
    <2>3. CASE Head(toCli).k = "guide"
      <3>1. Head(toCli).state \in GuideStates
        BY <1>2, <2>3 DEF Vectors, TrackVectors, Statuses, GuideVectors
      <3>2. UNCHANGED <<status, track, fresh>> /\ guideState' = Head(toCli).state
            /\ freshVector' = [freshVector EXCEPT !.guide = pc["guide"] = "pulse"]
        BY <2>3 DEF ReaderRecords
      <3>3. freshVector' \in [track : BOOLEAN, guide : BOOLEAN]
        BY <3>2 DEF Typed, CacheTyped
      <3> QED BY <1>1, <3>1, <3>2, <3>3 DEF Typed, CacheTyped
    <2>4. Head(toCli).k \in {"status", "track", "guide"}
      BY <1>2 DEF Vectors, TrackVectors, Statuses, GuideVectors
    <2> QED BY <2>1, <2>2, <2>3, <2>4
  <1> QED BY <1>1, <1>2, <1>3
      DEF device, locals, Typed, DeviceTyped, ThreadsTyped, PulseTyped

\* The world keeps what a call is about.
LEMMA WorldCalls ==
    ASSUME Typed, CallOK, \/ Device \/ DevicePublishes \/ SkyTurns \/ ReaderRecords
                          \/ LimitReached \/ BaselineLost \/ ConnectionDrops \/ ThrottleEnds
    PROVE  Typed' /\ CallOK'
  <1> USE DEF ClientKeeps, locals, Typed, PulseTyped, Histories
  <1>1. Typed'
    BY DeviceSwitchesTyped, DeviceAbortsTyped, DeviceGuidesTyped, PulseEndsTyped,
       DevicePublishesTyped, SkyTurnsTyped, LimitReachedTyped, FaultsTyped, ReaderRecordsTyped
       DEF Device
  <1>2. UNCHANGED <<pc, chunks, completed>> /\ ("call" \in events' <=> "call" \in events)
        /\ hist'.asked = hist.asked /\ hist'.short = hist.short
    <2>1. CASE DeviceSwitches
      BY <2>1 DEF DeviceSwitches, Event
    <2>2. CASE DeviceAborts \/ PulseEnds \/ DevicePublishes \/ SkyTurns
      BY <2>2 DEF DeviceAborts, PulseEnds, DevicePublishes, SkyTurns
    <2>3. CASE DeviceGuides
      BY <2>3 DEF DeviceGuides, Event
    <2>4. CASE LimitReached
      BY <2>4 DEF LimitReached, Event
    <2>5. CASE BaselineLost \/ ConnectionDrops
      BY <2>5 DEF BaselineLost, ConnectionDrops, Event
    <2>6. CASE ReaderRecords \/ ThrottleEnds
      BY <2>6 DEF ReaderRecords, ThrottleEnds
    <2> QED BY <2>1, <2>2, <2>3, <2>4, <2>5, <2>6 DEF Device
  <1> QED BY <1>1, <1>2 DEF CallOK

-----------------------------------------------------------------------------
(* The steps of the threads keep the types, and what a call is about.      *)

LEMMA InitTyped == Init => Typed /\ CallOK
  <1> SUFFICES ASSUME Init PROVE Typed /\ CallOK
    OBVIOUS
  <1>1. mount \in Mounts
    <2>1. PICK m \in InitialMounts, t \in BOOLEAN : mount = [m EXCEPT !.tracking = t]
      BY DEF Init
    <2> QED BY <2>1 DEF InitialMounts, Mounts
  <1>2. DeviceTyped
    <2>1. /\ ha \in -1 .. StopAt /\ pier \in {"east", "west"}
          /\ trackState = "Ok" /\ pulsing = FALSE
      BY DEF Init
    <2> QED BY <1>1, <2>1 DEF DeviceTyped
  <1>3. WireTyped
    BY EmptySeq DEF Init, WireTyped
  <1>4. CacheTyped
    <2>1. StatusNow(mount, ha) \in Statuses /\ TrackNow(mount, "Ok") \in TrackVectors
      BY <1>1, <1>2, VectorFacts DEF DeviceTyped
    <2>2. /\ status = StatusNow(mount, ha) /\ track = TrackNow(mount, "Ok") /\ guideState = "Ok"
          /\ fresh = [t \in Threads |-> FALSE]
          /\ freshVector = [track |-> FALSE, guide |-> FALSE]
          /\ auth \in BOOLEAN /\ policy \in {"strict", "controller_managed"} /\ throttled = FALSE
      BY DEF Init
    <2> QED BY <2>1, <2>2 DEF CacheTyped, GuideStates
  <1>5. ThreadsTyped
    BY DEF Init, ThreadsTyped, Places
  <1>6. PulseTyped
    BY EmptySeq, StopAtNat DEF Init, PulseTyped, Histories
  <1>7. CallOK
    BY DEF Init, CallOK, GuidePlaces, Threads, Callers
  <1> QED BY <1>2, <1>3, <1>4, <1>5, <1>6, <1>7 DEF Typed

\* What a step of a thread leaves alone, and what it may write.
LEMMA ClientActed ==
    ASSUME Typed, ClientActs, toDev' \in Seq(Commands), throttled' \in BOOLEAN,
           fresh' \in [Threads -> BOOLEAN], freshVector' \in [track : BOOLEAN, guide : BOOLEAN],
           ThreadsTyped', PulseTyped'
    PROVE  Typed'
  BY DEF Typed, ClientActs, device, DeviceTyped, WireTyped, CacheTyped

LEMMA SentTyped ==
    ASSUME Typed, NEW c \in Commands, Send(c) \/ toDev' = toDev
    PROVE  toDev' \in Seq(Commands)
  BY WireFacts DEF Send, Typed, WireTyped

LEMMA CommandFacts ==
    /\ \A c \in {"ON", "OFF", "ABORT"} : Cmd(c) \in Commands
    /\ \A ms \in 0 .. MaxPulse : [c |-> "GUIDE", ms |-> ms] \in Commands
  BY StopAtNat DEF Cmd, Commands

\* Only one thread goes on, to some place, with some polls and some result.
PollsOf(t) == \E n \in 0 .. 1 : polls' \in {polls, [polls EXCEPT ![t] = n]}
ResultOf(t) ==
    \E r \in {"none", "refused", "already", "confirmed", "failed", "unsent", "completed"} :
        \/ result' \in {result, [result EXCEPT ![t] = r]}
        \/ result' = [c \in Callers |-> IF c = t THEN r ELSE result[c]]
LEMMA ThreadTyped ==
    ASSUME Typed, NEW t \in Threads, NEW l \in Places, Goes(t, l), PollsOf(t), ResultOf(t),
           events' \subseteq events \cup {"call", "stop", "fault"}
    PROVE  ThreadsTyped' /\ pc'[t] = l /\ \A u \in Threads \ {t} : pc'[u] = pc[u]
  BY DEF Typed, ThreadsTyped, Goes, PollsOf, ResultOf

LEMMA StopTyped ==
    ASSUME Typed, CallOK, NEW t \in Threads, StopStep(t) \/ StopUnconfirmed(t)
    PROVE  Typed' /\ CallOK'
  <1> USE DEF Jump, Take, Return
  <1>1. /\ ClientActs /\ UNCHANGED <<freshVector, chunks, completed, throttled, events>>
        /\ fresh' \in [Threads -> BOOLEAN]
        /\ hist' \in {hist, [hist EXCEPT !.disturbed = TRUE]}
        /\ pc[t] \in {"stop", "stopoff", "spoll"}
    BY DEF StopStep, StopBegins, StopTracking, StopPoll, StopUnconfirmed, Typed, CacheTyped
  <1>2. toDev' \in Seq(Commands)
    <2>1. Send(Cmd("ABORT")) \/ Send(Cmd("OFF")) \/ toDev' = toDev
      BY DEF StopStep, StopBegins, StopTracking, StopPoll, StopUnconfirmed
    <2> QED BY <2>1, SentTyped, CommandFacts
  <1>3. /\ \E l \in {"idle", "stopoff", "spoll"} : Goes(t, l)
        /\ PollsOf(t) /\ ResultOf(t)
    <2> USE DEF Goes, PollsOf, ResultOf
    <2>1. CASE StopBegins(t)
      BY <2>1 DEF StopBegins
    <2>2. CASE StopTracking(t)
      BY <2>2 DEF StopTracking
    <2>3. CASE StopPoll(t)
      <3>1. (IF ~status.alert /\ ~S.tracking /\ ~S.slewing THEN polls[t] + 1 ELSE 0) \in 0 .. 2
        BY DEF Typed, ThreadsTyped
      <3> QED BY <2>3, <3>1 DEF StopPoll
    <2>4. CASE StopUnconfirmed(t)
      BY <2>4 DEF StopUnconfirmed
    <2> QED BY <2>1, <2>2, <2>3, <2>4 DEF StopStep
  <1>4. PICK l \in {"idle", "stopoff", "spoll"} : Goes(t, l)
    BY <1>3
  <1>5. /\ ThreadsTyped' /\ pc'[t] \in {"idle", "stopoff", "spoll"}
        /\ \A u \in Threads \ {t} : pc'[u] = pc[u]
    BY <1>1, <1>3, <1>4, ThreadTyped DEF Places, Typed, ThreadsTyped
  <1>6. Typed'
    <2>1. throttled' \in BOOLEAN /\ freshVector' \in [track : BOOLEAN, guide : BOOLEAN]
          /\ PulseTyped'
      BY <1>1 DEF Typed, CacheTyped, PulseTyped, Histories
    <2> QED BY <1>1, <1>2, <1>5, <2>1, ClientActed
  <1>7. CallOK'
    <2>1. hist'.asked = hist.asked /\ hist'.short = hist.short
      BY <1>1 DEF Typed, PulseTyped, Histories
    <2>2. {"guide", "track"} \subseteq Threads
      BY DEF Threads, Callers
    <2>3. CASE t = "guide"
      BY <1>1, <1>5, <2>1, <2>2, <2>3 DEF CallOK, GuidePlaces
    <2>4. CASE t = "track"
      BY <1>1, <1>5, <2>1, <2>2, <2>4 DEF CallOK, GuidePlaces
    <2>5. CASE t = "stop"
      BY <1>1, <1>5, <2>1, <2>2, <2>5 DEF CallOK, GuidePlaces
    <2> QED BY <2>3, <2>4, <2>5 DEF Threads, Callers
  <1> QED BY <1>6, <1>7

LEMMA SupervisorTyped == ASSUME Typed, CallOK, SupervisorTick \/ AppStops PROVE Typed' /\ CallOK'
  <1> USE DEF Jump, Take
  <1>1. /\ ClientActs /\ UNCHANGED <<toDev, freshVector, polls, chunks, completed, result, hist>>
        /\ fresh' \in [Threads -> BOOLEAN] /\ Goes("stop", "stop")
        /\ throttled' \in BOOLEAN
        /\ events' \subseteq events \cup {"stop"} /\ events \subseteq events'
    BY DEF SupervisorTick, AppStops, StartsStop, Event, Goes, Typed, CacheTyped
  <1>2. "stop" \in Threads /\ "stop" \in Places /\ PollsOf("stop") /\ ResultOf("stop")
    BY <1>1 DEF Threads, Places, PollsOf, ResultOf
  <1>3. ThreadsTyped' /\ \A u \in Threads \ {"stop"} : pc'[u] = pc[u]
    BY <1>1, <1>2, ThreadTyped
  <1>4. Typed'
    BY <1>1, <1>3, ClientActed DEF Typed, WireTyped, CacheTyped, PulseTyped
  <1> QED BY <1>1, <1>3, <1>4 DEF CallOK, Threads, Callers

\* A step of enable_tracking.
LEMMA TrackTyped ==
    ASSUME Typed, CallOK, \/ Enable \/ Switch \/ SwitchAnswered \/ SwitchDeadline
                          \/ ConfirmTracking \/ ConfirmDeadline
    PROVE  Typed' /\ CallOK'
  <1> USE DEF Jump, Take, Return, TrackKeeps
  <1>1. /\ ClientActs /\ UNCHANGED <<chunks, completed, throttled, hist>>
        /\ fresh' \in [Threads -> BOOLEAN]
        /\ freshVector' \in [track : BOOLEAN, guide : BOOLEAN]
        /\ events' \subseteq events \cup {"call"} /\ events \subseteq events'
    BY DEF Enable, Switch, SwitchAnswered, SwitchDeadline, ConfirmTracking, ConfirmDeadline,
           Event, Typed, CacheTyped
  <1>2. toDev' \in Seq(Commands)
    <2>1. Send(Cmd("ON")) \/ toDev' = toDev
      BY DEF Enable, Switch, SwitchAnswered, SwitchDeadline, ConfirmTracking, ConfirmDeadline
    <2> QED BY <2>1, SentTyped, CommandFacts
  <1>3. /\ \E l \in {"idle", "switch", "answer", "confirm", "stop"} : Goes("track", l)
        /\ PollsOf("track") /\ ResultOf("track")
    <2> USE DEF Goes, PollsOf, ResultOf
    <2>1. CASE Enable
      BY <2>1 DEF Enable
    <2>2. CASE Switch
      BY <2>2 DEF Switch
    <2>3. CASE SwitchAnswered \/ SwitchDeadline
      BY <2>3 DEF SwitchAnswered, SwitchDeadline
    <2>4. CASE ConfirmTracking
      <3>1. (IF S.tracking /\ ~S.slewing THEN polls["track"] + 1 ELSE 0) \in 0 .. 2
        BY DEF Typed, ThreadsTyped, Threads, Callers
      <3> QED BY <2>4, <3>1 DEF ConfirmTracking
    <2>5. CASE ConfirmDeadline
      BY <2>5 DEF ConfirmDeadline
    <2> QED BY <2>1, <2>2, <2>3, <2>4, <2>5
  <1>4. PICK l \in {"idle", "switch", "answer", "confirm", "stop"} : Goes("track", l)
    BY <1>3
  <1>5. ThreadsTyped' /\ \A u \in Threads \ {"track"} : pc'[u] = pc[u]
    BY <1>1, <1>3, <1>4, ThreadTyped DEF Places, Threads, Callers
  <1>6. Typed'
    BY <1>1, <1>2, <1>5, ClientActed DEF Typed, CacheTyped, PulseTyped
  <1>7. pc["guide"] \notin GuidePlaces /\ "call" \in events'
    <2>1. CASE Enable
      BY <2>1 DEF Enable, Event, CallOK, GuidePlaces
    <2>2. CASE ~Enable
      <3>1. pc["track"] \in {"switch", "answer", "confirm"}
        BY <2>2 DEF Switch, SwitchAnswered, SwitchDeadline, ConfirmTracking, ConfirmDeadline
      <3> QED BY <1>1, <3>1 DEF CallOK, GuidePlaces
    <2> QED BY <2>1, <2>2
  <1>8. CallOK'
    BY <1>1, <1>5, <1>7 DEF CallOK, GuidePlaces, Threads, Callers
  <1> QED BY <1>6, <1>8

\* A step of pulse.
LEMMA GuideTyped ==
    ASSUME Typed, CallOK, \/ GuidePreflight \/ Issue \/ PulseAnswered \/ PulseDeadline
                          \/ GuideIdle \/ IdleDeadline \/ \E ms \in Durations : Pulse(ms)
    PROVE  Typed' /\ CallOK'
  <1> USE DEF Jump, Take, Return, GuideKeeps, GuideOver, GuideReturns, GuideFails
  <1>1. /\ ClientActs /\ UNCHANGED throttled
        /\ fresh' \in [Threads -> BOOLEAN]
        /\ freshVector' \in [track : BOOLEAN, guide : BOOLEAN]
        /\ events' \subseteq events \cup {"call"} /\ events \subseteq events'
    <2>1. CASE GuidePreflight \/ Issue \/ GuideIdle \/ IdleDeadline
      BY <2>1 DEF GuidePreflight, Issue, GuideIdle, IdleDeadline, Typed, CacheTyped
    <2>2. CASE PulseAnswered \/ PulseDeadline
      BY <2>2 DEF PulseAnswered, PulseDeadline, Typed, CacheTyped
    <2>3. CASE \E ms \in Durations : Pulse(ms)
      BY <2>3 DEF Pulse, Event, Typed, CacheTyped
    <2> QED BY <2>1, <2>2, <2>3
  <1>2. pc["guide"] \in GuidePlaces => "call" \in events
    BY DEF CallOK, GuidePlaces
  <1>3. toDev' \in Seq(Commands)
    <2>1. CASE Issue
      <3>1. chunks # <<>> /\ chunks \in Seq(0 .. MaxPulse)
        BY <2>1 DEF Issue, CallOK, GuidePlaces, Typed, PulseTyped
      <3>2. Head(chunks) \in 0 .. MaxPulse
        BY <3>1, HeadTailProperties
      <3>3. [c |-> "GUIDE", ms |-> Head(chunks)] \in Commands
        BY <3>2, CommandFacts
      <3> QED BY <2>1, <3>3, SentTyped DEF Issue
    <2>2. CASE ~Issue
      <3>1. toDev' = toDev
        BY <2>2 DEF GuidePreflight, PulseAnswered, PulseDeadline, GuideIdle, IdleDeadline, Pulse
      <3> QED BY <3>1 DEF Typed, WireTyped
    <2> QED BY <2>1, <2>2
  <1>4. /\ \E l \in GuidePlaces \cup {"idle", "stop"} : Goes("guide", l)
        /\ PollsOf("guide") /\ ResultOf("guide")
    <2>1. CASE GuidePreflight
      BY <2>1 DEF GuidePreflight, Goes, PollsOf, ResultOf, GuidePlaces
    <2>2. CASE Issue
      BY <2>2 DEF Issue, Goes, PollsOf, ResultOf, GuidePlaces
    <2>3. CASE PulseAnswered \/ PulseDeadline
      BY <2>3 DEF PulseAnswered, PulseDeadline, Goes, PollsOf, ResultOf, GuidePlaces
    <2>4. CASE GuideIdle \/ IdleDeadline
      BY <2>4 DEF GuideIdle, IdleDeadline, Goes, PollsOf, ResultOf, GuidePlaces
    <2>5. CASE \E ms \in Durations : Pulse(ms)
      <3>1. /\ pc' = [pc EXCEPT !["guide"] = "preflight"] /\ polls' = polls
            /\ result' = [result EXCEPT !["guide"] = "none"]
        BY <2>5 DEF Pulse
      <3> QED BY <3>1 DEF Goes, PollsOf, ResultOf, GuidePlaces
    <2> QED BY <2>1, <2>2, <2>3, <2>4, <2>5
  <1>5. PICK l \in GuidePlaces \cup {"idle", "stop"} : Goes("guide", l)
    BY <1>4
  <1>6. ThreadsTyped' /\ pc'["guide"] = l /\ \A u \in Threads \ {"guide"} : pc'[u] = pc[u]
    BY <1>1, <1>4, <1>5, ThreadTyped DEF Places, GuidePlaces, Threads, Callers
  \* The call as it is after the step.
  <1> DEFINE Same == UNCHANGED <<chunks, completed, hist>>
             Over == /\ chunks' = <<>> /\ completed' = 0 /\ l \notin GuidePlaces
                     /\ hist' = [hist EXCEPT !.asked = 0, !.taken = 0, !.going = 0, !.ran = 0]
  <1>7. CASE \E ms \in Durations : Pulse(ms)
    <2>1. PICK ms \in Durations : Pulse(ms)
      BY <1>7
    <2>2. ms \in MinPulse .. MaxPulse /\ ms \in 0 .. MaxPulse
      BY StopAtNat
    <2>3. chunks' = ChunksOf[ms] /\ completed' = 0 /\ l = "preflight"
      BY <1>6, <2>1 DEF Pulse, Typed, ThreadsTyped, Threads, Callers
    <2>4. chunks' \in Seq(MinPulse .. MaxPulse) /\ chunks' # <<>>
      BY <2>2, <2>3, ChunkRange, ChunkStep
    <2>5. chunks' \in Seq(0 .. MaxPulse)
      <3> DEFINE Sizes == MinPulse .. MaxPulse
      <3>1. \A n \in Sizes : n \in 0 .. MaxPulse
        BY StopAtNat
      <3>2. chunks' \in Seq(Sizes)
        BY <2>4
      <3> HIDE DEF Sizes
      <3>3. \A i \in DOMAIN chunks' : chunks'[i] \in 0 .. MaxPulse
        BY <3>1, <3>2, QueueIndex
      <3> QED BY <3>2, <3>3, SeqOf
    <2>6. hist' = [hist EXCEPT !.disturbed = ~Quiet, !.asked = ms,
                                 !.taken = 0, !.going = 0, !.ran = 0, !.short = FALSE]
      <3>1. \A i \in DOMAIN chunks' : ~(chunks'[i] < MinPulse) /\ ~(chunks'[i] > MaxPulse)
        <4>1. \A i \in DOMAIN chunks' : chunks'[i] \in MinPulse .. MaxPulse
          BY <2>4, ElementOfSeq, LenProperties
        <4> QED BY <4>1, StopAtNat
      <3>2. hist' = [hist EXCEPT !.disturbed = ~Quiet, !.asked = ms,
                            !.taken = 0, !.going = 0, !.ran = 0,
                            !.short = @ \/ \E i \in DOMAIN chunks' : chunks'[i] < MinPulse
                                                                 \/ chunks'[i] > MaxPulse]
        BY <2>1 DEF Pulse
      <3> QED BY <3>1, <3>2 DEF CallOK, Typed, PulseTyped, Histories
    <2>7. PulseTyped'
      <3>1. hist \in Histories /\ 0 \in 0 .. MaxPulse /\ Quiet \in BOOLEAN
        BY StopAtNat DEF Typed, PulseTyped, Quiet
      <3>2. hist' \in Histories
        BY <2>2, <2>6, <3>1 DEF Histories
      <3> QED BY <2>3, <2>5, <3>2 DEF PulseTyped
    <2>8. "call" \in events' /\ pc["track"] = "idle"
      BY <2>1 DEF Pulse, Event, CallOK
    <2>9. CallOK'
      <3>1. hist'.asked = ms /\ ~hist'.short /\ ms - 0 = ms
        BY <2>2, <2>6, StopAtNat DEF Typed, PulseTyped, Histories
      <3> QED BY <1>6, <2>2, <2>3, <2>4, <2>8, <3>1 DEF CallOK, Threads, Callers
    <2> QED BY <1>1, <1>3, <1>6, <2>7, <2>9, ClientActed DEF Typed, CacheTyped
  <1>8. CASE GuideIdle /\ l = "preflight"
    <2>1. pc["guide"] = "over" /\ chunks' = Tail(chunks) /\ completed' = completed + Head(chunks)
          /\ UNCHANGED <<hist, events>>
      BY <1>6, <1>8 DEF GuideIdle, Typed, ThreadsTyped, Threads, Callers
    <2> DEFINE left == hist.asked - completed
    <2>2. /\ left \in MinPulse .. MaxPulse /\ chunks = ChunksOf[left] /\ ~hist.short
          /\ pc["track"] = "idle" /\ hist.asked \in MinPulse .. MaxPulse /\ "call" \in events
      BY <2>1 DEF CallOK, GuidePlaces
    <2>3. completed \in Nat /\ hist.asked \in Nat /\ completed = hist.asked - left
      <3>1. completed \in Nat
        BY DEF Typed, PulseTyped
      <3>2. hist.asked \in Nat
        BY <2>2, StopAtNat
      <3>3. \A a, b \in Nat : b = a - (a - b)
        OBVIOUS
      <3> QED BY <3>1, <3>2, <3>3
    <2> HIDE DEF left
    <2>4. /\ chunks # <<>> /\ Head(chunks) \in 1 .. left
          /\ IF Head(chunks) = left THEN Tail(chunks) = <<>>
             ELSE /\ left - Head(chunks) \in MinPulse .. MaxPulse
                  /\ Tail(chunks) = ChunksOf[left - Head(chunks)]
      BY <2>2, ChunkStep
    <2>5. PulseTyped'
      <3>1. Tail(chunks) \in Seq(0 .. MaxPulse)
        BY <2>4, HeadTailProperties DEF Typed, PulseTyped
      <3>2. completed + Head(chunks) \in Nat
        <4>1. left \in Nat
          BY <2>2, StopAtNat
        <4>2. Head(chunks) \in Nat
          <5>1. Head(chunks) \in 1 .. left
            BY <2>4
          <5> QED BY <4>1, <5>1
        <4> QED BY <2>3, <4>2
      <3> QED BY <2>1, <3>1, <3>2 DEF Typed, PulseTyped
    <2>6. hist.asked - completed' = left - Head(chunks)
      <3>1. left \in Nat /\ Head(chunks) \in Nat
        BY <2>2, <2>4, StopAtNat
      <3>2. completed' = completed + Head(chunks)
        BY <2>1
      <3> HIDE DEF Same, Over
      <3>3. \A a, b, c, d \in Nat : b = a - c => a - (b + d) = c - d
        OBVIOUS
      <3> QED BY <2>3, <3>1, <3>2, <3>3
    <2>7. CASE Head(chunks) = left
      <3>1. completed' = hist.asked
        <4>1. left \in Nat /\ completed' = completed + left
          BY <2>1, <2>2, <2>7, StopAtNat
        <4>2. \A a, b, c \in Nat : b = a - c => b + c = a
          OBVIOUS
        <4> QED BY <2>3, <4>1, <4>2
      <3> QED BY <1>1, <1>3, <1>6, <1>8, <2>1, <2>2, <2>4, <2>5, <2>7, <3>1, ClientActed
              DEF Typed, CacheTyped, CallOK, Threads, Callers
    <2>8. CASE Head(chunks) # left
      <3>1. left - Head(chunks) \in MinPulse .. MaxPulse /\ chunks' = ChunksOf[left - Head(chunks)]
        BY <2>1, <2>4, <2>8
      <3>2. chunks' # <<>>
        BY <3>1, ChunkStep
      <3>3. CallOK'
        BY <1>6, <1>8, <2>1, <2>2, <2>6, <3>1, <3>2 DEF CallOK, Threads, Callers
      <3> QED BY <1>1, <1>3, <1>6, <2>5, <3>3, ClientActed DEF Typed, CacheTyped
    <2> QED BY <2>7, <2>8
  <1>9. CASE ~(\E ms \in Durations : Pulse(ms)) /\ ~(GuideIdle /\ l = "preflight")
    <2>1. pc["guide"] \in GuidePlaces /\ UNCHANGED events
      BY <1>9 DEF GuidePreflight, Issue, PulseAnswered, PulseDeadline, GuideIdle, IdleDeadline, GuidePlaces
    <2>2. pc \in [Threads -> Places] /\ "guide" \in Threads
      BY DEF Typed, ThreadsTyped, Threads, Callers
    <2>3. Over \/ (Same /\ l \in GuidePlaces /\ (l = "preflight" => pc["guide"] = "preflight")
                        /\ (chunks = <<>> => l = "preflight"))
      <3> USE DEF GuidePlaces
      <3>1. CASE GuidePreflight
        BY <1>6, <2>2, <3>1 DEF GuidePreflight
      <3>2. CASE Issue
        BY <1>6, <2>2, <3>2 DEF Issue, CallOK
      <3>3. CASE PulseAnswered \/ PulseDeadline
        BY <1>6, <2>2, <3>3 DEF PulseAnswered, PulseDeadline, CallOK
      <3>4. CASE IdleDeadline
        BY <1>6, <2>2, <3>4 DEF IdleDeadline
      <3>5. CASE GuideIdle
        <4>1. pc["guide"] = "over" /\ chunks # <<>>
          BY <3>5 DEF GuideIdle, CallOK
        <4>2. CASE GuidingRefused
          BY <1>6, <2>2, <3>5, <4>2 DEF GuideIdle
        <4>3. CASE ~GuidingRefused
          <5>1. \/ pc' = pc /\ UNCHANGED <<chunks, completed, hist>>
                \/ pc' = [pc EXCEPT !["guide"] = "preflight"]
            BY <3>5, <4>3 DEF GuideIdle
          <5>2. CASE pc' = pc /\ UNCHANGED <<chunks, completed, hist>>
            BY <1>6, <2>2, <4>1, <5>2
          <5>3. CASE pc' = [pc EXCEPT !["guide"] = "preflight"]
            <6>1. pc'["guide"] = "preflight"
              BY <2>2, <5>3
            <6>2. l = "preflight"
              BY <1>6, <2>2, <6>1
            <6> QED BY <1>9, <3>5, <6>2
          <5> QED BY <5>1, <5>2, <5>3
        <4> QED BY <4>2, <4>3
      <3> QED BY <1>9, <3>1, <3>2, <3>3, <3>4, <3>5
    <2>4. PulseTyped'
      <3>1. 0 \in 0 .. MaxPulse /\ <<>> \in Seq(0 .. MaxPulse)
        BY EmptySeq, StopAtNat
      <3>2. PulseTyped
        BY DEF Typed
      <3>3. CASE Over
        BY <3>1, <3>2, <3>3 DEF PulseTyped, Histories
      <3>4. CASE Same
        BY <3>2, <3>4 DEF PulseTyped
      <3> QED BY <2>3, <3>3, <3>4
    <2>5. CallOK'
      <3>1. hist'.short = hist.short /\ (Same => hist'.asked = hist.asked)
        BY <2>3 DEF Typed, PulseTyped, Histories
      <3>2. pc'["track"] = pc["track"]
        BY <1>6 DEF Threads, Callers
      <3> QED BY <1>2, <1>6, <2>1, <2>3, <3>1, <3>2 DEF CallOK
    <2> QED BY <1>1, <1>3, <1>6, <2>4, <2>5, ClientActed DEF Typed, CacheTyped
  <1> QED BY <1>7, <1>8, <1>9

LEMMA NextTyped == Typed /\ CallOK /\ [Next]_vars => Typed' /\ CallOK'
  <1> SUFFICES ASSUME Typed, CallOK, [Next]_vars PROVE Typed' /\ CallOK'
    OBVIOUS
  <1>1. ASSUME NEW t \in Threads, Step(t) \/ Deadline(t) PROVE Typed' /\ CallOK'
    BY <1>1, StopTyped, TrackTyped, GuideTyped DEF Step, Deadline
  <1>2. CASE UNCHANGED vars
    <2>1. Typed'
      BY <1>2 DEF vars, device, wire, cache, locals, Typed, DeviceTyped, WireTyped, CacheTyped,
                  ThreadsTyped, PulseTyped
    <2>2. CallOK'
      BY <1>2 DEF vars, locals, CallOK
    <2> QED BY <2>1, <2>2
  <1> QED BY <1>1, <1>2, WorldCalls, SupervisorTyped, TrackTyped, GuideTyped DEF Next

\* Every variable has its type.
THEOREM SkyTyped == Spec => []TypeOK
  BY InitTyped, NextTyped, TypedIsTypeOK, PTL DEF Spec

=============================================================================
