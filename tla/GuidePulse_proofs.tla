-------------------------- MODULE GuidePulse_proofs --------------------------
(***************************************************************************)
(* Proofs about the guide pulses of SkyTracking: what a pulse that         *)
(* completed, or was refused between its chunks, says of the device.  At   *)
(* most one chunk is on its way, what the device answers to it comes in    *)
(* order, and what the device guided is what the pulse counts.  That the   *)
(* last status is true, which a completed pulse rests on, also gives what  *)
(* enable_tracking says of tracking.                                       *)
(***************************************************************************)
EXTENDS SkyTracking_proofs

USE SkyAssumption

-----------------------------------------------------------------------------
(* What a pulse finds: at most one command of it is on its way, and what    *)
(* the device says of it is in order.                                       *)

Others == {c \in Commands : c.c # "GUIDE"}
NoGuideSent == toDev \in Seq(Others)
OneGuideSent(ms) ==
    \E i \in DOMAIN toDev :
        /\ toDev[i] = [c |-> "GUIDE", ms |-> ms]
        /\ \A j \in DOMAIN toDev \ {i} : toDev[j].c # "GUIDE"

\* The guide vectors on their way have these states; an Ok is the last of them.
Saying(states) == {v \in Vectors : v.k = "guide" => v.state \in states}
Answers(states) == toCli \in Seq(Saying(states))
OkLast ==
    \A i, j \in DOMAIN toCli :
        i < j /\ toCli[i].k = "guide" /\ toCli[j].k = "guide" => toCli[i].state # "Ok"

DeviceIdle == ~pulsing /\ (EarlyAck \/ ~mount.guiding)
Quiescent == NoGuideSent /\ Answers({}) /\ DeviceIdle
TakenWith(n) == hist.taken = completed + n

\* A chunk is on its way, accepted, over or rejected.
Sent ==
    /\ OneGuideSent(Head(chunks)) /\ Answers({}) /\ ~freshVector.guide
    /\ DeviceIdle /\ TakenWith(0)
Accepted ==
    /\ NoGuideSent /\ pulsing /\ TakenWith(Head(chunks))
    /\ Answers({"Busy"}) /\ (freshVector.guide => guideState = "Busy")
Ended ==
    /\ NoGuideSent /\ DeviceIdle /\ TakenWith(Head(chunks))
    /\ Answers({"Busy", "Ok"}) /\ OkLast
    /\ freshVector.guide => guideState = "Busy" \/ (guideState = "Ok" /\ Answers({}))
Rejected ==
    /\ NoGuideSent /\ DeviceIdle /\ TakenWith(0)
    /\ Answers({"Alert"}) /\ (freshVector.guide => guideState = "Alert")

PulseOK ==
    /\ "call" \notin events => Quiescent
    /\ pc["guide"] \in {"preflight", "issue"} => Quiescent /\ TakenWith(0)
    /\ pc["guide"] = "over" => Quiescent /\ TakenWith(Head(chunks))
    /\ pc["guide"] = "pulse" => Sent \/ Accepted \/ Ended \/ Rejected

-----------------------------------------------------------------------------
(* The queues of a step that is not about the pulse.                       *)

TakesAside == toDev # <<>> /\ Head(toDev).c # "GUIDE" /\ toDev' = Tail(toDev)
SendsAside == \E c \in Others : toDev' = Append(toDev, c)
TellsAside == \E vs \in Seq(Saying({})) : toCli' = toCli \o vs

LEMMA NoGuideAside ==
    ASSUME Typed, NoGuideSent, toDev' = toDev \/ TakesAside \/ SendsAside
    PROVE  NoGuideSent'
  <1>1. CASE TakesAside
    BY <1>1, HeadTailProperties DEF NoGuideSent, TakesAside
  <1>2. CASE SendsAside
    BY <1>2, AppendProperties DEF NoGuideSent, SendsAside
  <1> QED BY <1>1, <1>2 DEF NoGuideSent

LEMMA OneGuideAside ==
    ASSUME Typed, NEW ms, OneGuideSent(ms), toDev' = toDev \/ TakesAside \/ SendsAside
    PROVE  \E i \in DOMAIN toDev' :
               /\ toDev'[i] = [c |-> "GUIDE", ms |-> ms]
               /\ \A j \in DOMAIN toDev' \ {i} : toDev'[j].c # "GUIDE"
  <1>1. toDev \in Seq(Commands) /\ Len(toDev) \in Nat /\ DOMAIN toDev = 1 .. Len(toDev)
    BY LenProperties DEF Typed, WireTyped
  <1>2. PICK i \in DOMAIN toDev : /\ toDev[i] = [c |-> "GUIDE", ms |-> ms]
                                  /\ \A j \in DOMAIN toDev \ {i} : toDev[j].c # "GUIDE"
    BY DEF OneGuideSent
  <1>3. CASE toDev' = toDev
    BY <1>2, <1>3
  <1>4. CASE TakesAside
    <2>1. /\ DOMAIN toDev' = 1 .. Len(toDev) - 1 /\ Head(toDev) = toDev[1]
          /\ \A j \in DOMAIN toDev' : toDev'[j] = toDev[j + 1]
      BY <1>1, <1>4, Popped DEF TakesAside
    <2>2. i # 1 /\ i - 1 \in DOMAIN toDev' /\ toDev'[i - 1] = toDev[i]
      <3>1. toDev[i].c = "GUIDE" /\ toDev[1].c # "GUIDE"
        BY <1>2, <1>4, <2>1 DEF TakesAside
      <3>2. i # 1 /\ i \in 1 .. Len(toDev)
        BY <1>1, <1>2, <3>1
      <3>3. i - 1 \in 1 .. Len(toDev) - 1 /\ (i - 1) + 1 = i
        BY <1>1, <3>2
      <3> QED BY <2>1, <3>2, <3>3
    <2>3. \A j \in DOMAIN toDev' \ {i - 1} : j + 1 \in DOMAIN toDev \ {i}
      BY <1>1, <1>2, <2>1
    <2> QED BY <1>2, <2>1, <2>2, <2>3
  <1>5. CASE SendsAside
    <2>1. PICK c \in Others : toDev' = Append(toDev, c)
      BY <1>5 DEF SendsAside
    <2>2. /\ DOMAIN toDev' = 1 .. Len(toDev) + 1 /\ toDev'[Len(toDev) + 1] = c
          /\ \A j \in DOMAIN toDev : toDev'[j] = toDev[j]
      <3>1. /\ DOMAIN Append(toDev, c) = 1 .. Len(toDev) + 1 /\ Append(toDev, c)[Len(toDev) + 1] = c
            /\ \A j \in DOMAIN toDev : Append(toDev, c)[j] = toDev[j]
        BY <1>1, Appended
      <3> QED BY <2>1, <3>1
    <2>3. \A j \in DOMAIN toDev' : j = Len(toDev) + 1 \/ j \in DOMAIN toDev
      BY <1>1, <2>2
    <2>4. i \in DOMAIN toDev' /\ c.c # "GUIDE"
      BY <1>1, <1>2, <2>2 DEF Others
    <2> QED BY <1>2, <2>2, <2>3, <2>4
  <1> QED BY <1>3, <1>4, <1>5

LEMMA AnswersAside ==
    ASSUME NEW states, Answers(states), toCli' = toCli \/ TellsAside
    PROVE  toCli' \in Seq(Saying(states))
  <1>1. CASE toCli' = toCli
    BY <1>1 DEF Answers
  <1>2. CASE TellsAside
    <2>1. PICK vs \in Seq(Saying({})) : toCli' = toCli \o vs
      BY <1>2 DEF TellsAside
    <2>2. \A i \in DOMAIN vs : vs[i] \in Saying(states)
      BY QueueIndex DEF Saying
    <2>3. vs \in Seq(Saying(states))
      BY <2>2, SeqOf
    <2> QED BY <2>1, <2>3, ConcatProperties DEF Answers
  <1> QED BY <1>1, <1>2

LEMMA OkLastAside ==
    ASSUME Typed, OkLast, toCli' = toCli \/ TellsAside
    PROVE  OkLast'
  <1>1. CASE toCli' = toCli
    BY <1>1 DEF OkLast
  <1>2. CASE TellsAside
    <2>1. PICK vs \in Seq(Saying({})) : toCli' = toCli \o vs
      BY <1>2 DEF TellsAside
    <2>2. toCli \in Seq(Vectors) /\ vs \in Seq(Vectors)
      <3>1. \A i \in DOMAIN vs : vs[i] \in Vectors
        BY QueueIndex DEF Saying
      <3> QED BY <3>1, SeqOf DEF Typed, WireTyped
    <2>3. /\ Len(toCli) \in Nat /\ DOMAIN toCli = 1 .. Len(toCli)
          /\ Len(vs) \in Nat /\ DOMAIN vs = 1 .. Len(vs)
          /\ DOMAIN toCli' = 1 .. Len(toCli) + Len(vs)
          /\ \A i \in DOMAIN toCli' :
                toCli'[i] = IF i <= Len(toCli) THEN toCli[i] ELSE vs[i - Len(toCli)]
      BY <2>1, <2>2, ConcatProperties, LenProperties
    <2>4. ASSUME NEW i \in DOMAIN toCli', toCli'[i].k = "guide" PROVE i \in DOMAIN toCli
      <3>1. CASE ~(i <= Len(toCli))
        <4>1. i - Len(toCli) \in DOMAIN vs
          BY <2>3, <3>1
        <4>2. vs[i - Len(toCli)].k # "guide"
          BY <4>1, QueueIndex DEF Saying
        <4> QED BY <2>3, <2>4, <3>1, <4>2
      <3> QED BY <2>3, <3>1
    <2>5. \A i \in DOMAIN toCli : toCli'[i] = toCli[i]
      BY <2>3
    <2> QED BY <2>4, <2>5 DEF OkLast
  <1> QED BY <1>1, <1>2

\* A step of others: it takes or sends no pulse and tells nothing of one.
Aside ==
    /\ toDev' = toDev \/ TakesAside \/ SendsAside
    /\ toCli' = toCli \/ TellsAside
    /\ pulsing' = pulsing /\ (mount'.guiding => mount.guiding)
    /\ UNCHANGED <<guideState, chunks, completed>>
    /\ freshVector'.guide = freshVector.guide /\ pc'["guide"] = pc["guide"]
    /\ hist'.taken = hist.taken /\ events \subseteq events'

LEMMA AsideStep == ASSUME Typed, PulseOK, Aside PROVE PulseOK'
  <1> USE DEF Aside
  <1>1. NoGuideSent => NoGuideSent'
    BY NoGuideAside
  <1>2. \A ms : OneGuideSent(ms) => OneGuideSent(ms)'
    BY OneGuideAside DEF OneGuideSent
  <1>3. \A states : Answers(states) => Answers(states)'
    BY AnswersAside DEF Answers
  <1>4. OkLast => OkLast'
    BY OkLastAside
  <1>5. DeviceIdle => DeviceIdle'
    BY DEF DeviceIdle
  <1>6. \A n : TakenWith(n) => TakenWith(n)'
    BY DEF TakenWith
  <1>7. Sent => Sent'
    BY <1>2, <1>3, <1>5, <1>6 DEF Sent
  <1>8. Accepted => Accepted'
    BY <1>1, <1>3, <1>6 DEF Accepted
  <1>9. Ended => Ended'
    BY <1>1, <1>3, <1>4, <1>5, <1>6 DEF Ended
  <1>10. Rejected => Rejected'
    BY <1>1, <1>3, <1>5, <1>6 DEF Rejected
  <1>11. Quiescent => Quiescent'
    BY <1>1, <1>3, <1>5 DEF Quiescent
  <1> QED BY <1>6, <1>7, <1>8, <1>9, <1>10, <1>11 DEF PulseOK

-----------------------------------------------------------------------------
(* The steps that are about the pulse.                                     *)

LEMMA ShortSeqs ==
    ASSUME NEW C
    PROVE  /\ <<>> \in Seq(C) /\ \A v \in C : <<v>> \in Seq(C)
           /\ \A v, w \in C : <<v, w>> \in Seq(C)
  OBVIOUS

LEMMA LastOnly ==
    ASSUME toCli \in Seq(Vectors), Answers({}), NEW v, toCli' \in {toCli, toCli \o <<v>>}
    PROVE  OkLast'
  <1>1. /\ Len(toCli) \in Nat /\ DOMAIN toCli = 1 .. Len(toCli)
        /\ \A i \in DOMAIN toCli : toCli[i].k # "guide"
    BY QueueIndex DEF Answers, Saying
  <1>2. CASE toCli' = toCli
    BY <1>1, <1>2 DEF OkLast
  <1>3. CASE toCli' = toCli \o <<v>>
    <2>1. /\ DOMAIN toCli' = 1 .. Len(toCli) + 1
          /\ \A i \in DOMAIN toCli : toCli'[i] = toCli[i]
      BY <1>1, <1>3
    <2>2. \A i, j \in DOMAIN toCli' : i < j => i \in DOMAIN toCli
      BY <1>1, <2>1
    <2> QED BY <1>1, <2>1, <2>2 DEF OkLast
  <1> QED BY <1>2, <1>3

\* The device takes the chunk: it is accepted, over or rejected.
LEMMA GuidesStep == ASSUME Typed, CallOK, PulseOK, DeviceGuides PROVE PulseOK'
  <1>1. /\ toDev # <<>> /\ Head(toDev).c = "GUIDE" /\ toDev' = Tail(toDev)
        /\ UNCHANGED <<pc, chunks, completed, freshVector, guideState, link>>
        /\ events \subseteq events'
    BY DEF DeviceGuides, Event, ClientKeeps, cache, locals
  <1>2. /\ toDev \in Seq(Commands) /\ toCli \in Seq(Vectors)
        /\ Len(toDev) \in Nat /\ DOMAIN toDev = 1 .. Len(toDev) /\ Head(toDev) = toDev[1]
        /\ DOMAIN toDev' = 1 .. Len(toDev) - 1 /\ Len(toDev) > 0 /\ toDev' \in Seq(Commands)
        /\ \A j \in DOMAIN toDev' : toDev'[j] = toDev[j + 1]
    BY <1>1, Popped, HeadTailProperties DEF Typed, WireTyped
  <1>3. ~NoGuideSent
    <2>1. 1 \in DOMAIN toDev
      BY <1>2
    <2> QED BY <1>1, <1>2, <2>1, QueueIndex DEF NoGuideSent, Others
  <1>4. \/ pc["guide"] = "pulse" /\ Sent /\ "call" \in events
        \/ pc["guide"] \notin GuidePlaces /\ "call" \in events
    BY <1>3 DEF PulseOK, Quiescent, Accepted, Ended, Rejected, GuidePlaces
  <1>5. CASE pc["guide"] \notin GuidePlaces /\ "call" \in events
    BY <1>1, <1>5 DEF PulseOK, GuidePlaces
  <1>6. CASE pc["guide"] = "pulse" /\ Sent /\ "call" \in events
    <2>1. PICK i \in DOMAIN toDev : /\ toDev[i] = [c |-> "GUIDE", ms |-> Head(chunks)]
                                    /\ \A j \in DOMAIN toDev \ {i} : toDev[j].c # "GUIDE"
      BY <1>6 DEF Sent, OneGuideSent
    <2>2. i = 1
      BY <1>1, <1>2, <2>1
    <2>3. NoGuideSent'
      <3>1. \A j \in DOMAIN toDev' : j + 1 \in DOMAIN toDev \ {i}
        BY <1>2, <2>2
      <3>2. \A j \in DOMAIN toDev' : toDev'[j] \in Others
        BY <1>2, <2>1, <3>1, QueueIndex DEF Others
      <3> QED BY <1>2, <3>2, SeqOf DEF NoGuideSent
    <2>4. Head(toDev).ms = Head(chunks)
      BY <1>2, <2>1, <2>2
    <2>5. hist.asked # 0 /\ hist.taken = completed /\ completed \in Nat /\ hist \in Histories
      BY <1>6, StopAtNat DEF CallOK, GuidePlaces, Sent, TakenWith, Typed, PulseTyped
    <2>6. Answers({}) /\ ~freshVector.guide /\ DeviceIdle
      BY <1>6 DEF Sent
    <2>7. mount \in Mounts /\ mount' \in Mounts /\ ha \in -1 .. StopAt
      BY DeviceGuidesTyped DEF Typed, DeviceTyped
    <2>8. StatusNow(mount, ha) \in Saying({}) /\ StatusNow(mount', ha) \in Saying({})
      <3>1. StatusNow(mount, ha) \in Statuses /\ StatusNow(mount', ha) \in Statuses
        BY <2>7, VectorFacts
      <3> QED BY <3>1 DEF Saying, Vectors, Statuses
    <2>9. \A g \in GuideStates : GuideNow(g) \in Saying({g})
      BY VectorFacts DEF Saying, Vectors, GuideNow
    <2>10. \A states : Saying({}) \subseteq Saying(states)
      BY DEF Saying
    <2>11. \A states : Answers(states)
      <3>1. TAKE states
      <3>2. \A j \in DOMAIN toCli : toCli[j] \in Saying(states)
        BY <2>6, <2>10, QueueIndex DEF Answers
      <3> QED BY <1>2, <3>2, SeqOf DEF Answers
    <2> DEFINE Takes == /\ ~GuideRefused(mount) /\ mount' = Guide(mount) /\ pulsing' = ~EarlyAck
                        /\ hist' = [hist EXCEPT !.taken = hist.taken + Head(chunks), !.going = Head(chunks)]
                        /\ Publish(IF EarlyAck THEN <<GuideNow("Ok")>>
                                   ELSE <<GuideNow("Busy"), StatusNow(mount', ha)>>)
               Refuses == /\ UNCHANGED <<mount, pulsing, hist>>
                          /\ Publish(<<GuideNow("Alert"), StatusNow(mount, ha)>>)
    <2>12. Takes \/ Refuses
      BY <2>4, <2>5 DEF DeviceGuides
    <2>13. CASE Refuses
      <3>1. <<GuideNow("Alert"), StatusNow(mount, ha)>> \in Seq(Saying({"Alert"}))
        BY <2>8, <2>9, <2>10, ShortSeqs DEF GuideStates
      <3>2. Answers({"Alert"})'
        BY <2>11, <2>13, <3>1, Published DEF Answers
      <3>3. Rejected'
        BY <1>1, <2>3, <2>5, <2>6, <2>13, <3>2 DEF Rejected, DeviceIdle, TakenWith
      <3> QED BY <1>1, <1>6, <3>3 DEF PulseOK
    <2>14. CASE Takes
      <3>1. hist'.taken = completed + Head(chunks) /\ TakenWith(Head(chunks))'
        BY <1>1, <2>5, <2>14 DEF TakenWith, Histories
      <3>2. CASE EarlyAck
        <4>1. Publish(<<GuideNow("Ok")>>) /\ pulsing' = FALSE
          BY <2>14, <3>2
        <4>2. <<GuideNow("Ok")>> \in Seq(Saying({"Busy", "Ok"}))
          BY <2>9 DEF GuideStates, Saying
        <4>3. Answers({"Busy", "Ok"})'
          BY <2>11, <4>1, <4>2, Published DEF Answers
        <4>4. OkLast'
          <5>1. toCli' \in {toCli, toCli \o <<GuideNow("Ok")>>}
            BY <4>1 DEF Publish
          <5>2. toCli \in Seq(Vectors) /\ Answers({})
            BY <1>2, <2>6
          <5> HIDE DEF Takes, Refuses
          <5> QED BY <5>1, <5>2, LastOnly
        <4>5. Ended'
          BY <1>1, <2>3, <2>6, <3>1, <3>2, <4>1, <4>3, <4>4 DEF Ended, DeviceIdle
        <4> QED BY <1>1, <1>6, <4>5 DEF PulseOK
      <3>3. CASE ~EarlyAck
        <4>1. Publish(<<GuideNow("Busy"), StatusNow(mount', ha)>>) /\ pulsing' = TRUE
          BY <2>14, <3>3
        <4>2. <<GuideNow("Busy"), StatusNow(mount', ha)>> \in Seq(Saying({"Busy"}))
          BY <2>8, <2>9, <2>10, ShortSeqs DEF GuideStates
        <4>3. Answers({"Busy"})'
          BY <2>11, <4>1, <4>2, Published DEF Answers
        <4>4. Accepted'
          BY <1>1, <2>3, <2>6, <3>1, <4>1, <4>3 DEF Accepted
        <4> QED BY <1>1, <1>6, <4>4 DEF PulseOK
      <3> QED BY <3>2, <3>3
    <2> QED BY <2>12, <2>13, <2>14
  <1> QED BY <1>4, <1>5, <1>6

\* A pulse that ran is over.
LEMMA PulseEndsStep == ASSUME Typed, PulseOK, PulseEnds PROVE PulseOK'
  <1>1. /\ UNCHANGED <<toDev, link, pc, chunks, completed, freshVector, guideState, events>>
        /\ mount' = GuideEnded(mount) /\ pulsing' = FALSE /\ hist'.taken = hist.taken
        /\ Publish(IF pulsing THEN <<GuideNow("Ok")>> ELSE <<>>)
    BY DEF PulseEnds, ClientKeeps, cache, locals, Typed, PulseTyped, Histories
  <1>2. mount \in Mounts /\ toCli \in Seq(Vectors) /\ ~mount'.guiding
    BY <1>1 DEF Typed, DeviceTyped, WireTyped, GuideEnded, Mounts
  <1>3. CASE ~pulsing
    <2>1. toCli' = toCli
      <3>1. Publish(<<>>)
        BY <1>1, <1>3
      <3> QED BY <1>2, <3>1, ConcatEmptySeq DEF Publish
    <2>2. Aside
      BY <1>1, <1>2, <1>3, <2>1 DEF Aside, Typed, DeviceTyped
    <2> QED BY <2>2, AsideStep
  <1>4. CASE pulsing
    <2>1. (pc["guide"] = "pulse" /\ Accepted) \/ pc["guide"] \notin GuidePlaces
      BY <1>4 DEF PulseOK, Quiescent, DeviceIdle, Sent, Ended, Rejected, GuidePlaces
    <2>2. "call" \in events
      BY <1>4 DEF PulseOK, Quiescent, DeviceIdle
    <2>3. CASE pc["guide"] \notin GuidePlaces
      BY <1>1, <2>2, <2>3 DEF PulseOK, GuidePlaces
    <2>4. CASE pc["guide"] = "pulse" /\ Accepted
      <3>1. Publish(<<GuideNow("Ok")>>)
        BY <1>1, <1>4
      <3>2. toCli' \in {toCli, toCli \o <<GuideNow("Ok")>>}
        BY <3>1 DEF Publish
      <3>3. toCli \in Seq(Saying({"Busy"}))
        BY <2>4 DEF Accepted, Answers
      <3>4. toCli \in Seq(Saying({"Busy", "Ok"}))
        <4>1. \A i \in DOMAIN toCli : toCli[i] \in Saying({"Busy", "Ok"})
          BY <3>3, QueueIndex DEF Saying
        <4> QED BY <1>2, <4>1, SeqOf
      <3>5. Answers({"Busy", "Ok"})'
        <4>1. <<GuideNow("Ok")>> \in Seq(Saying({"Busy", "Ok"}))
          BY VectorFacts DEF Saying, Vectors, GuideNow, GuideStates
        <4> QED BY <3>1, <3>4, <4>1, Published DEF Answers
      <3>6. OkLast'
        <4>1. \A i \in DOMAIN toCli : toCli[i].k = "guide" => toCli[i].state # "Ok"
          BY <3>3, QueueIndex DEF Saying
        <4>2. Len(toCli) \in Nat /\ DOMAIN toCli = 1 .. Len(toCli)
          BY <1>2, LenProperties
        <4>3. CASE toCli' = toCli
          BY <4>1, <4>3 DEF OkLast
        <4>4. CASE toCli' = toCli \o <<GuideNow("Ok")>>
          <5>1. DOMAIN toCli' = 1 .. Len(toCli) + 1 /\ \A i \in DOMAIN toCli : toCli'[i] = toCli[i]
            BY <4>2, <4>4
          <5>2. \A i, j \in DOMAIN toCli' : i < j => i \in DOMAIN toCli
            BY <4>2, <5>1
          <5> QED BY <4>1, <5>1, <5>2 DEF OkLast
        <4> QED BY <3>2, <4>3, <4>4
      <3>7. Ended'
        BY <1>1, <1>2, <2>4, <3>5, <3>6 DEF Ended, Accepted, DeviceIdle, TakenWith, NoGuideSent
      <3> QED BY <1>1, <2>2, <2>4, <3>7 DEF PulseOK
    <2> QED BY <2>1, <2>3, <2>4
  <1> QED BY <1>3, <1>4

\* The connection drops, with what was on its way.
LEMMA DropsStep == ASSUME Typed, PulseOK, ConnectionDrops PROVE PulseOK'
  <1>1. /\ toCli' = <<>> /\ (toDev' = toDev \/ toDev' = <<>>)
        /\ UNCHANGED <<mount, pulsing, pc, chunks, completed, freshVector, guideState, hist>>
        /\ events \subseteq events'
    BY DEF ConnectionDrops, Event, ClientKeeps, device, cache, locals
  <1>2. \A states : Answers(states)'
    BY <1>1, EmptySeq DEF Answers
  <1>3. OkLast'
    BY <1>1 DEF OkLast
  <1>4. NoGuideSent => NoGuideSent'
    BY <1>1, EmptySeq DEF NoGuideSent
  <1>5. (DeviceIdle => DeviceIdle') /\ \A n : TakenWith(n) => TakenWith(n)'
    BY <1>1 DEF DeviceIdle, TakenWith
  <1>6. Quiescent => Quiescent'
    BY <1>2, <1>4, <1>5 DEF Quiescent
  <1>7. Sent => Sent' \/ Rejected'
    <2>1. CASE toDev' = toDev
      BY <1>1, <1>2, <1>5, <2>1 DEF Sent, OneGuideSent
    <2>2. CASE toDev' = <<>>
      <3>1. NoGuideSent'
        BY <2>2, EmptySeq DEF NoGuideSent
      <3> QED BY <1>1, <1>2, <1>5, <3>1 DEF Sent, Rejected
    <2> QED BY <1>1, <2>1, <2>2
  <1>8. Accepted => Accepted'
    BY <1>1, <1>2, <1>4, <1>5 DEF Accepted
  <1>9. Ended => Ended'
    BY <1>1, <1>2, <1>3, <1>4, <1>5 DEF Ended
  <1>10. Rejected => Rejected'
    BY <1>1, <1>2, <1>4, <1>5 DEF Rejected
  <1> QED BY <1>1, <1>5, <1>6, <1>7, <1>8, <1>9, <1>10 DEF PulseOK

\* The reader records what the device said.
LEMMA RecordsStep == ASSUME Typed, PulseOK, ReaderRecords PROVE PulseOK'
  <1>1. /\ toCli # <<>> /\ toCli' = Tail(toCli)
        /\ UNCHANGED <<mount, pulsing, toDev, pc, chunks, completed, hist, events>>
    BY DEF ReaderRecords, device, locals
  <1>2. /\ toCli \in Seq(Vectors) /\ Head(toCli) = toCli[1] /\ Head(toCli) \in Vectors
        /\ Len(toCli) \in Nat /\ DOMAIN toCli = 1 .. Len(toCli) /\ Len(toCli) > 0
        /\ DOMAIN toCli' = 1 .. Len(toCli) - 1 /\ toCli' \in Seq(Vectors)
        /\ \A i \in DOMAIN toCli' : toCli'[i] = toCli[i + 1]
    BY <1>1, Popped, HeadTailProperties DEF Typed, WireTyped
  <1>3. 1 \in DOMAIN toCli /\ \A i \in DOMAIN toCli' : i + 1 \in DOMAIN toCli
    BY <1>2
  <1>4. \A states : Answers(states) => Answers(states)' /\ Head(toCli) \in Saying(states)
    <2> SUFFICES ASSUME NEW states, Answers(states)
                 PROVE  Answers(states)' /\ Head(toCli) \in Saying(states)
      OBVIOUS
    <2>1. toCli \in Seq(Saying(states))
      BY DEF Answers
    <2>2. \A i \in DOMAIN toCli : toCli[i] \in Saying(states)
      BY <2>1, QueueIndex
    <2>3. \A i \in DOMAIN toCli' : toCli'[i] \in Saying(states)
      BY <1>2, <1>3, <2>2
    <2> QED BY <1>2, <1>3, <2>2, <2>3, SeqOf DEF Answers
  <1>5. OkLast => OkLast'
    <2> SUFFICES ASSUME OkLast, NEW i \in DOMAIN toCli', NEW j \in DOMAIN toCli', i < j,
                        toCli'[i].k = "guide", toCli'[j].k = "guide"
                 PROVE  toCli'[i].state # "Ok"
      BY DEF OkLast
    <2>1. i + 1 \in DOMAIN toCli /\ j + 1 \in DOMAIN toCli /\ i + 1 < j + 1
      BY <1>2, <1>3
    <2> QED BY <1>2, <2>1 DEF OkLast
  <1>6. CASE Head(toCli).k # "guide"
    <2>1. guideState' = guideState /\ freshVector'.guide = freshVector.guide
      <3>1. Head(toCli).k \in {"status", "track"}
        BY <1>2, <1>6 DEF Vectors, Statuses, TrackVectors, GuideVectors
      <3> QED BY <3>1 DEF ReaderRecords, Typed, CacheTyped
    <2> USE <1>1, <1>4, <1>5, <2>1
    <2>2. (NoGuideSent => NoGuideSent') /\ (DeviceIdle => DeviceIdle')
          /\ \A n : TakenWith(n) => TakenWith(n)'
      BY DEF NoGuideSent, DeviceIdle, TakenWith
    <2>3. Quiescent => Quiescent'
      BY <2>2 DEF Quiescent
    <2>4. Sent => Sent'
      BY <2>2 DEF Sent, OneGuideSent
    <2>5. Accepted => Accepted'
      BY <2>2 DEF Accepted
    <2>6. Ended => Ended'
      BY <2>2 DEF Ended
    <2>7. Rejected => Rejected'
      BY <2>2 DEF Rejected
    <2> QED BY <2>2, <2>3, <2>4, <2>5, <2>6, <2>7 DEF PulseOK
  <1>7. CASE Head(toCli).k = "guide"
    <2>1. /\ guideState' = Head(toCli).state
          /\ freshVector' = [freshVector EXCEPT !.guide = pc["guide"] = "pulse"]
      BY <1>7 DEF ReaderRecords
    <2>2. ~Answers({})
      BY <1>4, <1>7 DEF Saying
    <2>3. \A states : Answers(states) => guideState' \in states
      BY <1>4, <1>7, <2>1 DEF Saying
    <2>4. CASE pc["guide"] \notin GuidePlaces /\ "call" \in events
      BY <1>1, <2>4 DEF PulseOK, GuidePlaces
    <2>5. CASE pc["guide"] = "pulse" /\ "call" \in events
      <3> USE <1>1, <1>4, <1>5, <2>3
      <3>1. (NoGuideSent => NoGuideSent') /\ (DeviceIdle => DeviceIdle')
            /\ \A n : TakenWith(n) => TakenWith(n)'
        BY DEF NoGuideSent, DeviceIdle, TakenWith
      <3>2. ~Sent
        BY <2>2 DEF Sent
      <3>3. Accepted => Accepted'
        BY <3>1 DEF Accepted
      <3>4. Rejected => Rejected'
        BY <3>1 DEF Rejected
      <3>5. Ended => Ended'
        <4> SUFFICES ASSUME Ended PROVE Ended'
          OBVIOUS
        <4>1. guideState' = "Ok" => Answers({})'
          <5> SUFFICES ASSUME guideState' = "Ok" PROVE \A i \in DOMAIN toCli' : toCli'[i] \in Saying({})
            BY <1>2, SeqOf DEF Answers
          <5>1. TAKE i \in DOMAIN toCli'
          <5>2. i + 1 \in DOMAIN toCli /\ 1 < i + 1 /\ toCli'[i] = toCli[i + 1]
            BY <1>2, <1>3
          <5>3. toCli[i + 1].k # "guide"
            BY <1>2, <1>3, <1>7, <2>1, <5>2 DEF Ended, OkLast
          <5>4. toCli'[i] \in Vectors
            BY <1>2, QueueIndex
          <5> QED BY <5>2, <5>3, <5>4 DEF Saying
        <4>2. guideState' \in {"Busy", "Ok"}
          BY DEF Ended
        <4> QED BY <3>1, <4>1, <4>2 DEF Ended
      <3> QED BY <2>5, <3>2, <3>3, <3>4, <3>5 DEF PulseOK
    <2> QED BY <2>2, <2>4, <2>5 DEF PulseOK, Quiescent, GuidePlaces
  <1> QED BY <1>6, <1>7

\* The world otherwise.
LEMMA AsideMounts ==
    ASSUME NEW m \in Mounts
    PROVE  /\ \A on \in BOOLEAN : SetTracking(m, on).guiding = m.guiding
           /\ ~Abort(m).guiding /\ ~SetFault(m, "LIMIT").guiding
  <1>1. ASSUME NEW k \in Mounts, NEW on \in BOOLEAN PROVE SetTracking(k, on).guiding = k.guiding
    BY <1>1 DEF SetTracking, SetTrackingRefused, Mounts
  <1>2. ASSUME NEW k \in Mounts PROVE ~Abort(k).guiding /\ Abort(k) \in Mounts
    BY <1>2 DEF Abort, Mounts, MotionStates, TargetKinds
  <1>3. [m EXCEPT !.fault = "LIMIT"] \in Mounts
    BY DEF Mounts, Faults
  <1>4. SetFault(m, "LIMIT") = SetTracking(Abort([m EXCEPT !.fault = "LIMIT"]), FALSE)
    BY DEF SetFault
  <1> QED BY <1>1, <1>2, <1>3, <1>4

LEMMA PlainVectors ==
    ASSUME NEW m \in Mounts, NEW h \in -1 .. StopAt, NEW s \in {"Ok", "Alert"}
    PROVE  StatusNow(m, h) \in Saying({}) /\ TrackNow(m, s) \in Saying({})
  BY VectorFacts DEF Saying, Vectors, Statuses, TrackVectors

LEMMA WorldAside ==
    ASSUME Typed, \/ DeviceSwitches \/ DeviceAborts \/ DevicePublishes \/ SkyTurns
                  \/ LimitReached \/ BaselineLost \/ ThrottleEnds
    PROVE  Aside
  <1>1. mount \in Mounts /\ ha \in -1 .. StopAt /\ trackState \in {"Ok", "Alert"}
    BY DEF Typed, DeviceTyped
  <1>2. \A vs \in Seq(Saying({})) : Publish(vs) => toCli' = toCli \/ TellsAside
    BY DEF Publish, TellsAside
  <1>3. CASE DeviceSwitches
    <2> DEFINE on == Head(toDev).c = "ON"
    <2>1. mount' = SetTracking(mount, on) \/ mount' = mount
      BY <1>3 DEF DeviceSwitches
    <2>2. /\ Publish(<<TrackNow(mount', trackState'), StatusNow(mount', ha)>>)
          /\ toDev # <<>> /\ Head(toDev).c # "GUIDE" /\ toDev' = Tail(toDev)
          /\ trackState' \in {"Ok", "Alert"} /\ events \subseteq events'
          /\ UNCHANGED <<pulsing, hist, guideState, chunks, completed, freshVector, pc>>
      BY <1>3 DEF DeviceSwitches, Event, ClientKeeps, cache, locals
    <2>3. on \in BOOLEAN
      OBVIOUS
    <2> HIDE DEF on
    <2>4. mount' \in Mounts /\ mount'.guiding = mount.guiding
      BY <1>1, <2>1, <2>3, SwitchFacts, AsideMounts
    <2>5. <<TrackNow(mount', trackState'), StatusNow(mount', ha)>> \in Seq(Saying({}))
      BY <1>1, <2>2, <2>4, PlainVectors, ShortSeqs
    <2> QED BY <1>2, <2>2, <2>4, <2>5 DEF Aside, TakesAside
  <1>4. CASE DeviceAborts
    <2>1. /\ Publish(<<StatusNow(mount', ha)>>) /\ mount' = Abort(mount)
          /\ toDev # <<>> /\ Head(toDev).c # "GUIDE" /\ toDev' = Tail(toDev)
          /\ UNCHANGED <<pulsing, guideState, chunks, completed, freshVector, pc, events>>
          /\ hist'.taken = hist.taken
      BY <1>4 DEF DeviceAborts, ClientKeeps, cache, locals, Typed, PulseTyped, Histories
    <2>2. mount' \in Mounts /\ ~mount'.guiding
      BY <1>1, <2>1, MountFacts, AsideMounts
    <2>3. <<StatusNow(mount', ha)>> \in Seq(Saying({}))
      BY <1>1, <2>2, PlainVectors, ShortSeqs
    <2> QED BY <1>2, <2>1, <2>2, <2>3 DEF Aside, TakesAside
  <1>5. CASE DevicePublishes
    <2>1. /\ Publish(<<StatusNow(mount, ha)>>)
          /\ UNCHANGED <<mount, toDev, pulsing, hist, guideState, chunks, completed, freshVector,
                         pc, events>>
      BY <1>5 DEF DevicePublishes, device, ClientKeeps, cache, locals
    <2>2. <<StatusNow(mount, ha)>> \in Seq(Saying({}))
      BY <1>1, PlainVectors, ShortSeqs
    <2> QED BY <1>2, <2>1, <2>2 DEF Aside
  <1>6. CASE SkyTurns \/ BaselineLost \/ ThrottleEnds
    BY <1>6 DEF SkyTurns, BaselineLost, ThrottleEnds, Event, ClientKeeps, device, wire, cache,
                locals, Aside
  <1>7. CASE LimitReached
    <2>1. /\ mount' = SetFault(mount, "LIMIT") /\ hist' = [hist EXCEPT !.disturbed = TRUE, !.going = 0]
          /\ UNCHANGED <<toDev, pulsing, guideState, chunks, completed, freshVector, pc>>
          /\ events \subseteq events'
      BY <1>7 DEF LimitReached, Event, ClientKeeps, cache, locals
    <2>2. mount' \in Mounts /\ ~mount'.guiding /\ hist'.taken = hist.taken
      BY <1>1, <2>1, MountFacts, AsideMounts DEF Typed, PulseTyped, Histories
    <2>3. PICK vs : Publish(<<StatusNow(mount', ha)>> \o vs)
                    /\ vs \in {<<TrackNow(mount', trackState)>>, <<>>}
      BY <1>7 DEF LimitReached
    <2>4. <<StatusNow(mount', ha)>> \o vs \in Seq(Saying({}))
      <3>1. /\ <<>> \in Seq(Saying({})) /\ <<StatusNow(mount', ha)>> \in Seq(Saying({}))
            /\ <<TrackNow(mount', trackState)>> \in Seq(Saying({}))
        BY <1>1, <2>2, PlainVectors, ShortSeqs
      <3> QED BY <2>3, <3>1, ConcatProperties
    <2> QED BY <1>2, <2>1, <2>2, <2>3, <2>4 DEF Aside
  <1> QED BY <1>3, <1>4, <1>5, <1>6, <1>7

\* Only a stop of the guide thread itself moves it, after its pulse.
LEMMA GuidePlace ==
    ASSUME Typed, NEW t \in Threads,
           \/ StopStep(t) \/ StopUnconfirmed(t) \/ SupervisorTick \/ AppStops
           \/ Enable \/ Switch \/ SwitchAnswered \/ SwitchDeadline
           \/ ConfirmTracking \/ ConfirmDeadline
    PROVE  \/ pc'["guide"] = pc["guide"]
           \/ /\ pc["guide"] \in {"stop", "stopoff", "spoll"}
              /\ pc'["guide"] \in {"idle", "stopoff", "spoll"}
  <1> USE DEF Jump, Return
  <1>1. pc \in [Threads -> Places] /\ "guide" \in Threads
    BY DEF Typed, ThreadsTyped, Threads, Callers
  <1>2. CASE StopStep(t) \/ StopUnconfirmed(t)
    <2>1. /\ pc[t] \in {"stop", "stopoff", "spoll"}
          /\ pc' = pc \/ \E l \in {"idle", "stopoff", "spoll"} : pc' = [pc EXCEPT ![t] = l]
      BY <1>2 DEF StopStep, StopBegins, StopTracking, StopPoll, StopUnconfirmed
    <2> QED BY <1>1, <2>1
  <1>3. CASE ~(StopStep(t) \/ StopUnconfirmed(t))
    <2>1. pc' = pc \/ \E u \in {"stop", "track"}, l \in Places : pc' = [pc EXCEPT ![u] = l]
      <3> USE DEF Places
      <3>1. CASE SupervisorTick \/ AppStops
        BY <3>1 DEF SupervisorTick, AppStops, StartsStop
      <3>2. CASE Enable \/ Switch
        BY <3>2 DEF Enable, Switch
      <3>3. CASE SwitchAnswered \/ SwitchDeadline
        BY <3>3 DEF SwitchAnswered, SwitchDeadline
      <3>4. CASE ConfirmTracking \/ ConfirmDeadline
        BY <3>4 DEF ConfirmTracking, ConfirmDeadline
      <3> QED BY <1>3, <3>1, <3>2, <3>3, <3>4
    <2> QED BY <1>1, <2>1
  <1> QED BY <1>2, <1>3

\* The other threads, and a stop.
LEMMA OthersAside ==
    ASSUME Typed, NEW t \in Threads,
           \/ StopStep(t) \/ StopUnconfirmed(t) \/ SupervisorTick \/ AppStops
           \/ Enable \/ Switch \/ SwitchAnswered \/ SwitchDeadline
           \/ ConfirmTracking \/ ConfirmDeadline
    PROVE  (pc'["guide"] = pc["guide"] /\ Aside) \/ pc["guide"] \in {"stop", "stopoff", "spoll"}
  <1> USE DEF ClientActs, device, Jump, Return
  <1>1. UNCHANGED <<toCli, mount, pulsing, guideState, chunks, completed>> /\ events \subseteq events'
        /\ hist'.taken = hist.taken
    BY DEF StopStep, StopBegins, StopTracking, StopPoll, StopUnconfirmed, SupervisorTick, AppStops,
           StartsStop, Enable, Switch, SwitchAnswered, SwitchDeadline, ConfirmTracking, ConfirmDeadline,
           TrackKeeps, Event, Typed, PulseTyped, Histories
  <1>2. toDev' = toDev \/ SendsAside
    <2>1. \A c \in {"ON", "OFF", "ABORT"} : Cmd(c) \in Others
      BY CommandFacts DEF Others, Cmd
    <2>2. toDev' = toDev \/ \E c \in {"ON", "OFF", "ABORT"} : Send(Cmd(c))
      BY DEF StopStep, StopBegins, StopTracking, StopPoll, StopUnconfirmed, SupervisorTick, AppStops,
             StartsStop, Enable, Switch, SwitchAnswered, SwitchDeadline, ConfirmTracking,
             ConfirmDeadline
    <2> QED BY <2>1, <2>2 DEF Send, SendsAside
  <1>3. freshVector'.guide = freshVector.guide
    BY DEF StopStep, StopBegins, StopTracking, StopPoll, StopUnconfirmed, SupervisorTick, AppStops,
           StartsStop, Enable, Switch, SwitchAnswered, SwitchDeadline, ConfirmTracking, ConfirmDeadline,
           Typed, CacheTyped
  <1>4. pc'["guide"] = pc["guide"] \/ pc["guide"] \in {"stop", "stopoff", "spoll"}
    BY GuidePlace
  <1> QED BY <1>1, <1>2, <1>3, <1>4 DEF Aside

\* A stop of the guide thread itself is after its pulse.
LEMMA OthersStep ==
    ASSUME Typed, CallOK, PulseOK, NEW t \in Threads,
           \/ StopStep(t) \/ StopUnconfirmed(t) \/ SupervisorTick \/ AppStops
           \/ Enable \/ Switch \/ SwitchAnswered \/ SwitchDeadline
           \/ ConfirmTracking \/ ConfirmDeadline
    PROVE  PulseOK'
  <1>1. CASE pc'["guide"] = pc["guide"] /\ Aside
    BY <1>1, AsideStep
  <1>2. CASE ~(pc'["guide"] = pc["guide"] /\ Aside)
    <2>1. pc["guide"] \in {"stop", "stopoff", "spoll"}
      BY <1>2, OthersAside
    <2>2. "call" \in events'
      <3>1. "call" \in events
        BY <2>1 DEF CallOK
      <3> QED BY <3>1 DEF StopStep, StopBegins, StopTracking, StopPoll, StopUnconfirmed,
                          SupervisorTick, AppStops, Enable, Switch, SwitchAnswered, SwitchDeadline,
                          ConfirmTracking, ConfirmDeadline, Event
    <2>3. pc'["guide"] \notin GuidePlaces
      BY <2>1, GuidePlace DEF GuidePlaces
    <2> QED BY <2>2, <2>3 DEF PulseOK, GuidePlaces
  <1> QED BY <1>1, <1>2

\* The steps of pulse.
LEMMA IssueSends ==
    ASSUME Typed, NoGuideSent, NEW ms, toDev' = Append(toDev, [c |-> "GUIDE", ms |-> ms])
    PROVE  \E i \in DOMAIN toDev' :
               /\ toDev'[i] = [c |-> "GUIDE", ms |-> ms]
               /\ \A j \in DOMAIN toDev' \ {i} : toDev'[j].c # "GUIDE"
  <1> DEFINE c == [c |-> "GUIDE", ms |-> ms]
  <1>1. /\ toDev \in Seq(Commands) /\ Len(toDev) \in Nat /\ DOMAIN toDev = 1 .. Len(toDev)
        /\ \A j \in DOMAIN toDev : toDev[j].c # "GUIDE"
    BY QueueIndex DEF Typed, WireTyped, NoGuideSent, Others
  <1>2. /\ DOMAIN Append(toDev, c) = 1 .. Len(toDev) + 1 /\ Append(toDev, c)[Len(toDev) + 1] = c
        /\ \A j \in DOMAIN toDev : Append(toDev, c)[j] = toDev[j]
    BY <1>1, Appended
  <1>3. Len(toDev) + 1 \in DOMAIN toDev'
        /\ \A j \in DOMAIN toDev' \ {Len(toDev) + 1} : j \in DOMAIN toDev
    BY <1>1, <1>2
  <1> QED BY <1>1, <1>2, <1>3

LEMMA PulseStep ==
    ASSUME Typed, CallOK, PulseOK,
           \/ GuidePreflight \/ Issue \/ PulseAnswered \/ PulseDeadline
           \/ GuideIdle \/ IdleDeadline \/ \E ms \in Durations : Pulse(ms)
    PROVE  PulseOK'
  <1>1. UNCHANGED <<toCli, mount, pulsing, guideState, link>>
    BY DEF GuidePreflight, Issue, PulseAnswered, PulseDeadline, GuideIdle, IdleDeadline, Pulse,
           GuideKeeps, ClientActs, device
  <1>2. "call" \in events'
    <2>1. pc["guide"] \in GuidePlaces => "call" \in events
      BY DEF CallOK, GuidePlaces
    <2> QED BY <2>1 DEF GuidePreflight, Issue, PulseAnswered, PulseDeadline, GuideIdle,
                        IdleDeadline, Pulse, Event, GuidePlaces
  <1>3. pc \in [Threads -> Places] /\ "guide" \in Threads /\ hist \in Histories /\ completed \in Nat
        /\ freshVector \in [track : BOOLEAN, guide : BOOLEAN]
    BY DEF Typed, ThreadsTyped, PulseTyped, CacheTyped, Threads, Callers
  <1>4. ASSUME pc'["guide"] \in {"idle", "stop"} PROVE PulseOK'
    BY <1>2, <1>4 DEF PulseOK
  <1> USE DEF Jump, Take, Return, GuideOver, GuideReturns, GuideFails
  <1>5. CASE \E ms \in Durations : Pulse(ms)
    <2>1. /\ toDev' = toDev /\ completed' = 0 /\ pc' = [pc EXCEPT !["guide"] = "preflight"]
          /\ hist'.taken = 0 /\ "call" \notin events
      BY <1>3, <1>5 DEF Pulse, Event, Histories
    <2>2. Quiescent' /\ TakenWith(0)'
      BY <1>1, <2>1 DEF PulseOK, Quiescent, NoGuideSent, Answers, DeviceIdle, TakenWith
    <2> QED BY <1>2, <1>3, <2>1, <2>2 DEF PulseOK
  <1>6. CASE GuidePreflight
    <2>1. CASE pc'["guide"] = "issue"
      <3>1. UNCHANGED <<toDev, completed, hist>> /\ pc["guide"] = "preflight"
        BY <1>3, <1>6, <2>1 DEF GuidePreflight
      <3> QED BY <1>1, <1>2, <2>1, <3>1
              DEF PulseOK, Quiescent, NoGuideSent, Answers, DeviceIdle, TakenWith
    <2>2. CASE pc'["guide"] # "issue"
      BY <1>3, <1>4, <1>6, <2>2 DEF GuidePreflight
    <2> QED BY <2>1, <2>2
  <1>7. CASE Issue
    <2>1. CASE link = "open"
      <3>1. /\ toDev' = Append(toDev, [c |-> "GUIDE", ms |-> Head(chunks)])
            /\ pc["guide"] = "issue" /\ pc' = [pc EXCEPT !["guide"] = "pulse"]
            /\ freshVector' = [freshVector EXCEPT !.guide = FALSE]
            /\ UNCHANGED <<chunks, completed, hist>>
        BY <1>7, <2>1 DEF Issue, Send
      <3>2. Quiescent /\ TakenWith(0)
        BY <3>1 DEF PulseOK
      <3>3. OneGuideSent(Head(chunks))'
        BY <3>1, <3>2, IssueSends DEF Quiescent, OneGuideSent
      <3>4. ~freshVector'.guide
        BY <1>3, <3>1
      <3>5. Sent'
        BY <1>1, <3>1, <3>2, <3>3, <3>4 DEF Sent, Quiescent, Answers, DeviceIdle, TakenWith
      <3> QED BY <1>2, <1>3, <3>1, <3>5 DEF PulseOK
    <2>2. CASE link # "open"
      BY <1>3, <1>4, <1>7, <2>2 DEF Issue
    <2> QED BY <2>1, <2>2
  <1>8. CASE PulseAnswered
    <2>1. /\ pc["guide"] = "pulse" /\ freshVector.guide /\ toDev' = toDev
          /\ freshVector' = [freshVector EXCEPT !.guide = FALSE]
      BY <1>8 DEF PulseAnswered
    <2>2. ~freshVector'.guide /\ ~Sent
      BY <1>3, <2>1 DEF Sent
    <2>3. CASE guideState = "Alert"
      BY <1>3, <1>4, <1>8, <2>3 DEF PulseAnswered
    <2>4. CASE guideState = "Ok"
      <3>1. pc' = [pc EXCEPT !["guide"] = "over"] /\ UNCHANGED <<chunks, completed, hist>>
        BY <1>8, <2>4 DEF PulseAnswered
      <3>2. Ended
        BY <2>1, <2>2, <2>4 DEF PulseOK, Accepted, Rejected
      <3>3. Quiescent' /\ TakenWith(Head(chunks))'
        BY <1>1, <2>1, <2>4, <3>1, <3>2
           DEF Ended, Quiescent, NoGuideSent, Answers, DeviceIdle, TakenWith
      <3> QED BY <1>2, <1>3, <3>1, <3>3 DEF PulseOK
    <2>5. CASE guideState = "Busy"
      <3>1. UNCHANGED <<pc, chunks, completed, hist>>
        BY <1>8, <2>5 DEF PulseAnswered
      <3>2. Accepted \/ Ended
        BY <2>1, <2>2, <2>5 DEF PulseOK, Rejected
      <3>3. Accepted' \/ Ended'
        BY <1>1, <2>1, <2>2, <3>1, <3>2
           DEF Accepted, Ended, NoGuideSent, Answers, OkLast, DeviceIdle, TakenWith
      <3> QED BY <1>2, <2>1, <3>1, <3>3 DEF PulseOK
    <2> QED BY <2>3, <2>4, <2>5 DEF Typed, CacheTyped, GuideStates
  <1>9. CASE PulseDeadline \/ IdleDeadline
    BY <1>3, <1>4, <1>9 DEF PulseDeadline, IdleDeadline
  <1>10. CASE GuideIdle
    <2>1. pc["guide"] = "over" /\ toDev' = toDev
      BY <1>10 DEF GuideIdle
    <2>2. Quiescent /\ TakenWith(Head(chunks))
      BY <2>1 DEF PulseOK
    <2>3. Quiescent'
      BY <1>1, <2>1, <2>2 DEF Quiescent, NoGuideSent, Answers, DeviceIdle
    <2>4. CASE pc'["guide"] = "over"
      <3>1. UNCHANGED <<chunks, completed, hist>>
        BY <1>3, <1>10, <2>4 DEF GuideIdle
      <3> QED BY <1>2, <2>2, <2>3, <2>4, <3>1 DEF PulseOK, TakenWith
    <2>5. CASE pc'["guide"] = "preflight"
      <3>1. completed' = completed + Head(chunks) /\ hist' = hist
        BY <1>3, <1>10, <2>5, <2>1 DEF GuideIdle
      <3>2. Head(chunks) \in Nat
        <4>1. chunks # <<>> /\ chunks \in Seq(0 .. MaxPulse)
          BY <2>1 DEF CallOK, GuidePlaces, Typed, PulseTyped
        <4> QED BY <4>1, HeadTailProperties
      <3>3. TakenWith(0)'
        BY <1>3, <2>2, <3>1, <3>2 DEF TakenWith
      <3> QED BY <1>2, <2>3, <2>5, <3>3 DEF PulseOK
    <2>6. CASE pc'["guide"] \notin {"over", "preflight"}
      BY <1>3, <1>4, <1>10, <2>1, <2>6 DEF GuideIdle
    <2> QED BY <2>4, <2>5, <2>6
  <1> QED BY <1>5, <1>6, <1>7, <1>8, <1>9, <1>10

LEMMA NextPulse == Typed /\ CallOK /\ PulseOK /\ [Next]_vars => PulseOK'
  <1> SUFFICES ASSUME Typed, CallOK, PulseOK, [Next]_vars PROVE PulseOK'
    OBVIOUS
  <1>1. ASSUME NEW t \in Threads, Step(t) \/ Deadline(t) PROVE PulseOK'
    BY <1>1, OthersStep, PulseStep DEF Step, Deadline
  <1>2. CASE \/ DeviceSwitches \/ DeviceAborts \/ DevicePublishes \/ SkyTurns
             \/ LimitReached \/ BaselineLost \/ ThrottleEnds
    BY <1>2, WorldAside, AsideStep
  <1>3. CASE DeviceGuides \/ PulseEnds \/ ConnectionDrops \/ ReaderRecords
    BY <1>3, GuidesStep, PulseEndsStep, DropsStep, RecordsStep
  <1>4. CASE SupervisorTick \/ AppStops \/ Enable
    BY <1>4, OthersStep DEF Threads
  <1>5. CASE \E ms \in Durations : Pulse(ms)
    BY <1>5, PulseStep
  <1>6. CASE UNCHANGED vars
    <2>1. Aside
      BY <1>6 DEF vars, device, wire, cache, locals, Aside
    <2> QED BY <2>1, AsideStep
  <1> QED BY <1>1, <1>2, <1>3, <1>4, <1>5, <1>6 DEF Next, Device

-----------------------------------------------------------------------------
(* What the statuses say of tracking.                                      *)

Tracks(v) == DecodeGu(v.gu).tracking

\* The status recorded last, or the last one on its way, is true.
Latest(n) ==
    /\ \A j \in DOMAIN toCli : j > n => toCli[j].k # "status"
    /\ IF n = 0 THEN Tracks(status) <=> mount.tracking
       ELSE toCli[n].k = "status" /\ (Tracks(toCli[n]) <=> mount.tracking)
LastTrue == link = "open" => \E n \in 0 .. Len(toCli) : Latest(n)

\* A pulse that nothing disturbs has only pulses sent, and no status that says
\* tracking of a mount that does not.
Pulses == {c \in Commands : c.c = "GUIDE"}
Truthful(tracking) == {v \in Vectors : v.k = "status" /\ Tracks(v) => tracking}
Undisturbed ==
    pc["guide"] \in GuidePlaces /\ ~hist.disturbed =>
        /\ toDev \in Seq(Pulses) /\ toCli \in Seq(Truthful(mount.tracking))
        /\ Tracks(status) => mount.tracking

LEMMA StatusTracks ==
    ASSUME NEW m \in Mounts, NEW h
    PROVE  StatusNow(m, h).k = "status" /\ (Tracks(StatusNow(m, h)) <=> m.tracking)
  BY DEF StatusNow, Tracks, DecodeGu, RawGu, Mounts

\* What a step of the world tells of tracking.
NoStatus(vs) == \A i \in DOMAIN vs : vs[i].k # "status"
EndsTrue(vs) ==
    \E n \in DOMAIN vs :
        /\ vs[n].k = "status" /\ (Tracks(vs[n]) <=> mount'.tracking)
        /\ \A j \in DOMAIN vs : j > n => vs[j].k # "status"
Reports ==
    \E vs \in Seq(Truthful(mount'.tracking)) :
        /\ Publish(vs)
        /\ EndsTrue(vs) \/ (NoStatus(vs) /\ mount'.tracking = mount.tracking)

LEMMA TruthfulVectors ==
    ASSUME NEW m \in Mounts, NEW h \in -1 .. StopAt
    PROVE  /\ StatusNow(m, h) \in Truthful(m.tracking)
           /\ \A k \in Mounts, s \in {"Ok", "Alert"} : TrackNow(k, s) \in Truthful(m.tracking)
           /\ \A g \in GuideStates : GuideNow(g) \in Truthful(m.tracking)
           /\ StatusNow(m, h).k = "status"
           /\ \A k, s : TrackNow(k, s).k # "status" /\ GuideNow(s).k # "status"
  <1>1. StatusNow(m, h) \in Truthful(m.tracking)
    BY VectorFacts, StatusTracks DEF Truthful, Vectors
  <1>2. \A k \in Mounts, s \in {"Ok", "Alert"} : TrackNow(k, s) \in Truthful(m.tracking)
    BY VectorFacts DEF Truthful, Vectors, TrackVectors
  <1>3. \A g \in GuideStates : GuideNow(g) \in Truthful(m.tracking)
    BY VectorFacts DEF Truthful, Vectors, GuideVectors
  <1> QED BY <1>1, <1>2, <1>3 DEF StatusNow, TrackNow, GuideNow

LEMMA TwoOf == \A v, w : <<v>> \o <<w>> = <<v, w>>
  <1> TAKE v, w
  <1> DEFINE C == {v, w}
  <1>1. <<v>> \in Seq(C) /\ <<w>> \in Seq(C) /\ <<v, w>> \in Seq(C)
    OBVIOUS
  <1>2. Len(<<v>>) = 1 /\ Len(<<w>>) = 1 /\ Len(<<v, w>>) = 2 /\ <<v>>[1] = v /\ <<w>>[1] = w 
    OBVIOUS
  <1> DEFINE q == <<v>> \o <<w>>
  <1>3. /\ q \in Seq(C) /\ Len(q) = 2
        /\ \A i \in 1 .. 2 : q[i] = IF i <= 1 THEN <<v>>[i] ELSE <<w>>[i - 1]
    BY <1>1, <1>2, ConcatProperties
  <1> HIDE DEF q
  <1>4. q[1] = v /\ q[2] = w
    <2>1. 1 \in 1 .. 2 /\ 2 \in 1 .. 2 /\ 1 <= 1 /\ ~(2 <= 1) /\ 2 - 1 = 1
      OBVIOUS
    <2> QED BY <1>2, <1>3, <2>1
  <1>5. \A i \in 1 .. 2 : q[i] = <<v, w>>[i]
    BY <1>4
  <1>6. q = <<v, w>>
    BY <1>1, <1>2, <1>3, <1>5, SeqEqual
  <1> QED BY <1>6 DEF q

LEMMA WorldReports ==
    ASSUME Typed, Typed', \/ Device \/ DevicePublishes \/ LimitReached
    PROVE  Reports /\ UNCHANGED <<link, status>>
  <1>1. UNCHANGED <<link, status>>
    BY DEF Device, DeviceSwitches, DeviceAborts, DeviceGuides, PulseEnds, DevicePublishes,
           LimitReached, ClientKeeps, cache
  <1>2. /\ mount \in Mounts /\ mount' \in Mounts /\ ha \in -1 .. StopAt
        /\ trackState \in {"Ok", "Alert"} /\ trackState' \in {"Ok", "Alert"}
    BY DEF Typed, DeviceTyped
  <1>3. /\ StatusNow(mount', ha) \in Truthful(mount'.tracking) /\ StatusNow(mount', ha).k = "status"
        /\ TrackNow(mount', trackState') \in Truthful(mount'.tracking)
        /\ TrackNow(mount', trackState) \in Truthful(mount'.tracking)
        /\ \A g \in GuideStates : GuideNow(g) \in Truthful(mount'.tracking)
        /\ \A k, s : TrackNow(k, s).k # "status" /\ GuideNow(s).k # "status"
        /\ Tracks(StatusNow(mount', ha)) <=> mount'.tracking
    BY <1>2, TruthfulVectors, StatusTracks
  <1>4. CASE DeviceSwitches
    <2> DEFINE vs == <<TrackNow(mount', trackState'), StatusNow(mount', ha)>>
    <2>1. vs \in Seq(Truthful(mount'.tracking)) /\ EndsTrue(vs)
      BY <1>3, ShortSeqs DEF EndsTrue
    <2>2. Publish(vs)
      BY <1>4 DEF DeviceSwitches
    <2> QED BY <1>1, <2>1, <2>2 DEF Reports
  <1>5. CASE DeviceAborts \/ DevicePublishes
    <2> DEFINE vs == <<StatusNow(mount', ha)>>
    <2>1. vs \in Seq(Truthful(mount'.tracking)) /\ EndsTrue(vs)
      BY <1>3, ShortSeqs DEF EndsTrue
    <2>2. Publish(vs)
      BY <1>5 DEF DeviceAborts, DevicePublishes, device
    <2> QED BY <1>1, <2>1, <2>2 DEF Reports
  <1>6. CASE DeviceGuides
    <2>1. mount'.tracking = mount.tracking
      BY <1>2, <1>6, MountFacts DEF DeviceGuides
    <2>2. CASE Publish(<<GuideNow("Ok")>>)
      <3> DEFINE vs == <<GuideNow("Ok")>>
      <3>1. vs \in Seq(Truthful(mount'.tracking)) /\ NoStatus(vs)
        BY <1>3, ShortSeqs DEF NoStatus, GuideStates
      <3> QED BY <1>1, <2>1, <2>2, <3>1 DEF Reports
    <2>3. CASE \E g \in GuideStates : Publish(<<GuideNow(g), StatusNow(mount', ha)>>)
      <3>1. PICK g \in GuideStates : Publish(<<GuideNow(g), StatusNow(mount', ha)>>)
        BY <2>3
      <3> DEFINE vs == <<GuideNow(g), StatusNow(mount', ha)>>
      <3>2. vs \in Seq(Truthful(mount'.tracking)) /\ EndsTrue(vs)
        BY <1>3, ShortSeqs DEF EndsTrue
      <3> QED BY <1>1, <3>1, <3>2 DEF Reports
    <2> QED BY <1>6, <2>2, <2>3 DEF DeviceGuides, GuideStates
  <1>7. CASE PulseEnds
    <2>1. mount'.tracking = mount.tracking
      BY <1>2, <1>7, MountFacts DEF PulseEnds
    <2>2. PICK vs : Publish(vs) /\ vs \in {<<GuideNow("Ok")>>, <<>>}
      BY <1>7 DEF PulseEnds
    <2>3. vs \in Seq(Truthful(mount'.tracking)) /\ NoStatus(vs)
      <3>1. /\ <<GuideNow("Ok")>> \in Seq(Truthful(mount'.tracking))
            /\ <<>> \in Seq(Truthful(mount'.tracking))
        BY <1>3, ShortSeqs DEF GuideStates
      <3>2. NoStatus(<<GuideNow("Ok")>>) /\ NoStatus(<<>>)
        <4>1. \A v : v.k # "status" => NoStatus(<<v>>)
          BY DEF NoStatus
        <4>2. NoStatus(<<>>)
          BY DEF NoStatus
        <4>3. GuideNow("Ok").k # "status"
          BY <1>3
        <4> QED BY <4>1, <4>2, <4>3
      <3> QED BY <2>2, <3>1, <3>2
    <2> QED BY <1>1, <2>1, <2>2, <2>3 DEF Reports
  <1>8. CASE LimitReached
    <2> DEFINE one == <<StatusNow(mount', ha)>>
               two == <<StatusNow(mount', ha), TrackNow(mount', trackState)>>
    <2>1. Publish(one) \/ Publish(two)
      <3>1. one \o <<>> = one /\ one \o <<TrackNow(mount', trackState)>> = two
        <4>1. one \in Seq(Vectors)
          BY <1>3, ShortSeqs DEF Truthful
        <4> QED BY <4>1, TwoOf, ConcatEmptySeq
      <3>2. Publish(one \o <<>>) \/ Publish(one \o <<TrackNow(mount', trackState)>>)
        BY <1>8 DEF LimitReached
      <3> QED BY <3>1, <3>2
    <2>2. /\ one \in Seq(Truthful(mount'.tracking)) /\ two \in Seq(Truthful(mount'.tracking))
          /\ EndsTrue(one) /\ EndsTrue(two)
      BY <1>3, ShortSeqs DEF EndsTrue
    <2> QED BY <1>1, <2>1, <2>2 DEF Reports
  <1> QED BY <1>4, <1>5, <1>6, <1>7, <1>8 DEF Device

LEMMA ReportsTrue ==
    ASSUME Typed, LastTrue, Reports, UNCHANGED <<link, status>>
    PROVE  LastTrue'
  <1> SUFFICES ASSUME link = "open" PROVE \E n \in 0 .. Len(toCli') : Latest(n)'
    BY DEF LastTrue
  <1>1. PICK vs \in Seq(Truthful(mount'.tracking)) :
            /\ Publish(vs)
            /\ EndsTrue(vs) \/ (NoStatus(vs) /\ mount'.tracking = mount.tracking)
    BY DEF Reports
  <1>2. vs \in Seq(Vectors) /\ toCli \in Seq(Vectors)
    <2>1. \A i \in DOMAIN vs : vs[i] \in Vectors
      BY QueueIndex DEF Truthful
    <2> QED BY <2>1, SeqOf DEF Typed, WireTyped
  <1>3. /\ Len(toCli) \in Nat /\ DOMAIN toCli = 1 .. Len(toCli)
        /\ Len(vs) \in Nat /\ DOMAIN vs = 1 .. Len(vs)
        /\ DOMAIN toCli' = 1 .. Len(toCli) + Len(vs) /\ Len(toCli') = Len(toCli) + Len(vs)
        /\ \A i \in DOMAIN toCli' :
              toCli'[i] = IF i <= Len(toCli) THEN toCli[i] ELSE vs[i - Len(toCli)]
    BY <1>1, <1>2, ConcatProperties, LenProperties DEF Publish
  <1>4. \A i \in DOMAIN vs : Len(toCli) + i \in DOMAIN toCli' /\ toCli'[Len(toCli) + i] = vs[i]
    BY <1>3
  <1>5. \A j \in DOMAIN toCli' : ~(j <= Len(toCli)) => j - Len(toCli) \in DOMAIN vs
    BY <1>3
  <1>6. CASE EndsTrue(vs)
    <2>1. PICK n \in DOMAIN vs : /\ vs[n].k = "status" /\ (Tracks(vs[n]) <=> mount'.tracking)
                                 /\ \A j \in DOMAIN vs : j > n => vs[j].k # "status"
      BY <1>6 DEF EndsTrue
    <2>2. ASSUME NEW j \in DOMAIN toCli', j > Len(toCli) + n PROVE toCli'[j].k # "status"
      <3>1. ~(j <= Len(toCli)) /\ j - Len(toCli) > n
        BY <1>3, <2>1, <2>2
      <3> QED BY <1>3, <1>5, <2>1, <3>1
    <2>3. PICK m \in 0 .. Len(toCli') : m = Len(toCli) + n /\ m # 0
      BY <1>3
    <2>4. Latest(m)'
      BY <1>4, <2>1, <2>2, <2>3 DEF Latest
    <2> QED BY <2>4
  <1>7. CASE NoStatus(vs) /\ mount'.tracking = mount.tracking
    <2>1. PICK n \in 0 .. Len(toCli) : Latest(n)
      BY DEF LastTrue
    <2>2. ASSUME NEW j \in DOMAIN toCli', j > n PROVE toCli'[j].k # "status"
      <3>1. CASE j <= Len(toCli)
        BY <1>3, <2>1, <2>2, <3>1 DEF Latest
      <3>2. CASE ~(j <= Len(toCli))
        BY <1>3, <1>5, <1>7, <3>2 DEF NoStatus
      <3> QED BY <3>1, <3>2
    <2>3. n \in 0 .. Len(toCli') /\ (n # 0 => n \in DOMAIN toCli' /\ toCli'[n] = toCli[n])
      BY <1>3
    <2>4. Latest(n)'
      BY <1>7, <2>1, <2>2, <2>3 DEF Latest
    <2> QED BY <2>3, <2>4
  <1> QED BY <1>1, <1>6, <1>7

LEMMA RecordsTrue == ASSUME Typed, LastTrue, ReaderRecords PROVE LastTrue'
  <1> SUFFICES ASSUME link = "open" PROVE \E n \in 0 .. Len(toCli') : Latest(n)'
    BY DEF LastTrue, ReaderRecords
  <1>1. toCli # <<>> /\ toCli' = Tail(toCli) /\ mount' = mount
        /\ status' = IF Head(toCli).k = "status" THEN Head(toCli) ELSE status
    <2>1. toCli # <<>> => Head(toCli) \in Vectors
      BY HeadTailProperties DEF Typed, WireTyped
    <2>2. \A v \in Vectors : v.k \in {"status", "track", "guide"}
      BY DEF Vectors, Statuses, TrackVectors, GuideVectors
    <2> QED BY <2>1, <2>2 DEF ReaderRecords, device
  <1>2. /\ Head(toCli) = toCli[1] /\ Len(toCli) \in Nat /\ DOMAIN toCli = 1 .. Len(toCli)
        /\ Len(toCli) > 0 /\ DOMAIN toCli' = 1 .. Len(toCli) - 1 /\ Len(toCli') = Len(toCli) - 1
        /\ \A i \in DOMAIN toCli' : toCli'[i] = toCli[i + 1]
    BY <1>1, Popped, HeadTailProperties DEF Typed, WireTyped
  <1>3. PICK n \in 0 .. Len(toCli) : Latest(n)
    BY DEF LastTrue
  <1>4. CASE n = 0
    <2>1. \A j \in DOMAIN toCli : toCli[j].k # "status"
      BY <1>2, <1>3, <1>4 DEF Latest
    <2>2. status' = status /\ \A j \in DOMAIN toCli' : j + 1 \in DOMAIN toCli
      BY <1>1, <1>2, <2>1
    <2>3. Latest(0)'
      BY <1>1, <1>2, <1>3, <1>4, <2>1, <2>2 DEF Latest
    <2> QED BY <1>2, <2>3
  <1>5. CASE n # 0
    <2>1. n - 1 \in 0 .. Len(toCli') /\ (n - 1 # 0 => n - 1 \in DOMAIN toCli')
      BY <1>2, <1>5
    <2>2. \A j \in DOMAIN toCli' : j > n - 1 => j + 1 \in DOMAIN toCli /\ j + 1 > n
      BY <1>2, <1>5
    <2>3. \A j \in DOMAIN toCli' : j > n - 1 => toCli'[j].k # "status"
      BY <1>2, <1>3, <2>2 DEF Latest
    <2>4. toCli[n].k = "status" /\ (Tracks(toCli[n]) <=> mount.tracking)
      BY <1>3, <1>5 DEF Latest
    <2>5. CASE n = 1
      <3>1. Latest(0)'
        BY <1>1, <1>2, <2>3, <2>4, <2>5 DEF Latest
      <3> QED BY <1>2, <3>1
    <2>6. CASE n # 1
      <3>1. n - 1 # 0 /\ toCli'[n - 1] = toCli[n]
        BY <1>2, <2>1, <2>6
      <3>2. Latest(n - 1)'
        BY <1>1, <2>3, <2>4, <3>1 DEF Latest
      <3> QED BY <2>1, <3>2
    <2> QED BY <2>5, <2>6
  <1> QED BY <1>4, <1>5

\* The threads tell nothing.
LEMMA ThreadsSilent ==
    ASSUME NEW t \in Threads,
           \/ Step(t) \/ Deadline(t) \/ SupervisorTick \/ AppStops \/ Enable
           \/ \E ms \in Durations : Pulse(ms)
    PROVE  UNCHANGED <<mount, toCli, link, status>>
  BY DEF Step, Deadline, StopStep, StopBegins, StopTracking, StopPoll, StopUnconfirmed,
         SupervisorTick, AppStops, StartsStop, Enable, Switch, SwitchAnswered, SwitchDeadline,
         ConfirmTracking, ConfirmDeadline, TrackKeeps, GuidePreflight, Issue, PulseAnswered,
         PulseDeadline, GuideIdle, IdleDeadline, Pulse, GuideKeeps, ClientActs, device

LEMMA NextTrue == Typed /\ Typed' /\ LastTrue /\ [Next]_vars => LastTrue'
  <1> SUFFICES ASSUME Typed, Typed', LastTrue, [Next]_vars PROVE LastTrue'
    OBVIOUS
  <1>1. CASE Device \/ DevicePublishes \/ LimitReached
    BY <1>1, WorldReports, ReportsTrue
  <1>2. CASE ReaderRecords
    BY <1>2, RecordsTrue
  <1>3. CASE ConnectionDrops
    BY <1>3 DEF ConnectionDrops, LastTrue
  <1>4. CASE SkyTurns \/ BaselineLost \/ ThrottleEnds \/ UNCHANGED vars
    <2>1. UNCHANGED <<mount, toCli, link, status>>
      BY <1>4 DEF SkyTurns, BaselineLost, ThrottleEnds, ClientKeeps, device, wire, cache, vars
    <2> QED BY <2>1 DEF LastTrue, Latest
  <1>5. CASE \/ \E t \in Threads : Step(t) \/ Deadline(t)
             \/ SupervisorTick \/ AppStops \/ Enable \/ \E ms \in Durations : Pulse(ms)
    <2>1. UNCHANGED <<mount, toCli, link, status>>
      BY <1>5, ThreadsSilent DEF Threads
    <2> QED BY <2>1 DEF LastTrue, Latest
  <1> QED BY <1>1, <1>2, <1>3, <1>4, <1>5 DEF Next

\* Nothing disturbs the pulse that the step leaves undisturbed.
LEMMA WorldUndisturbed ==
    ASSUME Typed, Typed', Undisturbed, \/ Device \/ DevicePublishes \/ SkyTurns \/ ReaderRecords
                                      \/ LimitReached \/ BaselineLost \/ ConnectionDrops
                                      \/ ThrottleEnds
    PROVE  Undisturbed'
  <1>1. pc' = pc /\ (hist.disturbed => hist'.disturbed)
    <2>1. hist \in Histories
      BY DEF Typed, PulseTyped
    <2>2. CASE DeviceSwitches \/ DevicePublishes \/ SkyTurns
      BY <2>2 DEF DeviceSwitches, DevicePublishes, SkyTurns, ClientKeeps, locals
    <2>3. CASE DeviceAborts \/ DeviceGuides \/ PulseEnds \/ LimitReached
      BY <2>1, <2>3 DEF DeviceAborts, DeviceGuides, PulseEnds, LimitReached, ClientKeeps, locals,
                        Histories
    <2>4. CASE ReaderRecords \/ BaselineLost \/ ConnectionDrops \/ ThrottleEnds
      BY <2>4 DEF ReaderRecords, BaselineLost, ConnectionDrops, ThrottleEnds, ClientKeeps, locals
    <2> QED BY <2>2, <2>3, <2>4 DEF Device
  <1> SUFFICES ASSUME pc["guide"] \in GuidePlaces, ~hist.disturbed, ~hist'.disturbed
               PROVE  /\ toDev' \in Seq(Pulses) /\ toCli' \in Seq(Truthful(mount'.tracking))
                      /\ Tracks(status') => mount'.tracking
    BY <1>1 DEF Undisturbed, Tracks
  <1>2. /\ toDev \in Seq(Pulses) /\ toCli \in Seq(Truthful(mount.tracking))
        /\ Tracks(status) => mount.tracking
    BY DEF Undisturbed
  <1>3. toDev # <<>> => Head(toDev).c = "GUIDE" /\ Tail(toDev) \in Seq(Pulses)
    BY <1>2, HeadTailProperties DEF Pulses
  <1>4. ~DeviceSwitches /\ ~DeviceAborts /\ ~LimitReached
    <2>1. LimitReached => hist'.disturbed
      BY DEF LimitReached, Typed, PulseTyped, Histories
    <2> QED BY <1>3, <2>1 DEF DeviceSwitches, DeviceAborts
  <1>5. mount'.tracking = mount.tracking
    <2>1. mount \in Mounts
      BY DEF Typed, DeviceTyped
    <2> QED BY <1>4, <2>1, MountFacts DEF Device, DeviceGuides, PulseEnds, DevicePublishes, SkyTurns,
               ReaderRecords, BaselineLost, ConnectionDrops, ThrottleEnds, device
  <1>6. toDev' \in Seq(Pulses)
    <2>1. toDev' = toDev \/ (toDev # <<>> /\ toDev' = Tail(toDev)) \/ toDev' = <<>>
      BY <1>4 DEF Device, DeviceGuides, PulseEnds, DevicePublishes, SkyTurns,
                  ReaderRecords, BaselineLost, ConnectionDrops, ThrottleEnds, wire
    <2> QED BY <1>2, <1>3, <2>1, EmptySeq
  <1>7. CASE Device \/ DevicePublishes
    <2>1. Reports /\ status' = status
      BY <1>7, WorldReports
    <2>2. toCli' \in Seq(Truthful(mount'.tracking))
      BY <1>2, <1>5, <2>1, Published DEF Reports
    <2> QED BY <1>2, <1>5, <1>6, <2>1, <2>2
  <1>8. CASE ReaderRecords
    <2>1. toCli # <<>> /\ toCli' = Tail(toCli)
      BY <1>8 DEF ReaderRecords
    <2>2. Head(toCli) \in Truthful(mount.tracking) /\ toCli' \in Seq(Truthful(mount.tracking))
      BY <1>2, <2>1, HeadTailProperties
    <2>3. status' = status \/ (status' = Head(toCli) /\ Head(toCli).k = "status")
      <3>1. Head(toCli).k \in {"status", "track", "guide"}
        BY <2>2 DEF Truthful, Vectors, Statuses, TrackVectors, GuideVectors
      <3> QED BY <1>8, <3>1 DEF ReaderRecords
    <2>4. Tracks(status') => mount.tracking
      BY <1>2, <2>2, <2>3 DEF Truthful
    <2> QED BY <1>5, <1>6, <2>2, <2>4
  <1>9. CASE SkyTurns \/ BaselineLost \/ ConnectionDrops \/ ThrottleEnds
    <2>1. (toCli' = toCli \/ toCli' = <<>>) /\ status' = status
      BY <1>9 DEF SkyTurns, BaselineLost, ConnectionDrops, ThrottleEnds, ClientKeeps, wire, cache
    <2> QED BY <1>2, <1>5, <1>6, <2>1, EmptySeq
  <1> QED BY <1>4, <1>7, <1>8, <1>9

LEMMA ThreadsUndisturbed ==
    ASSUME Typed, CallOK, LastTrue, Undisturbed, NEW t \in Threads,
           \/ Step(t) \/ Deadline(t) \/ SupervisorTick \/ AppStops \/ Enable
           \/ \E ms \in Durations : Pulse(ms)
    PROVE  Undisturbed'
  <1>1. UNCHANGED <<mount, toCli, link, status>>
    BY ThreadsSilent
  <1> SUFFICES ASSUME pc'["guide"] \in GuidePlaces, ~hist'.disturbed
               PROVE  /\ toDev' \in Seq(Pulses) /\ toCli \in Seq(Truthful(mount.tracking))
                      /\ Tracks(status) => mount.tracking
    BY <1>1 DEF Undisturbed, Tracks
  <1>2. hist \in Histories /\ pc \in [Threads -> Places] /\ "guide" \in Threads
    BY DEF Typed, PulseTyped, ThreadsTyped, Threads, Callers
  <1>3. CASE \E ms \in Durations : Pulse(ms)
    <2>1. Quiet /\ toDev' = toDev /\ link = "open"
      BY <1>2, <1>3 DEF Pulse, Histories
    <2>2. toDev = <<>> /\ toCli = <<>> /\ Len(toCli) = 0
      BY <2>1 DEF Quiet
    <2>3. Tracks(status) <=> mount.tracking
      BY <2>1, <2>2 DEF LastTrue, Latest
    <2> QED BY <2>1, <2>2, <2>3, EmptySeq
  <1>4. CASE t = "guide" /\ (GuidePreflight \/ Issue \/ PulseAnswered \/ PulseDeadline
                               \/ GuideIdle \/ IdleDeadline)
    <2>1. pc["guide"] \in GuidePlaces
      BY <1>4 DEF GuidePreflight, Issue, PulseAnswered, PulseDeadline, GuideIdle, IdleDeadline, GuidePlaces
    <2>2. ~hist.disturbed
      BY <1>2, <1>4 DEF GuidePreflight, Issue, PulseAnswered, PulseDeadline, GuideIdle, IdleDeadline,
                        GuideReturns, GuideFails, GuideOver, Histories
    <2>3. toDev \in Seq(Pulses) /\ toCli \in Seq(Truthful(mount.tracking))
          /\ (Tracks(status) => mount.tracking)
      BY <2>1, <2>2 DEF Undisturbed
    <2>4. toDev' \in Seq(Pulses)
      <3>1. CASE Issue
        <4>1. chunks # <<>> /\ chunks \in Seq(0 .. MaxPulse)
          BY <3>1 DEF Issue, CallOK, GuidePlaces, Typed, PulseTyped
        <4>2. [c |-> "GUIDE", ms |-> Head(chunks)] \in Pulses
          BY <4>1, HeadTailProperties, CommandFacts DEF Pulses
        <4>3. toDev' = toDev \/ toDev' = Append(toDev, [c |-> "GUIDE", ms |-> Head(chunks)])
          BY <3>1 DEF Issue, Send
        <4>4. \A c \in Pulses : Append(toDev, c) \in Seq(Pulses)
          BY <2>3, AppendProperties
        <4> QED BY <2>3, <4>2, <4>3, <4>4
      <3>2. CASE ~Issue
        <4>1. toDev' = toDev
          BY <1>4, <3>2 DEF GuidePreflight, PulseAnswered, PulseDeadline, GuideIdle, IdleDeadline
        <4> QED BY <2>3, <4>1
      <3> QED BY <3>1, <3>2
    <2> QED BY <2>3, <2>4
  <1>5. CASE \/ StopStep(t) \/ StopUnconfirmed(t) \/ SupervisorTick \/ AppStops
             \/ Enable \/ Switch \/ SwitchAnswered \/ SwitchDeadline
             \/ ConfirmTracking \/ ConfirmDeadline
    <2>1. pc["guide"] = pc'["guide"] /\ pc["guide"] \in GuidePlaces
      BY <1>5, GuidePlace DEF GuidePlaces
    <2>2. pc["track"] = "idle" /\ "call" \in events
      BY <2>1 DEF CallOK, GuidePlaces
    <2>3. toDev' = toDev /\ ~hist.disturbed
      <3>1. CASE StopBegins(t)
        BY <1>2, <3>1 DEF StopBegins, Send, Histories
      <3>2. ~StopTracking(t)
        BY <1>2 DEF StopTracking, Histories
      <3>3. CASE StopPoll(t) \/ StopUnconfirmed(t)
        BY <3>3 DEF StopPoll, StopUnconfirmed
      <3>4. CASE SupervisorTick \/ AppStops
        BY <3>4 DEF SupervisorTick, AppStops, StartsStop
      <3>5. ~Enable
        BY <2>2 DEF Enable, Event
      <3>6. ~(Switch \/ SwitchAnswered \/ SwitchDeadline \/ ConfirmTracking \/ ConfirmDeadline)
        BY <2>2 DEF Switch, SwitchAnswered, SwitchDeadline, ConfirmTracking, ConfirmDeadline
      <3> QED BY <1>5, <3>1, <3>2, <3>3, <3>4, <3>5, <3>6 DEF StopStep
    <2> QED BY <2>1, <2>3 DEF Undisturbed
  <1> QED BY <1>3, <1>4, <1>5 DEF Step, Deadline

-----------------------------------------------------------------------------
(* What cuts a pulse short: an ABORT, which a TRACK_OFF follows, or a       *)
(* limit.                                                                  *)

Coming == pc["stop"] = "stopoff"
HasOff(q) == \E i \in DOMAIN q : q[i].c = "OFF"
Followed(q, coming) ==
    \A i \in DOMAIN q :
        /\ q[i].c # "ON"
        /\ q[i].c = "ABORT" => coming \/ \E j \in DOMAIN q : j > i /\ q[j].c = "OFF"

\* Before and during a pulse no TRACK_ON is under way.
Clean == link = "open" /\ ("call" \notin events \/ pc["guide"] \in GuidePlaces)
CutOK ==
    Clean =>
        /\ Followed(toDev, Coming)
        /\ hist.going # 0 => mount.guiding
        /\ EarlyAck \/ hist.ran + hist.going = hist.taken \/ StopShows

LEMMA FollowedTail ==
    ASSUME NEW C, NEW q \in Seq(C), q # <<>>, NEW coming \in BOOLEAN, Followed(q, coming)
    PROVE  /\ Followed(Tail(q), coming) /\ Head(q).c # "ON"
           /\ HasOff(q) => HasOff(Tail(q)) \/ Head(q).c = "OFF"
           /\ Head(q).c = "ABORT" => coming \/ HasOff(Tail(q))
  <1>1. /\ Len(q) \in Nat /\ Len(q) > 0 /\ DOMAIN q = 1..Len(q) /\ Head(q) = q[1]
        /\ DOMAIN Tail(q) = 1..Len(q) - 1
        /\ \A i \in DOMAIN Tail(q) : Tail(q)[i] = q[i + 1]
    BY Popped
  <1>2. 1 \in DOMAIN q /\ \A i \in DOMAIN Tail(q) : i + 1 \in DOMAIN q
    BY <1>1
  <1>3. ASSUME NEW i \in DOMAIN q, i > 1
        PROVE  i - 1 \in DOMAIN Tail(q) /\ Tail(q)[i - 1] = q[i]
    BY <1>1, <1>3
  <1>4. Followed(Tail(q), coming)
    <2> SUFFICES ASSUME NEW i \in DOMAIN Tail(q)
                 PROVE  /\ Tail(q)[i].c # "ON"
                        /\ Tail(q)[i].c = "ABORT" =>
                              coming \/ \E j \in DOMAIN Tail(q) : j > i /\ Tail(q)[j].c = "OFF"
      BY DEF Followed
    <2>1. i + 1 \in DOMAIN q /\ Tail(q)[i] = q[i + 1] /\ i \in Nat
      BY <1>1, <1>2
    <2>2. CASE \E j \in DOMAIN q : j > i + 1 /\ q[j].c = "OFF"
      <3>1. PICK j \in DOMAIN q : j > i + 1 /\ q[j].c = "OFF"
        BY <2>2
      <3>2. j > 1 /\ j - 1 > i /\ j \in Nat
        BY <1>1, <2>1, <3>1
      <3> QED BY <1>3, <2>1, <3>1, <3>2 DEF Followed
    <2> QED BY <2>1, <2>2 DEF Followed
  <1>5. ASSUME NEW i \in DOMAIN q, q[i].c = "OFF" PROVE HasOff(Tail(q)) \/ Head(q).c = "OFF"
    <2>1. i = 1 \/ i > 1
      BY <1>1
    <2> QED BY <1>1, <1>3, <1>5, <2>1 DEF HasOff
  <1>6. Head(q).c = "ABORT" => coming \/ HasOff(Tail(q))
    BY <1>1, <1>2, <1>3 DEF Followed, HasOff
  <1> QED BY <1>1, <1>2, <1>4, <1>5, <1>6 DEF HasOff, Followed

LEMMA FollowedAppend ==
    ASSUME NEW C, NEW q \in Seq(C), NEW e, NEW coming \in BOOLEAN, NEW coming2 \in BOOLEAN,
           Followed(q, coming), e.c # "ON", e.c = "ABORT" => coming2,
           coming => coming2 \/ e.c = "OFF"
    PROVE  /\ Followed(Append(q, e), coming2)
           /\ HasOff(q) \/ e.c = "OFF" => HasOff(Append(q, e))
  <1> DEFINE r == Append(q, e)
  <1>1. /\ Len(q) \in Nat /\ DOMAIN q = 1..Len(q)
        /\ DOMAIN r = 1..Len(q) + 1 /\ r[Len(q) + 1] = e
        /\ \A i \in DOMAIN q : r[i] = q[i]
    BY Appended
  <1> HIDE DEF r
  <1>2. Len(q) + 1 \in DOMAIN r
        /\ \A i \in DOMAIN q : i \in DOMAIN r /\ Len(q) + 1 > i
    BY <1>1
  <1>3. \A i \in DOMAIN r : i = Len(q) + 1 \/ i \in DOMAIN q
    BY <1>1
  <1>4. HasOff(q) \/ e.c = "OFF" => HasOff(r)
    BY <1>1, <1>2 DEF HasOff
  <1>5. ASSUME NEW i \in DOMAIN q
        PROVE  /\ r[i].c # "ON"
               /\ r[i].c = "ABORT" => coming2 \/ \E j \in DOMAIN r : j > i /\ r[j].c = "OFF"
    <2>1. r[i] = q[i] /\ q[i].c # "ON"
      BY <1>1 DEF Followed
    <2>2. CASE \E j \in DOMAIN q : j > i /\ q[j].c = "OFF"
      BY <1>1, <1>2, <2>1, <2>2
    <2>3. CASE e.c = "OFF"
      BY <1>1, <1>2, <2>1, <2>3
    <2> QED BY <2>1, <2>2, <2>3 DEF Followed
  <1>6. Followed(r, coming2)
    BY <1>1, <1>3, <1>5 DEF Followed
  <1> QED BY <1>4, <1>6 DEF r

\* Steps that leave what the device guides alone.
Kept == UNCHANGED <<hist.ran, hist.going, hist.taken>> /\ (mount.guiding => mount'.guiding)

LEMMA CutKept ==
    ASSUME CutOK, Clean' => Clean /\ Kept /\ Followed(toDev, Coming)' /\ (StopShows => StopShows')
    PROVE  CutOK'
  BY DEF CutOK, Kept

\* What the world does.
LEMMA WorldCut ==
    ASSUME Typed, CallOK, PulseOK, CutOK,
           \/ Device \/ DevicePublishes \/ SkyTurns \/ ReaderRecords
           \/ LimitReached \/ BaselineLost \/ ConnectionDrops \/ ThrottleEnds
    PROVE  CutOK'
  <1>1. pc' = pc /\ ("call" \in events' <=> "call" \in events)
        /\ (link' = link \/ link' # "open")
    BY DEF Device, DeviceSwitches, DeviceAborts, DeviceGuides, PulseEnds, DevicePublishes, SkyTurns,
           ReaderRecords, LimitReached, BaselineLost, ConnectionDrops, ThrottleEnds, Event,
           ClientKeeps, locals, wire
  <1>2. Clean' => Clean
    BY <1>1 DEF Clean
  <1> SUFFICES ASSUME Clean, Clean' PROVE CutOK'
    BY <1>2 DEF CutOK
  <1>3. /\ toDev \in Seq(Commands) /\ mount \in Mounts /\ hist \in Histories
        /\ Coming \in BOOLEAN /\ Coming' = Coming
    BY <1>1 DEF Typed, WireTyped, DeviceTyped, PulseTyped, Coming
  <1>4. /\ Followed(toDev, Coming) /\ (hist.going # 0 => mount.guiding)
        /\ EarlyAck \/ hist.ran + hist.going = hist.taken \/ StopShows
    BY DEF CutOK
  <1>5. StopShows <=> Coming \/ HasOff(toDev) \/ ~mount.tracking \/ trackState = "Alert"
    BY DEF StopShows, Coming, HasOff
  <1>6. StopShows' <=> Coming \/ HasOff(toDev') \/ ~mount'.tracking \/ trackState' = "Alert"
    BY <1>3 DEF StopShows, Coming, HasOff
  <1>7. toDev # <<>> =>
            /\ Followed(Tail(toDev), Coming) /\ Head(toDev).c # "ON"
            /\ HasOff(toDev) => HasOff(Tail(toDev)) \/ Head(toDev).c = "OFF"
            /\ Head(toDev).c = "ABORT" => Coming \/ HasOff(Tail(toDev))
    BY <1>3, <1>4, FollowedTail
  <1>8. CASE DeviceSwitches
    <2>1. /\ toDev # <<>> /\ Head(toDev).c \in {"ON", "OFF"} /\ toDev' = Tail(toDev) /\ hist' = hist
      BY <1>8 DEF DeviceSwitches
    <2>2. Head(toDev).c = "OFF" /\ Followed(toDev', Coming)
      BY <1>7, <2>1
    <2>3. \/ mount' = SetTracking(mount, FALSE)
          \/ trackState' = "Alert" /\ mount' = mount
      <3>1. (Head(toDev).c = "ON") = FALSE
        BY <2>2
      <3> QED BY <1>8, <3>1 DEF DeviceSwitches
    <2>4. StopShows' /\ mount'.guiding = mount.guiding
      <3>1. CASE mount' = SetTracking(mount, FALSE)
        <4>1. ~mount'.tracking /\ mount'.guiding = mount.guiding
          BY <1>3, <3>1, SwitchFacts, AsideMounts
        <4> QED BY <1>6, <4>1
      <3>2. CASE trackState' = "Alert" /\ mount' = mount
        BY <1>6, <3>2
      <3> QED BY <2>3, <3>1, <3>2
    <2> QED BY <1>3, <2>1, <2>2, <2>4, CutKept DEF Kept
  <1>9. CASE DeviceAborts
    <2>1. /\ toDev # <<>> /\ Head(toDev).c = "ABORT" /\ toDev' = Tail(toDev)
          /\ hist' = [hist EXCEPT !.going = 0]
      BY <1>9 DEF DeviceAborts
    <2>2. Followed(toDev', Coming) /\ StopShows'
      BY <1>6, <1>7, <2>1
    <2> QED BY <1>3, <2>1, <2>2 DEF CutOK, Histories
  <1>10. CASE DeviceGuides
    <2>1. toDev # <<>> /\ Head(toDev).c = "GUIDE" /\ toDev' = Tail(toDev) /\ trackState' = trackState
      BY <1>10 DEF DeviceGuides
    <2>2. mount'.tracking = mount.tracking
      BY <1>3, <1>10, MountFacts DEF DeviceGuides
    <2>3. Followed(toDev', Coming) /\ (StopShows => StopShows')
      BY <1>5, <1>6, <1>7, <2>1, <2>2
    <2>4. CASE hist' = hist /\ mount' = mount
      BY <1>3, <2>3, <2>4, CutKept DEF Kept
    <2>5. CASE ~(hist' = hist /\ mount' = mount)
      <3>1. /\ ~GuideRefused(mount) /\ mount' = Guide(mount)
            /\ hist' = IF hist.asked = 0 THEN hist
                       ELSE [hist EXCEPT !.taken = hist.taken + Head(toDev).ms, !.going = Head(toDev).ms]
        BY <1>10, <2>5 DEF DeviceGuides
      <3>2. mount'.guiding
        BY <1>3, <3>1 DEF Guide, Mounts
      <3>3. CASE hist' = hist
        BY <1>3, <2>3, <3>2, <3>3, CutKept DEF Kept
      <3>4. CASE hist' # hist
        <4>1. ~NoGuideSent
          <5>1. Head(toDev) \in Commands /\ Head(toDev) = toDev[1] /\ 1 \in DOMAIN toDev
            BY <1>3, <2>1, Popped, HeadTailProperties
          <5> QED BY <2>1, <5>1, QueueIndex DEF NoGuideSent, Others
        <4>2. DeviceIdle
          BY <4>1 DEF Clean, PulseOK, Quiescent, Sent, Accepted, Ended, Rejected, GuidePlaces
        <4>3. EarlyAck \/ hist.going = 0
          BY <1>4, <4>2 DEF DeviceIdle
        <4>4. Head(toDev).ms \in Nat /\ hist.ran \in Nat /\ hist.taken \in Nat
          <5>1. Head(toDev) \in Commands
            BY <1>3, <2>1, HeadTailProperties
          <5> QED BY <1>3, <5>1, StopAtNat DEF Commands, Histories
        <4>5. /\ hist'.ran = hist.ran /\ hist'.going = Head(toDev).ms
              /\ hist'.taken = hist.taken + Head(toDev).ms
          BY <1>3, <3>1, <3>4 DEF Histories
        <4>6. EarlyAck \/ hist'.ran + hist'.going = hist'.taken \/ StopShows'
          BY <1>4, <2>3, <4>3, <4>4, <4>5
        <4> QED BY <1>3, <2>3, <3>2, <4>6 DEF CutOK
      <3> QED BY <3>3, <3>4
    <2> QED BY <2>4, <2>5
  <1>11. CASE PulseEnds
    <2>1. toDev' = toDev /\ trackState' = trackState /\ mount' = GuideEnded(mount)
          /\ hist' = [hist EXCEPT !.ran = hist.ran + hist.going, !.going = 0]
      BY <1>11 DEF PulseEnds
    <2>2. StopShows => StopShows'
      BY <1>3, <1>5, <1>6, <2>1, MountFacts
    <2>3. /\ hist'.ran + hist'.going = hist.ran + hist.going
          /\ hist'.going = 0 /\ hist'.taken = hist.taken
      <3>1. hist.ran + hist.going \in Nat
        BY <1>3, StopAtNat DEF Histories
      <3>2. hist'.ran = hist.ran + hist.going /\ hist'.going = 0 /\ hist'.taken = hist.taken
        BY <1>3, <2>1 DEF Histories
      <3> QED BY <3>1, <3>2
    <2> QED BY <1>3, <1>4, <2>1, <2>2, <2>3 DEF CutOK
  <1>12. CASE LimitReached
    <2>1. /\ toDev' = toDev /\ mount' = SetFault(mount, "LIMIT")
          /\ hist' = [hist EXCEPT !.disturbed = TRUE, !.going = 0]
      BY <1>12 DEF LimitReached
    <2>2. StopShows'
      BY <1>3, <1>6, <2>1, MountFacts
    <2> QED BY <1>3, <1>4, <2>1, <2>2 DEF CutOK, Histories
  <1>13. CASE DevicePublishes \/ SkyTurns \/ ReaderRecords \/ BaselineLost \/ ThrottleEnds
    <2>1. UNCHANGED <<mount, trackState, toDev, hist>>
      BY <1>13 DEF DevicePublishes, SkyTurns, ReaderRecords, BaselineLost, ThrottleEnds, device, wire
    <2> QED BY <1>3, <1>4, <1>5, <1>6, <2>1, CutKept DEF Kept
  <1>14. ~ConnectionDrops
    BY DEF ConnectionDrops, Clean
  <1> QED BY <1>8, <1>9, <1>10, <1>11, <1>12, <1>13, <1>14 DEF Device

\* What the threads do.
LEMMA ThreadsCut ==
    ASSUME Typed, CallOK, CutOK, NEW t \in Threads,
           \/ Step(t) \/ Deadline(t) \/ SupervisorTick \/ AppStops \/ Enable
           \/ \E ms \in Durations : Pulse(ms)
    PROVE  CutOK'
  <1> USE DEF Jump, Return
  <1>1. UNCHANGED <<mount, trackState, link>>
    BY DEF Step, Deadline, StopStep, StopBegins, StopTracking, StopPoll, StopUnconfirmed,
           SupervisorTick, AppStops, StartsStop, Enable, Switch, SwitchAnswered, SwitchDeadline,
           ConfirmTracking, ConfirmDeadline, TrackKeeps, GuidePreflight, Issue, PulseAnswered,
           PulseDeadline, GuideIdle, IdleDeadline, Pulse, GuideKeeps, ClientActs, device
  <1>2. /\ toDev \in Seq(Commands) /\ hist \in Histories /\ pc \in [Threads -> Places]
        /\ Threads = {"track", "guide", "stop"} /\ Coming \in BOOLEAN /\ Coming' \in BOOLEAN
    BY DEF Typed, WireTyped, PulseTyped, ThreadsTyped, Threads, Callers, Coming
  <1>3. StopShows <=> Coming \/ HasOff(toDev) \/ ~mount.tracking \/ trackState = "Alert"
    BY DEF StopShows, Coming, HasOff
  <1>4. StopShows' <=> Coming' \/ HasOff(toDev') \/ ~mount.tracking \/ trackState = "Alert"
    BY <1>1 DEF StopShows, Coming, HasOff
  <1> DEFINE Adds(c) ==
        /\ toDev' = Append(toDev, c) /\ c.c # "ON"
        /\ c.c = "ABORT" => Coming'
        /\ Coming => Coming' \/ c.c = "OFF"
  <1>5. ASSUME Clean, (toDev' = toDev /\ (Coming => Coming')) \/ \E c \in Commands : Adds(c)
        PROVE  Followed(toDev, Coming)' /\ (StopShows => StopShows')
    <2>1. Followed(toDev, Coming)
      BY <1>5 DEF CutOK
    <2>2. CASE toDev' = toDev /\ (Coming => Coming')
      BY <1>3, <1>4, <2>1, <2>2 DEF Followed
    <2>3. ASSUME NEW c \in Commands, Adds(c) PROVE Followed(toDev, Coming)' /\ (StopShows => StopShows')
      <3>1. /\ Followed(Append(toDev, c), Coming')
            /\ HasOff(toDev) \/ c.c = "OFF" => HasOff(Append(toDev, c))
        BY <1>2, <2>1, <2>3, FollowedAppend
      <3> QED BY <1>3, <1>4, <2>3, <3>1
    <2> QED BY <1>5, <2>2, <2>3
  <1>6. ASSUME pc["guide"] \in GuidePlaces \/ "call" \notin events
        PROVE  pc["track"] = "idle" /\ pc["guide"] \notin {"stop", "stopoff", "spoll"}
    BY <1>6 DEF CallOK, GuidePlaces
  <1>7. CASE \E ms \in Durations : Pulse(ms)
    <2>1. "call" \notin events /\ link = "open" /\ toDev' = toDev
          /\ pc' = [pc EXCEPT !["guide"] = "preflight"]
          /\ hist'.taken = 0 /\ hist'.going = 0 /\ hist'.ran = 0
      BY <1>2, <1>7 DEF Pulse, Event, Histories
    <2>2. Clean /\ Coming' = Coming
      BY <1>2, <2>1 DEF Clean, Coming
    <2>3. Followed(toDev, Coming)'
      BY <1>5, <2>1, <2>2
    <2> QED BY <2>1, <2>3 DEF CutOK
  <1>8. CASE \/ GuidePreflight \/ Issue \/ PulseAnswered \/ PulseDeadline \/ GuideIdle \/ IdleDeadline
    <2>1. pc["guide"] \in GuidePlaces /\ "call" \in events' /\ Coming' = Coming
      <3>1. pc["guide"] \in GuidePlaces
        BY <1>8 DEF GuidePreflight, Issue, PulseAnswered, PulseDeadline, GuideIdle, IdleDeadline,
                    GuidePlaces
      <3>2. "call" \in events /\ events' = events
        BY <1>8, <3>1 DEF CallOK, GuidePlaces, GuidePreflight, Issue, PulseAnswered, PulseDeadline,
                          GuideIdle, IdleDeadline
      <3>3. pc' = pc \/ \E l : pc' = [pc EXCEPT !["guide"] = l]
        BY <1>8 DEF GuidePreflight, Issue, PulseAnswered, PulseDeadline, GuideIdle, IdleDeadline,
                    GuideReturns, GuideFails
      <3> QED BY <1>2, <3>1, <3>2, <3>3 DEF Coming
    <2>2. CASE ~Clean'
      BY <2>2 DEF CutOK
    <2>3. CASE Clean'
      <3>1. Clean /\ pc'["guide"] \in GuidePlaces
        BY <1>1, <2>1, <2>3 DEF Clean
      <3>2. ~GuideFails /\ ~GuideReturns("refused") /\ ~GuideReturns("completed") /\ ~GuideReturns("failed")
        BY <1>2, <3>1 DEF GuideFails, GuideReturns, GuidePlaces
      <3>3. hist' = hist
        BY <1>8, <3>2 DEF GuidePreflight, Issue, PulseAnswered, PulseDeadline, GuideIdle, IdleDeadline
      <3>4. toDev' = toDev \/ \E c \in Commands : Adds(c)
        <4>1. CASE Issue
          <5>1. chunks # <<>> /\ chunks \in Seq(0 .. MaxPulse)
            BY <4>1 DEF Issue, CallOK, GuidePlaces, Typed, PulseTyped
          <5> DEFINE c == [c |-> "GUIDE", ms |-> Head(chunks)]
          <5>2. c \in Commands /\ c.c = "GUIDE"
            BY <5>1, HeadTailProperties, CommandFacts
          <5>3. toDev' = toDev \/ toDev' = Append(toDev, c)
            BY <4>1 DEF Issue, Send
          <5> HIDE DEF c
          <5>4. toDev' = Append(toDev, c) => Adds(c)
            BY <2>1, <5>2
          <5> QED BY <5>2, <5>3, <5>4
        <4>2. CASE ~Issue
          BY <1>8, <4>2 DEF GuidePreflight, PulseAnswered, PulseDeadline, GuideIdle, IdleDeadline
        <4> QED BY <4>1, <4>2
      <3>5. Followed(toDev, Coming)' /\ (StopShows => StopShows')
        BY <1>5, <2>1, <3>1, <3>4
      <3> QED BY <1>1, <3>1, <3>3, <3>5, CutKept DEF Kept
    <2> QED BY <2>2, <2>3
  <1>9. CASE \/ StopStep(t) \/ StopUnconfirmed(t) \/ SupervisorTick \/ AppStops
             \/ Enable \/ Switch \/ SwitchAnswered \/ SwitchDeadline
             \/ ConfirmTracking \/ ConfirmDeadline
    <2>1. CASE ~Clean'
      BY <2>1 DEF CutOK
    <2>2. CASE Clean'
      <3>1. events \subseteq events'
        BY <1>9 DEF StopStep, StopBegins, StopTracking, StopPoll, StopUnconfirmed, SupervisorTick,
                    AppStops, StartsStop, Enable, Switch, SwitchAnswered, SwitchDeadline,
                    ConfirmTracking, ConfirmDeadline, Event
      <3>2. pc'["guide"] \in GuidePlaces => pc["guide"] \in GuidePlaces
        BY <1>9, GuidePlace DEF GuidePlaces
      <3>3. pc["guide"] \in GuidePlaces \/ "call" \notin events
        BY <2>2, <3>1, <3>2 DEF Clean
      <3>4. Clean
        BY <1>1, <2>2, <3>3 DEF Clean
      <3>5. ~Enable
        <4>1. Enable => "call" \in events' /\ "call" \notin events
          BY DEF Enable, Event
        <4>2. Enable => pc["guide"] \in GuidePlaces
          BY <2>2, <3>2, <4>1 DEF Clean
        <4> QED BY <4>1, <4>2 DEF CallOK, GuidePlaces
      <3>6. ~(Switch \/ SwitchAnswered \/ SwitchDeadline \/ ConfirmTracking \/ ConfirmDeadline)
        BY <1>6, <3>3 DEF Switch, SwitchAnswered, SwitchDeadline, ConfirmTracking, ConfirmDeadline
      <3>7. StopStep(t) \/ StopUnconfirmed(t) => t = "stop"
        BY <1>2, <1>6, <3>3 DEF StopStep, StopBegins, StopTracking, StopPoll, StopUnconfirmed
      <3>8. UNCHANGED <<hist.ran, hist.going, hist.taken>>
        BY <1>2, <1>9, <3>5, <3>6
           DEF StopStep, StopBegins, StopTracking, StopPoll, StopUnconfirmed, SupervisorTick,
               AppStops, StartsStop, Histories
      <3>9. (toDev' = toDev /\ (Coming => Coming')) \/ \E c \in Commands : Adds(c)
        <4>1. CASE StopBegins(t)
          <5>1. /\ toDev' = Append(toDev, Cmd("ABORT")) /\ pc' = [pc EXCEPT !["stop"] = "stopoff"]
            BY <3>4, <3>7, <4>1 DEF StopBegins, Send, Clean, StopStep
          <5>2. Coming' /\ Cmd("ABORT") \in Commands /\ Cmd("ABORT").c = "ABORT"
            BY <1>2, <5>1, CommandFacts DEF Coming, Cmd
          <5>3. Adds(Cmd("ABORT"))
            BY <5>1, <5>2
          <5> QED BY <5>2, <5>3
        <4>2. CASE StopTracking(t)
          <5>1. toDev' = Append(toDev, Cmd("OFF"))
            BY <3>4, <4>2 DEF StopTracking, Send, Clean
          <5>2. Cmd("OFF") \in Commands /\ Cmd("OFF").c = "OFF"
            BY CommandFacts DEF Cmd
          <5>3. Adds(Cmd("OFF"))
            BY <5>1, <5>2
          <5> QED BY <5>2, <5>3
        <4>3. CASE StopPoll(t) \/ StopUnconfirmed(t) \/ SupervisorTick \/ AppStops
          <5>1. toDev' = toDev /\ ~Coming
            BY <3>7, <4>3 DEF StopPoll, StopUnconfirmed, SupervisorTick, AppStops, StartsStop, Coming,
                              StopStep
          <5> QED BY <5>1
        <4> QED BY <1>9, <3>5, <3>6, <4>1, <4>2, <4>3 DEF StopStep
      <3>10. Followed(toDev, Coming)' /\ (StopShows => StopShows')
        BY <1>5, <3>4, <3>9
      <3> QED BY <1>1, <3>4, <3>8, <3>10, CutKept DEF Kept
    <2> QED BY <2>1, <2>2
  <1> QED BY <1>7, <1>8, <1>9 DEF Step, Deadline

-----------------------------------------------------------------------------
(* The invariant of the pulse, and what it implies.                        *)

PulseInv == Typed /\ CallOK /\ PulseOK /\ LastTrue /\ Undisturbed /\ CutOK

LEMMA InitPulse == Init => PulseInv
  <1> SUFFICES ASSUME Init PROVE PulseInv
    OBVIOUS
  <1>1. Typed /\ CallOK
    BY InitTyped
  <1>2. toDev = <<>> /\ toCli = <<>> /\ ~pulsing /\ ~mount.guiding /\ pc["guide"] = "idle"
    <2>1. PICK m \in InitialMounts, b \in BOOLEAN : mount = [m EXCEPT !.tracking = b]
      BY DEF Init
    <2>2. ~mount.guiding
      BY <2>1 DEF InitialMounts, Mounts
    <2> QED BY <2>2 DEF Init, Threads, Callers
  <1>3. PulseOK
    BY <1>2, EmptySeq DEF PulseOK, Quiescent, NoGuideSent, Answers, DeviceIdle
  <1>4. LastTrue
    <2>1. Tracks(status) <=> mount.tracking
      BY <1>1, StatusTracks DEF Init, Typed, DeviceTyped
    <2>2. Latest(0)
      BY <1>2, <2>1 DEF Latest
    <2>3. Len(toCli) = 0
      BY <1>2
    <2> QED BY <2>2, <2>3 DEF LastTrue
  <1>5. Undisturbed
    BY <1>2 DEF Undisturbed, GuidePlaces
  <1>6. CutOK
    BY <1>2 DEF Init, CutOK, Followed
  <1> QED BY <1>1, <1>3, <1>4, <1>5, <1>6 DEF PulseInv

LEMMA NextPulseInv == PulseInv /\ [Next]_vars => PulseInv'
  <1> SUFFICES ASSUME PulseInv, [Next]_vars PROVE PulseInv'
    OBVIOUS
  <1>1. Typed' /\ CallOK' /\ PulseOK' /\ LastTrue'
    BY NextTyped, NextPulse, NextTrue DEF PulseInv
  <1>2. Undisturbed'
    <2>1. CASE UNCHANGED vars
      BY <2>1 DEF vars, device, wire, cache, locals, PulseInv, Undisturbed, Tracks
    <2>2. ASSUME NEW t \in Threads, Step(t) \/ Deadline(t) PROVE Undisturbed'
      BY <2>2, ThreadsUndisturbed DEF PulseInv
    <2>3. CASE SupervisorTick \/ AppStops \/ Enable \/ \E ms \in Durations : Pulse(ms)
      BY <2>3, ThreadsUndisturbed DEF PulseInv, Threads
    <2>4. CASE \/ Device \/ DevicePublishes \/ SkyTurns \/ ReaderRecords
               \/ LimitReached \/ BaselineLost \/ ConnectionDrops \/ ThrottleEnds
      BY <1>1, <2>4, WorldUndisturbed DEF PulseInv
    <2> QED BY <2>1, <2>2, <2>3, <2>4 DEF Next
  <1>3. CutOK'
    <2>1. CASE UNCHANGED vars
      <3>1. UNCHANGED <<mount, trackState, toDev, link, pc, events, hist>>
        BY <2>1 DEF vars, device, wire, locals
      <3> QED BY <3>1 DEF PulseInv, CutOK, Clean, Followed, Coming, StopShows
    <2>2. ASSUME NEW t \in Threads, Step(t) \/ Deadline(t) PROVE CutOK'
      BY <2>2, ThreadsCut DEF PulseInv
    <2>3. CASE SupervisorTick \/ AppStops \/ Enable \/ \E ms \in Durations : Pulse(ms)
      BY <2>3, ThreadsCut DEF PulseInv, Threads
    <2>4. CASE \/ Device \/ DevicePublishes \/ SkyTurns \/ ReaderRecords
               \/ LimitReached \/ BaselineLost \/ ConnectionDrops \/ ThrottleEnds
      BY <2>4, WorldCut DEF PulseInv
    <2> QED BY <2>1, <2>2, <2>3, <2>4 DEF Next
  <1> QED BY <1>1, <1>2, <1>3 DEF PulseInv

LEMMA PulseInvariance == Spec => []PulseInv
  BY InitPulse, NextPulseInv, PTL DEF Spec

\* A status that says tracking is true, or an untrue one is followed by a true one.
LEMMA TracksOrReported ==
    ASSUME Typed, LastTrue, Tracks(status), link = "open"
    PROVE  mount.tracking \/ OffReported
  <1>1. Len(toCli) \in Nat /\ DOMAIN toCli = 1 .. Len(toCli)
    BY LenProperties DEF Typed, WireTyped
  <1>2. PICK n \in 0 .. Len(toCli) : Latest(n)
    BY DEF LastTrue
  <1>3. CASE n = 0
    BY <1>2, <1>3 DEF Latest
  <1>4. CASE n # 0
    <2>1. n \in DOMAIN toCli /\ toCli[n].k = "status" /\ (Tracks(toCli[n]) <=> mount.tracking)
      BY <1>1, <1>2, <1>4 DEF Latest
    <2> QED BY <2>1 DEF OffReported, Tracks
  <1> QED BY <1>3, <1>4

\* pulse returns what is looked at here at its preflights only.
LEMMA ReturnsAtPreflight ==
    ASSUME Typed, Next, NEW r \in {"completed", "refused"}, Returns("guide", r)
    PROVE  GuidePreflight
  <1> USE DEF Returns, Jump, Return, GuideReturns
  <1>1. pc \in [Threads -> Places] /\ "guide" \in Threads /\ "guide" \in Callers
        /\ pc'["guide"] # pc["guide"]
    BY DEF Typed, ThreadsTyped, Threads, Callers
  <1>2. ASSUME NEW t \in Threads, StopStep(t) \/ StopUnconfirmed(t) PROVE FALSE
    <2>1. pc' = [pc EXCEPT ![t] = "idle"] => result' = [c \in Callers |-> IF c = t THEN "failed" ELSE result[c]]
      BY <1>1, <1>2 DEF StopStep, StopBegins, StopTracking, StopPoll, StopUnconfirmed
    <2>2. \E l \in Places : pc' = [pc EXCEPT ![t] = l] \/ pc' = pc
      BY <1>2 DEF StopStep, StopBegins, StopTracking, StopPoll, StopUnconfirmed, Places
    <2> QED BY <1>1, <2>1, <2>2
  <1>3. ~(SupervisorTick \/ AppStops \/ Enable \/ Switch \/ SwitchAnswered \/ SwitchDeadline
          \/ ConfirmTracking \/ ConfirmDeadline)
    <2> SUFFICES ASSUME SupervisorTick \/ AppStops \/ Enable \/ Switch \/ SwitchAnswered
                        \/ SwitchDeadline \/ ConfirmTracking \/ ConfirmDeadline
                 PROVE  FALSE
      OBVIOUS
    <2>1. pc["guide"] \in {"stop", "stopoff", "spoll"} /\ pc'["guide"] = "idle"
      BY <1>1, GuidePlace DEF Threads
    <2>2. \E l, u : u # "guide" /\ (pc' = [pc EXCEPT ![u] = l] \/ pc' = pc)
      BY DEF SupervisorTick, AppStops, StartsStop, Enable, Switch, SwitchAnswered, SwitchDeadline,
             ConfirmTracking, ConfirmDeadline
    <2> QED BY <1>1, <2>1, <2>2
  <1>4. ~(Issue \/ PulseAnswered \/ PulseDeadline \/ GuideIdle \/ IdleDeadline
          \/ \E ms \in Durations : Pulse(ms))
    BY <1>1 DEF Issue, PulseAnswered, PulseDeadline, GuideIdle, IdleDeadline, Pulse, GuideFails
  <1>5. ~(\/ Device \/ DevicePublishes \/ SkyTurns \/ ReaderRecords
          \/ LimitReached \/ BaselineLost \/ ConnectionDrops \/ ThrottleEnds)
    BY <1>1 DEF Device, DeviceSwitches, DeviceAborts, DeviceGuides, PulseEnds, DevicePublishes,
                SkyTurns, ReaderRecords, LimitReached, BaselineLost, ConnectionDrops, ThrottleEnds,
                ClientKeeps, locals
  <1> QED BY <1>2, <1>3, <1>4, <1>5 DEF Next, Step, Deadline

\* A pulse that completed was accepted for the duration asked for, in chunks within the
\* range, and guided to the end, or a stop that cut it short shows; one refused
\* between its chunks reports what was accepted and guided.
THEOREM PulseReal == Spec => PulseIsReal
  <1>1. ASSUME PulseInv, pc["guide"] = "preflight"
        PROVE  hist.taken = completed /\ Guided(completed)
    <2>1. hist.taken = completed /\ DeviceIdle /\ hist \in Histories
      BY <1>1 DEF PulseInv, PulseOK, Quiescent, TakenWith, Typed, PulseTyped
    <2>2. SUFFICES ASSUME link = "open", ~EarlyAck PROVE hist.ran = completed \/ StopShows
      BY <2>1 DEF Guided
    <2>3. /\ hist.going # 0 => mount.guiding
          /\ hist.ran + hist.going = hist.taken \/ StopShows
      BY <1>1, <2>2 DEF PulseInv, CutOK, Clean, GuidePlaces
    <2>4. hist.going = 0 /\ hist.ran \in Nat
      BY <2>1, <2>2, <2>3 DEF DeviceIdle, Histories
    <2> QED BY <2>1, <2>3, <2>4
  <1>2. ASSUME PulseInv, Next, Returns("guide", "completed")
        PROVE  /\ hist.taken = hist.asked /\ completed = hist.asked /\ ~hist.short
               /\ Guided(hist.asked)
               /\ mount.tracking \/ (hist.disturbed /\ OffReported)
    <2>1. GuidePreflight /\ ~GuidingRefused /\ chunks = <<>>
      <3>1. GuidePreflight
        BY <1>2, ReturnsAtPreflight DEF PulseInv
      <3>2. result'["guide"] = "completed" /\ pc'["guide"] = "idle"
        BY <1>2 DEF Returns
      <3>3. pc \in [Threads -> Places] /\ "guide" \in Threads /\ "guide" \in Callers
        BY <1>2 DEF PulseInv, Typed, ThreadsTyped, Threads, Callers
      <3>4. ~GuideFails /\ ~GuideReturns("refused") /\ ~Jump("guide", "issue")
        BY <3>2, <3>3 DEF GuideFails, GuideReturns, Return, Jump
      <3> QED BY <3>1, <3>4 DEF GuidePreflight
    <2>2. pc["guide"] = "preflight"
      BY <2>1 DEF GuidePreflight
    <2>3. completed = hist.asked /\ ~hist.short
      BY <1>2, <2>1, <2>2 DEF PulseInv, CallOK, GuidePlaces
    <2>4. Tracks(status) /\ link = "open"
      BY <2>1 DEF GuidingRefused, HardBlocked, S, Tracks
    <2>5. mount.tracking \/ OffReported
      BY <1>2, <2>4, TracksOrReported DEF PulseInv
    <2>6. ~hist.disturbed => mount.tracking
      BY <1>2, <2>2, <2>4 DEF PulseInv, Undisturbed, GuidePlaces
    <2>7. hist.disturbed \in BOOLEAN
      BY <1>2 DEF PulseInv, Typed, PulseTyped, Histories
    <2> QED BY <1>1, <1>2, <2>2, <2>3, <2>5, <2>6, <2>7
  <1>3. ASSUME PulseInv, Next, Returns("guide", "refused")
        PROVE  hist.taken = completed /\ Guided(completed)
    BY <1>1, <1>3, ReturnsAtPreflight DEF PulseInv, GuidePreflight
  <1>4. PulseInv /\ [Next]_vars =>
          [/\ Returns("guide", "completed") =>
                /\ hist.taken = hist.asked /\ completed = hist.asked /\ ~hist.short
                /\ Guided(hist.asked)
                /\ mount.tracking \/ (hist.disturbed /\ OffReported)
           /\ Returns("guide", "refused") => hist.taken = completed /\ Guided(completed)]_vars
    BY <1>2, <1>3
  <1> QED BY <1>4, PulseInvariance, PTL DEF Spec, PulseIsReal

-----------------------------------------------------------------------------
(* What enable_tracking says of tracking.                                  *)

\* Only the preflight and the second good status report tracking on, and both look
\* at the status recorded last.
LEMMA SaidFromStatus == ASSUME Typed, Next, SaysOn PROVE Tracks(status)
  <1> USE DEF SaysOn, Jump, Return
  <1>1. "track" \in Callers /\ "track" \in Threads /\ "guide" # "track"
        /\ result \in [Callers -> {"none", "refused", "already", "confirmed",
                                   "failed", "unsent", "completed"}]
        /\ polls["track"] \in 0 .. 1 /\ result'["track"] # result["track"]
    BY DEF Typed, ThreadsTyped, Threads, Callers
  <1>2. CASE Enable
    BY <1>1, <1>2 DEF Enable, S, Tracks
  <1>3. CASE ConfirmTracking
    <2>1. result' # result
      BY <1>1
    <2>2. (IF S.tracking /\ ~S.slewing THEN polls["track"] + 1 ELSE 0) = 2
      BY <1>3, <2>1 DEF ConfirmTracking
    <2> QED BY <2>2 DEF S, Tracks
  <1>4. ~(Switch \/ SwitchAnswered \/ SwitchDeadline \/ ConfirmDeadline)
    BY <1>1 DEF Switch, SwitchAnswered, SwitchDeadline, ConfirmDeadline
  <1>5. ASSUME NEW t \in Threads, StopStep(t) \/ StopUnconfirmed(t) PROVE FALSE
    <2>1. result' = result \/ result' = [c \in Callers |-> IF c = t THEN "failed" ELSE result[c]]
      BY <1>5 DEF StopStep, StopBegins, StopTracking, StopPoll, StopUnconfirmed
    <2> QED BY <1>1, <2>1
  <1>6. ~(\/ GuidePreflight \/ Issue \/ PulseAnswered \/ PulseDeadline
          \/ GuideIdle \/ IdleDeadline \/ \E ms \in Durations : Pulse(ms))
    <2> SUFFICES ASSUME \/ GuidePreflight \/ Issue \/ PulseAnswered \/ PulseDeadline
                        \/ GuideIdle \/ IdleDeadline \/ \E ms \in Durations : Pulse(ms)
                 PROVE  result'["track"] = result["track"]
      BY <1>1
    <2>1. \/ result' = result \/ result' = [result EXCEPT !["guide"] = "none"]
          \/ \E r : result' = [c \in Callers |-> IF c = "guide" THEN r ELSE result[c]]
      BY DEF GuidePreflight, Issue, PulseAnswered, PulseDeadline, GuideIdle, IdleDeadline,
             Pulse, GuideFails, GuideReturns
    <2> QED BY <1>1, <2>1
  <1>7. ~(\/ SupervisorTick \/ AppStops \/ Device \/ DevicePublishes \/ SkyTurns \/ ReaderRecords
          \/ LimitReached \/ BaselineLost \/ ConnectionDrops \/ ThrottleEnds)
    BY <1>1 DEF SupervisorTick, AppStops, StartsStop, Device, DeviceSwitches, DeviceAborts,
                DeviceGuides, PulseEnds, DevicePublishes, SkyTurns, ReaderRecords, LimitReached,
                BaselineLost, ConnectionDrops, ThrottleEnds, ClientKeeps, locals
  <1> QED BY <1>2, <1>3, <1>4, <1>5, <1>6, <1>7 DEF Next, Step, Deadline

\* enable_tracking that reports tracking on has it on, or a status on its way says
\* that it went off again.
THEOREM TrackingReal == Spec => TrackingIsReal
  <1>1. ASSUME PulseInv, Next, SaysOn, link = "open" PROVE mount.tracking \/ OffReported
    BY <1>1, SaidFromStatus, TracksOrReported DEF PulseInv
  <1>2. PulseInv /\ [Next]_vars => [SaysOn /\ link = "open" => mount.tracking \/ OffReported]_vars
    BY <1>1
  <1> QED BY <1>2, PulseInvariance, PTL DEF Spec, TrackingIsReal

=============================================================================
