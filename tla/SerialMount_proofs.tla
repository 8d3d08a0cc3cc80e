-------------------------- MODULE SerialMount_proofs --------------------------
(***************************************************************************)
(* Proofs about SerialMount, for any set of operations and any number of   *)
(* calls, faults and stops.                                                *)
(***************************************************************************)
EXTENDS SerialMount, SequenceTheorems, TLAPS

USE SerialAssumption

-----------------------------------------------------------------------------
(* Stacks.                                                                 *)

Frames == [at : Labels, n : 0..2]

\* Frames of the calls an operation makes, and frames of operations.
Helpers == {"state", "guard", "guarded", "quit", "disable", "judge", "wait"}
HelperFrames == {f \in Frames : f.at \in Helpers}
OwnFrames == {f \in Frames : f.at \notin Helpers}

LEMMA FrameFacts ==
    /\ \A l \in Labels : F(l) \in Frames /\ F(l).at = l
    /\ HelperFrames \subseteq Frames /\ OwnFrames \subseteq Frames
    /\ Helpers \subseteq Labels
  BY DEF F, Frames, HelperFrames, OwnFrames, Helpers, Labels

\* The sequences the steps write down.
LEMMA Literals ==
    ASSUME NEW S
    PROVE  /\ <<>> \in Seq(S) /\ Len(<<>>) = 0
           /\ \A f \in S : <<f>> \in Seq(S) /\ Len(<<f>>) = 1 /\ <<f>>[1] = f
           /\ \A f, g \in S : /\ <<f, g>> \in Seq(S) /\ Len(<<f, g>>) = 2
                              /\ <<f, g>>[1] = f /\ <<f, g>>[2] = g
           /\ \A e, f, g \in S : /\ <<e, f, g>> \in Seq(S) /\ Len(<<e, f, g>>) = 3
                                 /\ <<e, f, g>>[1] = e /\ <<e, f, g>>[2] = f
                                 /\ <<e, f, g>>[3] = g
  OBVIOUS

LEMMA Joined ==
    ASSUME NEW S
    PROVE  /\ \A f \in S : <<f>> \o <<>> = <<f>> /\ <<>> \o <<f>> = <<f>>
           /\ \A f, g \in S : <<f>> \o <<g>> = <<f, g>> /\ <<>> \o <<f, g>> = <<f, g>>
           /\ \A e, f, g \in S : <<e>> \o <<f, g>> = <<e, f, g>>
  <1>1. \A f \in S : <<f>> \o <<>> = <<f>> /\ <<>> \o <<f>> = <<f>>
    BY Literals, ConcatEmptySeq
  <1>2. \A f, g \in S : <<>> \o <<f, g>> = <<f, g>>
    BY Literals, ConcatEmptySeq
  <1>3. ASSUME NEW f \in S, NEW g \in S PROVE <<f>> \o <<g>> = <<f, g>>
    <2> DEFINE r == <<f>> \o <<g>>
    <2>1. <<f>> \in Seq(S) /\ <<g>> \in Seq(S) /\ <<f, g>> \in Seq(S)
          /\ Len(<<f>>) = 1 /\ Len(<<g>>) = 1 /\ Len(<<f, g>>) = 2
      BY Literals
    <2>2. /\ r \in Seq(S) /\ Len(r) = 2
          /\ \A i \in 1..2 : r[i] = IF i <= 1 THEN <<f>>[i] ELSE <<g>>[i - 1]
      BY <2>1, ConcatProperties
    <2>3. \A i \in 1..2 : r[i] = <<f, g>>[i]
      BY <2>2
    <2> HIDE DEF r
    <2> QED BY <2>1, <2>2, <2>3, SeqEqual DEF r
  <1>4. ASSUME NEW e \in S, NEW f \in S, NEW g \in S PROVE <<e>> \o <<f, g>> = <<e, f, g>>
    <2> DEFINE r == <<e>> \o <<f, g>>
    <2>1. <<e>> \in Seq(S) /\ <<f, g>> \in Seq(S) /\ <<e, f, g>> \in Seq(S)
          /\ Len(<<e>>) = 1 /\ Len(<<f, g>>) = 2 /\ Len(<<e, f, g>>) = 3
      BY Literals
    <2>2. /\ r \in Seq(S) /\ Len(r) = 3
          /\ \A i \in 1..3 : r[i] = IF i <= 1 THEN <<e>>[i] ELSE <<f, g>>[i - 1]
      BY <2>1, ConcatProperties
    <2>3. \A i \in 1..3 : r[i] = <<e, f, g>>[i]
      BY <2>2
    <2> HIDE DEF r
    <2> QED BY <2>1, <2>2, <2>3, SeqEqual DEF r
  <1> QED BY <1>1, <1>2, <1>3, <1>4

\* The running frame s[1] goes on as fs.
LEMMA Splice ==
    ASSUME NEW s \in Seq(Frames), s # <<>>, NEW fs \in Seq(Frames)
    PROVE  /\ fs \o Tail(s) \in Seq(Frames)
           /\ Len(fs \o Tail(s)) = Len(fs) + Len(s) - 1
           /\ Len(s) \in Nat \ {0} /\ Len(fs) \in Nat
           /\ \A i \in 1..Len(fs) : (fs \o Tail(s))[i] = fs[i]
           /\ \A i \in 2..Len(s) : (fs \o Tail(s))[Len(fs) + i - 1] = s[i]
  <1>1. /\ Tail(s) \in Seq(Frames) /\ Len(Tail(s)) = Len(s) - 1
        /\ \A i \in 1..Len(Tail(s)) : Tail(s)[i] = s[i + 1]
    BY HeadTailProperties
  <1>2. Len(s) \in Nat \ {0} /\ Len(fs) \in Nat
    BY EmptySeq, LenProperties
  <1>3. /\ fs \o Tail(s) \in Seq(Frames)
        /\ Len(fs \o Tail(s)) = Len(fs) + Len(Tail(s))
        /\ \A i \in 1 .. Len(fs) + Len(Tail(s)) :
              (fs \o Tail(s))[i] = IF i <= Len(fs) THEN fs[i] ELSE Tail(s)[i - Len(fs)]
    BY <1>1, ConcatProperties
  <1> HIDE DEF Frames
  <1>4. ASSUME NEW i \in 2..Len(s) PROVE (fs \o Tail(s))[Len(fs) + i - 1] = s[i]
    <2>1. Len(fs) + i - 1 \in 1 .. Len(fs) + Len(Tail(s)) /\ ~(Len(fs) + i - 1 <= Len(fs))
          /\ Len(fs) + i - 1 - Len(fs) = i - 1 /\ i - 1 \in 1..Len(Tail(s))
      BY <1>1, <1>2
    <2>2. (fs \o Tail(s))[Len(fs) + i - 1] = Tail(s)[i - 1]
      BY <1>3, <2>1
    <2>3. Tail(s)[i - 1] = s[i - 1 + 1]
      BY <1>1, <2>1
    <2> QED BY <2>2, <2>3
  <1>5. \A i \in 1..Len(fs) : (fs \o Tail(s))[i] = fs[i]
    BY <1>1, <1>2, <1>3
  <1> QED BY <1>1, <1>2, <1>3, <1>4, <1>5

\* The labels of a stack counted from below: the operation's own frame, the call
\* it waits for, and the call of that.
Own(s) == IF s = <<>> THEN "none" ELSE s[Len(s)].at
Above(s) == IF Len(s) > 1 THEN s[Len(s) - 1].at ELSE "none"
Upper(s) == IF Len(s) > 2 THEN s[Len(s) - 2].at ELSE "none"

LEMMA SpliceLabels ==
    ASSUME NEW s \in Seq(Frames), Len(s) > 1, NEW fs \in Seq(Frames)
    PROVE  LET r == fs \o Tail(s)
               top == IF Len(fs) > 0 THEN fs[Len(fs)].at ELSE "none"
               next == IF Len(fs) > 1 THEN fs[Len(fs) - 1].at ELSE "none"
           IN  /\ Own(r) = Own(s) /\ r # <<>>
               /\ \/ /\ Above(s) = Head(s).at /\ Upper(s) = "none"
                     /\ Above(r) = top /\ Upper(r) = next
                  \/ /\ Above(s) # "none" /\ Above(r) = Above(s)
                     /\ Upper(s) = Head(s).at /\ Upper(r) = top
                  \/ /\ Above(s) # "none" /\ Above(r) = Above(s)
                     /\ Upper(s) # "none" /\ Upper(r) = Upper(s)
  <1> DEFINE r == fs \o Tail(s)
             top == IF Len(fs) > 0 THEN fs[Len(fs)].at ELSE "none"
             next == IF Len(fs) > 1 THEN fs[Len(fs) - 1].at ELSE "none"
             n == Len(s)
             m == Len(fs)
  <1>1. s # <<>> /\ n \in Nat /\ m \in Nat /\ n > 1 /\ Head(s) = s[1]
    BY EmptySeq, LenProperties
  <1>2. /\ r \in Seq(Frames) /\ Len(r) = m + n - 1
        /\ \A i \in 1..m : r[i] = fs[i]
        /\ \A i \in 2..n : r[m + i - 1] = s[i]
    BY <1>1, Splice
  <1>3. \A i \in 1..n : s[i].at \in Labels
    <2> SUFFICES ASSUME NEW i \in 1..n PROVE s[i].at \in Labels
      OBVIOUS
    <2>1. s[i] \in Frames
      BY ElementOfSeq
    <2> QED BY <2>1 DEF Frames
  <1>4. "none" \notin Labels
    BY DEF Labels
  <1> HIDE DEF r, n, m
  <1>5. r # <<>>
    BY <1>1, <1>2, EmptySeq
  <1>6. Own(r) = Own(s)
    <2>1. r[m + n - 1] = s[n]
      BY <1>1, <1>2
    <2> QED BY <1>1, <1>2, <1>5, <2>1 DEF Own, n
  <1>7. CASE n = 2
    <2>1. Above(s) = Head(s).at /\ Upper(s) = "none"
      BY <1>1, <1>7 DEF Above, Upper, n
    <2>2. Len(r) = m + 1
      BY <1>1, <1>2, <1>7
    <2>3. Above(r) = top
      <3>1. m > 0 => m \in 1..m /\ Len(r) - 1 = m /\ Len(r) > 1
        BY <1>1, <2>2
      <3>2. m > 0 => r[m] = fs[m]
        BY <1>2, <3>1
      <3> QED BY <1>1, <2>2, <3>1, <3>2 DEF Above, m
    <2>4. Upper(r) = next
      BY <1>1, <1>2, <2>2 DEF Upper, m
    <2> QED BY <1>5, <1>6, <2>1, <2>3, <2>4 DEF r
  <1>8. CASE n = 3
    <2>1. Upper(s) = Head(s).at /\ Above(s) = s[2].at /\ s[2].at # "none"
      BY <1>1, <1>3, <1>4, <1>8 DEF Above, Upper, n
    <2>2. Len(r) = m + 2 /\ r[m + 1] = s[2]
      BY <1>1, <1>2, <1>8
    <2>3. Above(r) = s[2].at
      BY <1>1, <2>2 DEF Above
    <2>4. Upper(r) = top
      BY <1>1, <1>2, <2>2 DEF Upper, m
    <2> QED BY <1>5, <1>6, <2>1, <2>3, <2>4 DEF r
  <1>9. CASE n > 3
    <2>1. /\ Upper(s) = s[n - 2].at /\ Above(s) = s[n - 1].at
          /\ s[n - 2].at # "none" /\ s[n - 1].at # "none"
      BY <1>1, <1>3, <1>4, <1>9 DEF Above, Upper, n
    <2>2. /\ Len(r) > 2 /\ Len(r) = m + n - 1
          /\ r[m + n - 2] = s[n - 1] /\ r[m + n - 3] = s[n - 2]
      <3>1. n - 1 \in 2..n /\ n - 2 \in 2..n
        BY <1>1, <1>9
      <3>2. r[m + (n - 1) - 1] = s[n - 1] /\ r[m + (n - 2) - 1] = s[n - 2]
        BY <1>2, <3>1
      <3>3. m + (n - 1) - 1 = m + n - 2 /\ m + (n - 2) - 1 = m + n - 3
        BY <1>1
      <3> QED BY <1>1, <1>2, <1>9, <3>2, <3>3
    <2>3. Len(r) - 1 = m + n - 2 /\ Len(r) - 2 = m + n - 3
      BY <1>1, <2>2
    <2>4. Above(r) = s[n - 1].at /\ Upper(r) = s[n - 2].at
      BY <2>2, <2>3 DEF Above, Upper
    <2> QED BY <1>5, <1>6, <2>1, <2>4 DEF r
  <1> QED BY <1>1, <1>7, <1>8, <1>9

\* What a splice makes of the guards of a stack.
HasGuarded(s) == \E i \in DOMAIN s : s[i].at = "guarded"
HasTwoGuarded(s) ==
    \E i, j \in DOMAIN s : i # j /\ s[i].at = "guarded" /\ s[j].at = "guarded"

LEMMA SpliceGuards ==
    ASSUME NEW s \in Seq(Frames), s # <<>>, NEW fs \in Seq(Frames)
    PROVE  LET r == fs \o Tail(s)
           IN  /\ (\A i \in 1..Len(fs) : fs[i].at # "guarded") =>
                     /\ HasGuarded(r) => HasGuarded(s)
                     /\ HasTwoGuarded(r) => HasTwoGuarded(s)
               /\ Len(fs) = 2 /\ fs[1].at # "guarded" /\ HasTwoGuarded(r) => HasGuarded(s)
               /\ Head(s).at = "guarded" /\ fs = <<>> /\ HasGuarded(r) => HasTwoGuarded(s)
  <1> DEFINE r == fs \o Tail(s)
             n == Len(s)
             m == Len(fs)
  <1>1. n \in Nat \ {0} /\ m \in Nat /\ Head(s) = s[1] /\ DOMAIN s = 1..n
    BY EmptySeq, LenProperties
  <1>2. /\ r \in Seq(Frames) /\ Len(r) = m + n - 1
        /\ \A i \in 1..m : r[i] = fs[i]
        /\ \A i \in 2..n : r[m + i - 1] = s[i]
    BY Splice
  <1>3. DOMAIN r = 1..(m + n - 1)
    BY <1>2, LenProperties
  <1> HIDE DEF r, n, m
  <1>4. \A i \in DOMAIN r : i > m => i - m + 1 \in 2..n /\ r[i] = s[i - m + 1]
    <2> SUFFICES ASSUME NEW i \in DOMAIN r, i > m
                 PROVE  i - m + 1 \in 2..n /\ r[i] = s[i - m + 1]
      OBVIOUS
    <2>1. i - m + 1 \in 2..n /\ m + (i - m + 1) - 1 = i
      BY <1>1, <1>3
    <2> QED BY <1>2, <2>1
  <1>5. \A i \in DOMAIN r : i <= m => r[i] = fs[i] /\ i \in 1..m
    BY <1>1, <1>2, <1>3
  <1>6. \A i, j \in DOMAIN r : i # j => i - m + 1 # j - m + 1
    BY <1>1, <1>3
  <1>7. DOMAIN r \subseteq Int /\ 2..n \subseteq DOMAIN s
    BY <1>1, <1>3
  <1>8. ASSUME \A i \in 1..m : fs[i].at # "guarded", NEW i \in DOMAIN r, r[i].at = "guarded"
        PROVE  i > m /\ i - m + 1 \in DOMAIN s /\ s[i - m + 1].at = "guarded"
    BY <1>1, <1>4, <1>5, <1>7, <1>8
  <1>9. (\A i \in 1..m : fs[i].at # "guarded") =>
           /\ HasGuarded(r) => HasGuarded(s)
           /\ HasTwoGuarded(r) => HasTwoGuarded(s)
    BY <1>6, <1>8 DEF HasGuarded, HasTwoGuarded
  <1>10. ASSUME m = 2, fs[1].at # "guarded", HasTwoGuarded(r) PROVE HasGuarded(s)
    <2>1. PICK i, j \in DOMAIN r : i # j /\ r[i].at = "guarded" /\ r[j].at = "guarded"
      BY <1>10 DEF HasTwoGuarded
    <2>2. i > m \/ j > m
      BY <1>1, <1>3, <1>5, <1>10, <2>1
    <2> QED BY <1>4, <1>7, <2>1, <2>2 DEF HasGuarded
  <1>11. ASSUME Head(s).at = "guarded", fs = <<>>, HasGuarded(r) PROVE HasTwoGuarded(s)
    <2>1. PICK i \in DOMAIN r : r[i].at = "guarded"
      BY <1>11 DEF HasGuarded
    <2>2. m = 0
      BY <1>11 DEF m
    <2>3. i - m + 1 \in 2..n /\ s[i - m + 1].at = "guarded"
      BY <1>3, <1>4, <2>1, <2>2
    <2>4. 1 \in DOMAIN s /\ 1 # i - m + 1
      BY <1>1, <2>3
    <2> QED BY <1>1, <1>7, <1>11, <2>3, <2>4 DEF HasTwoGuarded
  <1> QED BY <1>9, <1>10, <1>11 DEF r, m

-----------------------------------------------------------------------------
(* The inductive invariant.                                                *)

app == stack["app"]

CtlTypes == [parked : BOOLEAN, athome : BOOLEAN, tracking : BOOLEAN,
             slew : {"none", "home", "park", "goto"}, jog : BOOLEAN, past : BOOLEAN]

\* Only the frame at the bottom of the application's stack is an operation's; the
\* poller has calls only; a guard that is about to begin is on top.
ShapeOK ==
    /\ op = "none" <=> app = <<>>
    /\ \A i \in 1..Len(app) : app[i].at \in Helpers <=> i < Len(app)
    /\ \A i \in 1..Len(stack["ui"]) : stack["ui"][i].at \in Helpers
    /\ \A t \in Threads : \A i \in 2..Len(stack[t]) : stack[t][i].at # "guard"

\* A thread in its guard whose flag nobody reset finds it set, and is not about to
\* begin another guard.
GuardOK ==
    \A t \in Threads :
        /\ Nested(t) => t \in hist.reset
        /\ InGuard(t) /\ t \notin hist.reset => sup /\ ~At(t, "guard")

\* An axis moves only under an operation that has its stop before it.
JogOK == ctl.jog /\ ~hist.refused => Own(app) \in {"moving", "release", "unhand"}

\* The operations with a promise stay at their own labels.
RouteLabels == {"unparked", "started", "return", "quieted", "homing", "await",
                "park", "parking", "settle"}
HomeLabels == {"unpark", "unparked", "started", "return", "quieted", "homing", "await"}
ParkLabels == {"return", "quieted", "homing", "await", "park", "parking", "settle"}
PlaceOK ==
    /\ op = "home" => Own(app) \in HomeLabels
    /\ op = "park" => Own(app) \in ParkLabels
    /\ op = "untrack" => Own(app) = "untracked" /\ Above(app) \in {"none", "quit", "disable", "judge"}
    /\ op # "none" => ended.op = "none"

\* On a route, once the status that was asked for has come, what it says of HOME
\* and PARK is so, or a reply got lost.
SeenOK ==
    ~hist.lost /\ Own(app) \in RouteLabels =>
        /\ Above(app) # "wait"
        /\ Above(app) # "state" =>
              (dec.athome => ctl.athome) /\ (dec.parked => ctl.parked)
        /\ Own(app) = "parking" => ctl.athome
        /\ Own(app) = "park" /\ Above(app) = "none" /\ res["app"] = "parked" => ctl.parked

\* disable_tracking has stopped the slews with its first ":Q#"; the status it
\* judges is no older than its poll.
UntrackOK ==
    op = "untrack" =>
        /\ ctl.slew = "none" \/ Above(app) = "quit"
        /\ ~hist.lost /\ Above(app) = "judge" /\ Upper(app) # "state" =>
              (ctl.tracking => dec.tracking)
        /\ ~hist.lost /\ Above(app) = "none" /\ res["app"] = "ok" => ~ctl.tracking

IInv == TypeOK /\ ShapeOK /\ GuardOK /\ JogOK /\ PlaceOK /\ SeenOK /\ UntrackOK

\* What the action properties ask of a step.
PromiseStep ==
    /\ Ends("home", "ok") => ctl.athome \/ hist.lost
    /\ Ends("park", "ok") => ctl.parked \/ hist.lost
    /\ Ends("untrack", "ok") => ~ctl.tracking \/ hist.lost
    /\ Parking => ctl.athome \/ hist.lost

-----------------------------------------------------------------------------
(* Steps of a call in either thread.                                       *)

LEMMA StackFacts ==
    ASSUME TypeOK
    PROVE  /\ stack \in [Threads -> Seq(Frames)]
           /\ app \in Seq(Frames) /\ stack["ui"] \in Seq(Frames)
           /\ ctl \in CtlTypes
           /\ "app" \in Threads /\ "ui" \in Threads
           /\ \A t \in Threads : t = "app" \/ t = "ui"
  BY DEF TypeOK, Frames, CtlTypes, Threads, app

\* The head of a stack.
LEMMA HeadFacts ==
    ASSUME TypeOK, NEW t \in Threads, stack[t] # <<>>
    PROVE  /\ Head(stack[t]) \in Frames /\ Head(stack[t]) = stack[t][1]
           /\ Len(stack[t]) \in Nat \ {0}
           /\ Attempts(t) \in 0..2
  <1>1. stack[t] \in Seq(Frames)
    BY StackFacts
  <1>2. Head(stack[t]) \in Frames /\ Len(stack[t]) \in Nat \ {0}
    BY <1>1, HeadTailProperties, EmptySeq
  <1> QED BY <1>1, <1>2 DEF Attempts, Frames

\* What a thread in a call hands over to.
InCall(t, fs) ==
    /\ stack[t] # <<>> /\ Head(stack[t]).at \in Helpers
    /\ fs \in Seq(HelperFrames)
    /\ Goes(t, fs)
    /\ UNCHANGED <<op, ended>>

LEMMA CallStack ==
    ASSUME TypeOK, NEW t \in Threads, NEW fs, InCall(t, fs)
    PROVE  /\ fs \in Seq(Frames)
           /\ stack' \in [Threads -> Seq(Frames)]
           /\ stack'[t] = fs \o Tail(stack[t])
           /\ \A u \in Threads \ {t} : stack'[u] = stack[u]
           /\ t = "app" => stack'["ui"] = stack["ui"]
           /\ t = "ui" => app' = app
  <1>1. stack \in [Threads -> Seq(Frames)]
    BY StackFacts
  <1>2. fs \in Seq(Frames)
    BY FrameFacts, SeqMonotonic DEF InCall
  <1>3. fs \o Tail(stack[t]) \in Seq(Frames)
    BY <1>1, <1>2, Splice DEF InCall
  <1>4. stack' = [stack EXCEPT ![t] = fs \o Tail(stack[t])]
    BY DEF InCall, Goes
  <1> QED BY <1>1, <1>2, <1>3, <1>4 DEF app, Threads

LEMMA CallShape ==
    ASSUME TypeOK, ShapeOK, NEW t \in Threads, NEW fs, InCall(t, fs),
           fs = <<F("guard")>> \/ \A i \in 1..Len(fs) : fs[i].at # "guard"
    PROVE  ShapeOK'
  <1> DEFINE s == stack[t]
             r == fs \o Tail(s)
  <1>1. s \in Seq(Frames) /\ s # <<>> /\ fs \in Seq(Frames) /\ stack'[t] = r
    BY StackFacts, CallStack DEF InCall
  <1>2. /\ r \in Seq(Frames) /\ Len(r) = Len(fs) + Len(s) - 1
        /\ Len(s) \in Nat \ {0} /\ Len(fs) \in Nat
        /\ \A i \in 1..Len(fs) : r[i] = fs[i]
        /\ \A i \in 2..Len(s) : r[Len(fs) + i - 1] = s[i]
    BY <1>1, Splice
  <1>3. \A i \in 1..Len(fs) : fs[i].at \in Helpers
    <2> SUFFICES ASSUME NEW i \in 1..Len(fs) PROVE fs[i].at \in Helpers
      OBVIOUS
    <2>1. fs[i] \in HelperFrames
      BY ElementOfSeq DEF InCall
    <2> QED BY <2>1 DEF HelperFrames
  <1>4. s[1].at \in Helpers
    BY <1>1, HeadFacts DEF InCall
  <1> HIDE DEF r
  <1>5. \A i \in 1..Len(r) : \/ i \in 1..Len(fs) /\ r[i] = fs[i]
                             \/ \E j \in 2..Len(s) : i = Len(fs) + j - 1 /\ r[i] = s[j]
    <2> SUFFICES ASSUME NEW i \in 1..Len(r), i \notin 1..Len(fs)
                 PROVE  \E j \in 2..Len(s) : i = Len(fs) + j - 1 /\ r[i] = s[j]
      BY <1>2
    <2>1. i - Len(fs) + 1 \in 2..Len(s) /\ i = Len(fs) + (i - Len(fs) + 1) - 1
      BY <1>2
    <2> QED BY <1>2, <2>1
  <1>6. \A i \in 2..Len(r) : r[i].at # "guard"
    <2> SUFFICES ASSUME NEW i \in 2..Len(r) PROVE r[i].at # "guard"
      OBVIOUS
    <2>1. \A j \in 2..Len(s) : s[j].at # "guard"
      BY DEF ShapeOK
    <2>2. CASE i \in 1..Len(fs) /\ r[i] = fs[i]
      <3>1. fs # <<F("guard")>>
        BY <1>2, <2>2
      <3> QED BY <2>2, <3>1
    <2>3. CASE \E j \in 2..Len(s) : i = Len(fs) + j - 1 /\ r[i] = s[j]
      BY <2>1, <2>3
    <2>4. i \in 1..Len(r)
      BY <1>2
    <2> QED BY <1>5, <2>2, <2>3, <2>4
  <1>7. CASE t = "app"
    <2>1. s = app /\ r = app' /\ op' = op /\ stack'["ui"] = stack["ui"]
      BY <1>1, <1>7, CallStack DEF app, InCall
    <2>2. 1 < Len(s)
      BY <1>2, <1>4, <2>1 DEF ShapeOK
    <2>3. r # <<>>
      BY <1>2, <2>2, EmptySeq
    <2>4. \A i \in 1..Len(r) : r[i].at \in Helpers <=> i < Len(r)
      <3> SUFFICES ASSUME NEW i \in 1..Len(r) PROVE r[i].at \in Helpers <=> i < Len(r)
        OBVIOUS
      <3>1. CASE i \in 1..Len(fs) /\ r[i] = fs[i]
        BY <1>2, <1>3, <2>2, <3>1
      <3>2. ASSUME NEW j \in 2..Len(s), i = Len(fs) + j - 1, r[i] = s[j]
            PROVE  r[i].at \in Helpers <=> i < Len(r)
        <4>1. s[j].at \in Helpers <=> j < Len(s)
          BY <1>2, <2>1 DEF ShapeOK
        <4>2. j < Len(s) <=> i < Len(r)
          BY <1>2, <3>2
        <4> QED BY <3>2, <4>1, <4>2
      <3> QED BY <1>5, <3>1, <3>2
    <2>5. op' # "none"
      BY <1>1, <2>1 DEF ShapeOK
    <2>6. \A u \in Threads : \A i \in 2..Len(stack'[u]) : stack'[u][i].at # "guard"
      BY <1>1, <1>6, <1>7, <2>1, StackFacts DEF ShapeOK
    <2> QED BY <2>1, <2>3, <2>4, <2>5, <2>6 DEF ShapeOK
  <1>8. CASE t = "ui"
    <2>1. s = stack["ui"] /\ r = stack'["ui"] /\ op' = op /\ app' = app
      BY <1>1, <1>8, CallStack DEF InCall
    <2>2. \A i \in 1..Len(r) : r[i].at \in Helpers
      <3>1. \A j \in 1..Len(s) : s[j].at \in Helpers
        BY <2>1 DEF ShapeOK
      <3> SUFFICES ASSUME NEW i \in 1..Len(r) PROVE r[i].at \in Helpers
        OBVIOUS
      <3>2. CASE i \in 1..Len(fs) /\ r[i] = fs[i]
        BY <1>3, <3>2
      <3>3. ASSUME NEW j \in 2..Len(s), r[i] = s[j] PROVE r[i].at \in Helpers
        BY <1>2, <3>1, <3>3
      <3> QED BY <1>5, <3>2, <3>3
    <2>3. \A u \in Threads : \A i \in 2..Len(stack'[u]) : stack'[u][i].at # "guard"
      BY <1>1, <1>6, <1>8, <2>1, StackFacts DEF ShapeOK, app
    <2> QED BY <2>1, <2>2, <2>3 DEF ShapeOK
  <1> QED BY <1>7, <1>8, StackFacts

\* Where the application's operation is after a step of one of its calls.
LEMMA CallLabels ==
    ASSUME TypeOK, ShapeOK, NEW t \in Threads, NEW fs, InCall(t, fs)
    PROVE  LET top == IF Len(fs) > 0 THEN fs[Len(fs)].at ELSE "none"
               next == IF Len(fs) > 1 THEN fs[Len(fs) - 1].at ELSE "none"
           IN  \/ t = "ui" /\ app' = app
               \/ /\ t = "app" /\ Own(app') = Own(app) /\ Above(app) # "none"
                  /\ \/ /\ Above(app) = Head(app).at /\ Upper(app) = "none"
                        /\ Above(app') = top /\ Upper(app') = next
                     \/ /\ Above(app') = Above(app)
                        /\ Upper(app) = Head(app).at /\ Upper(app') = top
                     \/ /\ Above(app') = Above(app)
                        /\ Upper(app) # "none" /\ Upper(app') = Upper(app)
  <1> DEFINE top == IF Len(fs) > 0 THEN fs[Len(fs)].at ELSE "none"
             next == IF Len(fs) > 1 THEN fs[Len(fs) - 1].at ELSE "none"
  <1>1. CASE t = "ui"
    BY <1>1, CallStack
  <1>2. CASE t = "app"
    <2>1. app \in Seq(Frames) /\ app # <<>> /\ fs \in Seq(Frames) /\ app' = fs \o Tail(app)
      BY <1>2, StackFacts, CallStack DEF InCall, app
    <2>2. Head(app).at \in Helpers /\ Head(app) = app[1] /\ Len(app) \in Nat \ {0}
      BY <1>2, HeadFacts DEF InCall, app
    <2>3. Len(app) > 1
      BY <2>2 DEF ShapeOK
    <2>4. Head(app).at # "none"
      BY <2>2 DEF Helpers
    <2>5. /\ Own(app') = Own(app)
          /\ \/ /\ Above(app) = Head(app).at /\ Upper(app) = "none"
                /\ Above(app') = top /\ Upper(app') = next
             \/ /\ Above(app) # "none" /\ Above(app') = Above(app)
                /\ Upper(app) = Head(app).at /\ Upper(app') = top
             \/ /\ Above(app) # "none" /\ Above(app') = Above(app)
                /\ Upper(app) # "none" /\ Upper(app') = Upper(app)
      <3> DEFINE r == fs \o Tail(app)
      <3>1. /\ Own(r) = Own(app)
            /\ \/ /\ Above(app) = Head(app).at /\ Upper(app) = "none"
                  /\ Above(r) = top /\ Upper(r) = next
               \/ /\ Above(app) # "none" /\ Above(r) = Above(app)
                  /\ Upper(app) = Head(app).at /\ Upper(r) = top
               \/ /\ Above(app) # "none" /\ Above(r) = Above(app)
                  /\ Upper(app) # "none" /\ Upper(r) = Upper(app)
        BY <2>1, <2>3, SpliceLabels
      <3>2. app' = r
        BY <2>1
      <3> HIDE DEF r, top, next
      <3> QED BY <3>1, <3>2
    <2> QED BY <1>2, <2>4, <2>5
  <1> QED BY <1>1, <1>2, StackFacts

\* The guards of a thread whose step begins and ends none.
LEMMA CallGuards ==
    ASSUME TypeOK, ShapeOK, GuardOK, NEW t \in Threads, NEW fs, InCall(t, fs),
           \A i \in 1..Len(fs) : fs[i].at \notin {"guard", "guarded"},
           sup' = sup, hist'.reset = hist.reset
    PROVE  GuardOK'
  <1> DEFINE s == stack[t]
             r == fs \o Tail(s)
  <1>1. /\ s \in Seq(Frames) /\ s # <<>> /\ fs \in Seq(Frames) /\ stack'[t] = r
        /\ \A u \in Threads \ {t} : stack'[u] = stack[u]
    BY StackFacts, CallStack DEF InCall
  <1>2. /\ HasGuarded(r) => HasGuarded(s)
        /\ HasTwoGuarded(r) => HasTwoGuarded(s)
    BY <1>1, SpliceGuards
  <1>3. r # <<>> => Head(r).at # "guard"
    <2> SUFFICES ASSUME r # <<>> PROVE Head(r).at # "guard"
      OBVIOUS
    <2>1. /\ r \in Seq(Frames) /\ Len(r) = Len(fs) + Len(s) - 1
          /\ Len(s) \in Nat \ {0} /\ Len(fs) \in Nat
          /\ \A i \in 1..Len(fs) : r[i] = fs[i]
          /\ \A i \in 2..Len(s) : r[Len(fs) + i - 1] = s[i]
      BY <1>1, Splice
    <2> HIDE DEF r
    <2>2. Head(r) = r[1] /\ Len(r) \in Nat \ {0}
      BY <2>1, EmptySeq
    <2>3. CASE Len(fs) > 0
      BY <2>1, <2>2, <2>3
    <2>4. CASE Len(fs) = 0
      <3>1. 2 \in 2..Len(s) /\ r[Len(fs) + 2 - 1] = r[1]
        BY <2>1, <2>2, <2>4
      <3> QED BY <2>1, <2>2, <3>1 DEF ShapeOK
    <2> QED BY <2>1, <2>3, <2>4
  <1>4. ASSUME NEW u \in Threads
        PROVE  /\ Nested(u)' => Nested(u)
               /\ InGuard(u)' => InGuard(u)
               /\ At(u, "guard")' => u # t /\ At(u, "guard")
    <2>1. CASE u = t
      <3>0. stack'[u] = r /\ stack[u] = s
        BY <1>1, <2>1
      <3> HIDE DEF r, s
      <3>1. (Nested(u)' <=> HasTwoGuarded(r)) /\ (Nested(u) <=> HasTwoGuarded(s))
        BY <3>0 DEF Nested, HasTwoGuarded
      <3>2. (InGuard(u)' <=> HasGuarded(r)) /\ (InGuard(u) <=> HasGuarded(s))
        BY <3>0 DEF InGuard, HasGuarded
      <3>3. ~At(u, "guard")'
        BY <1>1, <1>3, <2>1 DEF At
      <3> QED BY <1>2, <3>1, <3>2, <3>3
    <2>2. CASE u # t
      BY <1>1, <2>2 DEF Nested, InGuard, At
    <2> QED BY <2>1, <2>2
  <1> QED BY <1>4 DEF GuardOK

\* What a step of a call may change beside the stack.
CallEffect(t, fs) ==
    LET hd == Head(stack[t]).at
        top == IF Len(fs) > 0 THEN fs[Len(fs)].at ELSE "none"
        next == IF Len(fs) > 1 THEN fs[Len(fs) - 1].at ELSE "none"
    IN  /\ ctl'.athome = ctl.athome /\ ctl'.parked = ctl.parked
        /\ ctl'.tracking => ctl.tracking
        /\ ctl'.slew \in {ctl.slew, "none"}
        /\ ctl'.jog => ctl.jog
        /\ hist.refused => hist'.refused \/ ~ctl'.jog
        /\ hist.lost => hist'.lost
        /\ dec' = dec \/ dec' = Status(ctl')
        /\ t = "ui" => res'["app"] = res["app"]
        /\ hd = "state" /\ t = "app" => dec' = Status(ctl') \/ hist'.lost
        /\ hd = "quit" => ctl'.slew = "none"
        /\ hd \in {"quit", "disable", "judge"} =>
              top \in {"none", "quit", "disable", "judge"}
        /\ top = "wait" /\ t = "app" => hist'.lost
        /\ top = "judge" => next = "state"
        /\ top = "none" /\ t = "app" /\ res'["app"] = "parked" /\ ~hist'.lost =>
              hd = "wait" \/ dec'.parked
        /\ top = "none" /\ t = "app" /\ hd \in {"quit", "disable", "judge"} /\ res'["app"] = "ok" =>
              hd = "judge" /\ dec' = dec /\ ~dec.tracking

LEMMA CallStep ==
    ASSUME IInv, TypeOK', NEW t \in Threads, NEW fs, InCall(t, fs), CallEffect(t, fs)
    PROVE  JogOK' /\ PlaceOK' /\ SeenOK' /\ UntrackOK' /\ PromiseStep
  <1> DEFINE hd == Head(stack[t]).at
             top == IF Len(fs) > 0 THEN fs[Len(fs)].at ELSE "none"
             next == IF Len(fs) > 1 THEN fs[Len(fs) - 1].at ELSE "none"
  <1>1. /\ ctl'.athome = ctl.athome /\ ctl'.parked = ctl.parked
        /\ ctl'.tracking => ctl.tracking
        /\ ctl'.slew \in {ctl.slew, "none"}
        /\ ctl'.jog => ctl.jog
        /\ hist.refused => hist'.refused \/ ~ctl'.jog
        /\ hist.lost => hist'.lost
        /\ dec' = dec \/ dec' = Status(ctl')
        /\ t = "ui" => res'["app"] = res["app"]
    BY DEF CallEffect
  <1>2. /\ hd = "state" /\ t = "app" => dec' = Status(ctl') \/ hist'.lost
        /\ hd = "quit" => ctl'.slew = "none"
        /\ hd \in {"quit", "disable", "judge"} =>
              top \in {"none", "quit", "disable", "judge"}
        /\ top = "wait" /\ t = "app" => hist'.lost
        /\ top = "judge" => next = "state"
        /\ top = "none" /\ t = "app" /\ res'["app"] = "parked" /\ ~hist'.lost =>
              hd = "wait" \/ dec'.parked
        /\ top = "none" /\ t = "app" /\ hd \in {"quit", "disable", "judge"} /\ res'["app"] = "ok" =>
              hd = "judge" /\ dec' = dec /\ ~dec.tracking
    BY DEF CallEffect
  <1>3. \/ t = "ui" /\ app' = app
        \/ /\ t = "app" /\ Own(app') = Own(app) /\ Above(app) # "none"
           /\ \/ /\ Above(app) = hd /\ Upper(app) = "none"
                 /\ Above(app') = top /\ Upper(app') = next
              \/ Above(app') = Above(app) /\ Upper(app) = hd /\ Upper(app') = top
              \/ Above(app') = Above(app) /\ Upper(app) # "none" /\ Upper(app') = Upper(app)
    BY CallLabels DEF IInv, app
  <1>4. op' = op /\ ended' = ended
    BY DEF InCall
  <1>5. /\ Status(ctl').athome = ctl'.athome /\ Status(ctl').parked = ctl'.parked
        /\ Status(ctl').tracking = ctl'.tracking
    BY DEF Status
  <1> HIDE DEF hd, top, next
  <1>6. JogOK'
    BY <1>1, <1>3 DEF IInv, JogOK
  <1>7. PlaceOK'
    BY <1>2, <1>3, <1>4 DEF IInv, PlaceOK
  <1>8. SeenOK'
    <2> SUFFICES ASSUME ~hist'.lost, Own(app') \in RouteLabels
                 PROVE  /\ Above(app') # "wait"
                        /\ Above(app') # "state" =>
                              (dec'.athome => ctl'.athome) /\ (dec'.parked => ctl'.parked)
                        /\ Own(app') = "parking" => ctl'.athome
                        /\ Own(app') = "park" /\ Above(app') = "none" /\ res'["app"] = "parked" =>
                              ctl'.parked
      BY DEF SeenOK
    <2>1. ~hist.lost /\ Own(app) \in RouteLabels /\ Own(app') = Own(app)
      BY <1>1, <1>3
    <2>2. /\ Above(app) # "wait"
          /\ Above(app) # "state" =>
                (dec.athome => ctl.athome) /\ (dec.parked => ctl.parked)
          /\ Own(app) = "parking" => ctl.athome
          /\ Own(app) = "park" /\ Above(app) = "none" /\ res["app"] = "parked" => ctl.parked
      BY <2>1 DEF IInv, SeenOK
    <2>3. Above(app') # "wait"
      BY <1>2, <1>3, <2>2
    <2>4. Above(app') # "state" =>
            (dec'.athome => ctl'.athome) /\ (dec'.parked => ctl'.parked)
      BY <1>1, <1>2, <1>3, <1>5, <2>2
    <2>5. Own(app') = "parking" => ctl'.athome
      BY <1>1, <2>1, <2>2
    <2>6. Own(app') = "park" /\ Above(app') = "none" /\ res'["app"] = "parked" => ctl'.parked
      BY <1>1, <1>2, <1>3, <1>5, <2>1, <2>2, <2>4
    <2> QED BY <2>3, <2>4, <2>5, <2>6
  <1>9. UntrackOK'
    <2> SUFFICES ASSUME op = "untrack"
                 PROVE  /\ ctl'.slew = "none" \/ Above(app') = "quit"
                        /\ ~hist'.lost /\ Above(app') = "judge" /\ Upper(app') # "state" =>
                              (ctl'.tracking => dec'.tracking)
                        /\ ~hist'.lost /\ Above(app') = "none" /\ res'["app"] = "ok" =>
                              ~ctl'.tracking
      BY <1>4 DEF UntrackOK
    <2>1. /\ Above(app) \in {"none", "quit", "disable", "judge"}
          /\ ctl.slew = "none" \/ Above(app) = "quit"
          /\ ~hist.lost /\ Above(app) = "judge" /\ Upper(app) # "state" =>
                (ctl.tracking => dec.tracking)
          /\ ~hist.lost /\ Above(app) = "none" /\ res["app"] = "ok" => ~ctl.tracking
      BY DEF IInv, PlaceOK, UntrackOK
    <2>2. ctl'.slew = "none" \/ Above(app') = "quit"
      BY <1>1, <1>2, <1>3, <2>1
    <2>3. ~hist'.lost /\ Above(app') = "judge" /\ Upper(app') # "state" =>
            (ctl'.tracking => dec'.tracking)
      BY <1>1, <1>2, <1>3, <1>5, <2>1
    <2>4. ~hist'.lost /\ Above(app') = "none" /\ res'["app"] = "ok" => ~ctl'.tracking
      BY <1>1, <1>2, <1>3, <2>1
    <2> QED BY <2>2, <2>3, <2>4
  <1>10. PromiseStep
    BY <1>1, <1>4 DEF IInv, PlaceOK, PromiseStep, Ends, Parking
  <1> QED BY <1>6, <1>7, <1>8, <1>9, <1>10

\* The types of what a step of a call leaves to the lemmas below.
Budgets == [ops : 0..MaxOps, faults : 0..MaxFaults, stops : 0..MaxStops]
HistTypes == [lost : BOOLEAN, refused : BOOLEAN, reset : SUBSET Threads]

Pieces ==
    /\ ctl \in CtlTypes /\ dec \in Flags
    /\ req \in BOOLEAN /\ athm \in BOOLEAN /\ sup \in BOOLEAN
    /\ held \in Threads \cup {Nobody}
    /\ res \in [Threads -> Results]
    /\ budget \in Budgets /\ hist \in HistTypes

LEMMA TypePieces ==
    ASSUME TypeOK
    PROVE  /\ Pieces
           /\ stack \in [Threads -> Seq(Frames)]
           /\ op \in Ops \cup {"none"}
           /\ ended \in [op : Ops \cup {"none"}, r : {"none", "ok", "no", "raised"}]
           /\ Status(ctl) \in Flags
           /\ \A st \in Flags : StatesOf(st) \subseteq Results
           /\ Fault => budget' \in Budgets
           /\ \A b \in BOOLEAN : /\ [hist EXCEPT !.lost = b] \in HistTypes
                                 /\ [hist EXCEPT !.refused = b] \in HistTypes
           /\ \A u \in Threads, r \in Results : [res EXCEPT ![u] = r] \in [Threads -> Results]
  <1>1. Pieces
    BY DEF TypeOK, Pieces, CtlTypes, Budgets, HistTypes
  <1>2. /\ stack \in [Threads -> Seq(Frames)]
        /\ op \in Ops \cup {"none"}
        /\ ended \in [op : Ops \cup {"none"}, r : {"none", "ok", "no", "raised"}]
    BY DEF TypeOK, Frames
  <1>3. Status(ctl) \in Flags
    BY <1>1 DEF Pieces, CtlTypes, Status, Flags
  <1>4. \A st \in Flags : StatesOf(st) \subseteq Results
    BY DEF StatesOf, Results
  <1>5. Fault => budget' \in Budgets
    <2> SUFFICES ASSUME Fault PROVE budget' \in Budgets
      OBVIOUS
    <2>1. budget.faults + 1 \in 0..MaxFaults
      BY <1>1 DEF Fault, Pieces, Budgets
    <2> QED BY <1>1, <2>1 DEF Fault, Pieces, Budgets
  <1>6. \A b \in BOOLEAN : /\ [hist EXCEPT !.lost = b] \in HistTypes
                           /\ [hist EXCEPT !.refused = b] \in HistTypes
    BY <1>1 DEF Pieces, HistTypes
  <1>7. \A u \in Threads, r \in Results : [res EXCEPT ![u] = r] \in [Threads -> Results]
    BY <1>1 DEF Pieces
  <1> QED BY <1>1, <1>2, <1>3, <1>4, <1>5, <1>6, <1>7

LEMMA TypeOfPieces ==
    ASSUME Pieces', stack' \in [Threads -> Seq(Frames)], op' \in Ops \cup {"none"},
           ended' \in [op : Ops \cup {"none"}, r : {"none", "ok", "no", "raised"}]
    PROVE  TypeOK'
  BY DEF TypeOK, Pieces, Frames, CtlTypes, Budgets, HistTypes

\* A step of a call, in all.
LEMMA CallInv ==
    ASSUME IInv, Pieces', NEW t \in Threads, NEW fs, InCall(t, fs), CallEffect(t, fs), GuardOK',
           fs = <<F("guard")>> \/ \A i \in 1..Len(fs) : fs[i].at # "guard"
    PROVE  IInv' /\ PromiseStep
  <1>1. stack' \in [Threads -> Seq(Frames)] /\ op' = op /\ ended' = ended
    BY CallStack DEF IInv, InCall
  <1>2. TypeOK'
    BY <1>1, TypePieces, TypeOfPieces DEF IInv
  <1>3. ShapeOK'
    BY CallShape DEF IInv
  <1> QED BY <1>2, <1>3, CallStep DEF IInv

\* One that begins or ends no guard.
LEMMA PlainCallInv ==
    ASSUME IInv, Pieces', NEW t \in Threads, NEW fs, InCall(t, fs), CallEffect(t, fs),
           \A i \in 1..Len(fs) : fs[i].at \notin {"guard", "guarded"},
           sup' = sup, hist'.reset = hist.reset
    PROVE  IInv' /\ PromiseStep
  <1>1. GuardOK'
    BY CallGuards DEF IInv
  <1> QED BY <1>1, CallInv

\* The frames the calls write down.
LEMMA HelperLiterals ==
    /\ \A l \in Helpers : F(l) \in HelperFrames /\ F(l).at = l
    /\ \A l \in Helpers, n \in 0..2 :
          [at |-> l, n |-> n] \in HelperFrames /\ [at |-> l, n |-> n].at = l
  BY FrameFacts DEF HelperFrames, Frames, F, Helpers, Labels

LEMMA SaysFacts ==
    ASSUME TypeOK, NEW t \in Threads, NEW r \in Results, Says(t, r)
    PROVE  /\ res' \in [Threads -> Results] /\ res'[t] = r
           /\ t = "ui" => res'["app"] = res["app"]
  BY TypePieces DEF Pieces, Says, Threads

LEMMA TellsFacts ==
    ASSUME TypeOK, ShapeOK, NEW t \in Threads, stack[t] # <<>>, NEW r \in Results, Tells(t, r)
    PROVE  /\ res' \in [Threads -> Results] /\ res'[t] \in {"none", r}
           /\ t = "ui" => res'["app"] = res["app"]
  <1>1. (IF Tail(stack[t]) = <<>> THEN "none" ELSE r) \in Results \cap {"none", r}
    BY DEF Results
  <1> QED BY <1>1, SaysFacts DEF Tells

-----------------------------------------------------------------------------
(* get_state and disable_tracking_verified, step by step.                  *)

LEMMA GetStateStep ==
    ASSUME IInv, NEW t \in Threads, GetState(t)
    PROVE  IInv' /\ PromiseStep
  <1>1. /\ TypeOK /\ ShapeOK /\ Pieces /\ stack[t] # <<>> /\ Head(stack[t]).at = "state"
        /\ "state" \in Helpers /\ "wait" \in Helpers /\ "guard" \in Helpers
    BY TypePieces DEF IInv, GetState, At, Helpers
  <1>2. UNCHANGED <<athm, ctl, req, sup, op, ended>>
    BY DEF GetState
  <1> DEFINE st == Status(ctl)
  <1>3. st \in Flags /\ StatesOf(st) \subseteq Results /\ "tracking" \in Results /\ "unknown" \in Results
    BY <1>1, TypePieces DEF Results
  <1>4. CASE dec' = st /\ Goes(t, <<F("guard")>>) /\ ~sup /\ UNCHANGED <<res, held, budget, hist>>
    <2> DEFINE fs == <<F("guard")>>
    <2>1. fs \in Seq(HelperFrames) /\ Len(fs) = 1 /\ fs[1].at = "guard"
      BY <1>1, HelperLiterals, Literals
    <2>2. InCall(t, fs)
      BY <1>1, <1>2, <1>4, <2>1 DEF InCall
    <2>3. Pieces'
      BY <1>1, <1>2, <1>3, <1>4 DEF Pieces
    <2>4. CallEffect(t, fs)
      <3>1. dec' = Status(ctl')
        BY <1>2, <1>4 DEF Status
      <3> HIDE DEF fs
      <3> QED BY <1>1, <1>2, <1>4, <2>1, <3>1 DEF CallEffect
    <2>5. GuardOK'
      <3>1. /\ stack'[t] = fs \o Tail(stack[t])
            /\ \A u \in Threads \ {t} : stack'[u] = stack[u]
            /\ stack[t] \in Seq(Frames) /\ fs \in Seq(Frames)
        BY <1>1, <2>2, CallStack, StackFacts
      <3> HIDE DEF fs
      <3>2. /\ HasGuarded(stack'[t]) => HasGuarded(stack[t])
            /\ HasTwoGuarded(stack'[t]) => HasTwoGuarded(stack[t])
        BY <1>1, <2>1, <3>1, SpliceGuards
      <3>3. ASSUME NEW u \in Threads
            PROVE  /\ Nested(u)' => u \in hist'.reset
                   /\ InGuard(u)' /\ u \notin hist'.reset => sup' /\ ~At(u, "guard")'
        <4>1. CASE u = t
          BY <1>4, <3>2, <4>1 DEF IInv, GuardOK, Nested, InGuard, HasGuarded, HasTwoGuarded
        <4>2. CASE u # t
          BY <1>2, <1>4, <3>1, <4>2 DEF IInv, GuardOK, Nested, InGuard, At
        <4> QED BY <4>1, <4>2
      <3> QED BY <3>3 DEF GuardOK
    <2> QED BY <2>2, <2>3, <2>4, <2>5, CallInv
  <1> DEFINE answers == IF st.tracking THEN {"tracking"} ELSE StatesOf(st)
  <1>5. CASE /\ dec' = st
             /\ \E r \in answers : Return(t, r)
             /\ UNCHANGED <<held, budget, hist>>
    <2>0. PICK r \in answers : Return(t, r)
      BY <1>5
    <2>1. r \in Results /\ (r = "parked" => st.parked)
      BY <1>3, <2>0 DEF StatesOf
    <2>2. /\ res' \in [Threads -> Results] /\ res'[t] \in {"none", r}
          /\ t = "ui" => res'["app"] = res["app"]
      BY <1>1, <2>0, <2>1, TellsFacts DEF Return
    <2>3. InCall(t, <<>>)
      BY <1>1, <1>2, <1>5, <2>0, Literals DEF InCall, Return
    <2>4. Pieces'
      BY <1>1, <1>2, <1>3, <1>5, <2>2 DEF Pieces
    <2>5. CallEffect(t, <<>>)
      <3>1. dec' = Status(ctl')
        BY <1>2, <1>5 DEF Status
      <3> QED BY <1>1, <1>2, <1>5, <2>1, <2>2, <3>1 DEF CallEffect
    <2> QED BY <1>2, <1>5, <2>3, <2>4, <2>5, Literals, PlainCallInv
  <1>6. CASE /\ Lose(t, <<>>)
             /\ Tells(t, "unknown")
             /\ hist' = [hist EXCEPT !.lost = @ \/ t = "app"]
             /\ UNCHANGED dec
    <2> DEFINE fs == <<F("wait")>>
    <2>1. fs \in Seq(HelperFrames) /\ Len(fs) = 1 /\ fs[1].at = "wait"
      BY <1>1, HelperLiterals, Literals
    <2>2. InCall(t, fs) /\ Fault /\ held' = t
      <3>1. <<F("wait")>> \o <<>> = <<F("wait")>>
        BY <1>1, HelperLiterals, Joined
      <3> QED BY <1>1, <1>2, <1>6, <2>1, <3>1 DEF InCall, Lose
    <2>3. /\ res' \in [Threads -> Results] /\ res'[t] \in {"none", "unknown"}
          /\ t = "ui" => res'["app"] = res["app"]
      BY <1>1, <1>3, <1>6, TellsFacts
    <2>4. /\ hist' \in HistTypes /\ hist'.refused = hist.refused /\ hist'.reset = hist.reset
          /\ hist'.lost = (hist.lost \/ t = "app")
      BY <1>1, <1>6 DEF Pieces, HistTypes
    <2>5. Pieces'
      BY <1>1, <1>2, <1>6, <2>2, <2>3, <2>4, TypePieces DEF Pieces
    <2> HIDE DEF fs
    <2>6. CallEffect(t, fs)
      BY <1>1, <1>2, <1>6, <2>1, <2>3, <2>4 DEF CallEffect
    <2> QED BY <1>2, <2>1, <2>2, <2>4, <2>5, <2>6, PlainCallInv
  <1> QED BY <1>4, <1>5, <1>6 DEF GetState

LEMMA GuardStep ==
    ASSUME IInv, NEW t \in Threads, Guard(t)
    PROVE  IInv' /\ PromiseStep
  <1>1. /\ TypeOK /\ ShapeOK /\ Pieces /\ stack[t] # <<>> /\ Head(stack[t]).at = "guard"
        /\ "quit" \in Helpers /\ "guarded" \in Helpers /\ "guard" \in Helpers
    BY TypePieces DEF IInv, Guard, At, Helpers
  <1>2. sup' = TRUE /\ UNCHANGED <<athm, ctl, dec, req, held, res, op, ended, budget, hist>>
    BY DEF Guard
  <1> DEFINE q == [at |-> "quit", n |-> 2]
             g == F("guarded")
             fs == <<q, g>>
  <1>3. q \in HelperFrames /\ q.at = "quit" /\ g \in HelperFrames /\ g.at = "guarded"
    <2>1. 2 \in 0..2
      OBVIOUS
    <2> QED BY <1>1, <2>1, HelperLiterals
  <1> HIDE DEF q, g
  <1>4. /\ fs \in Seq(HelperFrames) /\ Len(fs) = 2 /\ fs[1].at = "quit" /\ fs[2].at = "guarded"
    BY <1>3, Literals
  <1>5. Disabling \o <<g>> = fs
    BY <1>3, Joined DEF Disabling, q
  <1>6. InCall(t, fs)
    BY <1>1, <1>2, <1>4, <1>5 DEF InCall, Guard, g
  <1>7. Pieces'
    BY <1>1, <1>2 DEF Pieces
  <1> HIDE DEF fs
  <1>8. CallEffect(t, fs)
    BY <1>1, <1>2, <1>4 DEF CallEffect
  <1>9. GuardOK'
    <2>1. /\ stack'[t] = fs \o Tail(stack[t])
          /\ \A u \in Threads \ {t} : stack'[u] = stack[u]
          /\ stack[t] \in Seq(Frames) /\ fs \in Seq(Frames)
      BY <1>1, <1>6, CallStack, StackFacts
    <2>2. HasTwoGuarded(stack'[t]) => HasGuarded(stack[t])
      BY <1>1, <1>4, <2>1, SpliceGuards
    <2>3. ~At(t, "guard")'
      <3>1. stack'[t][1] = fs[1] /\ stack'[t] \in Seq(Frames)
        <4>1. 1 \in 1..Len(fs)
          BY <1>4
        <4> QED BY <1>1, <2>1, <4>1, Splice
      <3> QED BY <1>4, <3>1 DEF At
    <2>4. ASSUME NEW u \in Threads
          PROVE  /\ Nested(u)' => u \in hist'.reset
                 /\ InGuard(u)' /\ u \notin hist'.reset => sup' /\ ~At(u, "guard")'
      <3>1. CASE u = t
        <4>1. Nested(u)' => InGuard(u)
          BY <2>2, <3>1 DEF Nested, InGuard, HasGuarded, HasTwoGuarded
        <4>2. At(u, "guard")
          BY <1>1, <3>1 DEF At
        <4> QED BY <1>2, <2>3, <3>1, <4>1, <4>2 DEF IInv, GuardOK
      <3>2. CASE u # t
        BY <1>2, <2>1, <3>2 DEF IInv, GuardOK, Nested, InGuard, At
      <3> QED BY <3>1, <3>2
    <2> QED BY <2>4 DEF GuardOK
  <1> QED BY <1>4, <1>6, <1>7, <1>8, <1>9, CallInv

LEMMA GuardedStep ==
    ASSUME IInv, NEW t \in Threads, Guarded(t)
    PROVE  IInv' /\ PromiseStep
  <1>1. /\ TypeOK /\ ShapeOK /\ Pieces /\ stack[t] # <<>> /\ Head(stack[t]).at = "guarded"
        /\ "guarded" \in Helpers
    BY TypePieces DEF IInv, Guarded, At, Helpers
  <1>2. sup' = FALSE /\ UNCHANGED <<athm, ctl, dec, req, held, op, ended, budget>>
    BY DEF Guarded
  <1> PICK r \in (IF res[t] = "ok" THEN StatesOf(dec) ELSE {"tracking"}) : Return(t, r)
    BY DEF Guarded
  <1>3. r \in Results /\ (r = "parked" => dec.parked)
    BY <1>1, TypePieces DEF Pieces, Results, StatesOf
  <1>4. /\ res' \in [Threads -> Results] /\ res'[t] \in {"none", r}
        /\ t = "ui" => res'["app"] = res["app"]
    BY <1>1, <1>3, TellsFacts DEF Return
  <1>5. InCall(t, <<>>)
    BY <1>1, <1>2, Literals DEF InCall, Return
  <1>6. /\ hist' \in HistTypes /\ hist'.refused = hist.refused /\ hist'.lost = hist.lost
        /\ hist'.reset = (IF Nested(t) THEN hist.reset ELSE hist.reset \ {t})
                         \cup {u \in Threads \ {t} : InGuard(u)}
    BY <1>1 DEF Guarded, Reset, Pieces, HistTypes
  <1>7. Pieces'
    BY <1>1, <1>2, <1>4, <1>6 DEF Pieces
  <1>8. CallEffect(t, <<>>)
    BY <1>1, <1>2, <1>3, <1>4, <1>6 DEF CallEffect
  <1>9. GuardOK'
    <2>1. /\ stack'[t] = <<>> \o Tail(stack[t])
          /\ \A u \in Threads \ {t} : stack'[u] = stack[u]
          /\ stack[t] \in Seq(Frames) /\ <<>> \in Seq(Frames)
      BY <1>1, <1>5, CallStack, StackFacts
    <2>2. /\ HasGuarded(stack'[t]) => HasTwoGuarded(stack[t])
          /\ HasTwoGuarded(stack'[t]) => HasTwoGuarded(stack[t])
      <3> DEFINE fs == <<>>
      <3>1. fs \in Seq(Frames) /\ fs = <<>> /\ \A i \in 1..Len(fs) : fs[i].at # "guarded"
        BY Literals
      <3>2. stack'[t] = fs \o Tail(stack[t])
        BY <2>1
      <3> HIDE DEF fs
      <3>3. HasTwoGuarded(stack'[t]) => HasTwoGuarded(stack[t])
        BY <1>1, <2>1, <3>1, <3>2, SpliceGuards
      <3>4. fs = <<>> /\ Head(stack[t]).at = "guarded" /\ HasGuarded(fs \o Tail(stack[t])) =>
               HasTwoGuarded(stack[t])
        BY <1>1, <2>1, <3>1, SpliceGuards
      <3> QED BY <1>1, <3>1, <3>2, <3>3, <3>4
    <2>3. ASSUME NEW u \in Threads
          PROVE  /\ Nested(u)' => u \in hist'.reset
                 /\ InGuard(u)' => u \in hist'.reset
      <3>1. CASE u = t
        <4>1. (Nested(u)' => Nested(u)) /\ (InGuard(u)' => Nested(u))
          BY <2>2, <3>1 DEF Nested, InGuard, HasGuarded, HasTwoGuarded
        <4>2. Nested(u) => u \in hist.reset
          BY DEF IInv, GuardOK
        <4> QED BY <1>6, <3>1, <4>1, <4>2
      <3>2. CASE u # t
        <4>1. (Nested(u)' => InGuard(u)) /\ (InGuard(u)' => InGuard(u))
          BY <2>1, <3>2 DEF Nested, InGuard
        <4> QED BY <1>6, <3>2, <4>1
      <3> QED BY <3>1, <3>2
    <2> QED BY <2>3 DEF GuardOK
  <1> QED BY <1>5, <1>7, <1>8, <1>9, Literals, CallInv

LEMMA QuitStep ==
    ASSUME IInv, NEW t \in Threads, Quit(t)
    PROVE  IInv' /\ PromiseStep
  <1>1. /\ TypeOK /\ Pieces /\ stack[t] # <<>> /\ Head(stack[t]).at = "quit"
        /\ "quit" \in Helpers /\ "disable" \in Helpers /\ Attempts(t) \in 0..2
    BY TypePieces, HeadFacts DEF IInv, Quit, At, Helpers
  <1>2. /\ ctl' = Halted(ctl) /\ hist' = [hist EXCEPT !.refused = FALSE]
        /\ UNCHANGED <<athm, dec, req, sup, held, res, op, ended, budget>>
    BY DEF Quit
  <1> DEFINE f == [at |-> "disable", n |-> Attempts(t)]
             fs == <<f>>
  <1>3. f \in HelperFrames /\ f.at = "disable"
    BY <1>1, HelperLiterals
  <1> HIDE DEF f
  <1>4. fs \in Seq(HelperFrames) /\ Len(fs) = 1 /\ fs[1].at = "disable"
    BY <1>3, Literals
  <1>5. InCall(t, fs)
    BY <1>1, <1>2, <1>4 DEF InCall, Quit, f
  <1>6. /\ ctl' \in CtlTypes /\ ctl'.slew = "none" /\ ~ctl'.jog /\ ctl'.athome = ctl.athome
        /\ ctl'.parked = ctl.parked /\ ctl'.tracking = ctl.tracking
    BY <1>1, <1>2 DEF Pieces, CtlTypes, Halted
  <1>7. hist' \in HistTypes /\ hist'.lost = hist.lost /\ hist'.reset = hist.reset
    BY <1>1, <1>2 DEF Pieces, HistTypes
  <1>8. Pieces'
    BY <1>1, <1>2, <1>6, <1>7 DEF Pieces
  <1> HIDE DEF fs
  <1>9. CallEffect(t, fs)
    BY <1>1, <1>2, <1>4, <1>6, <1>7 DEF CallEffect
  <1> QED BY <1>2, <1>4, <1>5, <1>7, <1>8, <1>9, PlainCallInv

LEMMA DisableStep ==
    ASSUME IInv, NEW t \in Threads, Disable(t)
    PROVE  IInv' /\ PromiseStep
  <1>1. /\ TypeOK /\ Pieces /\ stack[t] # <<>> /\ Head(stack[t]).at = "disable"
        /\ {"disable", "state", "judge", "wait"} \subseteq Helpers /\ Attempts(t) \in 0..2
    BY TypePieces, HeadFacts DEF IInv, Disable, At, Helpers
  <1> DEFINE w == F("wait")
             p == F("state")
             j == [at |-> "judge", n |-> Attempts(t)]
             off == [ctl EXCEPT !.tracking = FALSE]
  <1>2. /\ w \in HelperFrames /\ w.at = "wait" /\ p \in HelperFrames /\ p.at = "state"
        /\ j \in HelperFrames /\ j.at = "judge"
    BY <1>1, HelperLiterals
  <1>3. UNCHANGED <<athm, dec, req, sup, res, op, ended, hist>>
    BY DEF Disable
  <1>4. \/ Goes(t, <<p, j>>) /\ held' = held
        \/ Goes(t, <<w>> \o <<p, j>>) /\ held' = t
    BY DEF Disable, Lose
  <1>5. ctl' \in {ctl, off} /\ budget' \in Budgets
    BY <1>1, TypePieces DEF Disable, Lose, Pieces
  <1> HIDE DEF w, p, j
  <1>6. <<p, j>> \in Seq(HelperFrames) /\ <<w, p, j>> \in Seq(HelperFrames)
        /\ <<w>> \o <<p, j>> = <<w, p, j>>
    BY <1>2, Literals, Joined
  <1> DEFINE Written(fs) ==
               /\ fs \in Seq(HelperFrames) /\ Len(fs) > 1
               /\ fs[Len(fs)].at = "judge" /\ fs[Len(fs) - 1].at = "state"
               /\ \A i \in 1..Len(fs) : fs[i].at \in {"wait", "state", "judge"}
  <1>7. PICK fs \in Seq(HelperFrames) : Goes(t, fs) /\ Written(fs)
    <2>1. Written(<<p, j>>)
      BY <1>2, <1>6
    <2>2. Written(<<w, p, j>>)
      BY <1>2, <1>6
    <2> HIDE DEF Written
    <2> QED BY <1>4, <1>6, <2>1, <2>2
  <1>8. InCall(t, fs)
    BY <1>1, <1>3, <1>7 DEF InCall
  <1>9. /\ ctl' \in CtlTypes /\ ctl'.slew = ctl.slew /\ ctl'.jog = ctl.jog
        /\ ctl'.athome = ctl.athome /\ ctl'.parked = ctl.parked
        /\ ctl'.tracking => ctl.tracking
    BY <1>1, <1>5 DEF Pieces, CtlTypes
  <1>10. Pieces'
    BY <1>1, <1>3, <1>4, <1>5, <1>9 DEF Pieces
  <1>11. CallEffect(t, fs)
    <2>1. /\ (IF Len(fs) > 0 THEN fs[Len(fs)].at ELSE "none") = "judge"
          /\ (IF Len(fs) > 1 THEN fs[Len(fs) - 1].at ELSE "none") = "state"
      <3>1. Len(fs) \in Nat /\ Len(fs) > 1
        BY <1>7, LenProperties
      <3> QED BY <1>7, <3>1
    <2>2. hist' = hist /\ dec' = dec /\ res' = res
      BY <1>3
    <2> QED BY <1>1, <1>9, <2>1, <2>2 DEF CallEffect
  <1> QED BY <1>3, <1>7, <1>8, <1>10, <1>11, PlainCallInv

LEMMA TrackingGoneStep ==
    ASSUME IInv, NEW t \in Threads, TrackingGone(t)
    PROVE  IInv' /\ PromiseStep
  <1>1. /\ TypeOK /\ ShapeOK /\ Pieces /\ stack[t] # <<>> /\ Head(stack[t]).at = "judge"
        /\ "judge" \in Helpers /\ "ok" \in Results
    BY TypePieces DEF IInv, TrackingGone, At, Helpers, Results
  <1>2. ~dec.tracking /\ req' = FALSE
        /\ UNCHANGED <<athm, ctl, dec, sup, held, op, ended, budget, hist>>
    BY DEF TrackingGone
  <1>3. /\ res' \in [Threads -> Results] /\ res'[t] \in {"none", "ok"}
        /\ t = "ui" => res'["app"] = res["app"]
    BY <1>1, TellsFacts DEF TrackingGone, Return
  <1>4. InCall(t, <<>>)
    BY <1>1, <1>2, Literals DEF InCall, TrackingGone, Return
  <1>5. Pieces'
    BY <1>1, <1>2, <1>3 DEF Pieces
  <1>6. CallEffect(t, <<>>)
    BY <1>1, <1>2, <1>3 DEF CallEffect
  <1> QED BY <1>2, <1>4, <1>5, <1>6, Literals, PlainCallInv

LEMMA GivesUpStep ==
    ASSUME IInv, NEW t \in Threads, GivesUp(t)
    PROVE  IInv' /\ PromiseStep
  <1>1. /\ TypeOK /\ Pieces /\ stack[t] # <<>> /\ Head(stack[t]).at = "wait"
        /\ "wait" \in Helpers
    BY TypePieces DEF IInv, GivesUp, At, Helpers
  <1>2. held' = Nobody
        /\ UNCHANGED <<athm, ctl, dec, req, sup, res, op, ended, budget, hist>>
    BY DEF GivesUp
  <1>3. InCall(t, <<>>)
    BY <1>1, <1>2, Literals DEF InCall, GivesUp
  <1>4. Pieces'
    BY <1>1, <1>2 DEF Pieces
  <1>5. CallEffect(t, <<>>)
    BY <1>1, <1>2 DEF CallEffect
  <1> QED BY <1>2, <1>3, <1>4, <1>5, Literals, PlainCallInv

LEMMA PollAgainStep ==
    ASSUME IInv, NEW t \in Threads, PollAgain(t)
    PROVE  IInv' /\ PromiseStep
  <1>1. /\ TypeOK /\ Pieces /\ stack[t] # <<>> /\ Head(stack[t]).at = "judge"
        /\ "judge" \in Helpers /\ "state" \in Helpers /\ Head(stack[t]) \in Frames
    BY TypePieces, HeadFacts DEF IInv, PollAgain, At, Helpers
  <1>2. UNCHANGED <<athm, ctl, dec, req, sup, held, res, op, ended, budget, hist>>
    BY DEF PollAgain
  <1> DEFINE p == F("state")
             j == Head(stack[t])
             fs == <<p, j>>
  <1>3. p \in HelperFrames /\ p.at = "state" /\ j \in HelperFrames /\ j.at = "judge"
    BY <1>1, HelperLiterals DEF HelperFrames
  <1>4. Goes(t, <<p, j>>)
    BY DEF PollAgain
  <1> HIDE DEF p, j
  <1>5. fs \in Seq(HelperFrames) /\ Len(fs) = 2 /\ fs[1].at = "state" /\ fs[2].at = "judge"
    BY <1>3, Literals
  <1>6. InCall(t, fs)
    BY <1>1, <1>2, <1>4, <1>5 DEF InCall
  <1>7. Pieces'
    BY <1>1, <1>2 DEF Pieces
  <1> HIDE DEF fs
  <1>8. CallEffect(t, fs)
    BY <1>1, <1>2, <1>5 DEF CallEffect
  <1> QED BY <1>2, <1>5, <1>6, <1>7, <1>8, PlainCallInv

LEMMA AttemptOverStep ==
    ASSUME IInv, NEW t \in Threads, AttemptOver(t)
    PROVE  IInv' /\ PromiseStep
  <1>1. /\ TypeOK /\ ShapeOK /\ Pieces /\ stack[t] # <<>> /\ Head(stack[t]).at = "judge"
        /\ "judge" \in Helpers /\ "quit" \in Helpers /\ "failed" \in Results
        /\ Attempts(t) \in 0..2
    BY TypePieces, HeadFacts DEF IInv, AttemptOver, At, Helpers, Results
  <1>2. UNCHANGED <<athm, ctl, dec, req, sup, held, op, ended, budget, hist>>
    BY DEF AttemptOver
  <1>3. CASE Attempts(t) > 1 /\ Goes(t, <<[at |-> "quit", n |-> Attempts(t) - 1]>>) /\ UNCHANGED res
    <2> DEFINE f == [at |-> "quit", n |-> Attempts(t) - 1]
               fs == <<f>>
    <2>1. f \in HelperFrames /\ f.at = "quit"
      <3>1. Attempts(t) - 1 \in 0..2
        BY <1>1, <1>3
      <3> QED BY <1>1, <3>1, HelperLiterals
    <2>2. Goes(t, <<f>>)
      BY <1>3
    <2> HIDE DEF f
    <2>3. fs \in Seq(HelperFrames) /\ Len(fs) = 1 /\ fs[1].at = "quit"
      BY <2>1, Literals
    <2>4. InCall(t, fs)
      BY <1>1, <1>2, <2>2, <2>3 DEF InCall
    <2>5. Pieces'
      BY <1>1, <1>2, <1>3 DEF Pieces
    <2> HIDE DEF fs
    <2>6. CallEffect(t, fs)
      BY <1>1, <1>2, <1>3, <2>3 DEF CallEffect
    <2> QED BY <1>2, <2>3, <2>4, <2>5, <2>6, PlainCallInv
  <1>4. CASE Return(t, "failed")
    <2>1. /\ res' \in [Threads -> Results] /\ res'[t] \in {"none", "failed"}
          /\ t = "ui" => res'["app"] = res["app"]
      BY <1>1, <1>4, TellsFacts DEF Return
    <2>2. InCall(t, <<>>)
      BY <1>1, <1>2, <1>4, Literals DEF InCall, Return
    <2>3. Pieces'
      BY <1>1, <1>2, <2>1 DEF Pieces
    <2>4. CallEffect(t, <<>>)
      BY <1>1, <1>2, <2>1 DEF CallEffect
    <2> QED BY <1>2, <2>2, <2>3, <2>4, Literals, PlainCallInv
  <1> QED BY <1>3, <1>4 DEF AttemptOver

-----------------------------------------------------------------------------
(* Steps of the operations.                                                *)

MoveLabels == {"moving", "release", "unhand"}
OwnLabels == Labels \ Helpers

\* An operation that is at one of its own labels waits for nothing.
LEMMA OwnStack ==
    ASSUME TypeOK, ShapeOK, NEW l \in OwnLabels, At("app", l)
    PROVE  /\ Own(app) = l /\ Above(app) = "none" /\ op # "none"
           /\ Head(app) \in Frames /\ Head(app).at = l
           /\ \A s \in Seq(Frames) : Goes("app", s) => stack' = [stack EXCEPT !["app"] = s]
  <1>1. app \in Seq(Frames) /\ app # <<>> /\ Head(app).at = l /\ l \notin Helpers /\ l \in Labels
    BY StackFacts DEF At, app, OwnLabels
  <1>2. Head(app) \in Frames /\ Head(app) = app[1] /\ Len(app) \in Nat \ {0}
    BY <1>1, HeadTailProperties, EmptySeq
  <1>3. Len(app) = 1
    <2>1. \A i \in 1..Len(app) : app[i].at \in Helpers <=> i < Len(app)
      BY DEF ShapeOK
    <2>2. 1 \in 1..Len(app)
      BY <1>2
    <2>3. app[1].at \in Helpers <=> 1 < Len(app)
      BY <2>1, <2>2
    <2>4. app[1].at \notin Helpers
      BY <1>1, <1>2
    <2>5. Len(app) \in Nat \ {0} /\ ~(1 < Len(app))
      BY <1>2, <2>3, <2>4
    <2> QED BY <2>5
  <1>4. Tail(app) = <<>>
    <2>1. Tail(app) \in Seq(Frames) /\ Len(Tail(app)) = 0
      BY <1>1, <1>3, HeadTailProperties
    <2> QED BY <2>1, EmptySeq
  <1>5. op # "none"
    BY <1>1 DEF ShapeOK
  <1>6. ASSUME NEW s \in Seq(Frames), Goes("app", s)
        PROVE  stack' = [stack EXCEPT !["app"] = s]
    <2>1. stack' = [stack EXCEPT !["app"] = s \o Tail(app)]
      BY <1>6 DEF Goes, app
    <2>2. s \o <<>> = s
      BY ConcatEmptySeq
    <2> QED BY <1>4, <2>1, <2>2
  <1>7. Own(app) = l /\ Above(app) = "none"
    BY <1>1, <1>2, <1>3 DEF Own, Above
  <1> QED BY <1>1, <1>2, <1>5, <1>6, <1>7

\* What an operation writes down: its next label k, under a call at h.
Placed(s, h, k) ==
    /\ s \in Seq(Frames) /\ s # <<>>
    /\ Own(s) = k /\ Above(s) = h
    /\ \A i \in 1..Len(s) : s[i].at \in Helpers <=> i < Len(s)
    /\ \A i \in 1..Len(s) : s[i].at \notin {"guard", "guarded"}

LEMMA PlacedForms ==
    ASSUME NEW g \in Frames, g.at \notin Helpers
    PROVE  /\ Placed(<<g>>, "none", g.at)
           /\ \A f \in HelperFrames : f.at \notin {"guard", "guarded"} => Placed(<<f, g>>, f.at, g.at)
           /\ \A e, f \in HelperFrames :
                 e.at \notin {"guard", "guarded"} /\ f.at \notin {"guard", "guarded"} =>
                    Placed(<<e, f, g>>, f.at, g.at)
  <1>0. "guard" \in Helpers /\ "guarded" \in Helpers
    BY DEF Helpers
  <1>1. Placed(<<g>>, "none", g.at)
    <2> DEFINE s == <<g>>
    <2>1. s \in Seq(Frames) /\ s # <<>> /\ Len(s) = 1 /\ s[1] = g
      BY Literals
    <2> HIDE DEF s
    <2> QED BY <1>0, <2>1 DEF Placed, Own, Above, s
  <1>2. ASSUME NEW f \in HelperFrames, f.at \notin {"guard", "guarded"}
        PROVE  Placed(<<f, g>>, f.at, g.at)
    <2> DEFINE s == <<f, g>>
    <2>1. s \in Seq(Frames) /\ s # <<>> /\ Len(s) = 2 /\ s[1] = f /\ s[2] = g
      BY FrameFacts, Literals
    <2>2. f.at \in Helpers
      BY DEF HelperFrames
    <2> HIDE DEF s
    <2>3. Own(s) = g.at /\ Above(s) = f.at
      BY <2>1 DEF Own, Above
    <2>4. Placed(s, f.at, g.at)
      BY <1>0, <1>2, <2>1, <2>2, <2>3 DEF Placed
    <2> QED BY <2>4 DEF s
  <1>3. ASSUME NEW e \in HelperFrames, NEW f \in HelperFrames,
               e.at \notin {"guard", "guarded"}, f.at \notin {"guard", "guarded"}
        PROVE  Placed(<<e, f, g>>, f.at, g.at)
    <2> DEFINE s == <<e, f, g>>
    <2>1. s \in Seq(Frames) /\ s # <<>> /\ Len(s) = 3 /\ s[1] = e /\ s[2] = f /\ s[3] = g
      BY FrameFacts, Literals
    <2>2. f.at \in Helpers /\ e.at \in Helpers
      BY DEF HelperFrames
    <2> HIDE DEF s
    <2>3. Own(s) = g.at /\ Above(s) = f.at
      BY <2>1 DEF Own, Above
    <2>4. Placed(s, f.at, g.at)
      BY <1>0, <1>3, <2>1, <2>2, <2>3 DEF Placed
    <2> QED BY <2>4 DEF s
  <1> QED BY <1>1, <1>2, <1>3

\* The shape and the guards, when the application's stack is rewritten.
LEMMA RewriteShape ==
    ASSUME TypeOK, ShapeOK, GuardOK, NEW s, s = <<>> \/ \E h, k : Placed(s, h, k),
           stack' = [stack EXCEPT !["app"] = s],
           op' = "none" <=> s = <<>>, sup' = sup, hist'.reset = hist.reset
    PROVE  /\ stack' \in [Threads -> Seq(Frames)] /\ app' = s
           /\ ShapeOK' /\ GuardOK'
  <1>1. /\ s \in Seq(Frames)
        /\ \A i \in 1..Len(s) : s[i].at \in Helpers <=> i < Len(s)
        /\ \A i \in 1..Len(s) : s[i].at \notin {"guard", "guarded"}
    <2>1. CASE s = <<>>
      BY <2>1, Literals
    <2>2. CASE s # <<>>
      BY <2>2 DEF Placed
    <2> QED BY <2>1, <2>2
  <1>2. Len(s) \in Nat /\ DOMAIN s = 1..Len(s) /\ (s # <<>> => Len(s) \in Nat \ {0} /\ Head(s) = s[1])
    BY <1>1, LenProperties, EmptySeq
  <1>3. /\ stack' \in [Threads -> Seq(Frames)] /\ app' = s /\ stack'["app"] = s
        /\ stack'["ui"] = stack["ui"]
    BY <1>1, StackFacts DEF app, Threads
  <1>4. ShapeOK'
    <2>1. \A i \in 2..Len(s) : s[i].at # "guard"
      BY <1>1, <1>2
    <2>2. \A t \in Threads : \A i \in 2..Len(stack'[t]) : stack'[t][i].at # "guard"
      BY <1>3, <2>1, StackFacts DEF ShapeOK
    <2> QED BY <1>1, <1>3, <2>2 DEF ShapeOK
  <1>5. GuardOK'
    <2>1. ~Nested("app")' /\ ~InGuard("app")'
      BY <1>1, <1>2, <1>3 DEF Nested, InGuard
    <2>2. /\ Nested("ui")' <=> Nested("ui")
          /\ InGuard("ui")' <=> InGuard("ui")
          /\ At("ui", "guard")' <=> At("ui", "guard")
      BY <1>3 DEF Nested, InGuard, At
    <2> QED BY <2>1, <2>2, StackFacts DEF GuardOK
  <1> QED BY <1>3, <1>4, <1>5

\* The operation goes on.
LEMMA OwnMoves ==
    ASSUME IInv, Pieces', NEW l \in OwnLabels, At("app", l),
           NEW s, NEW h, NEW k, Placed(s, h, k), AppGoes(s),
           sup' = sup, hist'.reset = hist.reset, op # "untrack",
           op = "home" => k \in HomeLabels,
           op = "park" => k \in ParkLabels,
           ctl'.jog /\ ~hist'.refused => k \in MoveLabels,
           ~hist'.lost /\ k \in RouteLabels =>
              /\ h # "wait" /\ k # "park"
              /\ h # "state" => (dec'.athome => ctl'.athome) /\ (dec'.parked => ctl'.parked)
              /\ k = "parking" => ctl'.athome,
           Parking => ctl.athome \/ hist.lost
    PROVE  IInv' /\ PromiseStep
  <1>1. op # "none" /\ op' = op /\ ended' = ended /\ stack' = [stack EXCEPT !["app"] = s]
    BY OwnStack DEF IInv, AppGoes, Placed
  <1>2. /\ stack' \in [Threads -> Seq(Frames)] /\ app' = s
        /\ ShapeOK' /\ GuardOK' /\ s # <<>>
    BY <1>1, RewriteShape DEF IInv, Placed
  <1>3. TypeOK'
    BY <1>1, <1>2, TypePieces, TypeOfPieces DEF IInv
  <1>4. Own(app') = k /\ Above(app') = h
    BY <1>2 DEF Placed
  <1>5. JogOK'
    BY <1>4 DEF JogOK, MoveLabels
  <1>6. PlaceOK'
    BY <1>1, <1>4 DEF IInv, PlaceOK
  <1>7. SeenOK'
    BY <1>4 DEF SeenOK
  <1>8. UntrackOK'
    BY <1>1 DEF UntrackOK
  <1>9. PromiseStep
    BY <1>1 DEF IInv, PlaceOK, PromiseStep, Ends
  <1> QED BY <1>2, <1>3, <1>5, <1>6, <1>7, <1>8, <1>9 DEF IInv

\* The operation ends.
LEMMA OwnEnds ==
    ASSUME IInv, Pieces', NEW l \in OwnLabels, At("app", l),
           NEW r \in {"ok", "no", "raised"}, AppEnds(r),
           sup' = sup, hist'.reset = hist.reset,
           ctl'.jog => hist'.refused,
           r = "ok" => /\ op = "home" => ctl.athome \/ hist.lost
                       /\ op = "park" => ctl.parked \/ hist.lost
                       /\ op = "untrack" => ~ctl.tracking \/ hist.lost,
           Parking => ctl.athome \/ hist.lost
    PROVE  IInv' /\ PromiseStep
  <1>1. op # "none" /\ op' = "none" /\ ended' = [op |-> op, r |-> r]
        /\ stack' = [stack EXCEPT !["app"] = <<>>]
    BY OwnStack DEF IInv, AppEnds, End
  <1>2. /\ stack' \in [Threads -> Seq(Frames)] /\ app' = <<>>
        /\ ShapeOK' /\ GuardOK'
    BY <1>1, RewriteShape DEF IInv
  <1>3. TypeOK'
    BY <1>1, <1>2, TypePieces, TypeOfPieces DEF IInv
  <1>4. Own(app') = "none"
    BY <1>2 DEF Own
  <1>5. JogOK'
    BY DEF JogOK
  <1>6. PlaceOK'
    BY <1>1 DEF PlaceOK
  <1>7. SeenOK'
    BY <1>4 DEF SeenOK, RouteLabels
  <1>8. UntrackOK'
    BY <1>1 DEF UntrackOK
  <1>9. PromiseStep
    BY <1>1 DEF PromiseStep, Ends
  <1> QED BY <1>2, <1>3, <1>5, <1>6, <1>7, <1>8, <1>9 DEF IInv

\* What the operations write down.
LEMMA Written ==
    ASSUME NEW l \in OwnLabels, NEW n \in 0..2
    PROVE  LET g == [at |-> l, n |-> n]
           IN  /\ Placed(<<g>>, "none", l)
               /\ Placed(<<F("state"), g>>, "state", l)
               /\ Placed(<<>> \o <<F("state"), g>>, "state", l)
               /\ Placed(<<F("wait")>> \o <<g>>, "wait", l)
               /\ Placed(<<F("wait"), g>>, "wait", l)
               /\ Placed(<<F("wait")>> \o <<F("state"), g>>, "state", l)
               /\ Placed(Disabling \o <<g>>, "quit", l)
               /\ Placed(Disabling \o <<F("state"), g>>, "state", l)
  <1> DEFINE g == [at |-> l, n |-> n]
             q == [at |-> "quit", n |-> 2]
             w == F("wait")
             p == F("state")
  <1>1. g \in Frames /\ g.at = l /\ l \notin Helpers
    BY DEF Frames, OwnLabels
  <1>2. /\ w \in HelperFrames /\ w.at = "wait" /\ p \in HelperFrames /\ p.at = "state"
        /\ q \in HelperFrames /\ q.at = "quit"
    <2>1. 2 \in 0..2 /\ {"wait", "state", "quit"} \subseteq Helpers
      BY DEF Helpers
    <2> QED BY <2>1, HelperLiterals
  <1>3. Disabling = <<q>>
    BY DEF Disabling
  <1> HIDE DEF g, q, w, p
  <1>4. /\ Placed(<<g>>, "none", l) /\ Placed(<<p, g>>, "state", l)
        /\ Placed(<<w, g>>, "wait", l) /\ Placed(<<w, p, g>>, "state", l)
        /\ Placed(<<q, g>>, "quit", l) /\ Placed(<<q, p, g>>, "state", l)
    BY <1>1, <1>2, PlacedForms
  <1>5. /\ <<>> \o <<p, g>> = <<p, g>> /\ <<w>> \o <<g>> = <<w, g>>
        /\ <<w>> \o <<p, g>> = <<w, p, g>>
        /\ <<q>> \o <<g>> = <<q, g>> /\ <<q>> \o <<p, g>> = <<q, p, g>>
    BY <1>1, <1>2, FrameFacts, Joined
  <1>6. /\ Placed(<<>> \o <<p, g>>, "state", l) /\ Placed(<<w>> \o <<g>>, "wait", l)
        /\ Placed(<<w>> \o <<p, g>>, "state", l)
        /\ Placed(Disabling \o <<g>>, "quit", l) /\ Placed(Disabling \o <<p, g>>, "state", l)
    BY <1>3, <1>4, <1>5
  <1> QED BY <1>4, <1>6 DEF g, w, p

\* The same for frames that count nothing.
LEMMA WrittenF ==
    ASSUME NEW l \in OwnLabels
    PROVE  /\ Placed(<<F(l)>>, "none", l)
           /\ Placed(<<F("state"), F(l)>>, "state", l)
           /\ Placed(<<>> \o <<F("state"), F(l)>>, "state", l)
           /\ Placed(<<F("wait")>> \o <<F(l)>>, "wait", l)
           /\ Placed(<<F("wait"), F(l)>>, "wait", l)
           /\ Placed(<<F("wait")>> \o <<F("state"), F(l)>>, "state", l)
           /\ Placed(Disabling \o <<F(l)>>, "quit", l)
           /\ Placed(Disabling \o <<F("state"), F(l)>>, "state", l)
  <1>1. F(l) = [at |-> l, n |-> 0] /\ 0 \in 0..2
    BY DEF F
  <1> QED BY <1>1, Written

\* What is known at an operation's own label.
LEMMA AtOwn ==
    ASSUME IInv, NEW l \in OwnLabels, At("app", l)
    PROVE  /\ TypeOK /\ Pieces /\ Head(app) \in Frames /\ Head(app).at = l
           /\ app = stack["app"]
           /\ op = "home" => l \in HomeLabels
           /\ op = "park" => l \in ParkLabels
           /\ op = "untrack" => l = "untracked"
           /\ ctl.jog /\ ~hist.refused => l \in MoveLabels
           /\ ~hist.lost /\ l \in RouteLabels =>
                 /\ (dec.athome => ctl.athome) /\ (dec.parked => ctl.parked)
                 /\ l = "parking" => ctl.athome
                 /\ l = "park" /\ res["app"] = "parked" => ctl.parked
           /\ op = "untrack" /\ ~hist.lost /\ res["app"] = "ok" => ~ctl.tracking
  <1>1. Own(app) = l /\ Above(app) = "none" /\ Head(app) \in Frames /\ Head(app).at = l
    BY OwnStack DEF IInv
  <1>2. TypeOK /\ Pieces
    BY TypePieces DEF IInv
  <1>3. /\ op = "home" => l \in HomeLabels
        /\ op = "park" => l \in ParkLabels
        /\ op = "untrack" => l = "untracked"
    BY <1>1 DEF IInv, PlaceOK
  <1>4. ctl.jog /\ ~hist.refused => l \in MoveLabels
    BY <1>1 DEF IInv, JogOK, MoveLabels
  <1>5. ~hist.lost /\ l \in RouteLabels =>
           /\ (dec.athome => ctl.athome) /\ (dec.parked => ctl.parked)
           /\ l = "parking" => ctl.athome
           /\ l = "park" /\ res["app"] = "parked" => ctl.parked
    BY <1>1 DEF IInv, SeenOK
  <1>6. op = "untrack" /\ ~hist.lost /\ res["app"] = "ok" => ~ctl.tracking
    BY <1>1 DEF IInv, UntrackOK
  <1> QED BY <1>1, <1>2, <1>3, <1>4, <1>5, <1>6 DEF app

\* A decision to go on, on what is known.
LEMMA DecidesMoves ==
    ASSUME IInv, NEW l \in OwnLabels, At("app", l), Decides, l # "untracked",
           NEW s, NEW h, NEW k, Placed(s, h, k), AppGoes(s),
           l \in HomeLabels /\ op = "home" => k \in HomeLabels,
           l \in ParkLabels /\ op = "park" => k \in ParkLabels,
           l \in MoveLabels => k \in MoveLabels,
           k \in RouteLabels => /\ k # "park" /\ l \in RouteLabels
                                /\ h \in {"none", "quit", "state"}
                                /\ k = "parking" => dec.athome
    PROVE  IInv' /\ PromiseStep
  <1>1. Pieces' /\ sup' = sup /\ hist' = hist /\ ctl' = ctl /\ dec' = dec
    BY AtOwn DEF Decides, Pieces
  <1>2. /\ op # "untrack"
        /\ op = "home" => k \in HomeLabels
        /\ op = "park" => k \in ParkLabels
        /\ ctl'.jog /\ ~hist'.refused => k \in MoveLabels
    BY <1>1, AtOwn
  <1>3. ~hist'.lost /\ k \in RouteLabels =>
           /\ h # "wait" /\ k # "park"
           /\ h # "state" => (dec'.athome => ctl'.athome) /\ (dec'.parked => ctl'.parked)
           /\ k = "parking" => ctl'.athome
    BY <1>1, AtOwn
  <1>4. ~Parking
    BY <1>1 DEF Parking
  <1> QED BY <1>1, <1>2, <1>3, <1>4, OwnMoves

\* A decision to end.
LEMMA DecidesEnds ==
    ASSUME IInv, NEW l \in OwnLabels, At("app", l), Decides, l \notin MoveLabels,
           NEW r \in {"ok", "no", "raised"}, AppEnds(r),
           r = "ok" => /\ op = "home" => ctl.athome \/ hist.lost
                       /\ op = "park" => ctl.parked \/ hist.lost
                       /\ op = "untrack" => ~ctl.tracking \/ hist.lost
    PROVE  IInv' /\ PromiseStep
  <1>1. Pieces' /\ sup' = sup /\ hist' = hist /\ ctl' = ctl
    BY AtOwn DEF Decides, Pieces
  <1>2. ctl'.jog => hist'.refused
    BY <1>1, AtOwn
  <1>3. ~Parking
    BY <1>1 DEF Parking
  <1> QED BY <1>1, <1>2, <1>3, OwnEnds

-----------------------------------------------------------------------------
(* The routes, step by step.                                               *)

LEMMA UnparkedStep == ASSUME IInv, Unparked PROVE IInv' /\ PromiseStep
  <1>1. PICK l \in {"unparked", "started"} : At("app", l)
    BY DEF Unparked, AppAt
  <1>2. /\ l \in OwnLabels /\ l \in RouteLabels /\ l \in HomeLabels /\ l \notin ParkLabels
        /\ l \notin MoveLabels /\ l # "untracked"
        /\ {"started", "return"} \subseteq (OwnLabels \cap HomeLabels) \ {"park", "parking"}
    BY DEF OwnLabels, Labels, Helpers, HomeLabels, ParkLabels, MoveLabels, RouteLabels
  <1>3. Decides
    BY DEF Unparked
  <1>4. CASE AppGoes(Disabling \o <<F("state"), F("started")>>)
    <2>1. Placed(Disabling \o <<F("state"), F("started")>>, "state", "started")
      BY <1>2, WrittenF
    <2> QED BY <1>1, <1>2, <1>3, <1>4, <2>1, DecidesMoves
  <1>5. ASSUME NEW n \in {0, 1}, AppGoes(<<F("state"), [at |-> "return", n |-> n]>>)
        PROVE  IInv' /\ PromiseStep
    <2>1. Placed(<<F("state"), [at |-> "return", n |-> n]>>, "state", "return")
      <3>1. n \in 0..2
        OBVIOUS
      <3> QED BY <1>2, <3>1, Written
    <2> QED BY <1>1, <1>2, <1>3, <1>5, <2>1, DecidesMoves
  <1>6. \/ AppGoes(Disabling \o <<F("state"), F("started")>>)
        \/ \E n \in {0, 1} : AppGoes(<<F("state"), [at |-> "return", n |-> n]>>)
    BY DEF Unparked
  <1> QED BY <1>4, <1>5, <1>6

LEMMA ReturnHomeStep == ASSUME IInv, ReturnHome PROVE IInv' /\ PromiseStep
  <1>1. At("app", "return") /\ Decides
    BY DEF ReturnHome, AppAt
  <1>2. /\ "return" \in OwnLabels /\ "return" \in RouteLabels /\ "return" \notin MoveLabels
        /\ {"quieted", "homing"} \subseteq OwnLabels \cap HomeLabels \cap ParkLabels
    BY DEF OwnLabels, Labels, Helpers, HomeLabels, ParkLabels, MoveLabels, RouteLabels
  <1> DEFINE m == Attempts("app")
  <1>3. m \in 0..2
    BY <1>1, HeadFacts DEF IInv, At, Threads
  <1>4. CASE AppEnds("raised")
    BY <1>1, <1>2, <1>4, DecidesEnds
  <1>5. CASE AppGoes(Disabling \o <<[at |-> "quieted", n |-> m]>>)
    <2>1. Placed(Disabling \o <<[at |-> "quieted", n |-> m]>>, "quit", "quieted")
      BY <1>2, <1>3, Written
    <2> QED BY <1>1, <1>2, <1>5, <2>1, DecidesMoves
  <1>6. CASE AppGoes(<<[at |-> "homing", n |-> m]>>)
    <2>1. Placed(<<[at |-> "homing", n |-> m]>>, "none", "homing")
      BY <1>2, <1>3, Written
    <2> QED BY <1>1, <1>2, <1>6, <2>1, DecidesMoves
  <1> QED BY <1>4, <1>5, <1>6 DEF ReturnHome

LEMMA QuietedStep == ASSUME IInv, Quieted PROVE IInv' /\ PromiseStep
  <1>1. At("app", "quieted") /\ Decides
    BY DEF Quieted, AppAt
  <1>2. /\ "quieted" \in OwnLabels /\ "quieted" \in RouteLabels /\ "quieted" \notin MoveLabels
        /\ "homing" \in OwnLabels \cap HomeLabels \cap ParkLabels
    BY DEF OwnLabels, Labels, Helpers, HomeLabels, ParkLabels, MoveLabels, RouteLabels
  <1> DEFINE g == [Head(stack["app"]) EXCEPT !.at = "homing"]
  <1>3. CASE AppGoes(<<g>>)
    <2>1. \E n \in 0..2 : g = [at |-> "homing", n |-> n]
      BY <1>1, <1>2, AtOwn DEF Frames
    <2> HIDE DEF g
    <2>2. Placed(<<g>>, "none", "homing")
      BY <1>2, <2>1, Written
    <2> QED BY <1>1, <1>2, <1>3, <2>2, DecidesMoves
  <1>4. CASE AppEnds("raised")
    BY <1>1, <1>2, <1>4, DecidesEnds
  <1> QED BY <1>3, <1>4 DEF Quieted

LEMMA ParkViaHomeStep == ASSUME IInv, ParkViaHome PROVE IInv' /\ PromiseStep
  <1>1. At("app", "park") /\ Decides
    BY DEF ParkViaHome, AppAt
  <1>2. /\ "park" \in OwnLabels /\ "park" \in RouteLabels /\ "park" \notin MoveLabels
        /\ "park" \notin HomeLabels
        /\ {"parking", "return"} \subseteq (OwnLabels \cap ParkLabels) \ {"park"}
    BY DEF OwnLabels, Labels, Helpers, HomeLabels, ParkLabels, MoveLabels, RouteLabels
  <1>3. CASE res["app"] = "parked" /\ AppEnds("ok")
    <2>1. /\ op # "home" /\ op # "untrack"
          /\ ~hist.lost => ctl.parked
      BY <1>1, <1>2, <1>3, AtOwn
    <2> QED BY <1>1, <1>2, <1>3, <2>1, DecidesEnds
  <1>4. CASE dec.athome /\ AppGoes(<<F("parking")>>)
    <2>1. Placed(<<F("parking")>>, "none", "parking")
      BY <1>2, WrittenF
    <2> QED BY <1>1, <1>2, <1>4, <2>1, DecidesMoves
  <1>5. CASE \/ AppGoes(Disabling \o <<F("state"), F("return")>>)
             \/ AppGoes(<<>> \o <<F("state"), F("return")>>)
    <2>1. /\ Placed(Disabling \o <<F("state"), F("return")>>, "state", "return")
          /\ Placed(<<>> \o <<F("state"), F("return")>>, "state", "return")
      BY <1>2, WrittenF
    <2> QED BY <1>1, <1>2, <1>5, <2>1, DecidesMoves
  <1> QED BY <1>3, <1>4, <1>5 DEF ParkViaHome

LEMMA WaitStep ==
    ASSUME IInv, NEW l \in {"await", "settle"}, NEW there,
           WaitsOn(l, there) \/ WaitOver(l, there)
    PROVE  IInv' /\ PromiseStep
  <1>1. At("app", l) /\ Decides
    BY DEF WaitsOn, WaitOver, AppAt
  <1>2. /\ l \in OwnLabels /\ l \in RouteLabels /\ l \notin MoveLabels
        /\ l \notin {"park", "parking", "untracked"}
    BY DEF OwnLabels, Labels, Helpers, HomeLabels, ParkLabels, MoveLabels, RouteLabels
  <1> DEFINE g == Head(stack["app"])
  <1>3. CASE AppGoes(<<F("state"), g>>)
    <2>1. \E n \in 0..2 : g = [at |-> l, n |-> n]
      BY <1>1, <1>2, AtOwn DEF Frames
    <2> HIDE DEF g
    <2>2. Placed(<<F("state"), g>>, "state", l)
      BY <1>2, <2>1, Written
    <2> QED BY <1>1, <1>2, <1>3, <2>2, DecidesMoves
  <1>4. CASE AppEnds("no")
    BY <1>1, <1>2, <1>4, DecidesEnds
  <1> QED BY <1>3, <1>4 DEF WaitsOn, WaitOver

LEMMA ParkedStep == ASSUME IInv, Parked PROVE IInv' /\ PromiseStep
  <1>1. At("app", "settle") /\ Decides /\ dec.parked /\ AppEnds("ok")
    BY DEF Parked, AppAt
  <1>2. /\ "settle" \in OwnLabels /\ "settle" \in RouteLabels /\ "settle" \notin MoveLabels
        /\ "settle" \notin HomeLabels
    BY DEF OwnLabels, Labels, Helpers, HomeLabels, ParkLabels, MoveLabels, RouteLabels
  <1>3. /\ op # "home" /\ op # "untrack"
        /\ ~hist.lost => ctl.parked
    BY <1>1, <1>2, AtOwn
  <1> QED BY <1>1, <1>2, <1>3, DecidesEnds

LEMMA UnparkStep == ASSUME IInv, Unpark PROVE IInv' /\ PromiseStep
  <1>1. At("app", "unpark") /\ "app" \in Threads
    BY DEF Unpark, AppAt, Threads
  <1>2. /\ "unpark" \in OwnLabels /\ "unpark" \notin MoveLabels /\ "unpark" \notin ParkLabels
        /\ "unparked" \in OwnLabels /\ "unparked" \in HomeLabels /\ "unparked" \in RouteLabels
    BY DEF OwnLabels, Labels, Helpers, HomeLabels, ParkLabels, MoveLabels, RouteLabels
  <1>3. req' = FALSE /\ UNCHANGED <<athm, dec, sup, res, hist>>
    BY DEF Unpark
  <1> DEFINE freed == {[ctl EXCEPT !.parked = FALSE, !.tracking = t] : t \in BOOLEAN}
             f == F("unparked")
  <1>4. ctl' \in freed \cup {ctl} /\ budget' \in Budgets /\ held' \in Threads \cup {Nobody}
    BY <1>1, <1>2, AtOwn, TypePieces DEF Unpark, Pieces, Lose
  <1>5. ctl' \in CtlTypes /\ ctl'.slew = ctl.slew /\ ctl'.jog = ctl.jog
    <2>1. ctl \in CtlTypes
      BY <1>1, <1>2, AtOwn DEF Pieces
    <2> QED BY <1>4, <2>1 DEF CtlTypes
  <1>6. Pieces' /\ ~Parking
    BY <1>1, <1>2, <1>3, <1>4, <1>5, AtOwn DEF Pieces, Parking
  <1>7. \/ AppGoes(<<F("state"), f>>) \/ AppGoes(<<F("wait")>> \o <<F("state"), f>>)
    BY DEF Unpark, Lose, AppGoes
  <1>8. /\ Placed(<<F("state"), f>>, "state", "unparked")
        /\ Placed(<<F("wait")>> \o <<F("state"), f>>, "state", "unparked")
    BY <1>2, WrittenF
  <1>9. PICK s : Placed(s, "state", "unparked") /\ AppGoes(s)
    BY <1>7, <1>8
  <1>10. /\ op # "untrack" /\ op # "park"
         /\ ~(ctl'.jog /\ ~hist'.refused)
    BY <1>1, <1>2, <1>3, <1>5, AtOwn
  <1> QED BY <1>1, <1>2, <1>3, <1>6, <1>9, <1>10, OwnMoves

LEMMA HomingStep == ASSUME IInv, Homing PROVE IInv' /\ PromiseStep
  <1>1. At("app", "homing") /\ UNCHANGED <<athm, dec, req, sup, held, res, budget, hist>>
    BY DEF Homing, AppAt
  <1>2. /\ "homing" \in OwnLabels /\ "homing" \notin MoveLabels
        /\ "await" \in OwnLabels \cap HomeLabels \cap ParkLabels
    BY DEF OwnLabels, Labels, Helpers, HomeLabels, ParkLabels, MoveLabels, RouteLabels
  <1>3. ctl' \in {ctl, Moving(ctl, "home")}
    BY DEF Homing
  <1>4. ctl' \in CtlTypes /\ ctl'.jog = ctl.jog /\ ctl'.slew \in {ctl.slew, "home"}
    <2>1. ctl \in CtlTypes
      BY <1>1, <1>2, AtOwn DEF Pieces
    <2> QED BY <1>3, <2>1 DEF CtlTypes, Moving
  <1>5. Pieces' /\ ~Parking /\ ~(ctl'.jog /\ ~hist'.refused) /\ op # "untrack"
    BY <1>1, <1>2, <1>4, AtOwn DEF Pieces, Parking
  <1> DEFINE g == [Head(stack["app"]) EXCEPT !.at = "await"]
  <1>6. CASE AppGoes(<<F("state"), g>>)
    <2>1. \E n \in 0..2 : g = [at |-> "await", n |-> n]
      BY <1>1, <1>2, AtOwn DEF Frames
    <2> HIDE DEF g
    <2>2. Placed(<<F("state"), g>>, "state", "await")
      BY <1>2, <2>1, Written
    <2> QED BY <1>1, <1>2, <1>5, <1>6, <2>2, OwnMoves
  <1>7. CASE AppEnds("raised")
    <2>1. ctl'.jog => hist'.refused
      BY <1>1, <1>4, <1>5 DEF Pieces, CtlTypes
    <2> QED BY <1>1, <1>2, <1>5, <1>7, <2>1, OwnEnds
  <1> QED BY <1>6, <1>7 DEF Homing

LEMMA AtHomeStep == ASSUME IInv, AtHome PROVE IInv' /\ PromiseStep
  <1>1. At("app", "await") /\ dec.athome /\ athm' = TRUE
        /\ UNCHANGED <<ctl, dec, req, sup, held, res, budget, hist>>
    BY DEF AtHome, AppAt
  <1>2. /\ "await" \in OwnLabels /\ "await" \in RouteLabels /\ "await" \notin MoveLabels
        /\ "parking" \in OwnLabels /\ "parking" \in ParkLabels
    BY DEF OwnLabels, Labels, Helpers, HomeLabels, ParkLabels, MoveLabels, RouteLabels
  <1>3. Pieces' /\ ~Parking /\ ~(ctl'.jog /\ ~hist'.refused) /\ op # "untrack"
    BY <1>1, <1>2, AtOwn DEF Pieces, Parking
  <1>4. ~hist.lost => ctl.athome /\ (dec.parked => ctl.parked)
    BY <1>1, <1>2, AtOwn
  <1>5. CASE op = "park" /\ AppGoes(<<F("parking")>>)
    <2>1. Placed(<<F("parking")>>, "none", "parking")
      BY <1>2, WrittenF
    <2>2. ~hist'.lost => ctl'.athome /\ (dec'.parked => ctl'.parked)
      BY <1>1, <1>4
    <2> QED BY <1>1, <1>2, <1>3, <1>5, <2>1, <2>2, OwnMoves
  <1>6. CASE op # "park" /\ \E r \in {"ok", "no"} : AppEnds(r)
    <2>1. ctl'.jog => hist'.refused
      BY <1>3
    <2>2. op = "home" => ctl.athome \/ hist.lost
      BY <1>4
    <2> QED BY <1>1, <1>2, <1>3, <1>6, <2>1, <2>2, OwnEnds
  <1> QED BY <1>5, <1>6 DEF AtHome

LEMMA ParkStep == ASSUME IInv, Park PROVE IInv' /\ PromiseStep
  <1>1. At("app", "parking") /\ "app" \in Threads /\ UNCHANGED <<dec, sup, res, hist>>
    BY DEF Park, AppAt, Threads
  <1>2. /\ "parking" \in OwnLabels /\ "parking" \in RouteLabels /\ "parking" \notin MoveLabels
        /\ "parking" \notin HomeLabels
        /\ "settle" \in OwnLabels /\ "settle" \in ParkLabels
    BY DEF OwnLabels, Labels, Helpers, HomeLabels, ParkLabels, MoveLabels, RouteLabels
  <1>3. /\ ctl' \in {ctl, Moving(ctl, "park")} /\ budget' \in Budgets
        /\ held' \in Threads \cup {Nobody} /\ req' \in BOOLEAN /\ athm' \in BOOLEAN
    BY <1>1, <1>2, AtOwn, TypePieces DEF Park, Pieces, Lose
  <1>4. ctl' \in CtlTypes /\ ctl'.jog = ctl.jog
    <2>1. ctl \in CtlTypes
      BY <1>1, <1>2, AtOwn DEF Pieces
    <2> QED BY <1>3, <2>1 DEF CtlTypes, Moving
  <1>5. Pieces' /\ ~(ctl'.jog /\ ~hist'.refused) /\ op # "untrack" /\ op # "home"
    BY <1>1, <1>2, <1>3, <1>4, AtOwn DEF Pieces
  <1>6. Parking => ctl.athome \/ hist.lost
    BY <1>1, <1>2, AtOwn
  <1> DEFINE f == F("settle")
  <1>7. \/ AppGoes(<<F("state"), f>>) \/ AppGoes(<<F("wait")>> \o <<F("state"), f>>)
    BY DEF Park, Lose, AppGoes
  <1>8. /\ Placed(<<F("state"), f>>, "state", "settle")
        /\ Placed(<<F("wait")>> \o <<F("state"), f>>, "state", "settle")
    BY <1>2, WrittenF
  <1>9. PICK s : Placed(s, "state", "settle") /\ AppGoes(s)
    BY <1>7, <1>8
  <1> QED BY <1>1, <1>2, <1>5, <1>6, <1>9, OwnMoves

-----------------------------------------------------------------------------
(* Goto, tracking and the axes, step by step.                              *)

\* A label that is no place of an operation with a promise.
Elsewhere(l) == l \in OwnLabels /\ l \notin HomeLabels \cup ParkLabels \cup RouteLabels

\* A step of such an operation.
LEMMA ElsewhereMoves ==
    ASSUME IInv, Pieces', NEW l, Elsewhere(l), l # "untracked", At("app", l),
           NEW s, NEW h, NEW k, Elsewhere(k), Placed(s, h, k), AppGoes(s),
           sup' = sup, hist'.reset = hist.reset,
           ctl'.jog /\ ~hist'.refused => k \in MoveLabels, ~Parking
    PROVE  IInv' /\ PromiseStep
  <1>1. l \in OwnLabels /\ k \notin RouteLabels
    BY DEF Elsewhere
  <1>2. op # "home" /\ op # "park" /\ op # "untrack"
    BY AtOwn DEF Elsewhere
  <1> QED BY <1>1, <1>2, OwnMoves

LEMMA ElsewhereEnds ==
    ASSUME IInv, Pieces', NEW l, Elsewhere(l), At("app", l),
           NEW r \in {"ok", "no", "raised"}, AppEnds(r),
           l = "untracked" /\ r = "ok" => ~ctl.tracking \/ hist.lost \/ op # "untrack",
           sup' = sup, hist'.reset = hist.reset,
           ctl'.jog => hist'.refused, ~Parking
    PROVE  IInv' /\ PromiseStep
  <1>1. l \in OwnLabels
    BY DEF Elsewhere
  <1>2. op # "home" /\ op # "park" /\ (op = "untrack" => l = "untracked")
    BY AtOwn DEF Elsewhere
  <1> QED BY <1>1, <1>2, OwnEnds

\* A decision of such an operation.
LEMMA ElsewhereDecides ==
    ASSUME IInv, NEW l, Elsewhere(l), l # "untracked", At("app", l), Decides,
           \/ l \notin MoveLabels /\ \E r \in {"ok", "no", "raised"} : AppEnds(r)
           \/ \E s, h, k : /\ Elsewhere(k) /\ Placed(s, h, k) /\ AppGoes(s)
                           /\ l \in MoveLabels => k \in MoveLabels
    PROVE  IInv' /\ PromiseStep
  <1>1. l \in OwnLabels
    BY DEF Elsewhere
  <1>2. Pieces' /\ sup' = sup /\ hist' = hist /\ ctl' = ctl /\ hist'.reset = hist.reset
    BY <1>1, AtOwn DEF Decides, Pieces
  <1>3. ~Parking /\ (ctl'.jog /\ ~hist'.refused => l \in MoveLabels)
    BY <1>1, <1>2, AtOwn DEF Parking
  <1>4. ASSUME l \notin MoveLabels, NEW r \in {"ok", "no", "raised"}, AppEnds(r)
        PROVE  IInv' /\ PromiseStep
    <2>1. ctl'.jog => hist'.refused
      BY <1>3, <1>4
    <2> QED BY <1>2, <1>3, <1>4, <2>1, ElsewhereEnds
  <1>5. ASSUME NEW s, NEW h, NEW k, Elsewhere(k), Placed(s, h, k), AppGoes(s),
               l \in MoveLabels => k \in MoveLabels
        PROVE  IInv' /\ PromiseStep
    BY <1>2, <1>3, <1>5, ElsewhereMoves
  <1> QED BY <1>4, <1>5

LEMMA Elsewheres ==
    /\ \A l \in {"goto", "slew", "slewed", "track", "enable", "enabled", "untracked", "tick",
                 "axis", "jog", "move", "moving", "release", "limit", "moved", "pulse",
                 "pulsing", "manual", "manually", "unhand"} :
          Elsewhere(l) /\ l \in OwnLabels
    /\ \A l \in {"goto", "slew", "slewed", "track", "enable", "enabled", "untracked", "tick",
                 "axis", "jog", "move", "limit", "moved", "pulse",
                 "pulsing", "manual", "manually"} : l \notin MoveLabels
    /\ \A l \in {"moving", "release", "unhand"} : l \in MoveLabels
  BY DEF Elsewhere, OwnLabels, Labels, Helpers, HomeLabels, ParkLabels, MoveLabels, RouteLabels

LEMMA ProceedStep ==
    ASSUME IInv, \/ Proceed("goto", <<F("slew")>>) \/ Proceed("track", <<F("enable")>>)
    PROVE  IInv' /\ PromiseStep
  <1>1. PICK l \in {"goto", "track"}, k \in {"slew", "enable"} :
          At("app", l) /\ Decides /\ (AppEnds("raised") \/ AppGoes(<<F(k)>>))
    BY DEF Proceed, AppAt
  <1>2. Elsewhere(l) /\ l \notin MoveLabels /\ l # "untracked" /\ Elsewhere(k) /\ k \in OwnLabels
    BY Elsewheres
  <1>3. Placed(<<F(k)>>, "none", k)
    BY <1>2, WrittenF
  <1> QED BY <1>1, <1>2, <1>3, ElsewhereDecides

LEMMA SlewStep == ASSUME IInv, Slew PROVE IInv' /\ PromiseStep
  <1>1. At("app", "slew") /\ "app" \in Threads /\ held' = "app" /\ athm' = FALSE
        /\ UNCHANGED <<dec, req, sup, hist>>
    BY DEF Slew, AppAt, Threads
  <1>2. /\ Elsewhere("slew") /\ "slew" \in OwnLabels /\ "slew" \notin MoveLabels
        /\ Elsewhere("slewed") /\ "slewed" \in OwnLabels
    BY Elsewheres
  <1>3. TypeOK /\ Pieces /\ ctl \in CtlTypes
    BY <1>1, <1>2, AtOwn DEF Pieces
  <1>4. ctl' \in {ctl, Moving(ctl, "goto")} /\ budget' \in Budgets
    BY <1>3, TypePieces DEF Slew, Pieces
  <1>5. ctl' \in CtlTypes /\ ctl'.jog = ctl.jog /\ ctl'.slew \in {ctl.slew, "goto"}
    BY <1>3, <1>4 DEF CtlTypes, Moving
  <1>6. res' \in [Threads -> Results]
    <2>1. "0" \in Results /\ "lost" \in Results
      BY DEF Results
    <2>2. Says("app", "0") \/ Says("app", "lost")
      BY DEF Slew
    <2> QED BY <1>1, <1>3, <2>1, <2>2, SaysFacts
  <1>7. Pieces' /\ ~Parking /\ ~(ctl'.jog /\ ~hist'.refused)
    BY <1>1, <1>2, <1>3, <1>4, <1>5, <1>6, AtOwn DEF Pieces, Parking
  <1>8. Placed(<<F("wait"), F("slewed")>>, "wait", "slewed")
    BY <1>2, WrittenF
  <1>9. AppGoes(<<F("wait"), F("slewed")>>)
    BY DEF Slew, AppGoes
  <1> QED BY <1>1, <1>2, <1>7, <1>8, <1>9, ElsewhereMoves

LEMMA SlewedStep == ASSUME IInv, Slewed PROVE IInv' /\ PromiseStep
  <1>1. At("app", "slewed") /\ Decides /\ \E r \in {"ok", "no", "raised"} : AppEnds(r)
    BY DEF Slewed, AppAt
  <1>2. Elsewhere("slewed") /\ "slewed" \notin MoveLabels
    BY Elsewheres
  <1> QED BY <1>1, <1>2, ElsewhereDecides

LEMMA EnableStep == ASSUME IInv, Enable PROVE IInv' /\ PromiseStep
  <1>1. At("app", "enable") /\ "app" \in Threads /\ UNCHANGED <<athm, dec, req, sup, hist>>
    BY DEF Enable, AppAt, Threads
  <1>2. /\ Elsewhere("enable") /\ "enable" \in OwnLabels /\ "enable" \notin MoveLabels
        /\ Elsewhere("enabled") /\ "enabled" \in OwnLabels
    BY Elsewheres
  <1>3. TypeOK /\ Pieces /\ ctl \in CtlTypes
    BY <1>1, <1>2, AtOwn DEF Pieces
  <1>4. /\ ctl' \in {ctl, [ctl EXCEPT !.tracking = TRUE]} /\ budget' \in Budgets
        /\ held' \in Threads \cup {Nobody}
    BY <1>1, <1>3, TypePieces DEF Enable, Pieces, Lose
  <1>5. ctl' \in CtlTypes /\ ctl'.jog = ctl.jog /\ ctl'.slew = ctl.slew
    BY <1>3, <1>4 DEF CtlTypes
  <1>6. res' \in [Threads -> Results]
    <2>1. "1" \in Results /\ "lost" \in Results
      BY DEF Results
    <2>2. Says("app", "1") \/ Says("app", "lost") \/ UNCHANGED res
      BY DEF Enable
    <2> QED BY <1>1, <1>3, <2>1, <2>2, SaysFacts DEF Pieces
  <1>7. Pieces' /\ ~Parking /\ ~(ctl'.jog /\ ~hist'.refused)
    BY <1>1, <1>2, <1>3, <1>4, <1>5, <1>6, AtOwn DEF Pieces, Parking
  <1>8. /\ Placed(<<F("enabled")>>, "none", "enabled")
        /\ Placed(<<F("wait")>> \o <<F("enabled")>>, "wait", "enabled")
    BY <1>2, WrittenF
  <1>9. \/ AppGoes(<<F("enabled")>>) \/ AppGoes(<<F("wait")>> \o <<F("enabled")>>)
        \/ AppEnds("raised")
    BY DEF Enable, Lose, AppGoes
  <1>10. CASE AppEnds("raised")
    <2>1. ctl'.jog => hist'.refused
      BY <1>7
    <2> QED BY <1>1, <1>2, <1>7, <1>10, <2>1, ElsewhereEnds
  <1> QED BY <1>1, <1>2, <1>7, <1>8, <1>9, <1>10, ElsewhereMoves

LEMMA EnabledStep == ASSUME IInv, Enabled PROVE IInv' /\ PromiseStep
  <1>1. /\ At("app", "enabled") /\ req' = (req \/ res["app"] = "1")
        /\ \E r \in {"ok", "no", "raised"} : AppEnds(r)
        /\ UNCHANGED <<athm, ctl, dec, sup, held, res, budget, hist>>
    BY DEF Enabled, AppAt
  <1>2. Elsewhere("enabled") /\ "enabled" \in OwnLabels /\ "enabled" \notin MoveLabels
    BY Elsewheres
  <1>3. Pieces' /\ ~Parking /\ (ctl'.jog => hist'.refused)
    BY <1>1, <1>2, AtOwn DEF Pieces, Parking
  <1> QED BY <1>1, <1>2, <1>3, ElsewhereEnds

LEMMA UntrackedStep == ASSUME IInv, Untracked PROVE IInv' /\ PromiseStep
  <1>1. /\ At("app", "untracked") /\ Decides
        /\ AppEnds(IF res["app"] = "ok" THEN "ok" ELSE "no")
    BY DEF Untracked, AppAt
  <1>2. Elsewhere("untracked") /\ "untracked" \in OwnLabels /\ "untracked" \notin MoveLabels
    BY Elsewheres
  <1>3. Pieces' /\ ~Parking /\ (ctl'.jog => hist'.refused) /\ sup' = sup /\ hist' = hist
    BY <1>1, <1>2, AtOwn DEF Decides, Pieces, Parking
  <1>4. res["app"] = "ok" => ~ctl.tracking \/ hist.lost \/ op # "untrack"
    BY <1>1, <1>2, AtOwn
  <1>5. CASE res["app"] = "ok"
    BY <1>1, <1>2, <1>3, <1>4, <1>5, ElsewhereEnds
  <1>6. CASE res["app"] # "ok"
    BY <1>1, <1>2, <1>3, <1>4, <1>6, ElsewhereEnds
  <1> QED BY <1>5, <1>6

LEMMA GuardTickStep == ASSUME IInv, GuardTick PROVE IInv' /\ PromiseStep
  <1>1. /\ At("app", "tick") /\ Decides
        /\ AppGoes(Disabling \o <<F("untracked")>>) \/ AppEnds("ok")
    BY DEF GuardTick, AppAt
  <1>2. Elsewhere("tick") /\ "tick" \notin MoveLabels /\ Elsewhere("untracked")
        /\ "untracked" \in OwnLabels
    BY Elsewheres
  <1>3. Placed(Disabling \o <<F("untracked")>>, "quit", "untracked")
    BY <1>2, WrittenF
  <1> QED BY <1>1, <1>2, <1>3, ElsewhereDecides

LEMMA StartAxisStep == ASSUME IInv, StartAxis PROVE IInv' /\ PromiseStep
  <1>1. PICK l \in {"axis", "jog"} :
          At("app", l) /\ Decides /\ (AppEnds("raised") \/ AppGoes(<<F("move")>>))
    BY DEF StartAxis, AppAt
  <1>2. Elsewhere(l) /\ l \notin MoveLabels /\ l # "untracked" /\ Elsewhere("move")
        /\ "move" \in OwnLabels
    BY Elsewheres
  <1>3. Placed(<<F("move")>>, "none", "move")
    BY <1>2, WrittenF
  <1> QED BY <1>1, <1>2, <1>3, ElsewhereDecides

LEMMA MoveStep == ASSUME IInv, Move PROVE IInv' /\ PromiseStep
  <1>1. At("app", "move") /\ UNCHANGED <<athm, dec, req, sup, held, res, budget, hist>>
    BY DEF Move, AppAt
  <1>2. /\ Elsewhere("move") /\ "move" \in OwnLabels /\ "move" \notin MoveLabels
        /\ Elsewhere("moving") /\ "moving" \in OwnLabels /\ "moving" \in MoveLabels
    BY Elsewheres
  <1>3. Pieces /\ ctl \in CtlTypes /\ (ctl.jog => hist.refused)
    BY <1>1, <1>2, AtOwn DEF Pieces
  <1>4. CASE ctl' = Jogged(ctl) /\ AppGoes(<<F("moving")>>)
    <2>1. ctl' \in CtlTypes /\ ctl'.slew = ctl.slew
      BY <1>3, <1>4 DEF CtlTypes, Jogged
    <2>2. Pieces' /\ ~Parking
      BY <1>1, <1>3, <2>1 DEF Pieces, Parking
    <2>3. Placed(<<F("moving")>>, "none", "moving")
      BY <1>2, WrittenF
    <2> QED BY <1>1, <1>2, <1>4, <2>2, <2>3, ElsewhereMoves
  <1>5. CASE AppEnds("raised") /\ ctl' = ctl
    <2>1. Pieces' /\ ~Parking /\ (ctl'.jog => hist'.refused)
      BY <1>1, <1>3, <1>5 DEF Pieces, Parking
    <2> QED BY <1>1, <1>2, <1>5, <2>1, ElsewhereEnds
  <1> QED BY <1>4, <1>5 DEF Move

LEMMA MovingStep == ASSUME IInv, LivePreflight \/ MotionOver PROVE IInv' /\ PromiseStep
  <1>1. At("app", "moving") /\ Decides
    BY DEF LivePreflight, MotionOver, AppAt
  <1>2. /\ Elsewhere("moving") /\ "moving" \in OwnLabels
        /\ Elsewhere("release") /\ "release" \in OwnLabels /\ {"moving", "release"} \subseteq MoveLabels
    BY Elsewheres
  <1>3. /\ Placed(<<[at |-> "release", n |-> 1]>>, "none", "release")
        /\ Placed(<<F("state"), F("moving")>>, "state", "moving")
        /\ Placed(<<F("release")>>, "none", "release")
    <2>1. 1 \in 0..2
      OBVIOUS
    <2> QED BY <1>2, <2>1, Written, WrittenF
  <1>4. \/ AppGoes(<<[at |-> "release", n |-> 1]>>)
        \/ AppGoes(<<F("state"), F("moving")>>)
        \/ AppGoes(<<F("release")>>)
    BY DEF LivePreflight, MotionOver
  <1> QED BY <1>1, <1>2, <1>3, <1>4, ElsewhereDecides

LEMMA ReleaseStep == ASSUME IInv, Release PROVE IInv' /\ PromiseStep
  <1>1. At("app", "release") /\ UNCHANGED <<athm, dec, req, sup, held, res, budget>>
    BY DEF Release, AppAt
  <1>2. /\ Elsewhere("release") /\ "release" \in OwnLabels
        /\ Elsewhere("limit") /\ "limit" \in OwnLabels /\ Elsewhere("moved") /\ "moved" \in OwnLabels
    BY Elsewheres
  <1>3. Pieces /\ ctl \in CtlTypes /\ hist \in HistTypes
    BY <1>1, <1>2, AtOwn DEF Pieces
  <1>4. /\ ctl' \in CtlTypes /\ ctl'.slew = ctl.slew
        /\ hist' \in HistTypes /\ hist'.reset = hist.reset
        /\ ctl'.jog => hist'.refused
    BY <1>3 DEF Release, CtlTypes, HistTypes
  <1>5. Pieces' /\ ~Parking
    BY <1>1, <1>3, <1>4 DEF Pieces, Parking
  <1>6. /\ Placed(<<F("limit")>>, "none", "limit")
        /\ Placed(<<F("state"), F("moved")>>, "state", "moved")
    BY <1>2, WrittenF
  <1>7. AppGoes(<<F("limit")>>) \/ AppGoes(<<F("state"), F("moved")>>)
    BY DEF Release
  <1> QED BY <1>1, <1>2, <1>4, <1>5, <1>6, <1>7, ElsewhereMoves

LEMMA AtLimitStep == ASSUME IInv, AtLimit PROVE IInv' /\ PromiseStep
  <1>1. /\ At("app", "limit") /\ AppEnds("raised")
        /\ UNCHANGED <<athm, dec, req, sup, held, res>>
        /\ hist' = [hist EXCEPT !.refused = FALSE]
    BY DEF AtLimit, AppAt
  <1>2. Elsewhere("limit") /\ "limit" \in OwnLabels
    BY Elsewheres
  <1>3. TypeOK /\ Pieces /\ ctl \in CtlTypes /\ hist \in HistTypes /\ budget \in Budgets
    BY <1>1, <1>2, AtOwn DEF Pieces
  <1>4. ctl' \in CtlTypes /\ ctl'.slew = "none" /\ ~ctl'.jog
    BY <1>3 DEF AtLimit, CtlTypes, Halted
  <1>5. hist' \in HistTypes /\ hist'.reset = hist.reset
    BY <1>1, <1>3 DEF HistTypes
  <1>6. budget' \in Budgets
    BY <1>3, TypePieces DEF AtLimit
  <1>7. Pieces' /\ ~Parking
    BY <1>1, <1>3, <1>4, <1>5, <1>6 DEF Pieces, Parking
  <1> QED BY <1>1, <1>2, <1>4, <1>5, <1>7, ElsewhereEnds

LEMMA MovedStep == ASSUME IInv, Moved PROVE IInv' /\ PromiseStep
  <1>1. At("app", "moved") /\ Decides /\ AppEnds("ok")
    BY DEF Moved, AppAt
  <1>2. Elsewhere("moved") /\ "moved" \notin MoveLabels
    BY Elsewheres
  <1> QED BY <1>1, <1>2, ElsewhereDecides

LEMMA StartRecoveryStep ==
    ASSUME IInv, StartRecovery("pulse", "pulsing") \/ StartRecovery("manual", "manually")
    PROVE  IInv' /\ PromiseStep
  <1>1. PICK l \in {"pulse", "manual"}, k \in {"pulsing", "manually"} :
          /\ At("app", l) /\ Decides
          /\ \/ AppEnds("raised") \/ AppGoes(Disabling \o <<[at |-> k, n |-> 1]>>)
             \/ AppGoes(<<F(k)>>)
    BY DEF StartRecovery, AppAt
  <1>2. Elsewhere(l) /\ l \notin MoveLabels /\ l # "untracked" /\ Elsewhere(k) /\ k \in OwnLabels
    BY Elsewheres
  <1>3. Placed(<<F(k)>>, "none", k) /\ Placed(Disabling \o <<[at |-> k, n |-> 1]>>, "quit", k)
    <2>1. 1 \in 0..2
      OBVIOUS
    <2> QED BY <1>2, <2>1, Written, WrittenF
  <1> QED BY <1>1, <1>2, <1>3, ElsewhereDecides

LEMMA PulseStep == ASSUME IInv, Pulse PROVE IInv' /\ PromiseStep
  <1>1. /\ At("app", "pulsing") /\ UNCHANGED <<athm, dec, req, sup, held, res, budget, hist>>
        /\ ctl' \in {ctl, [ctl EXCEPT !.athome = FALSE]}
        /\ \E r \in {"ok", "no", "raised"} : AppEnds(r)
    BY DEF Pulse, AppAt
  <1>2. Elsewhere("pulsing") /\ "pulsing" \in OwnLabels /\ "pulsing" \notin MoveLabels
    BY Elsewheres
  <1>3. Pieces /\ ctl \in CtlTypes /\ (ctl.jog => hist.refused)
    BY <1>1, <1>2, AtOwn DEF Pieces
  <1>4. ctl' \in CtlTypes /\ ctl'.slew = ctl.slew /\ ctl'.jog = ctl.jog
    BY <1>1, <1>3 DEF CtlTypes
  <1>5. Pieces' /\ ~Parking /\ (ctl'.jog => hist'.refused)
    BY <1>1, <1>3, <1>4 DEF Pieces, Parking
  <1> QED BY <1>1, <1>2, <1>5, ElsewhereEnds

LEMMA ManualMoveStep == ASSUME IInv, ManualMove PROVE IInv' /\ PromiseStep
  <1>1. At("app", "manually") /\ UNCHANGED <<dec, sup, held, res, budget>>
    BY DEF ManualMove, AppAt
  <1>2. /\ Elsewhere("manually") /\ "manually" \in OwnLabels /\ "manually" \notin MoveLabels
        /\ Elsewhere("unhand") /\ "unhand" \in OwnLabels /\ "unhand" \in MoveLabels
    BY Elsewheres
  <1>3. Pieces /\ ctl \in CtlTypes /\ hist \in HistTypes /\ (ctl.jog => hist.refused)
    BY <1>1, <1>2, AtOwn DEF Pieces
  <1>4. CASE /\ ctl' = Jogged(ctl) /\ AppGoes(<<F("unhand")>>) /\ athm' = FALSE
             /\ UNCHANGED <<req, hist>>
    <2>1. ctl' \in CtlTypes /\ ctl'.slew = ctl.slew
      BY <1>3, <1>4 DEF CtlTypes, Jogged
    <2>2. Pieces' /\ ~Parking
      BY <1>1, <1>3, <1>4, <2>1 DEF Pieces, Parking
    <2>3. Placed(<<F("unhand")>>, "none", "unhand")
      BY <1>2, WrittenF
    <2> QED BY <1>1, <1>2, <1>4, <2>2, <2>3, ElsewhereMoves
  <1>5. CASE AppEnds("raised") /\ UNCHANGED <<ctl, req, athm, hist>>
    <2>1. Pieces' /\ ~Parking /\ (ctl'.jog => hist'.refused)
      BY <1>1, <1>3, <1>5 DEF Pieces, Parking
    <2> QED BY <1>1, <1>2, <1>5, <2>1, ElsewhereEnds
  <1>6. CASE /\ ctl' = Halted(ctl) /\ req' = FALSE /\ athm' = FALSE
             /\ hist' = [hist EXCEPT !.refused = FALSE] /\ AppEnds("raised")
    <2>1. ctl' \in CtlTypes /\ ctl'.slew = "none" /\ ~ctl'.jog
      BY <1>3, <1>6 DEF CtlTypes, Halted
    <2>2. hist' \in HistTypes /\ hist'.reset = hist.reset
      BY <1>3, <1>6 DEF HistTypes
    <2>3. Pieces' /\ ~Parking
      BY <1>1, <1>3, <1>6, <2>1, <2>2 DEF Pieces, Parking
    <2> QED BY <1>1, <1>2, <1>6, <2>1, <2>2, <2>3, ElsewhereEnds
  <1> QED BY <1>4, <1>5, <1>6 DEF ManualMove

LEMMA ManualStopStep == ASSUME IInv, ManualStop PROVE IInv' /\ PromiseStep
  <1>1. /\ At("app", "unhand") /\ AppEnds("ok") /\ ctl' = Halted(ctl) /\ req' = FALSE
        /\ hist' = [hist EXCEPT !.refused = FALSE]
        /\ UNCHANGED <<athm, dec, sup, held, res, budget>>
    BY DEF ManualStop, AppAt
  <1>2. Elsewhere("unhand") /\ "unhand" \in OwnLabels
    BY Elsewheres
  <1>3. Pieces /\ ctl \in CtlTypes /\ hist \in HistTypes
    BY <1>1, <1>2, AtOwn DEF Pieces
  <1>4. /\ ctl' \in CtlTypes /\ ctl'.slew = "none" /\ ~ctl'.jog
        /\ hist' \in HistTypes /\ hist'.reset = hist.reset
    BY <1>1, <1>3 DEF CtlTypes, Halted, HistTypes
  <1>5. Pieces' /\ ~Parking
    BY <1>1, <1>3, <1>4 DEF Pieces, Parking
  <1> QED BY <1>1, <1>2, <1>4, <1>5, ElsewhereEnds

-----------------------------------------------------------------------------
(* Threads begin, the emergency stop, the controller.                      *)

\* A step that leaves the stacks alone.
LEMMA BesideStep ==
    ASSUME IInv, Pieces', UNCHANGED <<stack, op, ended, dec, res, sup>>,
           hist'.lost = hist.lost, hist'.reset = hist.reset,
           ctl'.jog /\ ~hist'.refused => ctl.jog /\ ~hist.refused,
           Own(app) \in RouteLabels =>
              (ctl.athome => ctl'.athome) /\ (ctl.parked => ctl'.parked),
           op = "untrack" => ctl'.slew \in {ctl.slew, "none"},
           op = "untrack" /\ Above(app) # "quit" => (ctl'.tracking => ctl.tracking),
           ~Parking
    PROVE  IInv' /\ PromiseStep
  <1>1. app' = app /\ op' = op /\ ended' = ended /\ dec' = dec /\ res' = res
    BY DEF app
  <1>2. TypeOK'
    BY TypePieces, TypeOfPieces DEF IInv
  <1>3. ShapeOK'
    BY <1>1 DEF IInv, ShapeOK
  <1>4. GuardOK'
    BY DEF IInv, GuardOK, Nested, InGuard, At
  <1>5. JogOK' /\ PlaceOK'
    BY <1>1 DEF IInv, JogOK, PlaceOK
  <1>6. SeenOK'
    BY <1>1 DEF IInv, SeenOK
  <1>7. UntrackOK'
    BY <1>1 DEF IInv, UntrackOK
  <1>8. PromiseStep
    BY <1>1 DEF IInv, PlaceOK, PromiseStep, Ends
  <1> QED BY <1>2, <1>3, <1>4, <1>5, <1>6, <1>7, <1>8 DEF IInv

LEMMA StopStep == ASSUME IInv, Stop PROVE IInv' /\ PromiseStep
  <1>1. /\ req' = FALSE /\ ctl' = Halted(ctl) /\ hist' = [hist EXCEPT !.refused = FALSE]
        /\ UNCHANGED <<athm, dec, sup, held, stack, res, op, ended>>
    BY DEF Stop
  <1>2. Pieces /\ ctl \in CtlTypes /\ hist \in HistTypes /\ budget \in Budgets
    BY TypePieces DEF IInv, Pieces
  <1>3. /\ ctl' \in CtlTypes /\ ctl'.slew = "none" /\ ~ctl'.jog /\ ctl'.athome = ctl.athome
        /\ ctl'.parked = ctl.parked /\ ctl'.tracking = ctl.tracking
    BY <1>1, <1>2 DEF CtlTypes, Halted
  <1>4. hist' \in HistTypes /\ hist'.reset = hist.reset /\ hist'.lost = hist.lost
    BY <1>1, <1>2 DEF HistTypes
  <1>5. budget' \in Budgets
    <2>1. budget.stops + 1 \in 0..MaxStops
      BY <1>2 DEF Stop, Budgets
    <2> QED BY <1>2, <2>1 DEF Stop, Budgets
  <1>6. Pieces' /\ ~Parking
    BY <1>1, <1>2, <1>3, <1>4, <1>5 DEF Pieces, Parking
  <1> QED BY <1>1, <1>3, <1>4, <1>6, BesideStep

LEMMA ArrivesStep == ASSUME IInv, Arrives PROVE IInv' /\ PromiseStep
  <1>1. UNCHANGED <<athm, dec, req, sup, held, stack, res, op, ended, budget, hist>>
    BY DEF Arrives, Controller
  <1>2. Pieces /\ ctl \in CtlTypes
    BY TypePieces DEF IInv, Pieces
  <1>3. /\ ctl' \in CtlTypes /\ ctl'.slew = "none" /\ ctl'.jog = ctl.jog
        /\ ctl.athome => ctl'.athome
        /\ ctl.parked => ctl'.parked
        /\ (ctl'.tracking => ctl.tracking) \/ ctl.slew = "goto"
    BY <1>2 DEF Arrives, Controller, CtlTypes
  <1>4. Pieces' /\ ~Parking
    BY <1>1, <1>2, <1>3 DEF Pieces, Parking
  <1>5. op = "untrack" /\ Above(app) # "quit" => ctl.slew = "none"
    BY DEF IInv, UntrackOK
  <1> QED BY <1>1, <1>3, <1>4, <1>5, BesideStep

LEMMA SkyTurnsStep == ASSUME IInv, SkyTurns PROVE IInv' /\ PromiseStep
  <1>1. /\ UNCHANGED <<athm, dec, req, sup, held, stack, res, op, ended, budget, hist>>
        /\ ctl' = [ctl EXCEPT !.past = TRUE, !.athome = FALSE]
        /\ op = "none" \/ At("app", "moving")
    BY DEF SkyTurns, Controller
  <1>2. Pieces /\ ctl \in CtlTypes
    BY TypePieces DEF IInv, Pieces
  <1>3. /\ ctl' \in CtlTypes /\ ctl'.slew = ctl.slew /\ ctl'.jog = ctl.jog
        /\ ctl'.parked = ctl.parked /\ ctl'.tracking = ctl.tracking
    BY <1>1, <1>2 DEF CtlTypes
  <1>4. Pieces' /\ ~Parking
    BY <1>1, <1>2, <1>3 DEF Pieces, Parking
  <1>5. Own(app) \notin RouteLabels
    <2>1. CASE op = "none"
      BY <2>1 DEF IInv, ShapeOK, Own, RouteLabels
    <2>2. CASE At("app", "moving")
      BY <2>2, Elsewheres, OwnStack DEF IInv, RouteLabels
    <2> QED BY <1>1, <2>1, <2>2
  <1> QED BY <1>1, <1>3, <1>4, <1>5, BesideStep

LEMMA PollStep == ASSUME IInv, Poll PROVE IInv' /\ PromiseStep
  <1>1. UNCHANGED <<athm, ctl, dec, req, sup, held, res, op, ended, budget, hist>>
    BY DEF Poll
  <1> DEFINE s == <<F("state")>>
  <1>2. s \in Seq(Frames) /\ s # <<>> /\ Len(s) = 1 /\ s[1].at = "state"
    BY FrameFacts, Literals DEF Labels
  <1>3. stack' = [stack EXCEPT !["ui"] = s]
    BY DEF Poll
  <1> HIDE DEF s
  <1>4. /\ stack' \in [Threads -> Seq(Frames)] /\ app' = app
        /\ stack'["ui"] = s /\ stack'["app"] = stack["app"]
    BY <1>2, <1>3, StackFacts DEF IInv, app
  <1>5. TypeOK'
    <2>1. Pieces'
      BY <1>1, TypePieces DEF IInv, Pieces
    <2> QED BY <1>1, <1>4, <2>1, TypePieces, TypeOfPieces DEF IInv
  <1>6. ShapeOK'
    <2>1. \A i \in 1..Len(s) : s[i].at \in Helpers
      BY <1>2 DEF Helpers
    <2>2. \A t \in Threads : \A i \in 2..Len(stack'[t]) : stack'[t][i].at # "guard"
      <3>1. \A i \in 2..Len(stack["app"]) : stack["app"][i].at # "guard"
        BY DEF IInv, ShapeOK, Threads
      <3>2. \A i \in 2..Len(s) : FALSE
        BY <1>2
      <3> QED BY <1>4, <3>1, <3>2 DEF Threads
    <2> QED BY <1>1, <1>4, <2>1, <2>2 DEF IInv, ShapeOK
  <1>7. GuardOK'
    <2>1. DOMAIN s = 1..1
      BY <1>2, LenProperties
    <2>2. ~Nested("ui")' /\ ~InGuard("ui")'
      BY <1>2, <1>4, <2>1 DEF Nested, InGuard
    <2>3. /\ Nested("app")' <=> Nested("app")
          /\ InGuard("app")' <=> InGuard("app")
          /\ At("app", "guard")' <=> At("app", "guard")
      BY <1>4 DEF Nested, InGuard, At
    <2> QED BY <1>1, <2>2, <2>3, StackFacts DEF IInv, GuardOK
  <1>8. JogOK' /\ PlaceOK'
    BY <1>1, <1>4 DEF IInv, JogOK, PlaceOK
  <1>9. SeenOK'
    BY <1>1, <1>4 DEF IInv, SeenOK
  <1>10. UntrackOK'
    BY <1>1, <1>4 DEF IInv, UntrackOK
  <1>11. PromiseStep
    BY <1>1 DEF IInv, PlaceOK, PromiseStep, Ends, Parking
  <1> QED BY <1>5, <1>6, <1>7, <1>8, <1>9, <1>10, <1>11 DEF IInv

\* The first frames of an operation.
LEMMA FirstPlaced ==
    ASSUME NEW o \in Operations
    PROVE  \E h, k : /\ Placed(First(o), h, k)
                     /\ o = "home" => k = "unpark" /\ h = "none"
                     /\ o = "park" => k = "park" /\ h = "state"
                     /\ o = "untrack" => k = "untracked" /\ h = "quit"
                     /\ k \in RouteLabels => k = "park" /\ h = "state"
  <1>1. CASE o = "home"
    <2>1. "unpark" \in OwnLabels /\ "unpark" \notin RouteLabels
      BY DEF OwnLabels, Labels, Helpers, HomeLabels, ParkLabels, MoveLabels, RouteLabels
    <2>2. Placed(<<F("unpark")>>, "none", "unpark")
      BY <2>1, WrittenF
    <2> QED BY <1>1, <2>1, <2>2 DEF First
  <1>2. CASE o = "untrack"
    <2>1. "untracked" \in OwnLabels /\ "untracked" \notin RouteLabels
      BY DEF OwnLabels, Labels, Helpers, HomeLabels, ParkLabels, MoveLabels, RouteLabels
    <2>2. Placed(Disabling \o <<F("untracked")>>, "quit", "untracked")
      BY <2>1, WrittenF
    <2> QED BY <1>2, <2>1, <2>2 DEF First
  <1>3. CASE o = "park"
    <2>1. "park" \in OwnLabels
      BY DEF OwnLabels, Labels, Helpers, HomeLabels, ParkLabels, MoveLabels, RouteLabels
    <2>2. Placed(<<F("state"), F("park")>>, "state", "park")
      BY <2>1, WrittenF
    <2> QED BY <1>3, <2>2 DEF First
  <1>4. CASE o \in Operations \ {"home", "untrack", "park"}
    <2>1. o \in OwnLabels /\ o \notin RouteLabels
      BY <1>4 DEF Operations, OwnLabels, Labels, Helpers, HomeLabels, ParkLabels, MoveLabels, RouteLabels
    <2>2. Placed(<<F("state"), F(o)>>, "state", o)
      BY <2>1, WrittenF
    <2>3. First(o) = <<F("state"), F(o)>>
      BY <1>4 DEF First
    <2> QED BY <1>4, <2>1, <2>2, <2>3
  <1> QED BY <1>1, <1>2, <1>3, <1>4

LEMMA BeginStep == ASSUME IInv, Begin PROVE IInv' /\ PromiseStep
  <1>1. /\ op = "none" /\ Says("app", "none") /\ hist' = [hist EXCEPT !.lost = FALSE]
        /\ ended' = [op |-> "none", r |-> "none"]
        /\ UNCHANGED <<athm, ctl, dec, req, sup, held>>
    BY DEF Begin
  <1>2. TypeOK /\ Pieces /\ "app" \in Threads /\ hist \in HistTypes /\ budget \in Budgets
        /\ "none" \in Results
    BY TypePieces DEF IInv, Pieces, Threads, Results
  <1>3. PICK o \in Ops : op' = o /\ stack' = [stack EXCEPT !["app"] = First(o)]
    BY DEF Begin
  <1>4. o \in Operations /\ o # "none"
    BY DEF SerialAssumption, Operations
  <1>5. PICK h, k : /\ Placed(First(o), h, k)
                    /\ o = "home" => k = "unpark" /\ h = "none"
                    /\ o = "park" => k = "park" /\ h = "state"
                    /\ o = "untrack" => k = "untracked" /\ h = "quit"
                    /\ k \in RouteLabels => k = "park" /\ h = "state"
    BY <1>4, FirstPlaced
  <1> DEFINE s == First(o)
  <1>6. Placed(s, h, k) /\ s # <<>> /\ Own(s) = k /\ Above(s) = h
    BY <1>5 DEF Placed
  <1> HIDE DEF s
  <1>7. stack' = [stack EXCEPT !["app"] = s]
    BY <1>3 DEF s
  <1>8. hist' \in HistTypes /\ hist'.reset = hist.reset /\ hist'.refused = hist.refused
    BY <1>1, <1>2 DEF HistTypes
  <1>9. /\ stack' \in [Threads -> Seq(Frames)] /\ app' = s
        /\ ShapeOK' /\ GuardOK'
    BY <1>1, <1>3, <1>4, <1>6, <1>7, <1>8, RewriteShape DEF IInv
  <1>10. budget' \in Budgets
    <2>1. budget.ops + 1 \in 0..MaxOps
      BY <1>2 DEF Begin, Budgets
    <2> QED BY <1>2, <2>1 DEF Begin, Budgets
  <1>11. Pieces'
    BY <1>1, <1>2, <1>8, <1>10, SaysFacts DEF Pieces
  <1>12. TypeOK'
    BY <1>1, <1>3, <1>9, <1>11, TypeOfPieces
  <1>13. Own(app') = k /\ Above(app') = h
    BY <1>6, <1>9
  <1>14. JogOK'
    <2>1. Own(app) = "none"
      BY <1>1 DEF IInv, ShapeOK, Own
    <2> QED BY <1>1, <1>8, <2>1 DEF IInv, JogOK
  <1>15. PlaceOK'
    BY <1>1, <1>3, <1>5, <1>13 DEF PlaceOK, HomeLabels, ParkLabels
  <1>16. SeenOK'
    BY <1>5, <1>13 DEF SeenOK
  <1>17. UntrackOK'
    BY <1>3, <1>5, <1>13 DEF UntrackOK
  <1>18. PromiseStep
    BY <1>1 DEF PromiseStep, Ends, Parking
  <1> QED BY <1>9, <1>12, <1>14, <1>15, <1>16, <1>17, <1>18 DEF IInv

-----------------------------------------------------------------------------
(* The theorems.                                                           *)

LEMMA InitIInv == Init => IInv
  <1> SUFFICES ASSUME Init PROVE IInv
    OBVIOUS
  <1>1. PICK parked \in BOOLEAN :
          ctl = [parked |-> parked, athome |-> ~parked, tracking |-> FALSE,
                 slew |-> "none", jog |-> FALSE, past |-> FALSE]
    BY DEF Init
  <1>2. ctl \in CtlTypes /\ ~ctl.jog /\ Status(ctl) \in Flags
    BY <1>1 DEF CtlTypes, Status, Flags
  <1>3. /\ \A t \in Threads : stack[t] = <<>>
        /\ app = <<>> /\ stack["ui"] = <<>>
    BY DEF Init, app, Threads
  <1>4. op = "none" /\ sup = FALSE /\ hist.reset = {}
    BY DEF Init
  <1>5. TypeOK
    <2>1. ctl \in [parked : BOOLEAN, athome : BOOLEAN, tracking : BOOLEAN,
                   slew : {"none", "home", "park", "goto"}, jog : BOOLEAN, past : BOOLEAN]
      BY <1>2 DEF CtlTypes
    <2>2. stack \in [Threads -> Seq([at : Labels, n : 0..2])]
      BY Literals DEF Init
    <2>3. budget \in [ops : 0..MaxOps, faults : 0..MaxFaults, stops : 0..MaxStops]
      BY DEF Init, SerialAssumption
    <2>4. /\ res \in [Threads -> Results]
          /\ ended \in [op : Ops \cup {"none"}, r : {"none", "ok", "no", "raised"}]
          /\ hist \in [lost : BOOLEAN, refused : BOOLEAN, reset : SUBSET Threads]
      BY DEF Init, Results
    <2>5. {req, athm, sup} \subseteq BOOLEAN /\ held \in Threads \cup {Nobody}
          /\ op \in Ops \cup {"none"} /\ dec \in Flags
      BY <1>2 DEF Init
    <2> QED BY <2>1, <2>2, <2>3, <2>4, <2>5 DEF TypeOK
  <1>6. ShapeOK
    BY <1>3, <1>4, Literals DEF ShapeOK
  <1>7. GuardOK
    <2>1. \A t \in Threads : ~Nested(t) /\ ~InGuard(t)
      BY <1>3 DEF Nested, InGuard
    <2> QED BY <2>1 DEF GuardOK
  <1>8. Own(app) = "none"
    BY <1>3 DEF Own
  <1>9. JogOK /\ PlaceOK /\ SeenOK /\ UntrackOK
    BY <1>2, <1>4, <1>8 DEF JogOK, PlaceOK, SeenOK, UntrackOK, RouteLabels
  <1> QED BY <1>5, <1>6, <1>7, <1>9 DEF IInv

\* Every step keeps the invariant, and the promises.
LEMMA NextIInv == IInv /\ [Next]_vars => IInv' /\ PromiseStep
  <1> SUFFICES ASSUME IInv, [Next]_vars PROVE IInv' /\ PromiseStep
    OBVIOUS
  <1>1. CASE \E t \in Threads : Calls(t) \/ PollAgain(t) \/ AttemptOver(t)
    <2> SUFFICES ASSUME NEW t \in Threads, Calls(t) \/ PollAgain(t) \/ AttemptOver(t)
                 PROVE  IInv' /\ PromiseStep
      BY <1>1
    <2> QED BY GetStateStep, GuardStep, GuardedStep, QuitStep, DisableStep, TrackingGoneStep,
               GivesUpStep, PollAgainStep, AttemptOverStep DEF Calls
  <1>2. CASE AppStep
    <2>1. CASE \/ Unpark \/ Unparked \/ ReturnHome \/ Quieted \/ Homing \/ AtHome
               \/ ParkViaHome \/ Park \/ Parked
      BY <2>1, UnparkStep, UnparkedStep, ReturnHomeStep, QuietedStep, HomingStep, AtHomeStep,
         ParkViaHomeStep, ParkStep, ParkedStep
    <2>2. CASE \/ Proceed("goto", <<F("slew")>>) \/ Slew \/ Slewed
               \/ Proceed("track", <<F("enable")>>) \/ Enable \/ Enabled \/ Untracked \/ GuardTick
      BY <2>2, ProceedStep, SlewStep, SlewedStep, EnableStep, EnabledStep, UntrackedStep,
         GuardTickStep
    <2>3. CASE \/ StartAxis \/ Move \/ Release \/ AtLimit \/ Moved
               \/ StartRecovery("pulse", "pulsing") \/ Pulse
               \/ StartRecovery("manual", "manually") \/ ManualMove \/ ManualStop
      BY <2>3, StartAxisStep, MoveStep, ReleaseStep, AtLimitStep, MovedStep, StartRecoveryStep,
         PulseStep, ManualMoveStep, ManualStopStep
    <2> QED BY <1>2, <2>1, <2>2, <2>3 DEF AppStep
  <1>3. CASE TimeOver
    BY <1>3, MovingStep, WaitStep DEF TimeOver
  <1>4. CASE LivePreflight
    BY <1>4, MovingStep
  <1>5. CASE WaitsOn("await", dec.athome) \/ WaitsOn("settle", dec.parked)
    BY <1>5, WaitStep
  <1>6. CASE Begin \/ Poll \/ Stop \/ Arrives \/ SkyTurns
    BY <1>6, BeginStep, PollStep, StopStep, ArrivesStep, SkyTurnsStep
  <1>7. CASE UNCHANGED vars
    <2>1. UNCHANGED <<ctl, dec, req, athm, sup, held, stack, res, op, ended, budget, hist>>
      BY <1>7 DEF vars
    <2>2. Pieces' /\ ~Parking
      BY <2>1, TypePieces DEF IInv, Pieces, Parking
    <2> QED BY <2>1, <2>2, BesideStep
  <1> QED BY <1>1, <1>2, <1>3, <1>4, <1>5, <1>6, <1>7 DEF Next

LEMMA Invariance == Spec => []IInv
  <1> QED BY InitIInv, NextIInv, PTL DEF Spec

\* Every variable has its type.
THEOREM SerialTyped == Spec => []TypeOK
  <1>1. IInv => TypeOK
    BY DEF IInv
  <1> QED BY <1>1, Invariance, PTL

\* The guard against unrequested tracking (_disable_unrequested_tracking) is in
\* itself only where another thread has reset the flag it shares.
THEOREM GuardNests == Spec => []GuardNestsByReset
  <1>1. IInv => GuardNestsByReset
    BY DEF IInv, GuardOK, GuardNestsByReset
  <1> QED BY <1>1, Invariance, PTL

\* No axis is left moving between operations (_axis_motion,
\* mechanical_manual_move), unless a busy bus refused its stop.
THEOREM AxesStop == Spec => []AxisStops
  <1>1. ASSUME IInv PROVE AxisStops
    <2> SUFFICES ASSUME op = "none", ctl.jog PROVE hist.refused
      BY DEF AxisStops
    <2>1. Own(app) = "none"
      BY <1>1 DEF IInv, ShapeOK, Own
    <2>2. hist.refused \in BOOLEAN
      BY <1>1, TypePieces DEF IInv, Pieces, HistTypes
    <2> QED BY <1>1, <2>1, <2>2 DEF IInv, JogOK
  <1>2. IInv => AxisStops
    BY <1>1
  <1> QED BY <1>2, Invariance, PTL

\* A route or disable_tracking that reports success has brought the mount there,
\* if no status reply got lost.
THEOREM SuccessReal == Spec => SuccessIsReal
  <1>1. ASSUME IInv, [Next]_vars
        PROVE  [/\ Ends("home", "ok") => ctl.athome \/ hist.lost
                /\ Ends("park", "ok") => ctl.parked \/ hist.lost
                /\ Ends("untrack", "ok") => ~ctl.tracking \/ hist.lost]_vars
    BY <1>1, NextIInv DEF PromiseStep
  <1> QED BY <1>1, Invariance, PTL DEF Spec, SuccessIsReal

\* ":hP#" is sent only at HOME (park_via_home), if no status reply got lost.
THEOREM ParksFromHome == Spec => ParkFromSeenHome
  <1>1. ASSUME IInv, [Next]_vars PROVE [Parking => ctl.athome \/ hist.lost]_vars
    BY <1>1, NextIInv DEF PromiseStep
  <1> QED BY <1>1, Invariance, PTL DEF Spec, ParkFromSeenHome

=============================================================================
