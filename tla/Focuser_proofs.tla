---------------------------- MODULE Focuser_proofs ----------------------------
(***************************************************************************)
(* Proofs about Focuser, for any threads, travel, calls and faults.        *)
(***************************************************************************)
EXTENDS Focuser, SequenceTheorems, TLAPS

USE FocuserAssumption

-----------------------------------------------------------------------------
(* The invariant.                                                          *)

\* The device answers ABORT with Ok or Alert.
AnswersOK == \A i \in DOMAIN toCli : toCli[i].abort => toCli[i].state # "Busy"

\* A call has no result before it returns, and a move counts as late until its
\* target leaves; the cache holds positions.
CallsOK ==
    /\ \A t \in Threads : pc[t] # "idle" => result[t] = "none"
    /\ \A t \in Threads : pc[t] \in {"lock", "clear", "preflight", "baseline", "issue"} => late[t]
    /\ ~cache.abort

\* A move whose target was the last to leave and met nothing older, and the target
\* reached: everything under way leads to the target, and a position that claims
\* rest there is so.
Sole(t) == ~late[t] /\ (pc[t] \in {"loop", "poll"} \/ result[t] = "reached")
MoveOK ==
    \A t \in Movers : Sole(t) =>
        /\ NothingOld(goal[t])
        /\ result[t] = "reached" => position = goal[t]

\* Once the device has done what is on the wire, nothing moves.
Halted == target = Off /\ \A i \in DOMAIN toDev : toDev[i] = Off
Halting == toDev # <<>> /\ toDev[Len(toDev)] = Off

\* A stop since which no target left has its ABORT behind every target, unless one
\* was rejected or lost.
Asked(t) == ~late[t] /\ (pc[t] \in {"ack", "spoll"} \/ result[t] = "stopped")
StopOK == \A t \in Threads : Asked(t) => Halted \/ Halting \/ rejects > 0 \/ drops > 0

\* An ABORT or its answer is on the wire, or the answer has come.
Answered == \E i \in DOMAIN toCli : toCli[i].abort
Confirmed == \E i \in DOMAIN toCli : toCli[i].abort /\ toCli[i].state = "Ok"

\* A stop that shares the wire with no other ABORT: there is none before its own,
\* and its answer says that the device has nothing left to do.
AloneOK ==
    \A t \in Threads : ~shared[t] =>
        /\ pc[t] = "request" => ~AbortIn(toDev) /\ ~Answered /\ answer[t] = "none"
        /\ pc[t] = "ack" =>
              /\ \A i, j \in DOMAIN toDev : toDev[i] = Off /\ toDev[j] = Off => i = j
              /\ AbortIn(toDev) => ~Answered /\ answer[t] = "none"
        /\ pc[t] = "ack" /\ ~late[t] =>
              /\ AbortIn(toDev) => Halting
              /\ Confirmed \/ answer[t] = "Ok" => target = Off /\ toDev = <<>>
        /\ ~late[t] /\ (pc[t] = "spoll" \/ result[t] = "stopped") => target = Off /\ toDev = <<>>

IInv == TypeOK /\ AnswersOK /\ CallsOK /\ MoveOK /\ StopOK /\ AloneOK

-----------------------------------------------------------------------------
(* Types.                                                                  *)

LEMMA Queues ==
    ASSUME NEW S, NEW q \in Seq(S)
    PROVE  /\ Len(q) \in Nat /\ DOMAIN q = 1..Len(q)
           /\ \A i \in DOMAIN q : q[i] \in S
           /\ \A e \in S : /\ Append(q, e) \in Seq(S) /\ Append(q, e) # <<>>
                          /\ DOMAIN Append(q, e) = 1..Len(q) + 1
                          /\ Len(Append(q, e)) = Len(q) + 1
                          /\ Append(q, e)[Len(q) + 1] = e
                          /\ \A i \in DOMAIN q : Append(q, e)[i] = q[i]
           /\ q # <<>> => /\ Len(q) > 0 /\ Head(q) = q[1] /\ Head(q) \in S
                          /\ Tail(q) \in Seq(S) /\ Len(Tail(q)) = Len(q) - 1
                          /\ DOMAIN Tail(q) = 1..Len(q) - 1
                          /\ \A i \in DOMAIN Tail(q) : Tail(q)[i] = q[i + 1]
  <1>1. Len(q) \in Nat /\ DOMAIN q = 1..Len(q) /\ \A i \in DOMAIN q : q[i] \in S
    BY LenProperties, ElementOfSeq
  <1>2. ASSUME NEW e \in S
        PROVE  /\ Append(q, e) \in Seq(S) /\ Append(q, e) # <<>>
               /\ DOMAIN Append(q, e) = 1..Len(q) + 1
               /\ Len(Append(q, e)) = Len(q) + 1
               /\ Append(q, e)[Len(q) + 1] = e
               /\ \A i \in DOMAIN q : Append(q, e)[i] = q[i]
    BY <1>1, AppendProperties
  <1>3. ASSUME q # <<>>
        PROVE  /\ Len(q) > 0 /\ Head(q) = q[1] /\ Head(q) \in S
               /\ Tail(q) \in Seq(S) /\ Len(Tail(q)) = Len(q) - 1
               /\ DOMAIN Tail(q) = 1..Len(q) - 1
               /\ \A i \in DOMAIN Tail(q) : Tail(q)[i] = q[i + 1]
    BY <1>1, <1>3, HeadTailProperties, EmptySeq, LenProperties
  <1> QED BY <1>1, <1>2, <1>3

LEMMA Nothing == DOMAIN <<>> = {} /\ \A S : <<>> \in Seq(S)
  OBVIOUS

LEMMA Kinds ==
    /\ Positions \subseteq Nat /\ Off \in Nat /\ Off \notin Positions
    /\ Commands = Positions \cup {Off}
    /\ \A a \in BOOLEAN, p \in Positions, s \in States :
          [abort |-> a, position |-> p, state |-> s] \in Vectors
    /\ \A v \in Vectors : v.abort \in BOOLEAN /\ v.position \in Positions /\ v.state \in States
  BY DEF Positions, Off, Commands, Vectors, States

LEMMA Published ==
    ASSUME TypeOK, NEW a \in BOOLEAN, NEW p \in Positions, NEW s \in States, Publish(a, p, s)
    PROVE  /\ toCli' \in Seq(Vectors)
           /\ AnswersOK /\ (a => s # "Busy") => AnswersOK'
  <1> DEFINE v == [abort |-> a, position |-> p, state |-> s]
  <1>1. v \in Vectors /\ v.abort = a /\ v.state = s
    BY Kinds
  <1>2. toCli' = Append(toCli, v) \/ toCli' = toCli
    BY DEF Publish
  <1>3. toCli \in Seq(Vectors)
    BY DEF TypeOK
  <1> HIDE DEF v
  <1> QED BY <1>1, <1>2, <1>3, Queues DEF AnswersOK

LEMMA InitTyped == Init => TypeOK /\ AnswersOK
  <1> SUFFICES ASSUME Init PROVE TypeOK /\ AnswersOK
    OBVIOUS
  <1>1. /\ 0 \in Positions /\ MaxPosition \in Positions /\ 0 \in 0..1
        /\ 0 \in 0..MaxMoves /\ 0 \in 0..MaxStops /\ 0 \in 0..MaxRejects
        /\ 0 \in 0..MaxLimits /\ 0 \in 0..MaxDrops
    BY DEF Positions
  <1>2. cache \in Vectors
    BY Kinds DEF Init, States
  <1>3. /\ toDev \in Seq(Commands) /\ toCli \in Seq(Vectors) /\ AnswersOK
    BY Queues, Nothing DEF Init, AnswersOK
  <1>4. /\ fresh \in [Threads -> BOOLEAN] /\ late \in [Threads -> BOOLEAN]
        /\ newer \in [Threads -> BOOLEAN] /\ shared \in [Threads -> BOOLEAN]
    BY DEF Init
  <1>5. /\ position \in Positions /\ target \in Commands /\ state \in States
        /\ lock \in Movers \cup {Free}
    BY Kinds DEF Init, States
  <1>6. /\ goal \in [Threads -> Positions] /\ stable \in [Threads -> 0..1]
        /\ previous \in [Threads -> Commands] /\ pc \in [Threads -> PCs]
        /\ result \in [Threads -> Results] /\ answer \in [Threads -> {"none", "Ok", "Alert"}]
    BY <1>1, Kinds DEF Init, PCs, Results
  <1>7. /\ moves \in [Movers -> 0..MaxMoves] /\ stops \in [Stoppers -> 0..MaxStops]
        /\ rejects \in 0..MaxRejects /\ limits \in 0..MaxLimits /\ drops \in 0..MaxDrops
    BY <1>1 DEF Init
  <1>8. link \in {"open", "failed"} /\ maximum \in Positions /\ cancel \in BOOLEAN
    BY <1>1 DEF Init
  <1> QED BY <1>2, <1>3, <1>4, <1>5, <1>6, <1>7, <1>8 DEF TypeOK

LEMMA DeviceTypes ==
    ASSUME TypeOK, AnswersOK, Device \/ DeviceRejectsTarget \/ DeviceRejectsAbort \/ DriverPolls
    PROVE  TypeOK' /\ AnswersOK'
  <1>1. CASE DeviceTakesTarget
    <2>1. toDev' \in Seq(Commands) /\ Head(toDev) \in Commands
      BY <1>1, Queues DEF DeviceTakesTarget, TypeOK
    <2>2. toCli' \in Seq(Vectors) /\ AnswersOK'
      BY <1>1, Published DEF DeviceTakesTarget, TypeOK, States
    <2> QED BY <1>1, <2>1, <2>2, Kinds
         DEF DeviceTakesTarget, TypeOK, client, locals, history, budgets, States
  <1>2. CASE DeviceAborts
    <2>1. toDev' \in Seq(Commands)
      BY <1>2, Queues DEF DeviceAborts, TypeOK
    <2>2. toCli' \in Seq(Vectors) /\ AnswersOK'
      BY <1>2, Published DEF DeviceAborts, TypeOK, States
    <2> QED BY <1>2, <2>1, <2>2, Kinds
         DEF DeviceAborts, TypeOK, client, locals, history, budgets, States
  <1>3. CASE DeviceTick
    <2>1. position' \in Positions /\ target' \in Commands /\ state' \in States
      BY <1>3 DEF DeviceTick, TypeOK, Positions, Commands, Off, States
    <2>2. toCli' \in Seq(Vectors) /\ AnswersOK'
      BY <1>3, <2>1, Published DEF DeviceTick
    <2> QED BY <1>3, <2>1, <2>2 DEF DeviceTick, TypeOK, client, locals, history, budgets
  <1>4. CASE DeviceRejectsTarget
    <2>1. toDev' \in Seq(Commands)
      BY <1>4, Queues DEF DeviceRejectsTarget, TypeOK
    <2>2. toCli' \in Seq(Vectors) /\ AnswersOK'
      BY <1>4, Published DEF DeviceRejectsTarget, TypeOK, States
    <2> QED BY <1>4, <2>1, <2>2
         DEF DeviceRejectsTarget, TypeOK, client, locals, history, States
  <1>5. CASE DeviceRejectsAbort
    <2>1. toDev' \in Seq(Commands)
      BY <1>5, Queues DEF DeviceRejectsAbort, TypeOK
    <2>2. toCli' \in Seq(Vectors) /\ AnswersOK'
      BY <1>5, Published DEF DeviceRejectsAbort, TypeOK, States
    <2> QED BY <1>5, <2>1, <2>2
         DEF DeviceRejectsAbort, TypeOK, device, client, locals, history
  <1>6. CASE DriverPolls
    <2>1. toCli' \in Seq(Vectors) /\ AnswersOK'
      BY <1>6, Published DEF DriverPolls, TypeOK
    <2> QED BY <1>6, <2>1 DEF DriverPolls, TypeOK, device, client, locals, history, budgets
  <1> QED BY <1>1, <1>2, <1>3, <1>4, <1>5, <1>6 DEF Device

LEMMA WorldTypes ==
    ASSUME TypeOK, AnswersOK, (\E n \in Positions : DriverMaximum(n)) \/ ConnectionDrops \/ ReaderRecords
    PROVE  TypeOK' /\ AnswersOK'
  <1>1. ASSUME NEW n \in Positions, DriverMaximum(n) PROVE TypeOK' /\ AnswersOK'
    BY <1>1 DEF DriverMaximum, TypeOK, AnswersOK, device, wire, locals, history
  <1>2. CASE ConnectionDrops
    <2>1. toCli' = <<>> /\ (toDev' = toDev \/ toDev' = <<>>)
      BY <1>2 DEF ConnectionDrops
    <2>3. toCli' \in Seq(Vectors) /\ toDev' \in Seq(Commands)
      <3>1. <<>> \in Seq(Vectors) /\ <<>> \in Seq(Commands)
        BY Nothing
      <3> QED BY <2>1, <3>1, Zenon DEF TypeOK
    <2>4. AnswersOK'
      BY <2>1, Nothing DEF AnswersOK
    <2>2. drops' \in 0..MaxDrops /\ link' \in {"open", "failed"}
      BY <1>2 DEF ConnectionDrops, TypeOK
    <2> QED BY <1>2, <2>2, <2>3, <2>4 DEF ConnectionDrops, TypeOK, device, client, locals, history
  <1>3. CASE ReaderRecords
    <2>1. toCli \in Seq(Vectors) /\ toCli # <<>> /\ toCli' = Tail(toCli)
      BY <1>3 DEF ReaderRecords, TypeOK
    <2>2. toCli' \in Seq(Vectors) /\ AnswersOK' /\ Head(toCli) \in Vectors
          /\ (Head(toCli).abort => Head(toCli).state # "Busy")
      BY <2>1, Queues DEF AnswersOK
    <2>3. Head(toCli).abort \in BOOLEAN /\ Head(toCli).state \in States
      BY <2>2, Kinds
    <2>4. cache' \in Vectors
      BY <1>3, <2>2, <2>3 DEF ReaderRecords, TypeOK
    <2>5. fresh' \in [Threads -> BOOLEAN]
      <3>1. fresh' = fresh \/ fresh' = [t \in Threads |-> pc[t] \in Watching]
        BY <1>3 DEF ReaderRecords
      <3>2. [t \in Threads |-> pc[t] \in Watching] \in [Threads -> BOOLEAN]
        OBVIOUS
      <3> QED BY <3>1, <3>2 DEF TypeOK
    <2>6. answer' \in [Threads -> {"none", "Ok", "Alert"}]
      BY <1>3, <2>2, <2>3 DEF ReaderRecords, TypeOK, States
    <2> QED BY <1>3, <2>2, <2>4, <2>5, <2>6 DEF ReaderRecords, TypeOK, device, locals, history, budgets
  <1> QED BY <1>1, <1>2, <1>3

-----------------------------------------------------------------------------
(* Steps of one thread that touch neither the wire nor what is remembered. *)

\* Thread t goes to l with result r.
Leads(t, l, r) ==
    /\ pc' = [pc EXCEPT ![t] = l]
    /\ result' = [result EXCEPT ![t] = r]
    /\ stable' \in [Threads -> 0 .. 1] /\ previous' \in [Threads -> Commands]
    /\ lock' \in Movers \cup {Free}

LEMMA ReturnLeads ==
    ASSUME TypeOK, NEW t \in Threads, NEW r, Return(t, r)
    PROVE  Leads(t, "idle", r)
  BY Kinds DEF TypeOK, Return, Leads, Jump

LEMMA FailsLeads ==
    ASSUME TypeOK, NEW t \in Threads, Fails(t)
    PROVE  Leads(t, "smark", result[t])
  BY DEF TypeOK, Fails, Leads, Jump

LEMMA JumpLeads ==
    ASSUME TypeOK, NEW t \in Threads, NEW l, Jump(t, l), UNCHANGED <<result, lock>>,
           stable' \in [Threads -> 0 .. 1], previous' \in [Threads -> Commands]
    PROVE  Leads(t, l, result[t])
  BY DEF TypeOK, Leads, Jump

LEMMA LocalStep ==
    ASSUME IInv, NEW t \in Threads, NEW l \in PCs, NEW r \in Results, Leads(t, l, r),
           UNCHANGED <<device, wire, cache, maximum, answer, goal, history, budgets>>,
           cancel' \in BOOLEAN, fresh' \in [Threads -> BOOLEAN],
           pc[t] # "idle", l # "idle" => r = "none", l \notin {"request", "ack"},
           l \in {"lock", "clear", "preflight", "baseline", "issue"} => late[t],
           l \in {"loop", "poll"} => pc[t] \in {"loop", "poll"},
           r = "reached" /\ ~late[t] => pc[t] \in {"loop", "poll"} /\ position = goal[t],
           l = "spoll" \/ r = "stopped" => pc[t] = "spoll" \/ (pc[t] = "ack" /\ answer[t] = "Ok")
    PROVE  IInv'
  <1> USE DEF device, wire, history, budgets
  <1>1. /\ pc'[t] = l /\ result'[t] = r
        /\ \A u \in Threads \ {t} : pc'[u] = pc[u] /\ result'[u] = result[u]
    BY DEF IInv, TypeOK, Leads
  <1>2. TypeOK' /\ AnswersOK'
    BY DEF IInv, TypeOK, AnswersOK, Leads
  <1>3. CallsOK'
    BY <1>1 DEF IInv, CallsOK
  <1>4. MoveOK'
    <2> SUFFICES ASSUME NEW u \in Movers, Sole(u)'
                 PROVE  NothingOld(goal[u])' /\ (result'[u] = "reached" => position' = goal'[u])
      BY DEF MoveOK
    <2>1. u \in Threads /\ result[t] = "none"
      BY DEF Threads, IInv, CallsOK
    <2>2. Sole(u) /\ (result'[u] = "reached" => (u = t /\ position = goal[t]) \/ result[u] = "reached")
      BY <1>1, <2>1 DEF Sole
    <2> QED BY <2>2 DEF IInv, MoveOK, NothingOld
  <1>5. StopOK'
    BY <1>1 DEF IInv, StopOK, Asked, Halted, Halting
  <1>6. AloneOK'
    BY <1>1 DEF IInv, AloneOK, Answered, Confirmed, Halting, AbortIn
  <1> QED BY <1>2, <1>3, <1>4, <1>5, <1>6 DEF IInv

\* What a step of a thread in a call finds.
LEMMA Running ==
    ASSUME IInv, NEW t \in Threads, pc[t] # "idle"
    PROVE  /\ result[t] = "none" /\ {"none", "reached", "failed", "stopped", "unstopped"} \subseteq Results
           /\ {"idle", "clear", "preflight", "baseline", "issue", "loop", "poll", "smark",
               "spoll"} \subseteq PCs
           /\ stable \in [Threads -> 0 .. 1] /\ previous \in [Threads -> Commands]
           /\ lock \in Movers \cup {Free} /\ TypeOK
           /\ cancel \in BOOLEAN /\ fresh \in [Threads -> BOOLEAN]
           /\ [fresh EXCEPT ![t] = FALSE] \in [Threads -> BOOLEAN]
  BY DEF IInv, CallsOK, TypeOK, Results, PCs

LEMMA LockStep ==
    ASSUME IInv, NEW t \in Movers, AcquireLock(t) \/ ClearCancel(t) \/ Baseline(t)
    PROVE  IInv'
  <1>1. t \in Threads
    BY DEF Threads
  <1>2. CASE AcquireLock(t)
    <2>1. Leads(t, "clear", "none")
      BY <1>1, <1>2, Running DEF AcquireLock, Jump, Leads, locals, TypeOK
    <2> QED BY <1>1, <1>2, <2>1, LocalStep, Running
         DEF AcquireLock, locals, IInv, CallsOK
  <1>3. CASE ClearCancel(t)
    <2>1. Leads(t, "preflight", "none")
      BY <1>1, <1>3, Running DEF ClearCancel, Jump, Leads, locals, TypeOK
    <2> QED BY <1>1, <1>3, <2>1, LocalStep, Running
         DEF ClearCancel, locals, IInv, CallsOK
  <1>4. CASE Baseline(t)
    <2>1. Leads(t, "issue", "none")
      BY <1>1, <1>4, Running DEF Baseline, Jump, Leads, locals, TypeOK
    <2> QED BY <1>1, <1>4, <2>1, LocalStep, Running
         DEF Baseline, Take, locals, IInv, CallsOK
  <1> QED BY <1>2, <1>3, <1>4

LEMMA PreflightStep == ASSUME IInv, NEW t \in Movers, Preflight(t) PROVE IInv'
  <1>1. t \in Threads /\ pc[t] = "preflight" /\ pc[t] # "idle"
    BY DEF Threads, Preflight
  <1>2. late[t]
    BY <1>1 DEF IInv, CallsOK
  <1>3. Leads(t, "baseline", "none") \/ Leads(t, "idle", "reached") \/ Leads(t, "idle", "failed")
    <2>1. Jump(t, "baseline") /\ UNCHANGED <<stable, previous, result, lock>>
          => Leads(t, "baseline", "none")
      BY <1>1, Running, JumpLeads
    <2> QED BY <1>1, <2>1, Running, ReturnLeads DEF Preflight
  <1> QED BY <1>1, <1>2, <1>3, LocalStep, Running DEF Preflight

LEMMA LoopStep ==
    ASSUME IInv, NEW t \in Movers, LoopTop(t) \/ Deadline(t) \/ PollSlice(t)
    PROVE  IInv'
  <1>1. t \in Threads /\ pc[t] \in {"loop", "poll"}
    BY DEF Threads, LoopTop, Deadline, PollSlice
  <1>2. Leads(t, "loop", "none") \/ Leads(t, "poll", "none") \/ Leads(t, "smark", "none")
    <2>1. CASE LoopTop(t)
      BY <1>1, <2>1, Running, JumpLeads, FailsLeads DEF LoopTop
    <2>2. CASE Deadline(t)
      BY <1>1, <2>2, Running, FailsLeads DEF Deadline
    <2>3. CASE PollSlice(t)
      BY <1>1, <2>3, Running, JumpLeads DEF PollSlice, client, locals
    <2> QED BY <2>1, <2>2, <2>3
  <1>3. UNCHANGED <<device, wire, cache, maximum, answer, goal, history, budgets, cancel, fresh>>
    BY DEF LoopTop, Deadline, PollSlice, client, locals
  <1> QED BY <1>1, <1>2, <1>3, LocalStep, Running

LEMMA PollStep == ASSUME IInv, NEW t \in Movers, Poll(t) PROVE IInv'
  <1>1. t \in Threads /\ pc[t] = "poll"
    BY DEF Threads, Poll
  <1> DEFINE polls == IF cache.position = goal[t] /\ cache.state = "Ok" THEN stable[t] + 1 ELSE 0
  <1>2. stable[t] \in 0..1 /\ polls \in 0..2
    BY <1>1, Running
  <1>3. Leads(t, "smark", "none") \/ (polls = 2 /\ Leads(t, "idle", "reached"))
        \/ Leads(t, "loop", "none")
    <2>1. CASE Fails(t)
      BY <1>1, <2>1, Running, FailsLeads
    <2>2. CASE polls = 2 /\ Return(t, "reached")
      BY <1>1, <2>2, Running, ReturnLeads
    <2>3. CASE /\ polls # 2 /\ Jump(t, "loop") /\ stable' = [stable EXCEPT ![t] = polls]
               /\ UNCHANGED <<previous, result, lock>>
      BY <1>1, <1>2, <2>3, Running, JumpLeads
    <2> QED BY <2>1, <2>2, <2>3 DEF Poll
  <1>4. polls = 2 /\ ~late[t] => position = goal[t]
    BY <1>1, <1>2 DEF IInv, MoveOK, Sole, NothingOld, RestsAt, CallsOK
  <1>5. UNCHANGED <<device, wire, cache, maximum, answer, goal, history, budgets, cancel>>
        /\ fresh' \in [Threads -> BOOLEAN]
    BY <1>1, Running DEF Poll, Take
  <1> HIDE DEF polls
  <1> QED BY <1>1, <1>3, <1>4, <1>5, LocalStep, Running

LEMMA StopLocalStep ==
    ASSUME IInv, NEW t \in Threads,
           SetCancel(t) \/ AwaitAbort(t) \/ StopDeadline(t) \/ StopPoll(t)
    PROVE  IInv'
  <1>1. CASE SetCancel(t)
    <2>1. Leads(t, "smark", "none")
      BY <1>1, Running, JumpLeads DEF SetCancel, locals
    <2> QED BY <1>1, <2>1, LocalStep, Running DEF SetCancel, locals
  <1>2. CASE AwaitAbort(t)
    <2>1. (answer[t] = "Ok" /\ Leads(t, "spoll", "none")) \/ Leads(t, "idle", "unstopped")
      BY <1>2, Running, JumpLeads, ReturnLeads DEF AwaitAbort, Unstopped
    <2> QED BY <1>2, <2>1, LocalStep, Running DEF AwaitAbort
  <1>3. CASE StopDeadline(t)
    <2>1. Leads(t, "idle", "unstopped")
      BY <1>3, Running, ReturnLeads DEF StopDeadline, Unstopped
    <2> QED BY <1>3, <2>1, LocalStep, Running DEF StopDeadline
  <1>4. CASE StopPoll(t)
    <2> DEFINE polls == IF cache.state = "Ok" /\ cache.position = previous[t]
                        THEN stable[t] + 1 ELSE 0
    <2>1. pc[t] = "spoll" /\ cache.position \in Commands
      BY <1>4, Kinds DEF StopPoll, IInv, TypeOK
    <2>2. stable[t] \in 0..1 /\ polls \in 0..2
      BY <2>1, Running
    <2>3. Leads(t, "idle", "unstopped") \/ Leads(t, "idle", "stopped") \/ Leads(t, "spoll", "none")
      <3>1. CASE Unstopped(t)
        BY <2>1, <3>1, Running, ReturnLeads DEF Unstopped
      <3>2. CASE Return(t, "stopped")
        BY <2>1, <3>2, Running, ReturnLeads
      <3>3. CASE /\ polls # 2 /\ stable' = [stable EXCEPT ![t] = polls]
                 /\ previous' = [previous EXCEPT ![t] = cache.position]
                 /\ UNCHANGED <<pc, result, lock>>
        BY <2>1, <2>2, <3>3, Running DEF Leads, TypeOK
      <3> QED BY <1>4, <3>1, <3>2, <3>3 DEF StopPoll
    <2>4. UNCHANGED <<device, wire, cache, maximum, answer, goal, history, budgets, cancel>>
          /\ fresh' \in [Threads -> BOOLEAN]
      BY <1>4, <2>1, Running DEF StopPoll, Take
    <2> QED BY <2>1, <2>3, <2>4, LocalStep, Running
  <1> QED BY <1>1, <1>2, <1>3, <1>4

-----------------------------------------------------------------------------
(* Steps of the device, the wire and the reader.                           *)

HaltOK == Halted \/ Halting \/ rejects > 0 \/ drops > 0

LEMMA WorldStep ==
    ASSUME IInv, TypeOK', AnswersOK', UNCHANGED <<pc, result, goal, late, shared>>,
           ~cache'.abort,
           \A n \in Positions : NothingOld(n) => NothingOld(n)' /\ (position = n => position' = n),
           HaltOK => HaltOK', AloneOK'
    PROVE  IInv'
  <1>1. CallsOK'
    BY DEF IInv, CallsOK
  <1>2. MoveOK'
    BY DEF IInv, TypeOK, MoveOK, Sole, Threads
  <1>3. StopOK'
    BY DEF IInv, StopOK, Asked, HaltOK
  <1> QED BY <1>1, <1>2, <1>3 DEF IInv

\* What a published vector adds to the wire.
LEMMA PublishStep ==
    ASSUME TypeOK, NEW a \in BOOLEAN, NEW p \in Positions, NEW s \in States, Publish(a, p, s)
    PROVE  /\ Answered' => Answered \/ a
           /\ Confirmed' => Confirmed \/ (a /\ s = "Ok")
           /\ \A n : (\E i \in DOMAIN toCli' : RestsAt(toCli'[i], n))
                   => (\E i \in DOMAIN toCli : RestsAt(toCli[i], n)) \/ (~a /\ p = n /\ s = "Ok")
  <1> DEFINE v == [abort |-> a, position |-> p, state |-> s]
  <1>1. v \in Vectors /\ v.abort = a /\ v.position = p /\ v.state = s
    BY Kinds
  <1>2. toCli' = Append(toCli, v) \/ toCli' = toCli
    BY DEF Publish
  <1>3. toCli \in Seq(Vectors)
    BY DEF TypeOK
  <1> HIDE DEF v
  <1>4. \A i \in DOMAIN toCli' : toCli'[i] = v \/ (i \in DOMAIN toCli /\ toCli'[i] = toCli[i])
    BY <1>1, <1>2, <1>3, Queues
  <1> QED BY <1>1, <1>4 DEF Answered, Confirmed, RestsAt

\* What a command that the device takes leaves of the queue.
LEMMA TakeStep ==
    ASSUME TypeOK, toDev # <<>>, toDev' = Tail(toDev)
    PROVE  /\ Head(toDev) = toDev[1] /\ 1 \in DOMAIN toDev /\ Head(toDev) \in Commands
           /\ \A i \in DOMAIN toDev' : i + 1 \in DOMAIN toDev /\ toDev'[i] = toDev[i + 1]
           /\ AbortIn(toDev') => AbortIn(toDev)
           /\ Head(toDev) = Off => AbortIn(toDev)
           /\ Halting => Halting' \/ (toDev' = <<>> /\ Head(toDev) = Off)
           /\ (\A i, j \in DOMAIN toDev : toDev[i] = Off /\ toDev[j] = Off => i = j)
              => /\ \A i, j \in DOMAIN toDev' : toDev'[i] = Off /\ toDev'[j] = Off => i = j
                 /\ Head(toDev) = Off => ~AbortIn(toDev')
                 /\ Head(toDev) = Off /\ Halting => toDev' = <<>>
  <1>1. toDev \in Seq(Commands)
    BY DEF TypeOK
  <1>2. /\ Len(toDev) \in Nat /\ Len(toDev) > 0 /\ DOMAIN toDev = 1..Len(toDev)
        /\ Head(toDev) = toDev[1] /\ Head(toDev) \in Commands
        /\ toDev' \in Seq(Commands) /\ Len(toDev') = Len(toDev) - 1
        /\ DOMAIN toDev' = 1..Len(toDev) - 1
        /\ \A i \in DOMAIN toDev' : toDev'[i] = toDev[i + 1]
    BY <1>1, Queues
  <1>3. \A i \in DOMAIN toDev' : i \in Nat /\ i + 1 \in DOMAIN toDev /\ i + 1 # 1
    BY <1>2
  <1>4. Len(toDev) = 1 => toDev' = <<>>
    BY <1>2, EmptySeq
  <1>5. Len(toDev) # 1 => toDev' # <<>> /\ toDev'[Len(toDev')] = toDev[Len(toDev)]
    BY <1>2, EmptySeq
  <1>6. AbortIn(toDev') => AbortIn(toDev)
    BY <1>2, <1>3 DEF AbortIn
  <1>7. Halting => Halting' \/ (toDev' = <<>> /\ Head(toDev) = Off)
    BY <1>2, <1>4, <1>5 DEF Halting
  <1>8. 1 \in DOMAIN toDev /\ Len(toDev) \in DOMAIN toDev
    BY <1>2
  <1>9. ASSUME \A i, j \in DOMAIN toDev : toDev[i] = Off /\ toDev[j] = Off => i = j
        PROVE  /\ \A i, j \in DOMAIN toDev' : toDev'[i] = Off /\ toDev'[j] = Off => i = j
               /\ Head(toDev) = Off => ~AbortIn(toDev')
               /\ Head(toDev) = Off /\ Halting => toDev' = <<>>
    <2>1. ASSUME NEW i \in DOMAIN toDev', NEW j \in DOMAIN toDev', toDev'[i] = Off, toDev'[j] = Off
          PROVE  i = j
      <3>1. i + 1 = j + 1
        BY <1>2, <1>3, <1>9, <2>1
      <3> QED BY <1>3, <3>1
    <2>2. Head(toDev) = Off => ~AbortIn(toDev')
      BY <1>2, <1>3, <1>8, <1>9 DEF AbortIn
    <2>3. Head(toDev) = Off /\ Halting => toDev' = <<>>
      BY <1>2, <1>4, <1>8, <1>9 DEF Halting
    <2> QED BY <2>1, <2>2, <2>3
  <1> QED BY <1>2, <1>3, <1>6, <1>7, <1>8, <1>9 DEF AbortIn

LEMMA TargetStep == ASSUME IInv, DeviceTakesTarget \/ DeviceRejectsTarget PROVE IInv'
  <1>1. TypeOK /\ TypeOK' /\ AnswersOK'
    BY DeviceTypes DEF IInv, Device
  <1>2. /\ toDev # <<>> /\ toDev' = Tail(toDev) /\ Head(toDev) # Off
        /\ UNCHANGED <<position, pc, cache, answer, result, goal, late, shared, drops>>
        /\ \/ target' = Head(toDev) /\ rejects' = rejects
           \/ target' = target /\ rejects' = rejects + 1
    BY DEF DeviceTakesTarget, DeviceRejectsTarget, client, locals, history, budgets
  <1>3. Publish(FALSE, position, "Busy") \/ Publish(FALSE, position, "Alert")
    BY DEF DeviceTakesTarget, DeviceRejectsTarget
  <1>4. position \in Positions /\ rejects \in Nat /\ {"Busy", "Alert"} \subseteq States
    BY <1>1 DEF TypeOK, States
  <1>5. /\ Answered' => Answered
        /\ Confirmed' => Confirmed
        /\ \A n : (\E i \in DOMAIN toCli' : RestsAt(toCli'[i], n))
                => (\E i \in DOMAIN toCli : RestsAt(toCli[i], n))
    BY <1>1, <1>3, <1>4, PublishStep
  <1>6. \A n \in Positions : NothingOld(n) => NothingOld(n)' /\ (position = n => position' = n)
    BY <1>1, <1>2, <1>5, TakeStep DEF NothingOld
  <1>7. HaltOK => HaltOK'
    BY <1>1, <1>2, <1>4, TakeStep DEF HaltOK, Halted
  <1>8. AloneOK'
    BY <1>1, <1>2, <1>5, TakeStep DEF IInv, AloneOK
  <1> QED BY <1>1, <1>2, <1>6, <1>7, <1>8, WorldStep DEF IInv, CallsOK

LEMMA AbortStep == ASSUME IInv, DeviceAborts \/ DeviceRejectsAbort PROVE IInv'
  <1>1. TypeOK /\ TypeOK' /\ AnswersOK'
    BY DeviceTypes DEF IInv, Device
  <1>2. /\ toDev # <<>> /\ toDev' = Tail(toDev) /\ Head(toDev) = Off
        /\ UNCHANGED <<position, pc, cache, answer, result, goal, late, shared, drops>>
        /\ \/ target' = Off /\ rejects' = rejects /\ Publish(TRUE, position, "Ok")
           \/ target' = target /\ rejects' = rejects + 1 /\ Publish(TRUE, position, "Alert")
    BY DEF DeviceAborts, DeviceRejectsAbort, device, client, locals, history, budgets
  <1>3. position \in Positions /\ rejects \in Nat /\ {"Ok", "Alert"} \subseteq States
    BY <1>1 DEF TypeOK, States
  <1>4. /\ Confirmed' => Confirmed \/ target' = Off
        /\ \A n : (\E i \in DOMAIN toCli' : RestsAt(toCli'[i], n))
                => (\E i \in DOMAIN toCli : RestsAt(toCli[i], n))
    BY <1>1, <1>2, <1>3, PublishStep
  <1>5. \A n \in Positions : NothingOld(n) => NothingOld(n)' /\ (position = n => position' = n)
    BY <1>1, <1>2, <1>4, TakeStep DEF NothingOld
  <1>6. HaltOK => HaltOK'
    <2>1. CASE target' = Off /\ rejects' = rejects
      <3>1. Halted => Halted'
        BY <1>1, <1>2, <2>1, TakeStep DEF Halted
      <3>2. Halting => Halting' \/ Halted'
        BY <1>1, <1>2, <2>1, TakeStep, Nothing DEF Halted
      <3> QED BY <1>2, <2>1, <3>1, <3>2 DEF HaltOK
    <2>2. CASE rejects' = rejects + 1
      BY <1>3, <2>2 DEF HaltOK
    <2> QED BY <1>2, <2>1, <2>2
  <1>7. AloneOK'
    <2> SUFFICES ASSUME NEW t \in Threads, ~shared[t]
                 PROVE  /\ pc[t] # "request"
                        /\ pc[t] = "ack" =>
                              /\ \A i, j \in DOMAIN toDev' :
                                    toDev'[i] = Off /\ toDev'[j] = Off => i = j
                              /\ ~AbortIn(toDev')
                        /\ pc[t] = "ack" /\ ~late[t] =>
                              (Confirmed' \/ answer[t] = "Ok" => target' = Off /\ toDev' = <<>>)
                        /\ ~(~late[t] /\ (pc[t] = "spoll" \/ result[t] = "stopped"))
      BY <1>2 DEF AloneOK
    <2>1. AbortIn(toDev)
      BY <1>1, <1>2, TakeStep
    <2>2. pc[t] # "request"
      BY <2>1 DEF IInv, AloneOK
    <2>3. ~(~late[t] /\ (pc[t] = "spoll" \/ result[t] = "stopped"))
      BY <1>2 DEF IInv, AloneOK
    <2>4. ASSUME pc[t] = "ack"
          PROVE  /\ \A i, j \in DOMAIN toDev' : toDev'[i] = Off /\ toDev'[j] = Off => i = j
                 /\ ~AbortIn(toDev')
      BY <1>1, <1>2, <2>4, TakeStep DEF IInv, AloneOK
    <2>5. ASSUME pc[t] = "ack", ~late[t]
          PROVE  Confirmed' \/ answer[t] = "Ok" => target' = Off /\ toDev' = <<>>
      <3>1. ~Answered /\ answer[t] = "none" /\ Halting
            /\ \A i, j \in DOMAIN toDev : toDev[i] = Off /\ toDev[j] = Off => i = j
        BY <2>1, <2>5 DEF IInv, AloneOK
      <3>2. ~Confirmed
        BY <3>1 DEF Answered, Confirmed
      <3>3. toDev' = <<>>
        BY <1>1, <1>2, <3>1, TakeStep
      <3> QED BY <1>4, <3>1, <3>2, <3>3
    <2> QED BY <2>2, <2>3, <2>4, <2>5
  <1> QED BY <1>1, <1>2, <1>5, <1>6, <1>7, WorldStep DEF IInv, CallsOK

LEMMA TickStep == ASSUME IInv, DeviceTick \/ DriverPolls PROVE IInv'
  <1>1. TypeOK /\ TypeOK' /\ AnswersOK'
    BY DeviceTypes DEF IInv, Device
  <1>2. /\ Publish(FALSE, position', state')
        /\ UNCHANGED <<toDev, pc, cache, answer, result, goal, late, shared, rejects, drops>>
        /\ \/ UNCHANGED <<position, target>>
           \/ /\ target # Off /\ target' \in {target, Off}
              /\ target = position => position' = position
    <2>1. CASE DriverPolls
      <3>1. /\ Publish(FALSE, position, state) /\ position' = position /\ state' = state
            /\ target' = target
        BY <2>1 DEF DriverPolls, device
      <3> QED BY <2>1, <3>1 DEF DriverPolls, client, locals, history, budgets
    <2>2. CASE DeviceTick
      <3>1. position \in Nat /\ target \in Nat
        BY <1>1, Kinds DEF TypeOK
      <3>2. target # Off /\ target' \in {target, Off} /\ (target = position => position' = position)
        BY <2>2, <3>1 DEF DeviceTick
      <3> QED BY <2>2, <3>2 DEF DeviceTick, client, locals, history, budgets
    <2> QED BY <2>1, <2>2
  <1>3. position' \in Positions /\ state' \in States
    BY <1>1 DEF TypeOK
  <1>4. /\ Answered' => Answered
        /\ Confirmed' => Confirmed
        /\ \A n : (\E i \in DOMAIN toCli' : RestsAt(toCli'[i], n))
                => (\E i \in DOMAIN toCli : RestsAt(toCli[i], n)) \/ position' = n
    BY <1>1, <1>2, <1>3, PublishStep
  <1>5. \A n \in Positions : NothingOld(n) => NothingOld(n)' /\ (position = n => position' = n)
    BY <1>2, <1>4 DEF NothingOld
  <1>6. HaltOK => HaltOK'
    BY <1>2 DEF HaltOK, Halted, Halting
  <1>7. AloneOK'
    BY <1>2, <1>4 DEF IInv, AloneOK, Halting
  <1> QED BY <1>1, <1>2, <1>5, <1>6, <1>7, WorldStep DEF IInv, CallsOK

LEMMA MaximumStep == ASSUME IInv, NEW n \in Positions, DriverMaximum(n) PROVE IInv'
  <1>1. TypeOK' /\ AnswersOK'
    BY WorldTypes DEF IInv
  <1>2. UNCHANGED <<device, wire, cache, answer, pc, result, goal, late, shared, rejects, drops>>
    BY DEF DriverMaximum, locals, history
  <1>3. AloneOK'
    BY <1>2 DEF IInv, AloneOK, Answered, Confirmed, Halting, device, wire
  <1>4. HaltOK => HaltOK'
    BY <1>2 DEF HaltOK, Halted, Halting, device, wire
  <1>5. \A m \in Positions : NothingOld(m) => NothingOld(m)' /\ (position = m => position' = m)
    BY <1>2 DEF NothingOld, device, wire
  <1> QED BY <1>1, <1>2, <1>3, <1>4, <1>5, WorldStep DEF IInv, CallsOK

LEMMA DropStep == ASSUME IInv, ConnectionDrops PROVE IInv'
  <1>1. TypeOK' /\ AnswersOK' /\ TypeOK
    BY WorldTypes DEF IInv
  <1>2. /\ toCli' = <<>> /\ toDev' \in {toDev, <<>>} /\ drops' = drops + 1
        /\ UNCHANGED <<device, cache, answer, pc, result, goal, late, shared, rejects>>
    BY DEF ConnectionDrops, client, locals, history
  <1>3. ~Answered' /\ ~Confirmed' /\ (AbortIn(toDev') => AbortIn(toDev) /\ toDev' = toDev)
    BY <1>2, Nothing DEF Answered, Confirmed, AbortIn
  <1>4. AloneOK'
    <2>1. \A i, j \in DOMAIN toDev' :
              (\A k, l \in DOMAIN toDev : toDev[k] = Off /\ toDev[l] = Off => k = l)
              /\ toDev'[i] = Off /\ toDev'[j] = Off => i = j
      BY <1>2, Nothing
    <2> QED BY <1>2, <1>3, <2>1 DEF IInv, AloneOK, Halting, device
  <1>5. HaltOK'
    BY <1>1, <1>2 DEF HaltOK, TypeOK
  <1>6. \A n \in Positions : NothingOld(n) => NothingOld(n)' /\ (position = n => position' = n)
    BY <1>2, Nothing DEF NothingOld, device
  <1> QED BY <1>1, <1>2, <1>4, <1>5, <1>6, WorldStep DEF IInv, CallsOK

LEMMA ReaderStep == ASSUME IInv, ReaderRecords PROVE IInv'
  <1>1. TypeOK' /\ AnswersOK' /\ TypeOK
    BY WorldTypes DEF IInv
  <1>2. /\ toCli # <<>> /\ toCli' = Tail(toCli)
        /\ UNCHANGED <<device, toDev, pc, result, goal, late, shared, rejects, drops>>
    BY DEF ReaderRecords, locals, history, budgets
  <1>3. toCli \in Seq(Vectors)
    BY <1>1 DEF TypeOK
  <1>4. /\ Head(toCli) = toCli[1] /\ 1 \in DOMAIN toCli
        /\ \A i \in DOMAIN toCli' : i + 1 \in DOMAIN toCli /\ toCli'[i] = toCli[i + 1]
    BY <1>2, <1>3, Queues
  <1>5. /\ Answered' => Answered
        /\ Confirmed' => Confirmed
        /\ \A n : (\E i \in DOMAIN toCli' : RestsAt(toCli'[i], n))
                => (\E i \in DOMAIN toCli : RestsAt(toCli[i], n))
    BY <1>4 DEF Answered, Confirmed
  <1>6. ~cache'.abort /\ (cache' = cache \/ cache' = Head(toCli))
    BY DEF ReaderRecords, IInv, CallsOK
  <1>7. \A n \in Positions : NothingOld(n) => NothingOld(n)' /\ (position = n => position' = n)
    BY <1>2, <1>4, <1>5, <1>6 DEF NothingOld, device
  <1>8. HaltOK => HaltOK'
    BY <1>2 DEF HaltOK, Halted, Halting, device
  <1>9. ASSUME NEW t \in Threads
        PROVE  \/ answer'[t] = answer[t]
               \/ answer'[t] = "none"
               \/ Answered /\ (answer'[t] = "Ok" => Confirmed)
    BY <1>4 DEF ReaderRecords, Answered, Confirmed
  <1>10. AloneOK'
    BY <1>2, <1>5, <1>9 DEF IInv, AloneOK, Halting, device
  <1> QED BY <1>1, <1>2, <1>6, <1>7, <1>8, <1>10, WorldStep

-----------------------------------------------------------------------------
(* Calls, and the commands they send.                                      *)

LEMMA CallMoveStep ==
    ASSUME IInv, NEW t \in Movers, NEW n \in Positions, CallMove(t, n)
    PROVE  IInv'
  <1>1. t \in Threads /\ pc[t] = "idle" /\ TypeOK
    BY DEF Threads, CallMove, IInv
  <1>2. /\ UNCHANGED <<device, wire, client, shared, rejects, drops>>
        /\ pc' = [pc EXCEPT ![t] = "lock"] /\ result' = [result EXCEPT ![t] = "none"]
        /\ late' = [late EXCEPT ![t] = TRUE] /\ goal' = [goal EXCEPT ![t] = n]
    BY DEF CallMove, Jump
  <1>3. TypeOK' /\ AnswersOK'
    <2>1. moves' \in [Movers -> 0 .. MaxMoves]
      BY <1>1 DEF CallMove, TypeOK
    <2>2. pc' \in [Threads -> PCs] /\ result' \in [Threads -> Results]
          /\ goal' \in [Threads -> Positions]
      BY <1>1, <1>2 DEF TypeOK, PCs, Results
    <2>3. late' \in [Threads -> BOOLEAN]
      BY <1>1, <1>2 DEF TypeOK
    <2>4. newer' \in [Threads -> BOOLEAN]
      BY DEF CallMove
    <2> QED BY <1>1, <2>1, <2>2, <2>3, <2>4
         DEF CallMove, TypeOK, device, wire, client, IInv, AnswersOK
  <1>4. /\ pc'[t] = "lock" /\ result'[t] = "none" /\ late'[t]
        /\ \A u \in Threads \ {t} : /\ pc'[u] = pc[u] /\ result'[u] = result[u]
                                 /\ late'[u] = late[u] /\ goal'[u] = goal[u]
    BY <1>1, <1>2 DEF TypeOK
  <1>5. CallsOK'
    BY <1>2, <1>4 DEF IInv, CallsOK, client
  <1>6. MoveOK'
    BY <1>2, <1>4 DEF IInv, MoveOK, Sole, NothingOld, Threads, device, wire, client
  <1>7. StopOK'
    BY <1>2, <1>4 DEF IInv, StopOK, Asked, Halted, Halting, device, wire
  <1>8. AloneOK'
    BY <1>2, <1>4 DEF IInv, AloneOK, Answered, Confirmed, Halting, device, wire, client
  <1> QED BY <1>3, <1>5, <1>6, <1>7, <1>8 DEF IInv

LEMMA CallStopStep == ASSUME IInv, NEW t \in Stoppers, CallStop(t) PROVE IInv'
  <1>1. t \in Threads /\ pc[t] = "idle" /\ TypeOK
    BY DEF Threads, CallStop, IInv
  <1>2. /\ UNCHANGED <<device, wire, client, goal, shared, rejects, drops>>
        /\ pc' = [pc EXCEPT ![t] = "cancel"] /\ result' = [result EXCEPT ![t] = "none"]
        /\ late' = [late EXCEPT ![t] = FALSE]
    BY DEF CallStop, Jump
  <1>3. TypeOK' /\ AnswersOK'
    <2>1. stops' \in [Stoppers -> 0 .. MaxStops]
      BY <1>1 DEF CallStop, TypeOK
    <2>2. pc' \in [Threads -> PCs] /\ result' \in [Threads -> Results]
      BY <1>1, <1>2 DEF TypeOK, PCs, Results
    <2>3. late' \in [Threads -> BOOLEAN] /\ newer' \in [Threads -> BOOLEAN]
      BY <1>1 DEF CallStop, TypeOK
    <2> QED BY <1>1, <2>1, <2>2, <2>3
         DEF CallStop, TypeOK, device, wire, client, IInv, AnswersOK
  <1>4. /\ pc'[t] = "cancel" /\ result'[t] = "none"
        /\ \A u \in Threads \ {t} : /\ pc'[u] = pc[u] /\ result'[u] = result[u]
                                 /\ late'[u] = late[u]
    BY <1>1, <1>2 DEF TypeOK
  <1>5. CallsOK'
    BY <1>2, <1>4 DEF IInv, CallsOK, client
  <1>6. MoveOK'
    BY <1>2, <1>4 DEF IInv, MoveOK, Sole, NothingOld, Threads, device, wire, client
  <1>7. StopOK'
    BY <1>2, <1>4 DEF IInv, StopOK, Asked, Halted, Halting, device, wire
  <1>8. AloneOK'
    BY <1>2, <1>4 DEF IInv, AloneOK, Answered, Confirmed, Halting, device, wire, client
  <1> QED BY <1>3, <1>5, <1>6, <1>7, <1>8 DEF IInv

LEMMA StopBaselineStep == ASSUME IInv, NEW t \in Threads, StopBaseline(t) PROVE IInv'
  <1>1. pc[t] = "smark" /\ TypeOK /\ result[t] = "none"
    BY DEF StopBaseline, IInv, CallsOK
  <1>2. /\ UNCHANGED <<device, wire, cache, locals, rejects, drops>>
        /\ pc' = [pc EXCEPT ![t] = "request"] /\ answer' = [answer EXCEPT ![t] = "none"]
        /\ late' \in {late, [late EXCEPT ![t] = FALSE]}
        /\ shared' = [shared EXCEPT ![t] = AbortIn(toDev) \/ Answered]
    BY DEF StopBaseline, Jump, budgets, Answered
  <1>3. TypeOK' /\ AnswersOK'
    <2>1. pc' \in [Threads -> PCs] /\ answer' \in [Threads -> {"none", "Ok", "Alert"}]
      BY <1>1, <1>2 DEF TypeOK, PCs
    <2>2. fresh' \in [Threads -> BOOLEAN] /\ late' \in [Threads -> BOOLEAN]
      BY <1>1, <1>2 DEF StopBaseline, Take, TypeOK
    <2>3. shared' \in [Threads -> BOOLEAN]
      <3>1. (AbortIn(toDev) \/ Answered) \in BOOLEAN
        OBVIOUS
      <3> QED BY <1>1, <1>2, <3>1 DEF TypeOK
    <2> QED BY <1>1, <2>1, <2>2, <2>3
         DEF StopBaseline, TypeOK, device, wire, locals, budgets, IInv, AnswersOK
  <1>4. /\ pc'[t] = "request" /\ answer'[t] = "none"
        /\ \A u \in Threads \ {t} : /\ pc'[u] = pc[u] /\ answer'[u] = answer[u]
                                 /\ late'[u] = late[u] /\ shared'[u] = shared[u]
        /\ shared'[t] = (AbortIn(toDev) \/ Answered)
    BY <1>1, <1>2 DEF TypeOK
  <1>5. UNCHANGED <<result, goal, position, target, toDev, toCli>>
        /\ UNCHANGED <<Answered, Confirmed, Halting, Halted>>
    BY <1>2 DEF locals, device, wire, Answered, Confirmed, Halting, Halted
  <1>6. CallsOK'
    BY <1>1, <1>2, <1>4, <1>5 DEF IInv, CallsOK
  <1>7. MoveOK'
    BY <1>1, <1>2, <1>4, <1>5 DEF IInv, MoveOK, Sole, NothingOld, Threads
  <1>8. StopOK'
    BY <1>1, <1>2, <1>4, <1>5 DEF IInv, StopOK, Asked
  <1>9. AloneOK'
    BY <1>1, <1>4, <1>5 DEF IInv, AloneOK
  <1> QED BY <1>3, <1>6, <1>7, <1>8, <1>9 DEF IInv

\* What a command that is sent adds to the queue.
LEMMA SendStep ==
    ASSUME TypeOK, NEW c \in Commands, toDev' = Append(toDev, c)
    PROVE  /\ toDev' \in Seq(Commands) /\ toDev' # <<>>
           /\ \A i \in DOMAIN toDev' : toDev'[i] = c \/ (i \in DOMAIN toDev /\ toDev'[i] = toDev[i])
           /\ c # Off => /\ AbortIn(toDev') => AbortIn(toDev)
                         /\ \A i \in DOMAIN toDev' : toDev'[i] = Off =>
                               i \in DOMAIN toDev /\ toDev[i] = Off
           /\ c = Off => /\ Halting'
                         /\ ~AbortIn(toDev) =>
                               \A i, j \in DOMAIN toDev' : toDev'[i] = Off /\ toDev'[j] = Off => i = j
  <1>1. toDev \in Seq(Commands)
    BY DEF TypeOK
  <1>2. /\ Len(toDev) \in Nat /\ DOMAIN toDev = 1..Len(toDev)
        /\ toDev' \in Seq(Commands) /\ toDev' # <<>> /\ Len(toDev') = Len(toDev) + 1
        /\ DOMAIN toDev' = 1..Len(toDev) + 1 /\ toDev'[Len(toDev) + 1] = c
        /\ \A i \in DOMAIN toDev : toDev'[i] = toDev[i]
    BY <1>1, Queues
  <1>3. \A i \in DOMAIN toDev' : i = Len(toDev) + 1 \/ i \in DOMAIN toDev
    BY <1>2
  <1> QED BY <1>2, <1>3 DEF AbortIn, Halting

LEMMA RequestStep == ASSUME IInv, NEW t \in Threads, RequestAbort(t) PROVE IInv'
  <1>1. pc[t] = "request" /\ TypeOK /\ result[t] = "none"
    BY DEF RequestAbort, IInv, CallsOK
  <1>2. /\ UNCHANGED <<device, toCli, link, cache, maximum, cancel, fresh, answer, goal,
                       late, newer, budgets>>
        /\ shared' = [u \in Threads |-> shared[u] \/ u # t]
    BY DEF RequestAbort
  <1>3. shared' \in [Threads -> BOOLEAN]
    <2>1. \A u \in Threads : (shared[u] \/ u # t) \in BOOLEAN
      OBVIOUS
    <2> QED BY <1>2, <2>1
  <1>4. \A u \in Threads : ~shared'[u] => u = t /\ ~shared[t]
    BY <1>1, <1>2 DEF TypeOK
  <1>5. CASE link = "open"
    <2>1. /\ toDev' = Append(toDev, Off) /\ pc' = [pc EXCEPT ![t] = "ack"]
          /\ UNCHANGED <<stable, previous, result, lock>>
      BY <1>5 DEF RequestAbort, Jump
    <2>2. /\ pc'[t] = "ack" /\ \A u \in Threads \ {t} : pc'[u] = pc[u]
          /\ pc' \in [Threads -> PCs]
      BY <1>1, <2>1 DEF TypeOK, PCs
    <2>3. TypeOK' /\ AnswersOK'
      BY <1>1, <1>2, <1>3, <2>1, <2>2, Kinds, SendStep
         DEF TypeOK, device, budgets, IInv, AnswersOK
    <2>4. CallsOK'
      BY <1>1, <1>2, <2>1, <2>2 DEF IInv, CallsOK
    <2>5. MoveOK'
      <3>1. \A n : NothingOld(n) => NothingOld(n)'
        BY <1>1, <1>2, <2>1, Kinds, SendStep DEF NothingOld, device
      <3>2. \A u \in Movers : Sole(u)' => Sole(u) /\ u \in Threads
        BY <1>1, <1>2, <2>1, <2>2 DEF Sole, Threads
      <3> QED BY <1>2, <2>1, <3>1, <3>2 DEF IInv, MoveOK, device
    <2>6. StopOK'
      BY <1>1, <2>1, Kinds, SendStep DEF StopOK
    <2>7. AloneOK'
      <3>1. ~shared[t] => ~AbortIn(toDev) /\ ~Answered /\ answer[t] = "none" /\ ~Confirmed
        BY <1>1 DEF IInv, AloneOK, Answered, Confirmed
      <3>2. (Answered' <=> Answered) /\ (Confirmed' <=> Confirmed)
        BY <1>2 DEF Answered, Confirmed
      <3>3. Halting' /\ (~AbortIn(toDev) =>
               \A i, j \in DOMAIN toDev' : toDev'[i] = Off /\ toDev'[j] = Off => i = j)
        BY <1>1, <2>1, Kinds, SendStep
      <3> QED BY <1>1, <1>2, <1>4, <2>1, <2>2, <3>1, <3>2, <3>3 DEF AloneOK
    <2> QED BY <2>3, <2>4, <2>5, <2>6, <2>7 DEF IInv
  <1>6. CASE link # "open"
    <2>1. Return(t, "unstopped") /\ toDev' = toDev
      BY <1>6 DEF RequestAbort, Unstopped
    <2>2. Leads(t, "idle", "unstopped")
      BY <1>1, <2>1, ReturnLeads
    <2>3. /\ pc'[t] = "idle" /\ result'[t] = "unstopped" /\ pc' \in [Threads -> PCs]
          /\ result' \in [Threads -> Results]
          /\ \A u \in Threads \ {t} : pc'[u] = pc[u] /\ result'[u] = result[u]
      BY <1>1, <2>2 DEF TypeOK, PCs, Results, Leads
    <2>4. TypeOK' /\ AnswersOK'
      BY <1>1, <1>2, <1>3, <2>1, <2>2, <2>3 DEF TypeOK, Leads, device, budgets, IInv, AnswersOK
    <2>5. CallsOK'
      BY <1>1, <1>2, <2>3 DEF IInv, CallsOK
    <2>6. MoveOK'
      BY <1>1, <1>2, <2>1, <2>3 DEF IInv, MoveOK, Sole, NothingOld, Threads, device
    <2>7. StopOK'
      BY <1>1, <1>2, <2>1, <2>3 DEF IInv, StopOK, Asked, Halted, Halting, device, budgets
    <2>8. AloneOK'
      BY <1>4, <2>3 DEF AloneOK
    <2> QED BY <2>4, <2>5, <2>6, <2>7, <2>8 DEF IInv
  <1> QED BY <1>5, <1>6

LEMMA IssueStep == ASSUME IInv, NEW t \in Movers, IssueTarget(t) PROVE IInv'
  <1>1. /\ t \in Threads /\ pc[t] = "issue" /\ TypeOK /\ result[t] = "none"
        /\ goal[t] \in Commands /\ goal[t] # Off
    BY Kinds DEF IssueTarget, IInv, CallsOK, Threads, TypeOK
  <1>2. UNCHANGED <<device, toCli, link, cache, maximum, cancel, fresh, answer, goal,
                    newer, shared, budgets>>
    BY DEF IssueTarget
  <1>3. CASE link = "open"
    <2>1. /\ toDev' = Append(toDev, goal[t]) /\ pc' = [pc EXCEPT ![t] = "loop"]
          /\ late' = [u \in Threads |-> u = t => ~NothingOld(goal[t])]
          /\ UNCHANGED <<stable, previous, result, lock>>
      BY <1>3 DEF IssueTarget, Jump
    <2>2. /\ pc'[t] = "loop" /\ \A u \in Threads \ {t} : pc'[u] = pc[u]
          /\ pc' \in [Threads -> PCs]
      BY <1>1, <2>1 DEF TypeOK, PCs
    <2>3. \A u \in Threads : ~late'[u] => u = t /\ NothingOld(goal[t])
      BY <2>1
    <2>4. late' \in [Threads -> BOOLEAN]
      <3>1. \A u \in Threads : (u = t => ~NothingOld(goal[t])) \in BOOLEAN
        OBVIOUS
      <3> QED BY <2>1, <3>1
    <2>5. TypeOK' /\ AnswersOK'
      BY <1>1, <1>2, <2>1, <2>2, <2>4, SendStep
         DEF TypeOK, device, budgets, IInv, AnswersOK
    <2>6. CallsOK'
      BY <1>1, <1>2, <2>1, <2>2, <2>3 DEF IInv, CallsOK
    <2>7. MoveOK'
      <3>1. NothingOld(goal[t]) => NothingOld(goal[t])'
        BY <1>1, <1>2, <2>1, SendStep DEF NothingOld, device
      <3>2. ASSUME NEW u \in Movers, Sole(u)' PROVE u = t
        BY <2>3, <3>2 DEF Sole, Threads
      <3> QED BY <1>1, <1>2, <2>1, <2>3, <3>1, <3>2 DEF MoveOK, Sole
    <2>8. StopOK'
      BY <1>1, <2>1, <2>2, <2>3 DEF StopOK, Asked
    <2>9. AloneOK'
      <3>1. (Answered' <=> Answered) /\ (AbortIn(toDev') => AbortIn(toDev))
        BY <1>1, <1>2, <2>1, SendStep DEF Answered
      <3>2. ASSUME \A i, j \in DOMAIN toDev : toDev[i] = Off /\ toDev[j] = Off => i = j
            PROVE  \A i, j \in DOMAIN toDev' : toDev'[i] = Off /\ toDev'[j] = Off => i = j
        BY <1>1, <2>1, <3>2, SendStep
      <3> QED BY <1>1, <1>2, <2>1, <2>2, <2>3, <3>1, <3>2 DEF IInv, AloneOK
    <2> QED BY <2>5, <2>6, <2>7, <2>8, <2>9 DEF IInv
  <1>4. CASE link # "open"
    <2>1. Fails(t) /\ UNCHANGED <<toDev, late>>
      BY <1>4 DEF IssueTarget
    <2>2. Leads(t, "smark", "none") /\ fresh' \in [Threads -> BOOLEAN] /\ cancel' \in BOOLEAN
      BY <1>1, <1>2, <2>1, FailsLeads DEF TypeOK
    <2> QED BY <1>1, <1>2, <2>1, <2>2, LocalStep, Running DEF wire, history
  <1> QED BY <1>3, <1>4

-----------------------------------------------------------------------------
(* The invariant holds, and what it implies.                               *)

LEMMA InitIInv == Init => IInv
  <1> SUFFICES ASSUME Init PROVE IInv
    OBVIOUS
  <1>1. TypeOK /\ AnswersOK
    BY InitTyped
  <1>2. /\ \A t \in Threads : pc[t] = "idle" /\ result[t] = "none"
        /\ ~cache.abort
    BY DEF Init
  <1> QED BY <1>1, <1>2 DEF IInv, CallsOK, MoveOK, Sole, StopOK, Asked, AloneOK, Threads

LEMMA NextIInv == IInv /\ [Next]_vars => IInv'
  <1> SUFFICES ASSUME IInv, [Next]_vars PROVE IInv'
    OBVIOUS
  <1>1. ASSUME NEW t \in Movers, MoveStep(t) \/ Deadline(t) \/ \E n \in Positions : CallMove(t, n)
        PROVE  IInv'
    BY <1>1, LockStep, PreflightStep, LoopStep, PollStep, IssueStep, CallMoveStep DEF MoveStep
  <1>2. ASSUME NEW t \in Threads, StopStep(t) \/ StopDeadline(t)
        PROVE  IInv'
    BY <1>2, StopLocalStep, StopBaselineStep, RequestStep DEF StopStep
  <1>3. CASE Device \/ DeviceRejectsTarget \/ DeviceRejectsAbort \/ DriverPolls
    BY <1>3, TargetStep, AbortStep, TickStep DEF Device
  <1>4. CASE UNCHANGED vars
    <2>1. UNCHANGED <<device, wire, cache, maximum, cancel, lock, fresh, answer, pc, locals,
                      history, budgets>>
      BY <1>4 DEF vars, client
    <2>2. TypeOK' /\ AnswersOK' /\ CallsOK'
      BY <2>1 DEF IInv, TypeOK, AnswersOK, CallsOK, device, wire, locals, history, budgets
    <2>3. MoveOK' /\ StopOK' /\ AloneOK'
      BY <2>1 DEF IInv, MoveOK, Sole, NothingOld, StopOK, Asked, Halted, Halting, AloneOK,
                  Answered, Confirmed, device, wire, locals, history, budgets
    <2> QED BY <2>2, <2>3 DEF IInv
  <1>5. CASE Terminated
    BY <1>4, <1>5 DEF Terminated
  <1> QED BY <1>1, <1>2, <1>3, <1>4, <1>5, CallStopStep, MaximumStep, DropStep, ReaderStep DEF Next

LEMMA Invariance == Spec => []IInv
  <1> QED BY InitIInv, NextIInv, PTL DEF Spec

\* Every variable has its type.
THEOREM FocuserTyped == Spec => []TypeOK
  <1>1. IInv => TypeOK
    BY DEF IInv
  <1> QED BY <1>1, Invariance, PTL

\* A target that move_absolute reports as reached is where the focuser is.
THEOREM ReachedReal == Spec => []ReachedIsReal
  <1>1. IInv => ReachedIsReal
    BY DEF IInv, MoveOK, Sole, ReachedIsReal
  <1> QED BY <1>1, Invariance, PTL

\* A focuser whose stop was confirmed stands still (_stop_unlocked).
THEOREM StoppedStill == Spec => []StoppedIsStill
  <1>1. ASSUME IInv PROVE StoppedIsStill
    <2> SUFFICES ASSUME NEW t \in Threads, result[t] = "stopped", ~late[t]
                 PROVE  \/ target = Off
                        \/ shared[t] /\ (AbortIn(toDev) \/ rejects > 0 \/ drops > 0)
      BY DEF StoppedIsStill
    <2>1. Halted \/ Halting \/ rejects > 0 \/ drops > 0
      BY <1>1 DEF IInv, StopOK, Asked
    <2>2. ~shared[t] => target = Off
      BY <1>1 DEF IInv, AloneOK
    <2>3. Halting => AbortIn(toDev)
      <3>1. toDev \in Seq(Commands)
        BY <1>1 DEF IInv, TypeOK
      <3>2. toDev # <<>> => Len(toDev) \in DOMAIN toDev
        BY <3>1, Queues
      <3> QED BY <3>2 DEF Halting, AbortIn
    <2> QED BY <2>1, <2>2, <2>3 DEF Halted
  <1>2. IInv => StoppedIsStill
    BY <1>1
  <1> QED BY <1>2, Invariance, PTL

=============================================================================
