----------------------- MODULE MountAuthority_proofs -----------------------
(***************************************************************************)
(* Proofs about MountAuthority, for any poses and any number of calls,     *)
(* faults and crashes.                                                     *)
(***************************************************************************)
EXTENDS MountAuthority, TLAPS

USE AuthorityAssumption

-----------------------------------------------------------------------------
(* What the operators on the adapter's memory return.                      *)

\* A status changes the decoded flags, and can only add reasons against the
\* position.
LEMMA InspectFacts ==
    ASSUME NEW m \in MemTypes, NEW st \in Flags
    PROVE  /\ Inspect(m, st) \in MemTypes
           /\ Inspect(m, st).dec = st /\ m.inv \subseteq Inspect(m, st).inv
           /\ Inspect(m, st).home => m.home
           /\ st.limit => "limit" \in Inspect(m, st).inv
           /\ st.failed => "failed" \in Inspect(m, st).inv
           /\ ~st.limit /\ ~st.failed =>
                 Inspect(m, st).inv = m.inv /\ Inspect(m, st).home = m.home
           /\ Inspect(m, st).rec = m.rec /\ Inspect(m, st).up = m.up
           /\ Inspect(m, st).clkOk = m.clkOk /\ Inspect(m, st).corrects = m.corrects
  <1> DEFINE seen == m.inv \cup (IF st.failed THEN {"failed"} ELSE {})
                           \cup (IF st.limit THEN {"limit"} ELSE {})
             bad == st.failed \/ st.limit
             lock == IF st.limit THEN "limit" ELSE m.lock
             home == m.home /\ ~bad
             pose == m.parkPose /\ ~bad
  <1>1. seen \in SUBSET Reasons /\ lock \in Locks /\ home \in BOOLEAN /\ pose \in BOOLEAN
    BY DEF MemTypes, Reasons, Locks
  <1>2. Inspect(m, st) = [m EXCEPT !.dec = st, !.inv = seen, !.lock = lock,
                                   !.home = home, !.parkPose = pose]
    BY DEF Inspect
  <1>3. /\ m.inv \subseteq seen /\ (home => m.home)
        /\ st.limit => "limit" \in seen
        /\ st.failed => "failed" \in seen
        /\ ~st.limit /\ ~st.failed => seen = m.inv /\ home = m.home
    BY DEF MemTypes
  <1> HIDE DEF seen, lock, home, pose
  <1>4. /\ Inspect(m, st) \in MemTypes
        /\ Inspect(m, st).dec = st /\ Inspect(m, st).inv = seen
        /\ Inspect(m, st).home = home
    BY <1>1, <1>2 DEF MemTypes
  <1>5. /\ Inspect(m, st).rec = m.rec /\ Inspect(m, st).up = m.up
        /\ Inspect(m, st).clkOk = m.clkOk /\ Inspect(m, st).corrects = m.corrects
    BY <1>2 DEF MemTypes
  <1> QED BY <1>3, <1>4, <1>5

\* What an answer makes of the memory, the controller and the history.
LEMMA AnswerFacts ==
    ASSUME TypeOK, NEW m \in MemTypes, NEW a \in Replies \cup {Lost}
    PROVE  /\ After(m, a) \in MemTypes
           /\ m.inv \subseteq After(m, a).inv
           /\ After(m, a).home => m.home
           /\ After(m, a).rec = m.rec /\ After(m, a).up = m.up
           /\ After(m, a).clkOk = m.clkOk /\ After(m, a).corrects = m.corrects
           /\ Tracked(a) \in CtlTypes
           /\ Noted(hist, a) \in HistTypes
           /\ Noted(hist, a).took = hist.took /\ Noted(hist, a).kept = hist.kept
           /\ Noted(hist, a).moved = hist.moved
           /\ Noted(hist, a).stale = hist.stale
           /\ \/ /\ Noted(hist, a).seen = hist.seen
                 /\ Noted(hist, a).confirmed = hist.confirmed
              \/ /\ Noted(hist, a).seen \subseteq hist.seen \cup After(m, a).inv
                 /\ After(m, a).inv # {}
           /\ a # Lost => a \in Flags /\ a.parked = ctl.parked /\ a.slewing = ctl.slewing
                          /\ a.limit = ctl.limit /\ a.failed = ctl.failed
  <1>0. ctl \in CtlTypes /\ hist \in HistTypes
    BY DEF TypeOK
  <1>1. a # Lost => /\ a \in Flags /\ a.parked = ctl.parked /\ a.slewing = ctl.slewing
                    /\ a.limit = ctl.limit /\ a.failed = ctl.failed
    <2> SUFFICES ASSUME a # Lost
                 PROVE  /\ a \in Flags /\ a.parked = ctl.parked /\ a.slewing = ctl.slewing
                        /\ a.limit = ctl.limit /\ a.failed = ctl.failed
      OBVIOUS
    <2> DEFINE st == [f \in DOMAIN NoFlags |-> ctl[f]]
    <2>1. /\ st \in Flags /\ st.parked = ctl.parked /\ st.slewing = ctl.slewing
          /\ st.limit = ctl.limit /\ st.failed = ctl.failed
      BY <1>0 DEF NoFlags, Flags, CtlTypes
    <2>2. PICK t \in BOOLEAN : a = [st EXCEPT !.tracking = t]
      BY DEF Replies
    <2> HIDE DEF st
    <2> QED BY <2>1, <2>2 DEF Flags
  <1>2. /\ After(m, a) \in MemTypes
        /\ m.inv \subseteq After(m, a).inv
        /\ After(m, a).home => m.home
        /\ After(m, a).rec = m.rec /\ After(m, a).up = m.up
        /\ After(m, a).clkOk = m.clkOk /\ After(m, a).corrects = m.corrects
    BY <1>1, InspectFacts DEF After
  <1>3. Tracked(a) \in CtlTypes
    BY <1>0, <1>1 DEF Tracked, CtlTypes, Flags
  <1> DEFINE shown == IF a = Lost THEN {} ELSE {f \in {"limit", "failed"} : a[f]}
  <1>4. shown \subseteq {"limit", "failed"} /\ shown \subseteq After(m, a).inv
    <2>1. CASE a = Lost
      BY <2>1
    <2>2. CASE a # Lost
      <3>1. \A f \in shown : f \in {"limit", "failed"} /\ a[f]
        BY <2>2
      <3>2. \A f \in shown : (f = "limit" /\ a.limit) \/ (f = "failed" /\ a.failed)
        BY <3>1
      <3>3. After(m, a) = Inspect(m, a)
        BY <2>2 DEF After
      <3> QED BY <1>1, <2>2, <3>2, <3>3, InspectFacts
    <2> QED BY <2>1, <2>2
  <1>5. Noted(hist, a) = [hist EXCEPT !.seen = @ \cup shown,
                                      !.confirmed = @ /\ shown = {}]
    BY DEF Noted
  <1> HIDE DEF shown
  <1>6. /\ Noted(hist, a) \in HistTypes
        /\ Noted(hist, a).took = hist.took /\ Noted(hist, a).kept = hist.kept
           /\ Noted(hist, a).moved = hist.moved
        /\ Noted(hist, a).stale = hist.stale
        /\ Noted(hist, a).seen = hist.seen \cup shown
        /\ Noted(hist, a).confirmed = (hist.confirmed /\ shown = {})
    BY <1>0, <1>4, <1>5 DEF HistTypes
  <1>7. CASE shown = {}
    BY <1>0, <1>1, <1>2, <1>3, <1>6, <1>7 DEF HistTypes
  <1>8. CASE shown # {}
    BY <1>1, <1>2, <1>3, <1>4, <1>6, <1>8
  <1> QED BY <1>7, <1>8

\* The confirmations, the reports against them, and the clock checks.
LEMMA MemoryFacts ==
    ASSUME NEW m \in MemTypes
    PROVE  /\ HomeConfirmed(m) \in MemTypes
           /\ HomeConfirmed(m).inv = m.inv \cap {"limit", "failed"}
           /\ HomeConfirmed(m).rec = m.rec /\ HomeConfirmed(m).up = m.up
           /\ HomeConfirmed(m).clkOk = m.clkOk /\ HomeConfirmed(m).corrects = m.corrects
           /\ StartupForgiven(m) \in MemTypes
           /\ StartupForgiven(m).inv = m.inv \ {"nostate", "persisted"}
           /\ StartupForgiven(m).home = m.home
           /\ StartupForgiven(m).rec = m.rec /\ StartupForgiven(m).up = m.up
           /\ StartupForgiven(m).clkOk = m.clkOk /\ StartupForgiven(m).corrects = m.corrects
           /\ Invalidate(m, "external") \in MemTypes
           /\ m.inv \subseteq Invalidate(m, "external").inv
           /\ "external" \in Invalidate(m, "external").inv
           /\ Invalidate(m, "external").rec = m.rec /\ Invalidate(m, "external").up = m.up
           /\ Invalidate(m, "external").clkOk = m.clkOk
           /\ Invalidate(m, "external").corrects = m.corrects
           /\ ApplyClockLock(m) \in MemTypes
           /\ ApplyClockLock(m).inv = m.inv /\ ApplyClockLock(m).home = m.home
           /\ ApplyClockLock(m).rec = m.rec /\ ApplyClockLock(m).up = m.up
           /\ ApplyClockLock(m).clkOk = m.clkOk /\ ApplyClockLock(m).corrects = m.corrects
           /\ Saved(m) \in States
  <1>1. /\ HomeConfirmed(m) \in MemTypes
        /\ HomeConfirmed(m).inv = m.inv \cap {"limit", "failed"}
        /\ HomeConfirmed(m).rec = m.rec /\ HomeConfirmed(m).up = m.up
        /\ HomeConfirmed(m).clkOk = m.clkOk /\ HomeConfirmed(m).corrects = m.corrects
    BY DEF HomeConfirmed, MemTypes
  <1>2. /\ StartupForgiven(m) \in MemTypes
        /\ StartupForgiven(m).inv = m.inv \ {"nostate", "persisted"}
        /\ StartupForgiven(m).home = m.home
        /\ StartupForgiven(m).rec = m.rec /\ StartupForgiven(m).up = m.up
        /\ StartupForgiven(m).clkOk = m.clkOk /\ StartupForgiven(m).corrects = m.corrects
    BY DEF StartupForgiven, MemTypes
  <1>3. /\ Invalidate(m, "external") \in MemTypes
        /\ m.inv \subseteq Invalidate(m, "external").inv
        /\ "external" \in Invalidate(m, "external").inv
        /\ Invalidate(m, "external").rec = m.rec /\ Invalidate(m, "external").up = m.up
        /\ Invalidate(m, "external").clkOk = m.clkOk
        /\ Invalidate(m, "external").corrects = m.corrects
    BY DEF Invalidate, MemTypes, Reasons
  <1>4. /\ ApplyClockLock(m) \in MemTypes
        /\ ApplyClockLock(m).inv = m.inv /\ ApplyClockLock(m).home = m.home
        /\ ApplyClockLock(m).rec = m.rec /\ ApplyClockLock(m).up = m.up
        /\ ApplyClockLock(m).clkOk = m.clkOk /\ ApplyClockLock(m).corrects = m.corrects
    <2> DEFINE lock == IF ~m.offset /\ m.sysOk = "bad" THEN "system_clock_invalid"
                       ELSE IF m.clkOk = "bad" THEN "onstep_clock_invalid"
                       ELSE IF m.lock \in ClockLocks THEN "none" ELSE m.lock
    <2>1. lock \in Locks
      BY DEF Locks, ClockLocks, MemTypes
    <2>2. ApplyClockLock(m) = [m EXCEPT !.lock = lock]
      BY DEF ApplyClockLock
    <2> HIDE DEF lock
    <2> QED BY <2>1, <2>2 DEF MemTypes
  <1>5. Saved(m) \in States
    BY DEF Saved, States, MemTypes, Flags
  <1> QED BY <1>1, <1>2, <1>3, <1>4, <1>5

\* A check that says yes compares the controller's clock with the active time.
LEMMA CheckFacts ==
    ASSUME NEW m \in MemTypes, NEW c \in Clocks, NEW r \in Readings
    PROVE  /\ ClockCheck(m, c, r) \in ClockChecks
           /\ ClockCheck(m, c, r) = "ok" => c.onstep = ActiveError(m, c)
           /\ Checked(m, c, r) \in MemTypes
           /\ Checked(m, c, r).inv = m.inv /\ Checked(m, c, r).home = m.home
           /\ Checked(m, c, r).rec = m.rec /\ Checked(m, c, r).up = m.up
           /\ Checked(m, c, r).corrects = m.corrects
           /\ Checked(m, c, r).clkOk = ClockCheck(m, c, r)
  <1> DEFINE sys == IF Plausible(c) THEN "ok" ELSE "bad"
             clk == ClockCheck(m, c, r)
  <1>1. sys \in SystemChecks
    BY DEF SystemChecks
  <1>2. clk \in ClockChecks /\ (clk = "ok" => c.onstep = ActiveError(m, c))
    BY DEF ClockCheck, ClockChecks
  <1>3. Checked(m, c, r) = [m EXCEPT !.sysOk = sys, !.clkOk = clk]
    BY DEF Checked
  <1> HIDE DEF sys, clk
  <1>4. /\ Checked(m, c, r) \in MemTypes
        /\ Checked(m, c, r).inv = m.inv /\ Checked(m, c, r).home = m.home
        /\ Checked(m, c, r).rec = m.rec /\ Checked(m, c, r).up = m.up
        /\ Checked(m, c, r).corrects = m.corrects /\ Checked(m, c, r).clkOk = clk
    BY <1>1, <1>2, <1>3 DEF MemTypes
  <1> QED BY <1>2, <1>4 DEF clk

\* A call that checks the clocks after an answer.
LEMMA RefreshFacts ==
    ASSUME TypeOK, NEW m \in MemTypes, NEW a \in Replies \cup {Lost}, NEW r \in Readings
    PROVE  /\ Refreshed(m, a, r) \in MemTypes
           /\ Refreshed(m, a, r).inv = After(m, a).inv
           /\ Refreshed(m, a, r).home = After(m, a).home
           /\ Refreshed(m, a, r).rec = m.rec /\ Refreshed(m, a, r).up = m.up
           /\ Refreshed(m, a, r).clkOk = "ok" =>
                 clock.onstep = ActiveError(Refreshed(m, a, r), clock)
  <1>1. clock \in Clocks
    BY DEF TypeOK
  <1> DEFINE n == After(m, a)
             c == Checked(n, clock, r)
  <1>2. n \in MemTypes /\ n.rec = m.rec /\ n.up = m.up
    BY AnswerFacts
  <1>3. /\ c \in MemTypes /\ c.inv = n.inv /\ c.home = n.home
        /\ c.rec = m.rec /\ c.up = m.up
        /\ c.clkOk = "ok" => clock.onstep = ActiveError(c, clock)
    <2> HIDE DEF n
    <2> QED BY <1>1, <1>2, CheckFacts DEF ActiveError
  <1> HIDE DEF c
  <1>4. Refreshed(m, a, r) = ApplyClockLock(c)
    BY DEF Refreshed, c
  <1> QED BY <1>3, <1>4, MemoryFacts DEF ActiveError

\* A new process.
LEMMA StartedFacts ==
    ASSUME config \in [home : BOOLEAN, time : BOOLEAN], NEW st \in {NoState} \cup States,
           NEW r \in Records
    PROVE  /\ Started(st, r) \in MemTypes
           /\ Started(st, r).rec = r /\ Started(st, r).up
           /\ Started(st, r).clkOk = "unset"
  <1> DEFINE found == IF st = NoState THEN {"nostate"}
                      ELSE IF st.unsafe \/ ~st.parked THEN {"persisted"} ELSE {}
  <1>1. found \in SUBSET Reasons
    BY DEF Reasons
  <1>2. (IF config.home THEN found ELSE found \ {"nostate"}) \in SUBSET Reasons
    BY <1>1
  <1>3. NoFlags \in Flags /\ (~config.home) \in BOOLEAN /\ config.time \in BOOLEAN /\ "none" \in Locks
    BY DEF NoFlags, Flags, Locks
  <1> DEFINE inv == IF config.home THEN found ELSE found \ {"nostate"}
  <1>4. Started(st, r) =
          [up |-> TRUE, open |-> FALSE, home |-> ~config.home, parkPose |-> FALSE,
           inv |-> inv,
           lock |-> "none", dec |-> NoFlags, rec |-> r,
           sysOk |-> "unset", clkOk |-> "unset",
           timeTrusted |-> config.time, offset |-> FALSE, corrects |-> 0]
    BY DEF Started
  <1> HIDE DEF inv
  <1>5. inv \in SUBSET Reasons
    BY <1>2 DEF inv
  <1>6. "unset" \in SystemChecks /\ "unset" \in ClockChecks /\ 0 \in SystemErrors
    BY DEF SystemChecks, ClockChecks, SystemErrors
  <1> QED BY <1>3, <1>4, <1>5, <1>6 DEF MemTypes

-----------------------------------------------------------------------------
(* The inductive invariant.                                                *)

\* A position without a reason against it was confirmed, a reported fault stays
\* a reason, a Set-Park and a goto under way found the position trusted, and the
\* goto found the mount free to move.
TrustOK ==
    /\ mem.home /\ mem.inv = {} => hist.confirmed
    /\ hist.seen \subseteq mem.inv
    /\ pc \in {"command", "commit", "goto"} => mem.home /\ mem.inv = {}
    /\ pc = "goto" => hist.clear

\* The record in memory is the one on disk, and a call whose :hQ# was taken wrote
\* it; the call that is to write one had its :hQ# taken.
RecordOK ==
    /\ StoredWasAccepted
    /\ pc = "commit" => hist.took # NoRecord

\* A check made last that said yes is still right, or a clock was changed since
\* without another check; a goto under way asked for it.
ClockOK ==
    mem.clkOk = "ok" \/ pc = "goto" =>
        clock.onstep = ActiveError(mem, clock) \/ hist.stale

\* Only an adapter that is up runs a call.
PlaceOK == ~mem.up => pc = "idle"

MInv == TypeOK /\ TrustOK /\ RecordOK /\ ClockOK /\ PlaceOK

\* It holds when the first process starts.
LEMMA InitMInv == Init => MInv
  <1> SUFFICES ASSUME Init PROVE MInv
    OBVIOUS
  <1>1. config \in [home : BOOLEAN, time : BOOLEAN] /\ NoState \in {NoState} \cup States /\ NoRecord \in Records
    BY DEF Init, Records
  <1>2. /\ mem \in MemTypes /\ mem.rec = NoRecord /\ mem.up /\ mem.clkOk = "unset"
    BY <1>1, StartedFacts DEF Init
  <1>3. hist = [confirmed |-> mem.home, seen |-> {}, took |-> NoRecord,
                 kept |-> NoRecord, moved |-> FALSE, clear |-> FALSE, stale |-> FALSE]
    BY DEF Init
  <1>4. mem.home \in BOOLEAN
    BY <1>2 DEF MemTypes
  <1>5. ctl \in CtlTypes /\ ctl.park = NoRecord
    BY DEF Init, CtlTypes, Records
  <1>6. disk \in DiskTypes /\ disk.record = NoRecord
    BY DEF Init, DiskTypes, Records
  <1>7. clock \in Clocks
    BY DEF Init
  <1>8. budget \in [faults : 0..MaxFaults, crashes : 0..MaxCrashes, calls : 0..MaxCalls]
    BY DEF Init
  <1>9. TypeOK
    BY <1>1, <1>2, <1>3, <1>4, <1>5, <1>6, <1>7, <1>8 DEF Init, TypeOK, HistTypes
  <1>10. TrustOK /\ RecordOK /\ ClockOK /\ PlaceOK
    BY <1>2, <1>3, <1>6 DEF Init, TrustOK, RecordOK, StoredWasAccepted, ClockOK, PlaceOK
  <1> QED BY <1>9, <1>10 DEF MInv

\* The bounds are kept by every step that counts.
LEMMA BudgetFacts ==
    ASSUME TypeOK
    PROVE  LET B == [faults : 0..MaxFaults, crashes : 0..MaxCrashes, calls : 0..MaxCalls]
           IN  /\ Fault => budget' \in B
               /\ Call => budget' \in B
               /\ \A n \in {0, 1, 2} : CallWith(n) => budget' \in B
               /\ budget.crashes < MaxCrashes => [budget EXCEPT !.crashes = @ + 1] \in B
  <1> DEFINE B == [faults : 0..MaxFaults, crashes : 0..MaxCrashes, calls : 0..MaxCalls]
  <1>0. budget \in B
    BY DEF TypeOK
  <1>1. Fault => budget' \in B
    BY <1>0 DEF Fault
  <1>2. Call => budget' \in B
    BY <1>0 DEF Call
  <1>3. ASSUME NEW n \in {0, 1, 2}, CallWith(n) PROVE budget' \in B
    <2>1. budget.calls + 1 \in 0..MaxCalls /\ budget.faults + n \in 0..MaxFaults
      BY <1>0, <1>3 DEF CallWith
    <2> QED BY <1>0, <1>3, <2>1 DEF CallWith
  <1>4. budget.crashes < MaxCrashes => [budget EXCEPT !.crashes = @ + 1] \in B
    BY <1>0
  <1> QED BY <1>1, <1>2, <1>3, <1>4

\* What is saved has its type.
LEMMA SaveFacts ==
    ASSUME TypeOK, NEW m \in MemTypes, NEW a \in Replies \cup {Lost},
           UNCHANGED disk \/ SaveForced(m) \/ SaveThrottled(m) \/ SaveAfter(m, a)
    PROVE  disk' \in DiskTypes /\ disk'.record = disk.record
  <1>1. Saved(m) \in States /\ disk \in DiskTypes
    BY MemoryFacts DEF TypeOK
  <1>2. \A st \in States : /\ [disk EXCEPT !.state = st] \in DiskTypes
                           /\ [disk EXCEPT !.state = st].record = disk.record
    BY <1>1 DEF DiskTypes
  <1>3. UNCHANGED disk \/ SaveForced(m)
    BY DEF SaveAfter, SaveThrottled, SaveForced
  <1>4. CASE disk' = [disk EXCEPT !.state = Saved(m)]
    <2>1. PICK st \in States : disk' = [disk EXCEPT !.state = st]
      BY <1>1, <1>4
    <2> QED BY <1>2, <2>1
  <1> QED BY <1>1, <1>3, <1>4 DEF SaveForced

-----------------------------------------------------------------------------
(* Steps that leave the record alone.                                      *)

Budgets == [faults : 0..MaxFaults, crashes : 0..MaxCrashes, calls : 0..MaxCalls]

\* What such a step has to show.
LEMMA MemoryStep ==
    ASSUME MInv, mem.up,
           mem' \in MemTypes, mem'.rec = mem.rec, mem'.up = mem.up,
           ctl' \in CtlTypes,
           disk' \in DiskTypes, disk'.record = disk.record,
           hist' \in HistTypes, hist'.took = hist.took, hist'.kept = hist.kept,
           hist'.moved = hist.moved,
           clock' \in Clocks,
           budget' \in Budgets, UNCHANGED config, loc' \in Poses,
           pc' \in {"idle", "look", "command", "goto"},
           mem'.home /\ mem'.inv = {} => hist'.confirmed,
           hist'.seen \subseteq mem'.inv,
           pc' \in {"command", "goto"} => mem'.home /\ mem'.inv = {},
           pc' = "goto" => hist'.clear,
           mem'.clkOk = "ok" \/ pc' = "goto" =>
               clock'.onstep = ActiveError(mem', clock') \/ hist'.stale
    PROVE  MInv'
  <1>1. TypeOK'
    BY DEF MInv, TypeOK, Budgets
  <1>2. TrustOK'
    BY DEF TrustOK
  <1>3. RecordOK'
    BY DEF MInv, RecordOK, StoredWasAccepted
  <1>4. ClockOK' /\ PlaceOK'
    BY DEF ClockOK, PlaceOK
  <1> QED BY <1>1, <1>2, <1>3, <1>4 DEF MInv

\* An answer keeps what TrustOK says.
LEMMA AnswerTrust ==
    ASSUME TypeOK, TrustOK, NEW m \in MemTypes, m.inv = mem.inv, m.home = mem.home,
           NEW a \in Replies \cup {Lost}
    PROVE  /\ After(m, a).home /\ After(m, a).inv = {} => Noted(hist, a).confirmed
           /\ Noted(hist, a).seen \subseteq After(m, a).inv
           /\ Noted(hist, a).seen \subseteq {"limit", "failed"}
  <1>1. Noted(hist, a) \in HistTypes
    BY AnswerFacts
  <1>2. Noted(hist, a).seen \subseteq {"limit", "failed"}
    BY <1>1 DEF HistTypes
  <1>3. /\ m.inv \subseteq After(m, a).inv
        /\ After(m, a).home => m.home
        /\ \/ /\ Noted(hist, a).seen = hist.seen
              /\ Noted(hist, a).confirmed = hist.confirmed
           \/ /\ Noted(hist, a).seen \subseteq hist.seen \cup After(m, a).inv
              /\ After(m, a).inv # {}
    BY AnswerFacts
  <1>4. After(m, a).inv = {} => m.inv = {}
    BY <1>3
  <1> QED BY <1>2, <1>3, <1>4 DEF TrustOK

\* The status as the controller has it is one of the replies.
LEMMA StatusIsReply ==
    ASSUME TypeOK
    PROVE  [f \in DOMAIN NoFlags |-> ctl[f]] \in Replies
  <1> DEFINE st == [f \in DOMAIN NoFlags |-> ctl[f]]
  <1>1. ctl.tracking \in BOOLEAN
    BY DEF TypeOK, CtlTypes
  <1>2. st = [st EXCEPT !.tracking = ctl.tracking]
    BY DEF NoFlags
  <1>3. ctl.tracking \in (IF ctl.tracking THEN BOOLEAN ELSE {FALSE})
    BY <1>1
  <1> QED BY <1>2, <1>3 DEF Replies

\* The pieces of TypeOK and the others that every step needs.
LEMMA Pieces ==
    MInv => /\ TypeOK /\ TrustOK /\ ClockOK
            /\ mem \in MemTypes /\ ctl \in CtlTypes /\ disk \in DiskTypes /\ hist \in HistTypes
            /\ clock \in Clocks
            /\ budget \in Budgets /\ loc \in Poses
            /\ Replies \cup {Lost} # {}
            /\ Answers \subseteq Replies \cup {Lost}
  BY DEF MInv, TypeOK, Budgets, Answers

\* What an answer gives to the adapter that asks.
Answered(a) ==
    /\ After(mem, a) \in MemTypes
    /\ After(mem, a).rec = mem.rec /\ After(mem, a).up = mem.up
    /\ After(mem, a).clkOk = mem.clkOk /\ After(mem, a).corrects = mem.corrects
    /\ Tracked(a) \in CtlTypes
    /\ Noted(hist, a) \in HistTypes
    /\ Noted(hist, a).took = hist.took /\ Noted(hist, a).kept = hist.kept
           /\ Noted(hist, a).moved = hist.moved
    /\ Noted(hist, a).stale = hist.stale
    /\ After(mem, a).home /\ After(mem, a).inv = {} => Noted(hist, a).confirmed
    /\ Noted(hist, a).seen \subseteq After(mem, a).inv
    /\ Noted(hist, a).seen \subseteq {"limit", "failed"}

\* Every reply gives that, and no reply does.
LEMMA AnswerGives ==
    ASSUME MInv, NEW a \in Replies \cup {Lost}
    PROVE  Answered(a)
  <1>1. TypeOK /\ TrustOK /\ mem \in MemTypes
    BY Pieces
  <1>2. /\ After(mem, a).home /\ After(mem, a).inv = {} => Noted(hist, a).confirmed
        /\ Noted(hist, a).seen \subseteq After(mem, a).inv
        /\ Noted(hist, a).seen \subseteq {"limit", "failed"}
    BY <1>1, AnswerTrust
  <1> QED BY <1>1, <1>2, AnswerFacts DEF Answered

\* The status and the confirmations.
LEMMA StatusSteps ==
    ASSUME MInv, Poll \/ ConfirmHome \/ AwaitHome \/ ReportChange \/ ConfirmParkPose \/ ClearLock
    PROVE  MInv'
  <1>0. /\ pc = "idle" /\ mem.up
        /\ UNCHANGED <<clock, pc, loc, config>>
    BY DEF Poll, ConfirmHome, AwaitHome, ReportChange, ConfirmParkPose, ClearLock, Idle
  <1>a. /\ TypeOK /\ TrustOK /\ ClockOK
        /\ mem \in MemTypes /\ ctl \in CtlTypes /\ disk \in DiskTypes /\ hist \in HistTypes
        /\ clock \in Clocks /\ budget \in Budgets /\ loc \in Poses
    BY Pieces
  <1>b. ASSUME mem' \in MemTypes, mem'.rec = mem.rec, mem'.up = mem.up,
               ctl' \in CtlTypes,
               disk' \in DiskTypes, disk'.record = disk.record,
               hist' \in HistTypes, hist'.took = hist.took, hist'.kept = hist.kept, hist'.moved = hist.moved,
               hist'.stale = hist.stale, budget' \in Budgets,
               mem'.home /\ mem'.inv = {} => hist'.confirmed,
               hist'.seen \subseteq mem'.inv,
               mem'.clkOk = mem.clkOk, mem'.corrects = mem.corrects
        PROVE  MInv'
    <2>1. /\ clock' \in Clocks /\ loc' \in Poses /\ pc' = "idle"
          /\ UNCHANGED config
          /\ mem'.clkOk = "ok" => clock'.onstep = ActiveError(mem', clock') \/ hist'.stale
      BY <1>0, <1>a, <1>b DEF ClockOK, ActiveError
    <2> QED BY <1>0, <1>b, <2>1, MemoryStep
  <1>1. CASE Poll
    <2>1. PICK a \in Answers :
            /\ IF Faults(a) = 0 THEN UNCHANGED budget ELSE Fault
            /\ ctl' = Tracked(a) /\ mem' = After(mem, a)
            /\ SaveAfter(mem', a) /\ hist' = Noted(hist, a)
      BY <1>1 DEF Poll
    <2>2. a \in Replies \cup {Lost}
      BY Pieces
    <2>3. budget' \in Budgets
      BY <1>a, <2>1, BudgetFacts DEF Budgets
    <2>4. Answered(a)
      BY <2>2, AnswerGives
    <2>5. mem' \in MemTypes
      BY <2>1, <2>4 DEF Answered
    <2>6. disk' \in DiskTypes /\ disk'.record = disk.record
      <3>1. SaveAfter(After(mem, a), a)
        BY <2>1
      <3> QED BY <1>a, <2>2, <2>4, <3>1, SaveFacts DEF Answered
    <2> QED BY <1>b, <2>1, <2>3, <2>4, <2>6 DEF Answered
  <1>2. CASE ConfirmHome
    <2>1. /\ mem' = HomeConfirmed(mem) /\ hist' = [hist EXCEPT !.confirmed = TRUE]
          /\ SaveForced(HomeConfirmed(mem)) /\ UNCHANGED ctl
      BY <1>2 DEF ConfirmHome
    <2>2. budget' \in Budgets
      BY <1>a, <1>2, BudgetFacts DEF Budgets, ConfirmHome
    <2>3. /\ mem' \in MemTypes /\ mem'.rec = mem.rec /\ mem'.up = mem.up
          /\ mem'.clkOk = mem.clkOk /\ mem'.corrects = mem.corrects
          /\ mem'.inv = mem.inv \cap {"limit", "failed"}
      BY <1>a, <2>1, MemoryFacts
    <2>4. disk' \in DiskTypes /\ disk'.record = disk.record
      BY <1>a, <2>1, <2>3, SaveFacts
    <2>5. /\ hist' \in HistTypes /\ hist'.confirmed /\ hist'.seen = hist.seen
          /\ hist'.took = hist.took /\ hist'.kept = hist.kept /\ hist'.moved = hist.moved
          /\ hist'.stale = hist.stale /\ hist.seen \subseteq {"limit", "failed"}
      BY <1>a, <2>1 DEF HistTypes
    <2>6. hist'.seen \subseteq mem'.inv
      BY <1>a, <2>3, <2>5 DEF TrustOK
    <2> QED BY <1>a, <1>b, <2>1, <2>2, <2>3, <2>4, <2>5, <2>6
  <1>3. CASE AwaitHome
    <2>1. PICK a \in Answers :
            /\ CallWith(Faults(a))
            /\ ctl' = Tracked(a) /\ mem' = HomeConfirmed(After(mem, a))
            /\ SaveForced(HomeConfirmed(After(mem, a)))
            /\ hist' = [Noted(hist, a) EXCEPT !.confirmed = TRUE]
      BY <1>3 DEF AwaitHome
    <2>2. a \in Replies \cup {Lost}
      BY Pieces
    <2>3. budget' \in Budgets
      BY <1>a, <2>1, BudgetFacts DEF Budgets, Faults
    <2>4. Answered(a)
      BY <2>2, AnswerGives
    <2> DEFINE m == After(mem, a)
               h == Noted(hist, a)
    <2>5. /\ m \in MemTypes /\ m.rec = mem.rec /\ m.up = mem.up
          /\ m.clkOk = mem.clkOk /\ m.corrects = mem.corrects
          /\ ctl' \in CtlTypes
          /\ h \in HistTypes /\ h.took = hist.took /\ h.kept = hist.kept /\ h.moved = hist.moved
          /\ h.stale = hist.stale /\ h.seen \subseteq m.inv /\ h.seen \subseteq {"limit", "failed"}
      BY <2>1, <2>4 DEF Answered
    <2>6. /\ mem' = HomeConfirmed(m) /\ SaveForced(HomeConfirmed(m))
          /\ hist' = [h EXCEPT !.confirmed = TRUE]
      BY <2>1
    <2> HIDE DEF m, h
    <2>7. /\ mem' \in MemTypes /\ mem'.rec = m.rec /\ mem'.up = m.up
          /\ mem'.clkOk = m.clkOk /\ mem'.corrects = m.corrects
          /\ mem'.inv = m.inv \cap {"limit", "failed"}
      BY <2>5, <2>6, MemoryFacts
    <2>8. disk' \in DiskTypes /\ disk'.record = disk.record
      BY <1>a, <2>6, <2>7, SaveFacts
    <2>9. /\ hist' \in HistTypes /\ hist'.confirmed /\ hist'.seen = h.seen
          /\ hist'.took = h.took /\ hist'.kept = h.kept /\ hist'.moved = h.moved
          /\ hist'.stale = h.stale
      BY <2>5, <2>6 DEF HistTypes
    <2>10. hist'.seen \subseteq mem'.inv
      BY <2>5, <2>7, <2>9
    <2> QED BY <1>b, <2>3, <2>5, <2>7, <2>8, <2>9, <2>10
  <1>4. CASE ReportChange
    <2>1. /\ mem' = Invalidate(mem, "external") /\ hist' = [hist EXCEPT !.confirmed = FALSE]
          /\ UNCHANGED ctl
          /\ UNCHANGED disk \/ SaveForced(Invalidate(mem, "external"))
      BY <1>4 DEF ReportChange
    <2>2. budget' \in Budgets
      BY <1>a, <1>4, BudgetFacts DEF Budgets, ReportChange
    <2>3. /\ mem' \in MemTypes /\ mem'.rec = mem.rec /\ mem'.up = mem.up
          /\ mem'.clkOk = mem.clkOk /\ mem'.corrects = mem.corrects
          /\ mem.inv \subseteq mem'.inv /\ "external" \in mem'.inv
      BY <1>a, <2>1, MemoryFacts
    <2>4. disk' \in DiskTypes /\ disk'.record = disk.record
      BY <1>a, <2>1, <2>3, SaveFacts
    <2>5. /\ hist' \in HistTypes /\ hist'.seen = hist.seen
          /\ hist'.took = hist.took /\ hist'.kept = hist.kept /\ hist'.moved = hist.moved
          /\ hist'.stale = hist.stale
      BY <1>a, <2>1 DEF HistTypes
    <2>6. mem'.inv # {} /\ hist'.seen \subseteq mem'.inv
      BY <1>a, <2>3, <2>5 DEF TrustOK
    <2> QED BY <1>a, <1>b, <2>1, <2>2, <2>3, <2>4, <2>5, <2>6
  <1>5. CASE ConfirmParkPose
    <2>1. PICK a \in Answers \ {Lost} :
            /\ ctl' = Tracked(a) /\ mem' = StartupForgiven(After(mem, a))
            /\ SaveForced(StartupForgiven(After(mem, a)))
            /\ hist' = [Noted(hist, a) EXCEPT !.confirmed = @ \/ mem'.home]
      BY <1>5 DEF ConfirmParkPose
    <2>2. a \in Replies \cup {Lost}
      BY Pieces
    <2>3. budget' \in Budgets
      BY <1>a, <1>5, BudgetFacts DEF Budgets, ConfirmParkPose
    <2>4. Answered(a)
      BY <2>2, AnswerGives
    <2> DEFINE m == After(mem, a)
               h == Noted(hist, a)
    <2>5. /\ m \in MemTypes /\ m.rec = mem.rec /\ m.up = mem.up
          /\ m.clkOk = mem.clkOk /\ m.corrects = mem.corrects
          /\ ctl' \in CtlTypes
          /\ h \in HistTypes /\ h.took = hist.took /\ h.kept = hist.kept /\ h.moved = hist.moved
          /\ h.stale = hist.stale /\ h.seen \subseteq m.inv /\ h.seen \subseteq {"limit", "failed"}
      BY <2>1, <2>4 DEF Answered
    <2>6. /\ mem' = StartupForgiven(m) /\ SaveForced(StartupForgiven(m))
          /\ hist' = [h EXCEPT !.confirmed = h.confirmed \/ mem'.home]
      BY <2>1
    <2> HIDE DEF m, h
    <2>7. /\ mem' \in MemTypes /\ mem'.rec = m.rec /\ mem'.up = m.up
          /\ mem'.clkOk = m.clkOk /\ mem'.corrects = m.corrects
          /\ mem'.inv = m.inv \ {"nostate", "persisted"}
      BY <2>5, <2>6, MemoryFacts
    <2>8. disk' \in DiskTypes /\ disk'.record = disk.record
      BY <1>a, <2>6, <2>7, SaveFacts
    <2>9. /\ hist' \in HistTypes
          /\ mem'.home => hist'.confirmed
          /\ hist'.seen = h.seen
          /\ hist'.took = h.took /\ hist'.kept = h.kept /\ hist'.moved = h.moved
          /\ hist'.stale = h.stale
      <3>0. mem'.home \in BOOLEAN /\ h.confirmed \in BOOLEAN
        BY <2>5, <2>7 DEF MemTypes, HistTypes
      <3>1. CASE mem'.home
        <4>1. hist' = [h EXCEPT !.confirmed = TRUE]
          BY <2>6, <3>0, <3>1
        <4> QED BY <2>5, <4>1 DEF HistTypes
      <3>2. CASE ~mem'.home
        <4>1. hist' = [h EXCEPT !.confirmed = h.confirmed]
          BY <2>6, <3>0, <3>2
        <4> QED BY <2>5, <3>0, <3>2, <4>1 DEF HistTypes
      <3> QED BY <3>1, <3>2
    <2>10. hist'.seen \subseteq mem'.inv
      BY <2>5, <2>7, <2>9
    <2> QED BY <1>b, <2>3, <2>5, <2>7, <2>8, <2>9, <2>10
  <1>6. CASE ClearLock
    <2>1. mem' = [mem EXCEPT !.lock = "none"] /\ UNCHANGED <<ctl, disk, hist>>
      BY <1>6 DEF ClearLock
    <2>2. /\ mem' \in MemTypes /\ mem'.rec = mem.rec /\ mem'.up = mem.up
          /\ mem'.inv = mem.inv /\ mem'.home = mem.home
          /\ mem'.clkOk = mem.clkOk /\ mem'.corrects = mem.corrects
      BY <1>a, <2>1 DEF MemTypes, Locks
    <2>3. budget' \in Budgets
      BY <1>a, <1>6, BudgetFacts DEF Budgets, ClearLock
    <2> QED BY <1>a, <1>b, <2>1, <2>2, <2>3 DEF TrustOK
  <1> QED BY <1>1, <1>2, <1>3, <1>4, <1>5, <1>6

\* The clock checks and the connection.
LEMMA ClockSteps ==
    ASSUME MInv, Refresh \/ UpdateObserver \/ SyncClock \/ SyncTimeLocation \/ Connect \/ Disconnect
    PROVE  MInv'
  <1>0. /\ pc = "idle" /\ mem.up
        /\ UNCHANGED <<pc, loc, config>>
    BY DEF Refresh, UpdateObserver, SyncClock, SyncTimeLocation, Sync, Connect, Disconnect, Idle
  <1>a. /\ TypeOK /\ TrustOK /\ ClockOK
        /\ mem \in MemTypes /\ ctl \in CtlTypes /\ disk \in DiskTypes /\ hist \in HistTypes
        /\ clock \in Clocks /\ budget \in Budgets /\ loc \in Poses
    BY Pieces
  <1>b. ASSUME mem' \in MemTypes, mem'.rec = mem.rec, mem'.up = mem.up,
               ctl' \in CtlTypes,
               disk' \in DiskTypes, disk'.record = disk.record,
               hist' \in HistTypes, hist'.took = hist.took, hist'.kept = hist.kept,
               hist'.moved = hist.moved,
               clock' \in Clocks, budget' \in Budgets,
               mem'.home /\ mem'.inv = {} => hist'.confirmed,
               hist'.seen \subseteq mem'.inv,
               mem'.clkOk = "ok" => clock'.onstep = ActiveError(mem', clock') \/ hist'.stale
        PROVE  MInv'
    <2>1. loc' \in Poses /\ pc' = "idle" /\ UNCHANGED config
      BY <1>0, <1>a
    <2> QED BY <1>0, <1>b, <2>1, MemoryStep
  <1>c. ASSUME NEW m \in MemTypes, m.inv = mem.inv, m.home = mem.home, m.rec = mem.rec,
               m.up = mem.up, NEW a \in Replies \cup {Lost}, NEW r \in Readings,
               mem' = Refreshed(m, a, r), hist' = [Noted(hist, a) EXCEPT !.stale = FALSE],
               UNCHANGED clock, UNCHANGED ctl \/ ctl' = Tracked(a),
               disk' \in DiskTypes, disk'.record = disk.record, budget' \in Budgets
        PROVE  MInv'
    <2> DEFINE h == Noted(hist, a)
    <2>1. /\ After(m, a).home /\ After(m, a).inv = {} => h.confirmed
          /\ h.seen \subseteq After(m, a).inv
      BY <1>a, <1>c, AnswerTrust
    <2>2. /\ h \in HistTypes /\ h.took = hist.took /\ h.kept = hist.kept
          /\ h.moved = hist.moved /\ Tracked(a) \in CtlTypes
      BY <1>a, <1>c, AnswerFacts
    <2>3. hist' = [h EXCEPT !.stale = FALSE]
      BY <1>c
    <2> HIDE DEF h
    <2>4. /\ hist' \in HistTypes /\ hist'.took = h.took /\ hist'.kept = h.kept
          /\ hist'.moved = h.moved
          /\ hist'.seen = h.seen /\ hist'.confirmed = h.confirmed
      BY <2>2, <2>3 DEF HistTypes
    <2>5. /\ mem' \in MemTypes /\ mem'.rec = mem.rec /\ mem'.up = mem.up
          /\ mem'.inv = After(m, a).inv /\ mem'.home = After(m, a).home
          /\ mem'.clkOk = "ok" => clock.onstep = ActiveError(mem', clock)
      BY <1>a, <1>c, RefreshFacts
    <2>6. ctl' \in CtlTypes
      BY <1>a, <1>c, <2>2
    <2>7. clock' \in Clocks /\ UNCHANGED clock
      BY <1>a, <1>c
    <2>8. /\ mem'.home /\ mem'.inv = {} => hist'.confirmed
          /\ hist'.seen \subseteq mem'.inv
          /\ mem'.clkOk = "ok" => clock'.onstep = ActiveError(mem', clock') \/ hist'.stale
      BY <2>1, <2>4, <2>5, <2>7
    <2> QED BY <1>b, <1>c, <2>2, <2>4, <2>5, <2>6, <2>7, <2>8
  <1>d. ASSUME NEW m \in MemTypes, m.inv = mem.inv, m.home = mem.home, m.rec = mem.rec,
               m.up = mem.up, RefreshOf(m), UNCHANGED <<ctl, clock>>
        PROVE  MInv'
    <2>1. PICK a \in RefreshAnswers, r \in RefreshReadings :
            /\ CallWith(Faults(a) + Missed(r))
            /\ mem' = Refreshed(m, a, r)
            /\ IF a = Lost THEN UNCHANGED disk ELSE SaveThrottled(After(m, a))
            /\ hist' = [Noted(hist, a) EXCEPT !.stale = FALSE]
      BY <1>d DEF RefreshOf
    <2>2. a \in Replies \cup {Lost}
      BY <1>a, StatusIsReply DEF RefreshAnswers, Status
    <2>3. r \in Readings
      BY DEF RefreshReadings, Readings
    <2>4. budget' \in Budgets
      <3>1. (Faults(a) + Missed(r)) \in {0, 1, 2}
        BY DEF Faults, Missed
      <3> QED BY <1>a, <2>1, <3>1, BudgetFacts DEF Budgets
    <2>5. After(m, a) \in MemTypes
      BY <1>a, <1>d, <2>2, AnswerFacts
    <2>6. disk' \in DiskTypes /\ disk'.record = disk.record
      BY <1>a, <2>1, <2>2, <2>5, SaveFacts
    <2> QED BY <1>c, <1>d, <2>1, <2>2, <2>3, <2>4, <2>6
  <1>1. CASE Refresh
    <2>1. RefreshOf(mem) /\ UNCHANGED <<ctl, clock>>
      BY <1>1 DEF Refresh
    <2> QED BY <1>a, <1>d, <2>1
  <1>2. CASE UpdateObserver
    <2>0. UNCHANGED <<ctl, clock>>
      BY <1>2 DEF UpdateObserver
    <2>1. PICK m \in {[mem EXCEPT !.offset = TRUE, !.corrects = clock.system, !.timeTrusted = TRUE],
                      [mem EXCEPT !.offset = FALSE, !.corrects = 0]} :
            \/ RefreshOf(m)
            \/ /\ CallWith(1)
               /\ mem' = m
               /\ hist' = [hist EXCEPT !.stale = TRUE]
               /\ UNCHANGED disk
      BY <1>2 DEF UpdateObserver
    <2>2. /\ m \in MemTypes /\ m.inv = mem.inv /\ m.home = mem.home /\ m.rec = mem.rec
          /\ m.up = mem.up
      <3>1. clock.system \in SystemErrors /\ 0 \in SystemErrors
        BY <1>a DEF Clocks, SystemErrors
      <3> QED BY <1>a, <2>1, <3>1 DEF MemTypes
    <2>3. CASE RefreshOf(m)
      BY <1>d, <2>0, <2>2, <2>3
    <2>4. CASE /\ CallWith(1)
               /\ mem' = m
               /\ hist' = [hist EXCEPT !.stale = TRUE]
               /\ UNCHANGED disk
      <3>1. budget' \in Budgets
        BY <1>a, <2>4, BudgetFacts DEF Budgets
      <3>2. /\ hist' \in HistTypes /\ hist'.took = hist.took /\ hist'.kept = hist.kept
            /\ hist'.moved = hist.moved /\ hist'.stale
            /\ hist'.seen = hist.seen /\ hist'.confirmed = hist.confirmed
        BY <1>a, <2>4 DEF HistTypes
      <3>3. /\ mem'.home /\ mem'.inv = {} => hist'.confirmed
            /\ hist'.seen \subseteq mem'.inv
        BY <1>a, <2>2, <2>4, <3>2 DEF TrustOK
      <3>4. /\ mem' \in MemTypes /\ mem'.rec = mem.rec /\ mem'.up = mem.up
            /\ ctl' \in CtlTypes /\ clock' \in Clocks
            /\ disk' \in DiskTypes /\ disk'.record = disk.record
        BY <1>a, <2>0, <2>2, <2>4
      <3> QED BY <1>b, <3>1, <3>2, <3>3, <3>4
    <2> QED BY <2>1, <2>3, <2>4
  <1>3. CASE Connect
    <2> DEFINE m == [mem EXCEPT !.open = TRUE]
    <2>1. PICK a \in Replies :
            /\ \/ /\ Call
                  /\ mem' = Refreshed(m, a, "both")
                  /\ hist' = [Noted(hist, a) EXCEPT !.stale = FALSE]
               \/ /\ CallWith(1)
                  /\ mem' = After(m, a)
                  /\ hist' = Noted(hist, a)
            /\ ctl' = Tracked(a)
            /\ SaveForced(After(m, a))
      BY <1>3 DEF Connect
    <2>2. /\ m \in MemTypes /\ m.inv = mem.inv /\ m.home = mem.home /\ m.rec = mem.rec
          /\ m.up = mem.up /\ m.clkOk = mem.clkOk /\ m.corrects = mem.corrects
      BY <1>a DEF MemTypes
    <2> HIDE DEF m
    <2>3. budget' \in Budgets /\ UNCHANGED clock
      BY <1>a, <1>3, <2>1, BudgetFacts DEF Budgets, Connect
    <2>4. /\ After(m, a) \in MemTypes
          /\ After(m, a).rec = m.rec /\ After(m, a).up = m.up
          /\ After(m, a).clkOk = m.clkOk /\ After(m, a).corrects = m.corrects
          /\ Noted(hist, a) \in HistTypes
          /\ Noted(hist, a).took = hist.took /\ Noted(hist, a).kept = hist.kept
          /\ Noted(hist, a).moved = hist.moved /\ Noted(hist, a).stale = hist.stale
          /\ Tracked(a) \in CtlTypes
      BY <1>a, <2>2, AnswerFacts
    <2>5. disk' \in DiskTypes /\ disk'.record = disk.record
      BY <1>a, <2>1, <2>4, SaveFacts
    <2>6. CASE mem' = Refreshed(m, a, "both") /\ hist' = [Noted(hist, a) EXCEPT !.stale = FALSE]
      <3>1. "both" \in Readings /\ a \in Replies \cup {Lost}
        BY DEF Readings
      <3>2. \E n \in MemTypes, r \in Readings : n = m /\ r = "both"
        BY <2>2, <3>1
      <3> QED BY <1>c, <2>1, <2>2, <2>3, <2>5, <2>6, <3>1, <3>2
    <2>7. CASE mem' = After(m, a) /\ hist' = Noted(hist, a)
      <3>1. /\ After(m, a).home /\ After(m, a).inv = {} => Noted(hist, a).confirmed
            /\ Noted(hist, a).seen \subseteq After(m, a).inv
        BY <1>a, <2>2, AnswerTrust
      <3>2. mem'.clkOk = "ok" => clock'.onstep = ActiveError(mem', clock') \/ hist'.stale
        BY <1>a, <2>2, <2>3, <2>4, <2>7 DEF ClockOK, ActiveError
      <3> QED BY <1>a, <1>b, <2>1, <2>2, <2>3, <2>4, <2>5, <2>7, <3>1, <3>2
    <2> QED BY <2>1, <2>6, <2>7
  <1>4. CASE Disconnect
    <2> DEFINE m == Invalidate(mem, "external")
    <2>1. /\ mem' = [m EXCEPT !.open = FALSE] /\ hist' = [hist EXCEPT !.confirmed = FALSE]
          /\ UNCHANGED <<ctl, clock, disk>>
      BY <1>4 DEF Disconnect
    <2>2. budget' \in Budgets
      BY <1>a, <1>4, BudgetFacts DEF Budgets, Disconnect
    <2>3. /\ m \in MemTypes /\ m.rec = mem.rec /\ m.up = mem.up
          /\ m.clkOk = mem.clkOk /\ m.corrects = mem.corrects
          /\ mem.inv \subseteq m.inv /\ "external" \in m.inv
      BY <1>a, MemoryFacts
    <2> HIDE DEF m
    <2>4. /\ mem' \in MemTypes /\ mem'.rec = m.rec /\ mem'.up = m.up
          /\ mem'.clkOk = m.clkOk /\ mem'.corrects = m.corrects /\ mem'.inv = m.inv
      BY <2>1, <2>3 DEF MemTypes
    <2>5. /\ hist' \in HistTypes /\ hist'.seen = hist.seen
          /\ hist'.took = hist.took /\ hist'.kept = hist.kept /\ hist'.moved = hist.moved
          /\ hist'.stale = hist.stale
      BY <1>a, <2>1 DEF HistTypes
    <2>6. /\ mem'.inv # {} /\ hist'.seen \subseteq mem'.inv
          /\ mem'.clkOk = "ok" => clock'.onstep = ActiveError(mem', clock') \/ hist'.stale
      BY <1>a, <2>1, <2>3, <2>4, <2>5 DEF TrustOK, ClockOK, ActiveError
    <2>7. /\ mem'.rec = mem.rec /\ mem'.up = mem.up /\ ctl' \in CtlTypes
          /\ disk' \in DiskTypes /\ disk'.record = disk.record
          /\ clock' \in Clocks
      BY <1>a, <2>1, <2>3, <2>4
    <2> QED BY <1>b, <2>2, <2>4, <2>5, <2>6, <2>7
  <1>5. CASE SyncClock \/ SyncTimeLocation
    <2>s. PICK error \in Errors, m \in MemTypes :
            /\ Sync(error, m)
            /\ m.inv = mem.inv /\ m.home = mem.home
            /\ m.rec = mem.rec /\ m.up = mem.up
      <3>0. /\ mem.corrects \in 0..2 /\ clock.system \in 0..2
            /\ ActiveError(mem, clock) = clock.system - mem.corrects
        BY <1>a DEF MemTypes, Clocks, SystemErrors, ActiveError
      <3> DEFINE m1 == [mem EXCEPT !.timeTrusted = TRUE]
                 m2 == [mem EXCEPT !.offset = TRUE, !.corrects = clock.system]
                 m3 == [mem EXCEPT !.offset = FALSE, !.corrects = 0]
      <3>1. \A m \in {m1, m2, m3} :
                  /\ m \in MemTypes /\ m.inv = mem.inv /\ m.home = mem.home
                  /\ m.rec = mem.rec /\ m.up = mem.up
        <4>1. clock.system \in SystemErrors /\ 0 \in SystemErrors
          BY <3>0 DEF SystemErrors
        <4>2. m1 \in MemTypes /\ m2 \in MemTypes /\ m3 \in MemTypes
          BY <1>a, <4>1 DEF MemTypes
        <4>3. \A m \in {m1, m2, m3} : /\ m.inv = mem.inv /\ m.home = mem.home
                                     /\ m.rec = mem.rec /\ m.up = mem.up
          BY <1>a DEF MemTypes
        <4> QED BY <4>2, <4>3
      <3>2. ActiveError(mem, clock) \in Errors /\ 0 \in Errors
        BY <3>0 DEF Errors
      <3>3. \/ Sync(ActiveError(mem, clock), m1)
            \/ Sync(0, m2)
            \/ Sync(ActiveError(mem, clock), m3)
        BY <1>5 DEF SyncClock, SyncTimeLocation
      <3> HIDE DEF m1, m2, m3
      <3> QED BY <3>0, <3>1, <3>2, <3>3
    <2>0. UNCHANGED ctl
      BY <2>s DEF Sync
    <2>1. /\ error \in Errors /\ [clock EXCEPT !.onstep = error] \in Clocks
          /\ [clock EXCEPT !.onstep = error].onstep = error
      BY <1>a, <2>s DEF Clocks
    <2>2. CASE /\ Call
               /\ mem' = [mem EXCEPT !.sysOk = "bad", !.lock = "system_clock_invalid"]
               /\ UNCHANGED <<clock, disk, hist>>
      <3>1. /\ mem' \in MemTypes /\ mem'.inv = mem.inv /\ mem'.home = mem.home
            /\ mem'.rec = mem.rec /\ mem'.up = mem.up
            /\ mem'.clkOk = mem.clkOk /\ mem'.corrects = mem.corrects
        BY <1>a, <2>2 DEF MemTypes, Locks, ClockLocks, SystemChecks
      <3>2. budget' \in Budgets
        BY <1>a, <2>2, BudgetFacts DEF Budgets
      <3>3. mem'.clkOk = "ok" => clock'.onstep = ActiveError(mem', clock') \/ hist'.stale
        BY <1>a, <2>2, <3>1 DEF ClockOK, ActiveError
      <3> QED BY <1>a, <1>b, <2>0, <2>2, <3>1, <3>2, <3>3 DEF TrustOK
    <2>3. CASE /\ CallWith(1)
               /\ clock' \in {clock, [clock EXCEPT !.onstep = error]}
               /\ mem' = [mem EXCEPT !.sysOk = "ok"]
               /\ hist' = [hist EXCEPT !.stale = @ \/ clock' # clock]
               /\ UNCHANGED disk
      <3>1. /\ mem' \in MemTypes /\ mem'.inv = mem.inv /\ mem'.home = mem.home
            /\ mem'.rec = mem.rec /\ mem'.up = mem.up
            /\ mem'.clkOk = mem.clkOk /\ mem'.corrects = mem.corrects
        BY <1>a, <2>3 DEF MemTypes, SystemChecks
      <3>2. budget' \in Budgets /\ clock' \in Clocks
        BY <1>a, <2>1, <2>3, BudgetFacts DEF Budgets
      <3>3. PICK b \in BOOLEAN : /\ b = (hist.stale \/ clock' # clock)
                                 /\ hist' = [hist EXCEPT !.stale = b]
        BY <1>a, <2>3 DEF HistTypes
      <3>4. /\ hist' \in HistTypes /\ hist'.stale = b
            /\ hist'.took = hist.took /\ hist'.kept = hist.kept /\ hist'.moved = hist.moved
            /\ hist'.seen = hist.seen /\ hist'.confirmed = hist.confirmed
        BY <1>a, <3>3 DEF HistTypes
      <3>5. mem'.clkOk = "ok" => clock'.onstep = ActiveError(mem', clock') \/ hist'.stale
        <4>1. CASE clock' # clock
          BY <3>3, <3>4, <4>1
        <4>2. CASE clock' = clock
          BY <1>a, <3>1, <3>3, <3>4, <4>2 DEF ClockOK, ActiveError
        <4> QED BY <4>1, <4>2
      <3> QED BY <1>a, <1>b, <2>0, <2>3, <3>1, <3>2, <3>4, <3>5 DEF TrustOK
    <2>4. CASE /\ clock' = [clock EXCEPT !.onstep = error]
               /\ \E reading \in Readings :
                     /\ CallWith(Missed(reading))
                     /\ mem' = ApplyClockLock(Checked(m, clock', reading))
               /\ SaveForced(mem')
               /\ hist' = [hist EXCEPT !.stale = FALSE]
      <3>1. PICK reading \in Readings :
               /\ CallWith(Missed(reading))
               /\ mem' = ApplyClockLock(Checked(m, clock', reading))
        BY <2>4
      <3>2. clock' \in Clocks
        BY <2>1, <2>4
      <3> DEFINE c == Checked(m, clock', reading)
      <3>3. /\ c \in MemTypes /\ c.inv = mem.inv /\ c.home = mem.home
            /\ c.rec = mem.rec /\ c.up = mem.up
            /\ c.clkOk = "ok" => clock'.onstep = ActiveError(c, clock')
        BY <2>s, <3>1, <3>2, CheckFacts DEF ActiveError
      <3>4. mem' = ApplyClockLock(c)
        BY <3>1
      <3> HIDE DEF c
      <3>5. /\ mem' \in MemTypes /\ mem'.inv = mem.inv /\ mem'.home = mem.home
            /\ mem'.rec = mem.rec /\ mem'.up = mem.up
            /\ mem'.clkOk = "ok" => clock'.onstep = ActiveError(mem', clock')
        BY <3>3, <3>4, MemoryFacts DEF ActiveError
      <3>6. Missed(reading) \in {0, 1, 2}
        BY DEF Missed
      <3>7. budget' \in Budgets
        BY <1>a, <3>1, <3>6, BudgetFacts DEF Budgets
      <3>8. /\ hist' \in HistTypes
            /\ hist'.took = hist.took /\ hist'.kept = hist.kept /\ hist'.moved = hist.moved
            /\ hist'.seen = hist.seen /\ hist'.confirmed = hist.confirmed
        BY <1>a, <2>4 DEF HistTypes
      <3>9. disk' \in DiskTypes /\ disk'.record = disk.record
        <4>1. PICK n \in MemTypes : n = mem'
          BY <3>5
        <4>2. SaveForced(n)
          BY <2>4, <4>1
        <4> QED BY <1>a, <4>2, SaveFacts
      <3> QED BY <1>a, <1>b, <2>0, <3>2, <3>5, <3>7, <3>8, <3>9 DEF TrustOK
    <2> QED BY <2>s, <2>2, <2>3, <2>4 DEF Sync
  <1> QED BY <1>1, <1>2, <1>3, <1>4, <1>5

\* set_park_position_from_current: the three steps, between which the mount may
\* move and the process may end.
LEMMA SetParkSteps ==
    ASSUME MInv, BeginSetPark \/ SendSetPark \/ CommitSetPark
    PROVE  MInv'
  <1>a. /\ TypeOK /\ TrustOK /\ ClockOK /\ RecordOK
        /\ mem \in MemTypes /\ ctl \in CtlTypes /\ disk \in DiskTypes /\ hist \in HistTypes
        /\ clock \in Clocks /\ budget \in Budgets /\ loc \in Poses
    BY Pieces DEF MInv
  <1>1. CASE BeginSetPark
    <2>1. PICK a \in Answers :
            /\ CallWith(Faults(a))
            /\ ~After(mem, a).dec.limit /\ ~After(mem, a).dec.failed
            /\ ctl' = Tracked(a) /\ mem' = After(mem, a)
            /\ SaveAfter(After(mem, a), a) /\ hist' = Noted(hist, a)
      BY <1>1 DEF BeginSetPark
    <2>2. a \in Replies \cup {Lost}
      BY Pieces
    <2>3. /\ mem.up /\ mem.home /\ mem.inv = {} /\ pc' = "command" /\ loc' = ctl.pose
          /\ UNCHANGED <<clock, config>>
      BY <1>1 DEF BeginSetPark, Idle
    <2>4. budget' \in Budgets
      BY <1>a, <2>1, BudgetFacts DEF Budgets, Faults
    <2>5. Answered(a)
      BY <2>2, AnswerGives
    <2>6. disk' \in DiskTypes /\ disk'.record = disk.record
      BY <1>a, <2>1, <2>2, <2>5, SaveFacts DEF Answered
    <2>7. After(mem, a).home /\ After(mem, a).inv = {}
      <3>1. CASE a = Lost
        BY <2>3, <3>1 DEF After
      <3>2. CASE a # Lost
        <4>1. a \in Flags /\ After(mem, a) = Inspect(mem, a)
          BY <1>a, <2>2, <3>2, AnswerFacts DEF After
        <4>2. ~a.limit /\ ~a.failed
          BY <1>a, <2>1, <4>1, InspectFacts
        <4> QED BY <1>a, <2>3, <4>1, <4>2, InspectFacts
      <3> QED BY <3>1, <3>2
    <2>8. loc' \in Poses
      BY <1>a, <2>3 DEF CtlTypes
    <2>9. /\ mem' \in MemTypes /\ mem'.rec = mem.rec /\ mem'.up = mem.up
          /\ mem'.clkOk = mem.clkOk /\ mem'.corrects = mem.corrects
          /\ ctl' \in CtlTypes
          /\ hist' \in HistTypes /\ hist'.took = hist.took /\ hist'.kept = hist.kept /\ hist'.moved = hist.moved
          /\ hist'.stale = hist.stale
          /\ hist'.seen \subseteq mem'.inv /\ mem'.home /\ mem'.inv = {} /\ hist'.confirmed
      BY <2>1, <2>5, <2>7 DEF Answered
    <2>10. /\ clock' \in Clocks
           /\ mem'.clkOk = "ok" => clock'.onstep = ActiveError(mem', clock') \/ hist'.stale
      BY <1>a, <2>3, <2>9 DEF ClockOK, ActiveError
    <2> QED BY <2>3, <2>4, <2>6, <2>8, <2>9, <2>10, MemoryStep
  <1>2. CASE SendSetPark
    <2>1. /\ pc = "command" /\ mem.up /\ UNCHANGED <<clock, mem, disk, loc, config>>
          /\ pc' \in {"commit", "idle"}
      BY <1>2 DEF SendSetPark
    <2>2. budget' \in Budgets
      BY <1>a, <1>2, BudgetFacts DEF Budgets, SendSetPark
    <2>3. ctl' \in CtlTypes
      <3>1. ctl' \in {ctl, [ctl EXCEPT !.park = ctl.pose]}
        BY <1>2 DEF SendSetPark, ParkTaken
      <3> QED BY <1>a, <3>1 DEF CtlTypes, Records
    <2>4. \/ UNCHANGED hist /\ pc' = "idle"
          \/ hist' = [hist EXCEPT !.took = ctl.pose]
      BY <1>2 DEF SendSetPark
    <2>5. ctl.pose \in Poses
      BY <1>a DEF CtlTypes
    <2>6. /\ hist' \in HistTypes /\ hist'.seen = hist.seen
          /\ hist'.confirmed = hist.confirmed /\ hist'.stale = hist.stale
          /\ hist'.kept = hist.kept /\ hist'.moved = hist.moved
          /\ pc' = "commit" => hist'.took = ctl.pose
      BY <1>a, <2>4, <2>5 DEF HistTypes, Records
    <2>7. TypeOK'
      BY <1>a, <2>1, <2>2, <2>3, <2>6 DEF TypeOK, Budgets
    <2>8. TrustOK'
      BY <1>a, <2>1, <2>6 DEF TrustOK
    <2>9. RecordOK'
      BY <1>a, <2>1, <2>5, <2>6 DEF RecordOK, StoredWasAccepted
    <2>10. ClockOK' /\ PlaceOK'
      BY <1>a, <2>1, <2>6 DEF ClockOK, PlaceOK, ActiveError
    <2> QED BY <2>7, <2>8, <2>9, <2>10 DEF MInv
  <1>3. CASE CommitSetPark
    <2>1. pc = "commit" /\ mem.up /\ pc' = "idle" /\ UNCHANGED <<ctl, clock, loc, config>>
      BY <1>3 DEF CommitSetPark
    <2>2. budget' \in Budgets
      BY <1>a, <1>3, BudgetFacts DEF Budgets, CommitSetPark
    <2>3. CASE UNCHANGED <<mem, disk>> /\ hist' = [hist EXCEPT !.took = NoRecord]
      <3>0. /\ hist' \in HistTypes /\ hist'.seen = hist.seen
            /\ hist'.confirmed = hist.confirmed /\ hist'.stale = hist.stale
            /\ hist'.kept = hist.kept /\ hist'.moved = hist.moved
        BY <1>a, <2>3 DEF HistTypes, Records
      <3>1. TypeOK'
        BY <1>a, <2>1, <2>2, <2>3, <3>0 DEF TypeOK, Budgets
      <3>2. TrustOK' /\ RecordOK' /\ ClockOK' /\ PlaceOK'
        BY <1>a, <2>1, <2>3, <3>0
           DEF TrustOK, RecordOK, StoredWasAccepted, ClockOK, PlaceOK, ActiveError
      <3> QED BY <3>1, <3>2 DEF MInv
    <2>4. CASE /\ mem' = StartupForgiven([mem EXCEPT !.rec = loc])
               /\ disk' = [record |-> loc, state |-> Saved(mem')]
               /\ hist' = [hist EXCEPT !.kept = hist.took, !.took = NoRecord,
                                       !.moved = hist.took \notin {loc, NoRecord}]
      <3> DEFINE m == [mem EXCEPT !.rec = loc]
      <3>1. /\ m \in MemTypes /\ m.rec = loc /\ m.up = mem.up /\ m.inv = mem.inv
            /\ m.home = mem.home /\ m.clkOk = mem.clkOk /\ m.corrects = mem.corrects
        BY <1>a DEF MemTypes, Records
      <3>2. mem' = StartupForgiven(m) /\ disk' = [record |-> loc, state |-> Saved(StartupForgiven(m))]
        BY <2>4
      <3> HIDE DEF m
      <3>3. /\ mem' \in MemTypes /\ mem'.rec = loc /\ mem'.up /\ mem'.home = mem.home
            /\ mem'.inv = mem.inv \ {"nostate", "persisted"}
            /\ mem'.clkOk = mem.clkOk /\ mem'.corrects = mem.corrects
        BY <2>1, <3>1, <3>2, MemoryFacts
      <3>4. disk' \in DiskTypes /\ disk'.record = loc
        <4>1. Saved(StartupForgiven(m)) \in States
          BY <3>2, <3>3, MemoryFacts
        <4> QED BY <1>a, <3>2, <4>1 DEF DiskTypes, Records
      <3>5. PICK b \in BOOLEAN : /\ b = (hist.took \notin {loc, NoRecord})
                                 /\ hist' = [hist EXCEPT !.kept = hist.took, !.took = NoRecord,
                                                         !.moved = b]
        BY <2>4
      <3>6. /\ hist' \in HistTypes /\ hist'.kept = hist.took /\ hist'.moved = b
            /\ hist'.seen = hist.seen /\ hist'.confirmed = hist.confirmed
            /\ hist'.stale = hist.stale
        BY <1>a, <3>5 DEF HistTypes, Records
      <3>7. mem.home /\ mem.inv = {} /\ mem'.inv = {} /\ hist.seen = {} /\ hist.confirmed
        BY <1>a, <2>1, <3>3 DEF TrustOK
      <3>8. TypeOK'
        BY <1>a, <2>1, <2>2, <3>3, <3>4, <3>6 DEF TypeOK, Budgets
      <3>9. TrustOK'
        BY <2>1, <3>3, <3>6, <3>7 DEF TrustOK
      <3>10. RecordOK'
        BY <1>a, <2>1, <3>3, <3>4, <3>5, <3>6 DEF RecordOK, StoredWasAccepted
      <3>11. ClockOK' /\ PlaceOK'
        BY <1>a, <2>1, <3>3, <3>6 DEF ClockOK, PlaceOK, ActiveError
      <3> QED BY <3>8, <3>9, <3>10, <3>11 DEF MInv
    <2> QED BY <1>3, <2>3, <2>4 DEF CommitSetPark
  <1> QED BY <1>1, <1>2, <1>3

\* What a goto that passes its checks has found.
LEMMA GotoFinds ==
    ASSUME MInv, CheckGoto, NEW a \in Replies, Preflight(After(mem, a), a)
    PROVE  /\ ~ctl.parked /\ ~ctl.slewing /\ ~ctl.limit /\ ~ctl.failed
           /\ After(mem, a).home /\ After(mem, a).inv = {}
           /\ \/ clock.onstep = ActiveError(mem, clock)
              \/ hist.stale /\ mem.clkOk # "unset"
  <1>a. TypeOK /\ ClockOK /\ mem \in MemTypes
    BY Pieces
  <1>1. mem.home /\ TimeReady(mem)
    BY DEF CheckGoto, MayStart
  <1>2. a # Lost /\ After(mem, a) = Inspect(mem, a) /\ ~a.parked /\ ~a.slewing
    BY DEF Preflight, After
  <1>3. /\ a \in Flags /\ a.parked = ctl.parked /\ a.slewing = ctl.slewing
        /\ a.limit = ctl.limit /\ a.failed = ctl.failed
    BY <1>a, <1>2, AnswerFacts
  <1>4. Inspect(mem, a).inv = {} /\ Inspect(mem, a).home
    BY <1>2 DEF Preflight, Authority
  <1>5. ~a.limit /\ ~a.failed
    BY <1>a, <1>3, <1>4, InspectFacts
  <1>6. \/ mem.clkOk = "ok"
        \/ mem.clkOk = "unset" /\ clock.onstep = ActiveError(mem, clock)
    BY <1>1 DEF TimeReady, ClockReady, ClockCheck
  <1>7. \/ clock.onstep = ActiveError(mem, clock)
        \/ hist.stale /\ mem.clkOk # "unset"
    BY <1>a, <1>6 DEF ClockOK
  <1> QED BY <1>2, <1>3, <1>4, <1>5, <1>7

\* The motion that the authority gates.
LEMMA MotionSteps ==
    ASSUME MInv, Unpark \/ LookAfterUnpark \/ CheckGoto \/ SendGoto
    PROVE  MInv'
  <1>a. /\ TypeOK /\ TrustOK /\ ClockOK
        /\ mem \in MemTypes /\ ctl \in CtlTypes /\ disk \in DiskTypes /\ hist \in HistTypes
        /\ clock \in Clocks /\ budget \in Budgets /\ loc \in Poses
    BY Pieces
  <1>0. /\ mem.up /\ UNCHANGED <<clock, loc, config>>
        /\ pc' \in {"idle", "look", "goto"}
        /\ pc' = "goto" => CheckGoto
    BY DEF Unpark, LookAfterUnpark, CheckGoto, SendGoto, Idle
  <1>b. ASSUME mem' \in MemTypes, mem'.rec = mem.rec, mem'.up = mem.up,
               ctl' \in CtlTypes,
               disk' \in DiskTypes, disk'.record = disk.record,
               hist' \in HistTypes, hist'.took = hist.took, hist'.kept = hist.kept,
               hist'.moved = hist.moved, budget' \in Budgets,
               mem'.home /\ mem'.inv = {} => hist'.confirmed,
               hist'.seen \subseteq mem'.inv,
               mem'.clkOk = mem.clkOk, mem'.corrects = mem.corrects,
               hist'.stale = hist.stale, pc' # "goto"
        PROVE  MInv'
    <2>1. /\ clock' \in Clocks /\ loc' \in Poses
          /\ UNCHANGED config
          /\ mem'.clkOk = "ok" => clock'.onstep = ActiveError(mem', clock') \/ hist'.stale
      BY <1>0, <1>a, <1>b DEF ClockOK, ActiveError
    <2>2. pc' \in {"idle", "look", "command", "goto"} /\ pc' \notin {"command", "goto"}
      BY <1>0, <1>b
    <2> QED BY <1>0, <1>b, <2>1, <2>2, MemoryStep
  <1>1. CASE Unpark
    <2>1. SaveForced(mem) /\ UNCHANGED <<mem, hist>> /\ pc' # "goto"
      BY <1>1 DEF Unpark
    <2>2. ctl' \in CtlTypes
      BY <1>1, <1>a DEF Unpark, CtlTypes
    <2>3. budget' \in Budgets
      BY <1>a, <1>1, BudgetFacts DEF Budgets, Unpark
    <2>4. disk' \in DiskTypes /\ disk'.record = disk.record
      BY <1>a, <2>1, SaveFacts
    <2> QED BY <1>a, <1>b, <2>1, <2>2, <2>3, <2>4 DEF TrustOK
  <1>2. CASE LookAfterUnpark
    <2>1. PICK a \in Answers :
            /\ IF Faults(a) = 0 THEN UNCHANGED budget ELSE Fault
            /\ ctl' = Tracked(a) /\ mem' = After(mem, a)
            /\ SaveAfter(mem', a) /\ hist' = Noted(hist, a)
            /\ pc' # "goto"
      BY <1>2 DEF LookAfterUnpark
    <2>2. a \in Replies \cup {Lost}
      BY Pieces
    <2>3. budget' \in Budgets
      BY <1>a, <2>1, BudgetFacts DEF Budgets
    <2>4. Answered(a)
      BY <2>2, AnswerGives
    <2>5. disk' \in DiskTypes /\ disk'.record = disk.record
      <3>1. SaveAfter(After(mem, a), a)
        BY <2>1
      <3> QED BY <1>a, <2>2, <2>4, <3>1, SaveFacts DEF Answered
    <2> QED BY <1>b, <2>1, <2>3, <2>4, <2>5 DEF Answered
  <1>3. CASE CheckGoto
    <2>1. PICK a \in Replies :
            /\ Preflight(After(mem, a), a)
            /\ ctl' = Tracked(a) /\ mem' = After(mem, a)
            /\ SaveAfter(mem', a)
            /\ hist' = [Noted(hist, a) EXCEPT
                     !.clear = ~ctl.parked /\ ~ctl.slewing /\ ~ctl.limit /\ ~ctl.failed,
                     !.stale = @ /\ mem.clkOk # "unset"]
      BY <1>3 DEF CheckGoto
    <2>2. /\ ~ctl.parked /\ ~ctl.slewing /\ ~ctl.limit /\ ~ctl.failed
          /\ After(mem, a).home /\ After(mem, a).inv = {}
          /\ \/ clock.onstep = ActiveError(mem, clock)
             \/ hist.stale /\ mem.clkOk # "unset"
      BY <1>3, <2>1, GotoFinds
    <2>3. Answered(a)
      BY AnswerGives
    <2> DEFINE m == After(mem, a)
               h == Noted(hist, a)
    <2>4. /\ m \in MemTypes /\ m.rec = mem.rec /\ m.up = mem.up /\ m.home /\ m.inv = {}
          /\ m.clkOk = mem.clkOk /\ m.corrects = mem.corrects
          /\ h \in HistTypes /\ h.took = hist.took /\ h.kept = hist.kept
          /\ h.moved = hist.moved /\ h.stale = hist.stale
          /\ h.confirmed /\ h.seen \subseteq m.inv
          /\ Tracked(a) \in CtlTypes
      BY <2>2, <2>3 DEF Answered
    <2>5. PICK b \in BOOLEAN :
            /\ b = (hist.stale /\ mem.clkOk # "unset")
            /\ hist' = [h EXCEPT !.clear = TRUE, !.stale = b]
      <3>1. (~ctl.parked /\ ~ctl.slewing /\ ~ctl.limit /\ ~ctl.failed) = TRUE
        BY <2>2
      <3>2. hist' = [h EXCEPT !.clear = TRUE, !.stale = hist.stale /\ mem.clkOk # "unset"]
        BY <2>1, <2>4, <3>1
      <3> QED BY <3>2
    <2> HIDE DEF h
    <2>6. /\ hist' \in HistTypes /\ hist'.took = hist.took /\ hist'.kept = hist.kept
          /\ hist'.moved = hist.moved /\ hist'.clear /\ hist'.stale = b
          /\ hist'.confirmed /\ hist'.seen = h.seen
      BY <2>4, <2>5 DEF HistTypes
    <2>7. budget' \in Budgets
      BY <1>a, <1>3, BudgetFacts DEF Budgets, CheckGoto
    <2>8. disk' \in DiskTypes /\ disk'.record = disk.record
      <3>1. SaveAfter(After(mem, a), a)
        BY <2>1
      <3> QED BY <1>a, <2>4, <3>1, SaveFacts
    <2>9. mem' = m /\ ctl' \in CtlTypes
      BY <2>1, <2>4
    <2>10. clock'.onstep = ActiveError(m, clock') \/ hist'.stale
      BY <1>0, <2>2, <2>4, <2>5, <2>6 DEF ActiveError
    <2>11. pc' = "goto" /\ clock' \in Clocks /\ loc' \in Poses /\ UNCHANGED config
      BY <1>0, <1>3, <1>a DEF CheckGoto
    <2> HIDE DEF m
    <2> QED BY <1>0, <2>4, <2>6, <2>7, <2>8, <2>9, <2>10, <2>11, MemoryStep
  <1>4. CASE SendGoto
    <2> DEFINE off == [ctl EXCEPT !.slewing = TRUE, !.athome = FALSE]
    <2>1. /\ pc = "goto" /\ pc' = "idle"
          /\ ctl' \in {ctl, off}
          /\ mem' \in {mem, [mem EXCEPT !.lock = "limit"]}
          /\ UNCHANGED disk \/ SaveForced(mem)
          /\ UNCHANGED budget \/ Fault
          /\ hist' = [hist EXCEPT !.clear = FALSE]
      BY <1>4 DEF SendGoto
    <2>2. ctl' \in CtlTypes
      BY <1>a, <2>1 DEF CtlTypes
    <2>3. /\ mem' \in MemTypes /\ mem'.rec = mem.rec /\ mem'.up = mem.up
          /\ mem'.clkOk = mem.clkOk /\ mem'.corrects = mem.corrects
          /\ mem'.home = mem.home /\ mem'.inv = mem.inv
      BY <1>a, <2>1 DEF MemTypes, Locks
    <2>4. /\ hist' \in HistTypes /\ hist'.took = hist.took /\ hist'.kept = hist.kept
          /\ hist'.moved = hist.moved /\ hist'.stale = hist.stale
          /\ hist'.confirmed = hist.confirmed /\ hist'.seen = hist.seen
      BY <1>a, <2>1 DEF HistTypes
    <2>5. budget' \in Budgets
      BY <1>a, <2>1, BudgetFacts DEF Budgets
    <2>6. disk' \in DiskTypes /\ disk'.record = disk.record
      BY <1>a, <2>1, SaveFacts
    <2> QED BY <1>a, <1>b, <2>1, <2>2, <2>3, <2>4, <2>5, <2>6 DEF TrustOK
  <1> QED BY <1>1, <1>2, <1>3, <1>4

\* A crash, with the memory gone, and the next start, from what the disk holds.
LEMMA ProcessSteps ==
    ASSUME MInv, Crash \/ Restart
    PROVE  MInv'
  <1>a. /\ TypeOK /\ TrustOK /\ RecordOK /\ ClockOK
        /\ mem \in MemTypes /\ ctl \in CtlTypes /\ disk \in DiskTypes /\ hist \in HistTypes
        /\ clock \in Clocks /\ budget \in Budgets /\ loc \in Poses
    BY Pieces DEF MInv
  <1>1. CASE Crash
    <2>1. /\ UNCHANGED <<ctl, clock, disk, loc, config>> /\ pc' = "idle"
          /\ mem' = [mem EXCEPT !.up = FALSE]
          /\ hist' = [hist EXCEPT !.took = NoRecord, !.clear = FALSE]
      BY <1>1 DEF Crash
    <2>2. budget' \in Budgets
      BY <1>a, <1>1, BudgetFacts DEF Crash, Budgets
    <2>3. /\ mem' \in MemTypes /\ mem'.rec = mem.rec /\ ~mem'.up
          /\ mem'.home = mem.home /\ mem'.inv = mem.inv
          /\ mem'.clkOk = mem.clkOk /\ mem'.corrects = mem.corrects
      BY <1>a, <2>1 DEF MemTypes
    <2>4. /\ hist' \in HistTypes /\ hist'.kept = hist.kept /\ hist'.moved = hist.moved
          /\ hist'.stale = hist.stale
          /\ hist'.confirmed = hist.confirmed /\ hist'.seen = hist.seen
      BY <1>a, <2>1 DEF HistTypes, Records
    <2>5. TypeOK'
      BY <1>a, <2>1, <2>2, <2>3, <2>4 DEF TypeOK, Budgets
    <2>6. TrustOK' /\ RecordOK' /\ ClockOK' /\ PlaceOK'
      BY <1>a, <2>1, <2>3, <2>4
         DEF TrustOK, RecordOK, StoredWasAccepted, ClockOK, PlaceOK, ActiveError
    <2> QED BY <2>5, <2>6 DEF MInv
  <1>2. CASE Restart
    <2>1. /\ ~mem.up /\ UNCHANGED <<ctl, clock, disk, pc, loc, config, budget>>
          /\ mem' = Started(disk.state, disk.record)
          /\ hist' = [hist EXCEPT !.confirmed = mem'.home /\ mem'.inv = {}, !.seen = {},
                                  !.stale = FALSE]
      BY <1>2 DEF Restart
    <2>2. config \in [home : BOOLEAN, time : BOOLEAN] /\ disk.state \in {NoState} \cup States /\ disk.record \in Records
      BY <1>a DEF TypeOK, DiskTypes
    <2>3. /\ mem' \in MemTypes /\ mem'.rec = disk.record /\ mem'.up
          /\ mem'.clkOk = "unset"
      BY <2>1, <2>2, StartedFacts
    <2>4. (mem'.home /\ mem'.inv = {}) \in BOOLEAN
      OBVIOUS
    <2>5. /\ hist' \in HistTypes /\ hist'.seen = {}
          /\ hist'.confirmed = (mem'.home /\ mem'.inv = {})
          /\ hist'.took = hist.took /\ hist'.kept = hist.kept /\ hist'.moved = hist.moved
      BY <1>a, <2>1, <2>4 DEF HistTypes
    <2>6. pc = "idle"
      BY <1>a, <2>1 DEF MInv, PlaceOK
    <2>7. TypeOK'
      BY <1>a, <2>1, <2>3, <2>5 DEF TypeOK, Budgets
    <2>8. TrustOK' /\ RecordOK' /\ ClockOK' /\ PlaceOK'
      BY <1>a, <2>1, <2>3, <2>5, <2>6
         DEF TrustOK, RecordOK, StoredWasAccepted, ClockOK, PlaceOK
    <2> QED BY <2>7, <2>8 DEF MInv
  <1> QED BY <1>1, <1>2

\* The mount and the clocks by themselves, whether or not the process is up.
LEMMA ControllerSteps ==
    ASSUME MInv,
           \/ Goes \/ Arrives \/ Parks \/ ParkFails \/ HitsLimit \/ LeavesLimit
           \/ PowerCycle \/ SystemClockSet
    PROVE  MInv'
  <1>a. /\ TypeOK /\ TrustOK /\ RecordOK /\ ClockOK /\ PlaceOK
        /\ mem \in MemTypes /\ ctl \in CtlTypes /\ disk \in DiskTypes /\ hist \in HistTypes
        /\ clock \in Clocks /\ budget \in Budgets /\ loc \in Poses
    BY Pieces DEF MInv
  <1>b. ASSUME ctl' \in CtlTypes, budget' \in Budgets,
               UNCHANGED <<mem, disk, pc, loc, config>>,
               clock' \in Clocks,
               hist' \in HistTypes, hist'.seen = hist.seen,
               hist'.confirmed = hist.confirmed, hist'.clear = hist.clear,
               hist'.took = hist.took, hist'.kept = hist.kept, hist'.moved = hist.moved,
               UNCHANGED <<clock, hist>> \/ hist'.stale
        PROVE  MInv'
    <2>1. TypeOK'
      BY <1>a, <1>b DEF TypeOK, Budgets
    <2>2. TrustOK' /\ RecordOK' /\ PlaceOK'
      BY <1>a, <1>b DEF TrustOK, RecordOK, StoredWasAccepted, PlaceOK
    <2>3. ClockOK'
      BY <1>a, <1>b DEF ClockOK, ActiveError
    <2> QED BY <2>1, <2>2, <2>3 DEF MInv
  <1>1. CASE Goes \/ Arrives \/ Parks \/ ParkFails \/ HitsLimit \/ LeavesLimit
    <2>1. UNCHANGED <<mem, disk, pc, loc, config, hist, clock>>
      BY <1>1 DEF Goes, Arrives, Parks, ParkFails, HitsLimit, LeavesLimit, Controller
    <2>2. ctl' \in CtlTypes
      <3>1. CASE Goes \/ ParkFails \/ HitsLimit \/ LeavesLimit
        BY <1>a, <3>1 DEF Goes, ParkFails, HitsLimit, LeavesLimit, Controller, CtlTypes
      <3>2. CASE Arrives
        <4>1. PICK p \in Poses :
                ctl' = [ctl EXCEPT !.slewing = FALSE, !.pose = p, !.athome = (p = HomePose)]
          BY <3>2 DEF Arrives, Controller
        <4>2. (p = HomePose) \in BOOLEAN
          OBVIOUS
        <4> QED BY <1>a, <4>1, <4>2 DEF CtlTypes
      <3>3. CASE Parks
        <4>1. ctl.park \in Poses
          BY <1>a, <3>3 DEF Parks, CtlTypes, Records
        <4> QED BY <1>a, <3>3, <4>1 DEF Parks, Controller, CtlTypes
      <3> QED BY <1>1, <3>1, <3>2, <3>3
    <2>3. budget' \in Budgets
      BY <1>1, <1>a, BudgetFacts
         DEF Budgets, Goes, Arrives, Parks, ParkFails, HitsLimit, LeavesLimit
    <2> QED BY <1>a, <1>b, <2>1, <2>2, <2>3
  <1>2. CASE PowerCycle
    <2>1. /\ Fault /\ UNCHANGED <<mem, disk, pc, loc, config>>
          /\ ctl' = [ctl EXCEPT !.tracking = FALSE, !.slewing = FALSE]
          /\ clock' = [clock EXCEPT !.onstep = Epoch]
          /\ hist' = [hist EXCEPT !.stale = TRUE]
      BY <1>2 DEF PowerCycle
    <2>2. budget' \in Budgets
      BY <1>a, <2>1, BudgetFacts DEF Budgets
    <2>3. ctl' \in CtlTypes
      BY <1>a, <2>1 DEF CtlTypes
    <2>4. clock' \in Clocks
      BY <1>a, <2>1 DEF Clocks
    <2>5. /\ hist' \in HistTypes /\ hist'.stale /\ hist'.seen = hist.seen
          /\ hist'.confirmed = hist.confirmed /\ hist'.clear = hist.clear
          /\ hist'.took = hist.took /\ hist'.kept = hist.kept /\ hist'.moved = hist.moved
      BY <1>a, <2>1 DEF HistTypes
    <2> QED BY <1>b, <2>1, <2>2, <2>3, <2>4, <2>5
  <1>3. CASE SystemClockSet
    <2>1. /\ UNCHANGED <<ctl, mem, disk, pc, loc, config, budget>>
          /\ clock' = [clock EXCEPT !.system = 0]
          /\ hist' = [hist EXCEPT !.stale = TRUE]
      BY <1>3 DEF SystemClockSet
    <2>2. clock' \in Clocks
      BY <1>a, <2>1 DEF Clocks, SystemErrors
    <2>3. /\ hist' \in HistTypes /\ hist'.stale /\ hist'.seen = hist.seen
          /\ hist'.confirmed = hist.confirmed /\ hist'.clear = hist.clear
          /\ hist'.took = hist.took /\ hist'.kept = hist.kept /\ hist'.moved = hist.moved
      BY <1>a, <2>1 DEF HistTypes
    <2> QED BY <1>a, <1>b, <2>1, <2>2, <2>3
  <1> QED BY <1>1, <1>2, <1>3

\* Every step keeps the invariant.
LEMMA NextMInv == MInv /\ [Next]_vars => MInv'
  <1> SUFFICES ASSUME MInv, [Next]_vars PROVE MInv'
    OBVIOUS
  <1>1. CASE UNCHANGED vars
    BY <1>1 DEF vars, MInv, TypeOK, TrustOK, RecordOK, StoredWasAccepted, ClockOK, PlaceOK, ActiveError
  <1>2. CASE Poll \/ ConfirmHome \/ AwaitHome \/ ReportChange \/ ConfirmParkPose \/ ClearLock
    BY <1>2, StatusSteps
  <1>3. CASE Refresh \/ UpdateObserver \/ SyncClock \/ SyncTimeLocation \/ Connect \/ Disconnect
    BY <1>3, ClockSteps
  <1>4. CASE BeginSetPark \/ SendSetPark \/ CommitSetPark
    BY <1>4, SetParkSteps
  <1>5. CASE Unpark \/ LookAfterUnpark \/ CheckGoto \/ SendGoto
    BY <1>5, MotionSteps
  <1>6. CASE Crash \/ Restart
    BY <1>6, ProcessSteps
  <1>7. CASE \/ Goes \/ Arrives \/ Parks \/ ParkFails \/ HitsLimit \/ LeavesLimit
             \/ PowerCycle \/ SystemClockSet
    BY <1>7, ControllerSteps
  <1> QED BY <1>1, <1>2, <1>3, <1>4, <1>5, <1>6, <1>7 DEF Next

\* The inductive invariant holds in every state.
THEOREM MInvHolds == Spec => []MInv
  BY InitMInv, NextMInv, PTL DEF Spec

-----------------------------------------------------------------------------
(* What follows.                                                           *)

\* Every variable keeps its type.
THEOREM AuthorityTyped == Spec => []TypeOK
  <1>1. MInv => TypeOK
    BY DEF MInv
  <1> QED BY <1>1, MInvHolds, PTL

\* Whatever is confirmed, cleared, polled and restarted, the position is trusted
\* only after a confirmation of HOME that nothing reported contradicts.
THEOREM TrustEarned == Spec => []TrustIsEarned
  <1>1. MInv => TrustIsEarned
    <2> SUFFICES ASSUME MInv, Authority(mem) = "trusted"
                 PROVE  hist.confirmed /\ hist.seen = {}
      BY DEF TrustIsEarned
    <2>1. mem.home /\ mem.inv = {}
      BY DEF Authority
    <2> QED BY <2>1 DEF MInv, TrustOK
  <1> QED BY <1>1, MInvHolds, PTL

\* The PARK record in memory is the one on disk, written by a call whose :hQ# the
\* controller took, and of the pose it took unless the mount had moved by itself.
THEOREM StoredAccepted == Spec => []StoredWasAccepted
  <1>1. MInv => StoredWasAccepted
    BY DEF MInv, RecordOK
  <1> QED BY <1>1, MInvHolds, PTL

\* :MS# is sent only for a goto whose status found the mount free to move, after a
\* confirmation of HOME, with a controller clock that agrees with the active time
\* or was changed since the check made last.
THEOREM GotoInformed == Spec => GotoIsInformed
  <1>1. ASSUME MInv, SendGoto
        PROVE  /\ hist.confirmed /\ hist.seen = {} /\ hist.clear
               /\ clock.onstep = ActiveError(mem, clock) \/ hist.stale
    <2>1. pc = "goto"
      BY <1>1 DEF SendGoto
    <2> QED BY <1>1, <2>1 DEF MInv, TrustOK, ClockOK
  <1>2. MInv /\ [Next]_vars =>
          [SendGoto => /\ hist.confirmed /\ hist.seen = {} /\ hist.clear
                       /\ clock.onstep = ActiveError(mem, clock) \/ hist.stale]_vars
    BY <1>1
  <1> QED BY <1>2, MInvHolds, PTL DEF Spec, GotoIsInformed

============================================================================
