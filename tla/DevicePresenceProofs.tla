------------------------- MODULE DevicePresenceProofs -------------------------
(***************************************************************************)
(* What holds of DevicePresence for every number of sockets and every      *)
(* setting of the timers that TimingAssumption allows.                     *)
(***************************************************************************)
EXTENDS DevicePresence, TLAPS

\* The timer constants, as the arithmetic below needs them.
LEMMA ConstantsInNat ==
  /\ Timeout \in Nat /\ Grace \in Nat /\ RecheckSlack \in Nat
  /\ WatchdogSlack \in Nat /\ Heartbeat \in Nat /\ CronPeriod \in Nat
  /\ Timeout >= 1 /\ Grace >= 1 /\ RecheckSlack >= 1
  /\ Heartbeat >= 1 /\ CronPeriod >= 1
  /\ Heartbeat <= Timeout /\ RecheckSlack <= WatchdogSlack
  /\ Grace + WatchdogSlack <= Timeout
  /\ MaxAge \in Nat /\ MaxAge > 2 * Timeout
BY TimingAssumption DEF MaxAge

\* When alarm() finds nothing to report, the next deadline lies ahead and not
\* beyond the staleness cutoff.
LEMMA NextCheckBounds ==
  ASSUME TypeOK, ~Stale, ~GraceElapsed
  PROVE  /\ NextCheck \in 1 .. (Timeout + RecheckSlack)
         /\ lastSeen + NextCheck <= Timeout + RecheckSlack
BY ConstantsInNat DEF TypeOK, Stale, GraceElapsed, NextCheck, NotSet

\* A Tick ages a timestamp by at most one and never makes it younger.
LEMMA OlderBounds ==
  ASSUME NEW a \in 0 .. MaxAge
  PROVE  Older(a) \in 0 .. MaxAge /\ Older(a) <= a + 1 /\ Older(a) >= a
BY ConstantsInNat DEF Older

-----------------------------------------------------------------------------
\* Every reachable state is well-typed, whatever faults are allowed.
THEOREM TypeCorrect == Spec => []TypeOK
<1>1. Init => TypeOK
  BY ConstantsInNat DEF Init, TypeOK, NotSet, Status
<1>2. TypeOK /\ [Next]_vars => TypeOK'
  <2> SUFFICES ASSUME TypeOK, [Next]_vars PROVE TypeOK'
    OBVIOUS
  <2> USE ConstantsInNat
  <2>1. ASSUME NEW s \in Socket, Drop(s) \/ Forgotten(s) PROVE TypeOK'
    BY <2>1 DEF Drop, Forgotten, TypeOK, storage, row
  <2>2. ASSUME PowerOff \/ PowerOn PROVE TypeOK'
    BY <2>2 DEF PowerOff, PowerOn, TypeOK, storage, row
  <2>3. ASSUME NEW s \in Socket, Connect(s) PROVE TypeOK'
    BY <2>3 DEF Connect, TypeOK, row, NotSet
  <2>4. ASSUME NEW s \in Socket, MarkOnline(s) PROVE TypeOK'
    BY <2>4 DEF MarkOnline, TypeOK, network, storage, Status
  <2>5. ASSUME NEW s \in Socket, ConnectTouch(s) PROVE TypeOK'
    BY <2>5 DEF ConnectTouch, Touch, TypeOK, network, NotSet
  <2>6. ASSUME NEW s \in Socket, ConnectDies(s) PROVE TypeOK'
    BY <2>6 DEF ConnectDies, TypeOK, storage, row
  <2>7. ASSUME NEW s \in Socket, Message(s) PROVE TypeOK'
    BY <2>7 DEF Message, Touch, TypeOK, NotSet
  <2>8. ASSUME NEW s \in Socket, SocketClose(s) PROVE TypeOK'
    BY <2>8 DEF SocketClose, ScheduleDisconnectSweep, TypeOK, row, NotSet
  <2>9. ASSUME AlarmFires PROVE TypeOK'
    <3>1. alarm' \in NotSet .. (Timeout + WatchdogSlack)
      BY <2>9, NextCheckBounds DEF AlarmFires, TypeOK, NotSet
    <3>2. watch' \in {"idle", "select", "update", "clear"}
      BY <2>9 DEF AlarmFires, TypeOK
    <3> QED
      BY <2>9, <3>1, <3>2 DEF AlarmFires, TypeOK, network, row
  <2>10. ASSUME AlarmSelect \/ AlarmFlip \/ AlarmClear PROVE TypeOK'
    BY <2>10 DEF AlarmSelect, AlarmFlip, AlarmClear, TypeOK, network,
                 storage, row, NotSet, Status
  <2>11. ASSUME AlarmDies PROVE TypeOK'
    BY <2>11 DEF AlarmDies, TypeOK, network, row, NotSet
  <2>12. ASSUME NEW w \in BOOLEAN, Health(w) PROVE TypeOK'
    BY <2>12 DEF Health, TypeOK, network, storage, Status
  <2>13. ASSUME NEW st \in {"offline", "maintenance"}, OperatorSets(st)
         PROVE  TypeOK'
    BY <2>13 DEF OperatorSets, TypeOK, network, storage, Status
  <2>14. ASSUME CronFires \/ SweepFlip PROVE TypeOK'
    BY <2>14 DEF CronFires, SweepFlip, TypeOK, network, storage, row, Status
  <2>15. ASSUME Tick PROVE TypeOK'
    <3>1. /\ lastSeen' \in 0 .. MaxAge
          /\ disconnectedAt' \in NotSet .. MaxAge
          /\ lastSeenAt' \in 0 .. MaxAge
      BY <2>15, OlderBounds DEF Tick, TypeOK, NotSet
    <3>2. alarm' \in NotSet .. (Timeout + WatchdogSlack) /\ cron' \in 0 .. CronPeriod
      BY <2>15 DEF Tick, Quiet, TypeOK, NotSet
    <3>3. beat' \in [Socket -> 0 .. Heartbeat]
      BY <2>15 DEF Tick, Quiet, TypeOK
    <3> QED
      BY <2>15, <3>1, <3>2, <3>3 DEF Tick, TypeOK
  <2>16. ASSUME UNCHANGED vars PROVE TypeOK'
    BY <2>16 DEF vars, network, storage, row, TypeOK
  <2> QED
    BY <2>1, <2>2, <2>3, <2>4, <2>5, <2>6, <2>7, <2>8, <2>9, <2>10, <2>11,
       <2>12, <2>13, <2>14, <2>15, <2>16 DEF Next
<1> QED
  BY <1>1, <1>2, PTL DEF Spec

-----------------------------------------------------------------------------
(* Without late closes: an established socket is the only one, and the       *)
(* object heard from it within a heartbeat interval.                         *)

OneSocket ==
  \A s, t \in Socket : link[s] # "free" /\ link[t] # "free" => s = t

Heard ==
  \A s \in Socket : Established(s) =>
    disconnectedAt = NotSet /\ lastSeen <= beat[s]

LinkInv == TypeOK /\ OneSocket /\ Heard

\* alarm() finds no reason to judge a device that holds an established socket.
LEMMA HeardNoVerdict ==
  ASSUME LinkInv, NEW s \in Socket, Established(s)
  PROVE  ~Stale /\ ~GraceElapsed
BY ConstantsInNat DEF LinkInv, Heard, TypeOK, Stale, GraceElapsed

\* LinkInv is preserved by every step, handlers that die included.
LEMMA LinkInvStep ==
  ASSUME "late_close" \notin Faults, LinkInv, [Next]_vars, TypeOK'
  PROVE  LinkInv'
<1> USE DEF LinkInv, Established
<1>1. ASSUME NEW s \in Socket, Drop(s) \/ Forgotten(s) PROVE LinkInv'
  BY <1>1 DEF Drop, Forgotten, TypeOK, OneSocket, Heard, storage
<1>2. ASSUME PowerOff \/ PowerOn PROVE LinkInv'
  BY <1>2 DEF PowerOff, PowerOn, TypeOK, OneSocket, Heard, storage
<1>3. ASSUME NEW s \in Socket, Connect(s) PROVE LinkInv'
  <2>1. \A t \in Socket : link[t] = "free"
    BY <1>3 DEF Connect, TypeOK
  <2> QED
    BY <1>3, <2>1 DEF Connect, TypeOK, OneSocket, Heard
<1>4. ASSUME NEW s \in Socket, MarkOnline(s) PROVE LinkInv'
  BY <1>4 DEF MarkOnline, TypeOK, OneSocket, Heard, network, storage
<1>5. ASSUME NEW s \in Socket, ConnectTouch(s) PROVE LinkInv'
  BY <1>5 DEF ConnectTouch, Touch, TypeOK, OneSocket, Heard, network
<1>6. ASSUME NEW s \in Socket, ConnectDies(s) PROVE LinkInv'
  BY <1>6 DEF ConnectDies, TypeOK, OneSocket, Heard, storage
<1>7. ASSUME NEW s \in Socket, Message(s) PROVE LinkInv'
  BY <1>7 DEF Message, Touch, TypeOK, OneSocket, Heard
<1>8. ASSUME NEW s \in Socket, SocketClose(s) PROVE LinkInv'
  <2>1. \A t \in Socket : link[t] # "up"
    BY <1>8 DEF SocketClose, TypeOK, OneSocket
  <2> QED
    BY <1>8, <2>1 DEF SocketClose, TypeOK, OneSocket, Heard
<1>9. ASSUME AlarmFires \/ AlarmSelect \/ AlarmFlip \/ AlarmClear \/ AlarmDies
      PROVE  LinkInv'
  BY <1>9 DEF AlarmFires, AlarmSelect, AlarmFlip, AlarmClear, AlarmDies,
              OneSocket, Heard, network, storage
<1>10. ASSUME \/ \E w \in BOOLEAN : Health(w)
              \/ \E st \in {"offline", "maintenance"} : OperatorSets(st)
              \/ CronFires \/ SweepFlip
       PROVE  LinkInv'
  BY <1>10 DEF Health, OperatorSets, CronFires, SweepFlip, OneSocket, Heard,
               network, storage
<1>11. ASSUME Tick PROVE LinkInv'
  <2>1. OneSocket'
    BY <1>11 DEF Tick, OneSocket
  <2>2. Heard'
    BY <1>11, OlderBounds DEF Tick, TypeOK, Heard, NotSet
  <2> QED
    BY <2>1, <2>2
<1>12. ASSUME UNCHANGED vars PROVE LinkInv'
  BY <1>12 DEF vars, network, storage, OneSocket, Heard
<1> QED
  BY <1>1, <1>2, <1>3, <1>4, <1>5, <1>6, <1>7, <1>8, <1>9, <1>10, <1>11, <1>12
     DEF Next

\* LinkInv holds in every reachable state.
LEMMA LinkInvariant ==
  ASSUME "late_close" \notin Faults
  PROVE  Spec => []LinkInv
<1>1. Init => OneSocket /\ Heard
  BY DEF Init, OneSocket, Heard, Established
<1>2. OneSocket /\ Heard /\ TypeOK /\ TypeOK' /\ [Next]_vars
        => (OneSocket /\ Heard)'
  BY LinkInvStep DEF LinkInv
<1>3. Spec => [](OneSocket /\ Heard)
  BY <1>1, <1>2, TypeCorrect, PTL DEF Spec
<1> QED
  BY <1>3, TypeCorrect, PTL DEF LinkInv

\* If close events arrive before the agent reconnects, alarm() never judges a
\* device offline that holds an established, heartbeating socket, whatever else
\* fails.
THEOREM VerdictSound ==
  ASSUME "late_close" \notin Faults
  PROVE  Spec => NoFalseVerdict
<1>1. LinkInv /\ [Next]_vars =>
        [AlarmFires /\ watch' = "select" =>
           \A s \in Socket : ~Established(s)]_vars
  BY HeardNoVerdict DEF AlarmFires
<1> QED
  BY <1>1, LinkInvariant, PTL DEF NoFalseVerdict, Spec

-----------------------------------------------------------------------------
(* Without faults: a live row is watched, by a handler that is about to      *)
(* touch or flip it or by an alarm that goes off in time.                    *)

Handshaking == \E s \in Socket : conn[s] # "idle"

Armed ==
  /\ alarm # NotSet
  /\ lastSeen + alarm <= Timeout + WatchdogSlack + Grace
  /\ (\E s \in Socket : link[s] # "free") =>
        lastSeen + alarm <= Timeout + WatchdogSlack

Watched ==
  status \in Live => Handshaking \/ watch \in {"select", "update"} \/ Armed

Fresh ==
  /\ lastSeenAt <= lastSeen
  /\ \A s \in Socket : conn[s] = "touch" => lastSeenAt = 0

NotSwept == sweep = "idle" /\ (watch = "update" => status \in Live)

PresenceInv == LinkInv /\ SilentDropBound /\ Watched /\ Fresh /\ NotSwept

\* Nothing the object has judged is left for the sweep to find.
LEMMA NothingToSweep ==
  ASSUME PresenceInv
  PROVE  ~Sweepable
BY ConstantsInNat
   DEF PresenceInv, LinkInv, TypeOK, SilentDropBound, Connecting, Fresh, Sweepable

\* PresenceInv is preserved by every step of a run without faults.
LEMMA PresenceInvStep ==
  ASSUME Faults = {}, PresenceInv, [Next]_vars, LinkInv'
  PROVE  PresenceInv'
<1> USE ConstantsInNat
    DEF PresenceInv, LinkInv, SilentDropBound, Connecting, Watched, Handshaking, Armed,
        Fresh, NotSwept, NotSet, Live
<1>1. ASSUME NEW s \in Socket, Drop(s) PROVE PresenceInv'
  BY <1>1 DEF Drop, TypeOK, storage, row
<1>2. ASSUME NEW s \in Socket, Forgotten(s) PROVE PresenceInv'
  BY <1>2 DEF Forgotten, TypeOK, storage, row
<1>3. ASSUME PowerOff \/ PowerOn PROVE PresenceInv'
  BY <1>3 DEF PowerOff, PowerOn, TypeOK, storage, row
<1>4. ASSUME NEW s \in Socket, Connect(s) PROVE PresenceInv'
  BY <1>4 DEF Connect, TypeOK, row
<1>5. ASSUME NEW s \in Socket, MarkOnline(s) PROVE PresenceInv'
  BY <1>5 DEF MarkOnline, TypeOK, network, storage
<1>6. ASSUME NEW s \in Socket, ConnectTouch(s) PROVE PresenceInv'
  BY <1>6 DEF ConnectTouch, Touch, TypeOK, network
<1>7. ASSUME NEW s \in Socket, Message(s) PROVE PresenceInv'
  BY <1>7 DEF Message, Touch, TypeOK
<1>8. ASSUME NEW s \in Socket, SocketClose(s) PROVE PresenceInv'
  <2>1. \A t \in Socket : link'[t] = "free"
    BY <1>8 DEF SocketClose, TypeOK, OneSocket
  <2>2. Armed' \/ status \notin Live \/ Handshaking \/ watch \in {"select", "update"}
    <3> SUFFICES ASSUME Armed PROVE Armed'
      OBVIOUS
    <3>1. lastSeen <= Timeout + WatchdogSlack
      BY <1>8 DEF SocketClose, TypeOK
    <3> QED
      BY <1>8, <2>1, <3>1 DEF SocketClose, ScheduleDisconnectSweep, TypeOK
  <2> QED
    BY <1>8, <2>2 DEF SocketClose, ScheduleDisconnectSweep, TypeOK, row
<1>9. ASSUME AlarmFires PROVE PresenceInv'
  <2>1. CASE watch' = "select"
    BY <1>9, <2>1 DEF AlarmFires, TypeOK, network, row
  <2>2. CASE ~Stale /\ ~GraceElapsed /\ alarm' = NextCheck /\ UNCHANGED watch
    BY <1>9, <2>2, NextCheckBounds DEF AlarmFires, TypeOK, network, row
  <2> QED
    BY <1>9, <2>1, <2>2 DEF AlarmFires
<1>10. ASSUME AlarmSelect PROVE PresenceInv'
  BY <1>10 DEF AlarmSelect, TypeOK, network, storage, row
<1>11. ASSUME AlarmFlip PROVE PresenceInv'
  BY <1>11 DEF AlarmFlip, TypeOK, network, storage
<1>12. ASSUME AlarmClear PROVE PresenceInv'
  BY <1>12 DEF AlarmClear, TypeOK, network, row
<1>13. ASSUME NEW w \in BOOLEAN, Health(w) PROVE PresenceInv'
  BY <1>13 DEF Health, TypeOK, network, storage
<1>14. ASSUME CronFires PROVE PresenceInv'
  BY <1>14, NothingToSweep DEF CronFires, TypeOK, network, storage, row
<1>15. ASSUME Tick PROVE PresenceInv'
  <2>1. ~Handshaking /\ watch = "idle"
    BY <1>15 DEF Tick, Quiet
  <2>2. status \in Live => Armed' /\ lastSeen' <= Timeout + WatchdogSlack + Grace
    BY <1>15, <2>1, OlderBounds DEF Tick, Quiet, TypeOK
  <2>3. lastSeenAt' <= lastSeen'
    BY <1>15 DEF Tick, TypeOK, Older
  <2> QED
    BY <1>15, <2>1, <2>2, <2>3 DEF Tick
<1>16. ASSUME UNCHANGED vars PROVE PresenceInv'
  BY <1>16 DEF vars, network, storage, row
<1>17. ASSUME \/ \E s \in Socket : ConnectDies(s)
              \/ \E st \in {"offline", "maintenance"} : OperatorSets(st)
              \/ AlarmDies \/ SweepFlip
       PROVE  PresenceInv'
  BY <1>17 DEF ConnectDies, OperatorSets, AlarmDies, SweepFlip
<1> QED
  BY <1>1, <1>2, <1>3, <1>4, <1>5, <1>6, <1>7, <1>8, <1>9, <1>10, <1>11, <1>12,
     <1>13, <1>14, <1>15, <1>16, <1>17 DEF Next

\* PresenceInv holds in every reachable state of a run without faults.
LEMMA PresenceInvariant ==
  ASSUME Faults = {}
  PROVE  Spec => []PresenceInv
<1>1. Init /\ LinkInv => PresenceInv
  BY DEF Init, PresenceInv, SilentDropBound, Watched, Fresh, NotSwept, Live,
         LinkInv, TypeOK
<1>2. PresenceInv /\ LinkInv' /\ [Next]_vars => PresenceInv'
  BY PresenceInvStep
<1>3. Spec => []LinkInv
  BY LinkInvariant
<1> QED
  BY <1>1, <1>2, <1>3, PTL DEF Spec

\* A silent device does not stay live beyond the watchdog window stretched by
\* one disconnect grace.
THEOREM SilentDropDetected ==
  ASSUME Faults = {}
  PROVE  Spec => []SilentDropBound
<1>1. PresenceInv => SilentDropBound
  BY DEF PresenceInv
<1> QED
  BY <1>1, PresenceInvariant, PTL

\* The alarm and the sweep never both flip, and report, the same outage.
THEOREM OutageFlippedOnce ==
  ASSUME Faults = {}
  PROVE  Spec => FlipOnce
<1>1. PresenceInv /\ [Next]_vars
        => [AlarmFlip \/ SweepFlip => status # "offline"]_vars
  BY DEF PresenceInv, NotSwept, AlarmFlip, SweepFlip, Live
<1> QED
  BY <1>1, PresenceInvariant, PTL DEF FlipOnce, Spec

-----------------------------------------------------------------------------
(* Whatever fails: a live row is refreshed or the next sweep flips it.       *)

\* The age a live row can reach before the sweep that is due next looks at it.
SweptInTime ==
  /\ status \in Live /\ sweep = "idle" => lastSeenAt + cron <= 2 * Timeout + CronPeriod
  /\ status \in Live => lastSeenAt <= 2 * Timeout + CronPeriod

SweepInv == TypeOK /\ SweptInTime

LEMMA AgesTogether ==
  ASSUME NEW age \in Nat, NEW older \in Nat, older <= age + 1,
         NEW left \in Nat, NEW less \in Nat, less = left - 1,
         NEW bound \in Nat, age + left <= bound
  PROVE  older + less <= bound /\ older <= bound
OBVIOUS

LEMMA SweepInvStep ==
  ASSUME SweepInv, [Next]_vars, TypeOK'
  PROVE  SweepInv'
<1> USE ConstantsInNat DEF SweepInv, SweptInTime
<1>1. lastSeenAt \in 0 .. MaxAge /\ cron \in 0 .. CronPeriod /\ TypeOK
  BY DEF TypeOK
<1>2. ASSUME \/ PowerOff \/ PowerOn \/ AlarmFires \/ AlarmSelect \/ AlarmClear \/ AlarmDies
             \/ \E s \in Socket : Drop(s) \/ Forgotten(s) \/ Connect(s) \/ ConnectDies(s)
                                    \/ SocketClose(s)
      PROVE  SweepInv'
  <2>1. UNCHANGED <<status, lastSeenAt, sweep, cron>>
    BY <1>2 DEF PowerOff, PowerOn, Drop, Forgotten, Connect, ConnectDies, SocketClose,
                AlarmFires, AlarmSelect, AlarmClear, AlarmDies, row
  <2> QED
    BY <2>1
<1>3. ASSUME NEW s \in Socket, MarkOnline(s) PROVE SweepInv'
  BY <1>1, <1>3 DEF MarkOnline
<1>4. ASSUME NEW s \in Socket, ConnectTouch(s) \/ Message(s) PROVE SweepInv'
  <2>1. lastSeenAt' = 0 /\ cron' = cron /\ cron \in 0 .. CronPeriod
    BY <1>1, <1>4 DEF ConnectTouch, Message, Touch
  <2> QED
    BY <2>1
<1>5. ASSUME NEW warn \in BOOLEAN, Health(warn) PROVE SweepInv'
  BY <1>1, <1>5 DEF Health
<1>6. ASSUME NEW st \in {"offline", "maintenance"}, OperatorSets(st) PROVE SweepInv'
  BY <1>6 DEF OperatorSets, Live
<1>7. CASE AlarmFlip \/ SweepFlip
  BY <1>7 DEF AlarmFlip, SweepFlip, Live
<1>8. CASE CronFires
  BY <1>1, <1>8 DEF CronFires, Sweepable, row
<1>9. CASE Tick
  <2>1. /\ cron \in 1 .. CronPeriod /\ cron' = cron - 1 /\ sweep = "idle"
        /\ UNCHANGED <<status, sweep>>
    BY <1>1, <1>9 DEF Tick, Quiet
  <2>2. lastSeenAt \in Nat /\ lastSeenAt' \in Nat /\ lastSeenAt' <= lastSeenAt + 1
    BY <1>1, <1>9, OlderBounds DEF Tick
  <2> DEFINE bound == 2 * Timeout + CronPeriod
  <2>3. bound \in Nat /\ (status \in Live => lastSeenAt + cron <= bound)
    BY <2>1
  <2>4. status' \in Live => status \in Live
    BY <2>1
  <2> HIDE ConstantsInNat DEF bound, SweepInv, SweptInTime
  <2>5. cron \in Nat /\ cron' \in Nat /\ cron' = cron - 1
    BY <2>1
  <2>6. status' \in Live => lastSeenAt' + cron' <= bound /\ lastSeenAt' <= bound
    BY <2>2, <2>3, <2>4, <2>5, AgesTogether, Zenon
  <2> QED
    BY <2>6 DEF bound, SweepInv, SweptInTime
<1>10. CASE UNCHANGED vars
  BY <1>10 DEF vars, row
<1> QED
  BY <1>2, <1>3, <1>4, <1>5, <1>6, <1>7, <1>8, <1>9, <1>10 DEF Next

\* The sweep is a backstop for every fault of Fault: a live row was refreshed at most
\* two timeouts and one cron period ago, for all settings of the timers.
THEOREM BackstopHolds == Spec => []BackstopBound
<1>1. Init => SweptInTime
  BY DEF Init, SweptInTime, Live
<1>2. TypeOK /\ TypeOK' /\ SweptInTime /\ [Next]_vars => SweptInTime'
  BY SweepInvStep DEF SweepInv
<1>3. SweptInTime => BackstopBound
  BY DEF SweptInTime, BackstopBound
<1> QED
  BY <1>1, <1>2, <1>3, TypeCorrect, PTL DEF Spec
=============================================================================
