---------------------------- MODULE DevicePresence ----------------------------
(***************************************************************************)
(* Presence of one kiosk: the DeviceConnection Durable Object (its storage *)
(* keys lastSeen and disconnectedAt, its single alarm, its attached        *)
(* WebSockets), the row of the device in D1 (status, last_seen_at), and    *)
(* the cron sweep that backs the object up.                                *)
(*                                                                         *)
(* Grain of atomicity.  A Durable Object runs other events only while a    *)
(* handler awaits something that is not its own storage, so every action   *)
(* below runs from one await on D1 to the next; the steps of different     *)
(* handlers interleave.                                                    *)
(*                                                                         *)
(* Time.  Ages and countdowns replace absolute clocks.  Every Tick ages    *)
(* the two timestamps (capped at MaxAge) and counts the alarm and the cron *)
(* down.  An alarm, a cron trigger or a heartbeat that is due and a        *)
(* handler that has started all run before the clock moves on: D1 and the  *)
(* runtime answer within milliseconds, the timers are tens of seconds.     *)
(***************************************************************************)
EXTENDS Integers

CONSTANTS
  Socket,         \* WebSocket identities, reused once the platform forgot them
  Timeout,        \* OFFLINE_TIMEOUT_SECONDS
  Grace,          \* OFFLINE_DISCONNECT_GRACE_SECONDS
  RecheckSlack,   \* the + 1000 of alarm()
  WatchdogSlack,  \* the + 5000 of touch()
  Heartbeat,      \* the agent's heartbeat interval
  CronPeriod,     \* time between two runs of sweepOffline
  Faults          \* what may go wrong beside network drops, see Fault

Fault ==
  { "late_close",   \* a close event may arrive after the agent reconnected
    "do_failure",   \* a handler of the object may die half-way
    "operator" }    \* PATCH /devices/:uuid writes status by hand

ASSUME TimingAssumption ==
  /\ Timeout \in Nat \ {0} /\ Grace \in Nat \ {0}
  /\ RecheckSlack \in Nat \ {0} /\ WatchdogSlack \in Nat \ {0}
  /\ Heartbeat \in Nat \ {0} /\ CronPeriod \in Nat \ {0}
  /\ Heartbeat <= Timeout           \* at least every 60s, watchdog of 90s
  /\ RecheckSlack <= WatchdogSlack  \* 1s and 5s
  /\ Grace + WatchdogSlack <= Timeout  \* 20s + 5s and 90s

ASSUME FaultsAssumption == Faults \subseteq Fault

NotSet == -1                            \* a storage key or alarm that is absent
MaxAge == 2 * Timeout + CronPeriod + 1  \* older than this is all the same
Status == {"online", "warning", "offline", "maintenance"}
Live   == {"online", "warning"}

VARIABLES
  agent,           \* is the kiosk powered and its agent running?
  link,            \* link[s]: "free", "up", or "gone" (the agent's end is
                   \*   lost and the object has not been told)
  beat,            \* beat[s]: time since the agent last wrote to s
  conn,            \* conn[s]: where handleConnect stands for s
  watch,           \* where alarm() stands
  sweep,           \* where sweepOffline stands for this device
  lastSeen,        \* DO storage: age of "lastSeen"
  disconnectedAt,  \* DO storage: age of "disconnectedAt" or NotSet
  alarm,           \* DO storage: time left on the alarm or NotSet
  status,          \* D1: devices.status
  lastSeenAt,      \* D1: age of devices.last_seen_at (MaxAge stands for NULL)
  cron             \* time left to the next sweep

storage == <<lastSeen, disconnectedAt, alarm>>
row     == <<status, lastSeenAt>>
network == <<agent, link, beat>>
vars    == <<network, conn, watch, sweep, storage, row, cron>>

TypeOK ==
  /\ agent \in BOOLEAN
  /\ link \in [Socket -> {"free", "up", "gone"}]
  /\ beat \in [Socket -> 0 .. Heartbeat]
  /\ conn \in [Socket -> {"idle", "update", "touch"}]
  /\ watch \in {"idle", "select", "update", "clear"}
  /\ sweep \in {"idle", "update"}
  /\ lastSeen \in 0 .. MaxAge
  /\ disconnectedAt \in NotSet .. MaxAge
  /\ alarm \in NotSet .. (Timeout + WatchdogSlack)
  /\ status \in Status
  /\ lastSeenAt \in 0 .. MaxAge
  /\ cron \in 0 .. CronPeriod

Older(age) == IF age < MaxAge THEN age + 1 ELSE MaxAge

Init ==
  /\ agent = TRUE
  /\ link = [s \in Socket |-> "free"]
  /\ beat = [s \in Socket |-> 0]
  /\ conn = [s \in Socket |-> "idle"]
  /\ watch = "idle" /\ sweep = "idle"
  /\ lastSeen = MaxAge /\ disconnectedAt = NotSet /\ alarm = NotSet
  /\ status = "offline" /\ lastSeenAt = MaxAge
  /\ cron = CronPeriod

-----------------------------------------------------------------------------
(* The network and the agent's end of it. *)

\* The agent's end of the socket disappears; the object learns of it later
\* (SocketClose) or, after a pulled cable, never (Forgotten).
Drop(s) ==
  /\ link[s] = "up"
  /\ link' = [link EXCEPT ![s] = "gone"]
  /\ UNCHANGED <<agent, beat, conn, watch, sweep, storage, row, cron>>

PowerOff ==
  /\ agent
  /\ agent' = FALSE
  /\ link' = [s \in Socket |-> IF link[s] = "up" THEN "gone" ELSE link[s]]
  /\ UNCHANGED <<beat, conn, watch, sweep, storage, row, cron>>

PowerOn ==
  /\ ~agent
  /\ agent' = TRUE
  /\ UNCHANGED <<link, beat, conn, watch, sweep, storage, row, cron>>

\* The runtime drops a dead socket without ever reporting a close.
Forgotten(s) ==
  /\ link[s] = "gone"
  /\ link' = [link EXCEPT ![s] = "free"]
  /\ UNCHANGED <<agent, beat, conn, watch, sweep, storage, row, cron>>

-----------------------------------------------------------------------------
(* Handlers of the Durable Object. *)

\* Mutants of Touch: it leaves the watchdog, or the whole storage but
\* disconnectedAt, as it is.
TouchWithoutAlarm ==
  /\ disconnectedAt' = NotSet
  /\ lastSeen' = 0
  /\ lastSeenAt' = 0
  /\ UNCHANGED alarm

TouchRowOnly ==
  /\ disconnectedAt' = NotSet
  /\ lastSeenAt' = 0
  /\ UNCHANGED <<lastSeen, alarm>>

\* touch(): hearing from the device.
Touch ==
  /\ disconnectedAt' = NotSet
  /\ lastSeen' = 0
  /\ alarm' = Timeout + WatchdogSlack
  /\ lastSeenAt' = 0

\* scheduleDisconnectSweep().
ScheduleDisconnectSweep ==
  /\ disconnectedAt' = 0
  /\ alarm' = Grace
  /\ UNCHANGED lastSeen

\* handleConnect up to the SELECT of markOnline: the agent dials only while it
\* holds no socket of its own.
Connect(s) ==
  /\ agent
  /\ link[s] = "free" /\ conn[s] = "idle"
  /\ \A t \in Socket : link[t] # "up"
  /\ "late_close" \in Faults \/ \A t \in Socket : link[t] # "gone"
  /\ link' = [link EXCEPT ![s] = "up"]
  /\ beat' = [beat EXCEPT ![s] = 0]
  /\ conn' = [conn EXCEPT ![s] = "update"]
  /\ disconnectedAt' = NotSet
  /\ UNCHANGED <<agent, watch, sweep, lastSeen, alarm, row, cron>>

\* The UPDATE of markOnline.
MarkOnline(s) ==
  /\ conn[s] = "update"
  /\ conn' = [conn EXCEPT ![s] = "touch"]
  /\ status' = "online" /\ lastSeenAt' = 0
  /\ UNCHANGED <<network, watch, sweep, storage, cron>>

\* After the event and the broadcast: touch(), welcome, flush, 101.
ConnectTouch(s) ==
  /\ conn[s] = "touch"
  /\ conn' = [conn EXCEPT ![s] = "idle"]
  /\ Touch
  /\ UNCHANGED <<network, watch, sweep, status, cron>>

\* handleConnect throws or the object is evicted: the agent never gets a 101.
ConnectDies(s) ==
  /\ "do_failure" \in Faults
  /\ conn[s] # "idle"
  /\ conn' = [conn EXCEPT ![s] = "idle"]
  /\ link' = [link EXCEPT ![s] = IF @ = "up" THEN "gone" ELSE @]
  /\ UNCHANGED <<agent, beat, watch, sweep, storage, row, cron>>

\* webSocketMessage: a heartbeat, ack or playback report on an open channel.
Message(s) ==
  /\ link[s] = "up" /\ conn[s] = "idle"
  /\ beat' = [beat EXCEPT ![s] = 0]
  /\ Touch
  /\ UNCHANGED <<agent, link, conn, watch, sweep, status, cron>>

\* webSocketClose or webSocketError, whichever the runtime delivers.
SocketClose(s) ==
  /\ link[s] = "gone"
  /\ link' = [link EXCEPT ![s] = "free"]
  /\ ScheduleDisconnectSweep
  /\ UNCHANGED <<agent, beat, conn, watch, sweep, row, cron>>

Stale        == lastSeen > Timeout
GraceElapsed == disconnectedAt # NotSet /\ disconnectedAt >= Grace

\* The next deadline when neither has passed.
NextCheck ==
  LET nextStale == Timeout + RecheckSlack - lastSeen
      nextGrace == Grace - disconnectedAt
  IN  IF disconnectedAt # NotSet /\ nextGrace < nextStale
        THEN nextGrace ELSE nextStale

\* alarm() up to the SELECT of markOffline.
AlarmFires ==
  /\ alarm = 0 /\ watch = "idle"
  /\ \/ /\ Stale \/ GraceElapsed
        /\ watch' = "select" /\ alarm' = NotSet
     \/ /\ ~Stale /\ ~GraceElapsed
        /\ alarm' = NextCheck /\ UNCHANGED watch
  /\ UNCHANGED <<network, conn, sweep, lastSeen, disconnectedAt, row, cron>>

\* markOffline reads the row: only a live one is flipped.
AlarmSelect ==
  /\ watch = "select"
  /\ watch' = IF status \in Live THEN "update" ELSE "clear"
  /\ UNCHANGED <<network, conn, sweep, storage, row, cron>>

\* ... and writes it, whatever it holds by now.
AlarmFlip ==
  /\ watch = "update"
  /\ watch' = "clear"
  /\ status' = "offline"
  /\ UNCHANGED <<network, conn, sweep, storage, lastSeenAt, cron>>

AlarmClear ==
  /\ watch = "clear"
  /\ watch' = "idle"
  /\ disconnectedAt' = NotSet
  /\ UNCHANGED <<network, conn, sweep, lastSeen, alarm, row, cron>>

\* alarm() throws: the runtime retries it shortly, or has retried enough.
AlarmDies ==
  /\ "do_failure" \in Faults
  /\ watch # "idle"
  /\ watch' = "idle"
  /\ alarm' \in IF alarm = NotSet THEN {RecheckSlack, NotSet} ELSE {alarm}
  /\ UNCHANGED <<network, conn, sweep, lastSeen, disconnectedAt, row, cron>>

-----------------------------------------------------------------------------
(* Writers of the row outside the object. *)

\* POST /api/agent/health: refreshes last_seen_at, moves between the two live
\* states and leaves the others alone.
Health(warn) ==
  /\ agent
  /\ status' = IF status \in Live THEN (IF warn THEN "warning" ELSE "online")
                                  ELSE status
  /\ lastSeenAt' = 0
  /\ UNCHANGED <<network, conn, watch, sweep, storage, cron>>

\* PATCH /api/devices/:uuid with a status: into maintenance, and out of it as
\* offline until the next connect.  (The route takes any word; an operator who
\* declares a silent device online voids every bound by his own hand.)
OperatorSets(st) ==
  /\ "operator" \in Faults
  /\ status' = st
  /\ UNCHANGED <<network, conn, watch, sweep, storage, lastSeenAt, cron>>

\* Mutants of Sweepable: the watchdog's cutoff, and only "online" rows.
SweepableEarly  == status \in Live /\ lastSeenAt > Timeout
SweepableOnline == status = "online" /\ lastSeenAt > 2 * Timeout

Sweepable == status \in Live /\ lastSeenAt > 2 * Timeout

\* sweepOffline's SELECT ...
CronFires ==
  /\ cron = 0 /\ sweep = "idle"
  /\ cron' = CronPeriod
  /\ sweep' = IF Sweepable THEN "update" ELSE "idle"
  /\ UNCHANGED <<network, conn, watch, storage, row>>

\* ... and, for a device on its list, the UPDATE.
SweepFlip ==
  /\ sweep = "update"
  /\ sweep' = "idle"
  /\ status' = "offline"
  /\ UNCHANGED <<network, conn, watch, storage, lastSeenAt, cron>>

-----------------------------------------------------------------------------
Quiet ==  \* nothing is due and no handler is running
  /\ alarm # 0 /\ cron # 0 /\ watch = "idle" /\ sweep = "idle"
  /\ \A s \in Socket : conn[s] = "idle"
  /\ \A s \in Socket : link[s] = "up" => beat[s] < Heartbeat

Tick ==
  /\ Quiet
  /\ lastSeen' = Older(lastSeen)
  /\ disconnectedAt' = IF disconnectedAt = NotSet THEN NotSet
                                                  ELSE Older(disconnectedAt)
  /\ alarm' = IF alarm = NotSet THEN NotSet ELSE alarm - 1
  /\ lastSeenAt' = Older(lastSeenAt)
  /\ cron' = cron - 1
  /\ beat' = [s \in Socket |-> IF link[s] = "up" THEN beat[s] + 1 ELSE beat[s]]
  /\ UNCHANGED <<agent, link, conn, watch, sweep, status>>

Handlers ==
  \/ \E s \in Socket : MarkOnline(s) \/ ConnectTouch(s)
  \/ AlarmFires \/ AlarmSelect \/ AlarmFlip \/ AlarmClear
  \/ CronFires \/ SweepFlip

Next ==
  \/ Tick \/ PowerOff \/ PowerOn
  \/ \E s \in Socket : Drop(s) \/ Forgotten(s)
  \/ \E s \in Socket : Connect(s) \/ MarkOnline(s) \/ ConnectTouch(s)
                         \/ ConnectDies(s) \/ Message(s) \/ SocketClose(s)
  \/ AlarmFires \/ AlarmSelect \/ AlarmFlip \/ AlarmClear \/ AlarmDies
  \/ \E warn \in BOOLEAN : Health(warn)
  \/ \E st \in {"offline", "maintenance"} : OperatorSets(st)
  \/ CronFires \/ SweepFlip

Spec == Init /\ [][Next]_vars

\* The runtime finishes the handlers it starts and keeps its timers; a running
\* agent with a socket keeps its heartbeat ticker.
FairSpec ==
  /\ Spec
  /\ WF_vars(Tick) /\ WF_vars(Handlers)
  /\ \A s \in Socket : WF_vars(Message(s))

-----------------------------------------------------------------------------
(* Properties. *)

Established(s) == link[s] = "up" /\ conn[s] = "idle"
Connecting     == \E s \in Socket : conn[s] = "touch"

\* A device that went silent does not stay live in the console: while its row
\* is live the object heard from it at most the watchdog window ago, stretched
\* by one disconnect grace when a close arrives late (alarm(): "what makes a
\* silent drop visible in ~90s").
SilentDropBound ==
  status \in Live => Connecting \/ lastSeen <= Timeout + WatchdogSlack + Grace

\* Whatever the object loses, the cron sweep flips a row that nobody refreshed
\* for twice the timeout at its next run (sweepOffline: the backstop).
BackstopBound ==
  status \in Live => lastSeenAt <= 2 * Timeout + CronPeriod

\* alarm() never reaches an offline verdict about a device that holds an
\* established, heartbeating socket.
NoFalseVerdict ==
  [][AlarmFires /\ watch' = "select" => \A s \in Socket : ~Established(s)]_vars

\* One outage is flipped, and so reported, once: neither the alarm nor the
\* sweep writes offline (and records device_offline) over a row that the other
\* has flipped already.
FlipOnce ==
  [][AlarmFlip \/ SweepFlip => status # "offline"]_vars

\* A device that is switched off and stays off is eventually shown so, even if
\* the object dies half-way through every handler and an operator takes the
\* device in and out of maintenance meanwhile.
DeadGoesOffline == ~agent ~> (agent \/ status \notin Live)

\* scheduleDisconnectSweep: "The alarm re-checks the live socket set, so this is
\* safe even if another socket remains or the device reconnects before the
\* grace elapses."
GraceChecksSockets ==
  [][AlarmFires /\ watch' = "select" /\ ~Stale =>
       \A s \in Socket : ~Established(s)]_vars

\* webSocketMessage: "heartbeat: presence already refreshed via touch()": a
\* device that keeps its socket and its heartbeat is not left offline.
HeartbeatKeepsPresent ==
  (\E s \in Socket : <>[]Established(s)) => []<>(status # "offline")
=============================================================================
