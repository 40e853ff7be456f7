------------------------------ MODULE DeviceEvents ------------------------------
(***************************************************************************)
(* What the server notes about its devices by itself: the cron sweep that  *)
(* flips silent devices (lib/scheduled.ts), the health reports with their  *)
(* threshold alerts (POST /api/agent/health in routes/agent.ts) and the    *)
(* rows of the events table (lib/notify.ts, routes/events.ts).             *)
(*                                                                         *)
(* One step is one statement.  A device is silent when its last_seen_at is *)
(* older than twice the offline timeout.  One kind of threshold stands for *)
(* the three, which are counted apart.                                     *)
(***************************************************************************)
EXTENDS Integers, FiniteSets

CONSTANTS
  Watched,     \* devices
  Reporting,   \* bound: those of them whose health reports are followed
  Post,        \* POST /health requests under way
  NoDevice,    \* no device
  MaxAlerts    \* bound: alerts of a device inside 30 minutes

ASSUME EventsAssumption ==
  NoDevice \notin Watched /\ Reporting \subseteq Watched /\ MaxAlerts \in Nat

VARIABLES
  status,      \* status[d] of the rows of devices; a deleted one has "gone"
  silent,      \* devices whose last_seen_at is too old
  sweeping,    \* the sweep's loop: whether it runs, uuids still to handle, and
               \*   the one flipped whose event is not recorded
  alerts,      \* alerts[d]: events of this kind in the last 30 minutes
  post,        \* post[p]: the statement p is at, its device, over the threshold?
  overlapped   \* devices that had two posts at once since their last alert-free
               \*   half hour (history)

eventVars == <<status, silent, sweeping, alerts, post, overlapped>>

Asleep == [on |-> FALSE, todo |-> {}, record |-> NoDevice]
NoPost == [at |-> "none", dev |-> NoDevice, hot |-> FALSE]
Known  == {d \in Watched : status[d] # "gone"}

EventsTypeOK ==
  /\ status \in [Watched -> {"online", "warning", "offline", "gone"}]
  /\ silent \subseteq Watched /\ overlapped \subseteq Watched
  /\ sweeping \in [on : BOOLEAN, todo : SUBSET Watched,
                   record : Watched \cup {NoDevice}]
  /\ alerts \in [Watched -> 0 .. MaxAlerts]
  /\ post \in [Post -> [at : {"none", "count", "alert", "reflect"},
                        dev : Watched \cup {NoDevice}, hot : BOOLEAN]]

EventsInit ==
  /\ status = [d \in Watched |-> "offline"]
  /\ silent = Watched
  /\ sweeping = Asleep
  /\ alerts = [d \in Watched |-> 0]
  /\ post = [p \in Post |-> NoPost]
  /\ overlapped = {}

-----------------------------------------------------------------------------
(* Devices come and go. *)

\* The WebSocket opens: markOnline.
Connect(d) ==
  /\ d \in Known
  /\ status' = [status EXCEPT ![d] = "online"]
  /\ silent' = silent \ {d}
  /\ UNCHANGED <<sweeping, alerts, post, overlapped>>

\* Nothing heard of it for twice the timeout; the object's own watchdog missed
\* it, so the row still says what it said.
FallSilent(d) ==
  /\ d \in Known \ silent
  /\ silent' = silent \cup {d}
  /\ UNCHANGED <<status, sweeping, alerts, post, overlapped>>

\* DELETE /api/devices/:uuid: the events of the device go with it, and an
\* INSERT that still names it fails on its foreign key.
Forget(d) ==
  /\ d \in Known
  /\ status' = [status EXCEPT ![d] = "gone"]
  /\ alerts' = [alerts EXCEPT ![d] = 0]
  /\ UNCHANGED <<silent, sweeping, post, overlapped>>

-----------------------------------------------------------------------------
(* sweepOffline. *)

\* Mutant of Stale: the sweep forgets the devices in warning.
StaleOnlineOnly == {d \in Known : status[d] = "online" /\ d \in silent}

Stale == {d \in Known : status[d] \in {"online", "warning"} /\ d \in silent}

StartSweep ==
  /\ ~sweeping.on /\ Stale # {}
  /\ sweeping' = [Asleep EXCEPT !.on = TRUE, !.todo = Stale]
  /\ UNCHANGED <<status, silent, alerts, post, overlapped>>

\* The UPDATE asks for nothing but the uuid: a device that has come back since
\* the SELECT is flipped too.
SweepDevice(d) ==
  /\ sweeping.on /\ sweeping.record = NoDevice /\ d \in sweeping.todo
  /\ status' = [status EXCEPT ![d] = IF @ = "gone" THEN @ ELSE "offline"]
  /\ sweeping' = [sweeping EXCEPT !.todo = @ \ {d}, !.record = d]
  /\ UNCHANGED <<silent, alerts, post, overlapped>>

\* recordEvent and the broadcast; an error of the INSERT ends the whole loop.
SweepRecord ==
  /\ sweeping.record # NoDevice
  /\ \/ sweeping.record \in Known /\ sweeping' = [sweeping EXCEPT !.record = NoDevice]
     \/ sweeping' = Asleep
  /\ UNCHANGED <<status, silent, alerts, post, overlapped>>

SweepEnds ==
  /\ sweeping.on /\ sweeping.record = NoDevice /\ sweeping.todo = {}
  /\ sweeping' = Asleep
  /\ UNCHANGED <<status, silent, alerts, post, overlapped>>

-----------------------------------------------------------------------------
(* POST /health, after the two statements that store the sample. *)

Report(p, d, hot) ==
  /\ post[p] = NoPost /\ d \in Known \cap Reporting
  /\ post' = [post EXCEPT ![p] =
       [at |-> IF hot THEN "count" ELSE "reflect", dev |-> d, hot |-> hot]]
  /\ overlapped' = IF \E q \in Post : post[q].dev = d
                     THEN overlapped \cup {d} ELSE overlapped
  /\ UNCHANGED <<status, silent, sweeping, alerts>>

\* Mutant of CountRecent: the alert is not deduplicated.
CountNothing(p) ==
  /\ post[p].at = "count"
  /\ post' = [post EXCEPT ![p].at = "alert"]
  /\ UNCHANGED <<status, silent, sweeping, alerts, overlapped>>

\* SELECT COUNT(*) of the last 30 minutes.
CountRecent(p) ==
  /\ post[p].at = "count"
  /\ post' = [post EXCEPT ![p].at =
       IF alerts[post[p].dev] = 0 THEN "alert" ELSE "reflect"]
  /\ UNCHANGED <<status, silent, sweeping, alerts, overlapped>>

\* recordEvent; it throws for a device that is gone.
Alert(p) ==
  /\ post[p].at = "alert"
  /\ \/ /\ post[p].dev \in Known /\ alerts[post[p].dev] < MaxAlerts
        /\ alerts' = [alerts EXCEPT ![post[p].dev] = @ + 1]
        /\ post' = [post EXCEPT ![p].at = "reflect"]
     \/ post' = [post EXCEPT ![p] = NoPost] /\ UNCHANGED alerts
  /\ UNCHANGED <<status, silent, sweeping, overlapped>>

\* The last UPDATE: online or warning follow the report, offline stays, and
\* last_seen_at is fresh in any case.
Reflect(p) ==
  /\ post[p].at = "reflect"
  /\ status' = [status EXCEPT ![post[p].dev] =
       IF @ \in {"online", "warning"}
         THEN IF post[p].hot THEN "warning" ELSE "online" ELSE @]
  /\ silent' = silent \ {post[p].dev}
  /\ post' = [post EXCEPT ![p] = NoPost]
  /\ UNCHANGED <<sweeping, alerts, overlapped>>

\* The oldest alert leaves the window, or an operator deletes it (resolving
\* leaves it in the count).
AlertAges(d) ==
  /\ alerts[d] > 0
  /\ alerts' = [alerts EXCEPT ![d] = @ - 1]
  /\ overlapped' = IF alerts[d] = 1 /\ \A p \in Post : post[p].dev # d
                     THEN overlapped \ {d} ELSE overlapped
  /\ UNCHANGED <<status, silent, sweeping, post>>

EventsNext ==
  \/ \E d \in Watched :
       \/ Connect(d) \/ FallSilent(d) \/ Forget(d)
       \/ SweepDevice(d) \/ AlertAges(d)
  \/ StartSweep \/ SweepRecord \/ SweepEnds
  \/ \E p \in Post :
       \/ \E d \in Watched, hot \in BOOLEAN : Report(p, d, hot)
       \/ CountRecent(p) \/ Alert(p) \/ Reflect(p)

EventsSpec == EventsInit /\ [][EventsNext]_eventVars

Sweep == StartSweep \/ (\E d \in Watched : SweepDevice(d)) \/ SweepRecord \/ SweepEnds

-----------------------------------------------------------------------------
(* Properties. *)

\* Once no device comes back any more, every silent one is shown offline in the
\* end, although every recordEvent of the sweep may fail and end its loop.  (A
\* device that flaps and whose event fails each time does keep the others back.)
SweepReachesAll ==
  <>[][\A d \in Watched : ~Connect(d)]_eventVars =>
    \A d \in Watched :
      []<>(d \notin silent \/ status[d] \in {"offline", "gone"})

\* "deduped: at most one per type per device per 30 min" (agent.ts:52): so it
\* is as long as two reports of the device never overlapped.
AlertOnce ==
  \A d \in Watched : alerts[d] > 1 => d \in overlapped
=============================================================================
