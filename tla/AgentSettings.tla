----------------------------- MODULE AgentSettings -----------------------------
(***************************************************************************)
(* The cadences of an agent: PATCH /devices/:uuid writes them to the       *)
(* device's row and issues apply_agent_settings (routes/devices.ts); the   *)
(* agent checks them, saves its configuration, replaces its periodic loops *)
(* and tells the heartbeat (commands.go, config.go, lifecycle.go,          *)
(* wsclient.go).  The command channel is DeviceConnection's, here for one  *)
(* operator at a time; CommandChannel has its other faults.                *)
(*                                                                         *)
(* The six intervals are one value, for they are always written together.  *)
(***************************************************************************)
EXTENDS Naturals, Sequences, SequencesExt

CONSTANTS
  Setting,      \* settings that parseAgentSettings accepts
  Standard,     \* the settings of a new device, which are applyDefaults'
  MaxCommands   \* bound: commands under way

NoSetting == "unset"

ASSUME SettingsAssumption ==
  Standard \in Setting /\ NoSetting \notin Setting /\ MaxCommands \in Nat

VARIABLES
  wanted,     \* devices.agent_settings
  waiting,    \* settings of the queued commands
  wire,       \* settings of the commands sent on the open connection
  link,       \* the connection: down, dead (the server has not noticed), opening, up
  alive,      \* does the agent process run?
  handling,   \* what the command handler is about to do, and its payload
  memory,     \* cfg
  disk,       \* agent.json
  loops,      \* the settings the managed loops run with
  beat,       \* the settings the heartbeat's ticker was made from
  update,     \* heartbeatUpdate, a channel that holds one value
  lingering,  \* a heartbeat goroutine of an earlier connection has not returned
  adrift      \* a command was lost, failed or overtook another, and none that
              \*   carries the wanted settings was saved since (history)

settingsVars == <<wanted, waiting, wire, link, alive, handling, memory, disk,
                  loops, beat, update, lingering, adrift>>

NotHandling == [at |-> "idle", s |-> NoSetting]

SettingsTypeOK ==
  LET Some == Setting \cup {NoSetting} IN
  /\ wanted \in Setting /\ memory \in Some /\ disk \in Setting
  /\ loops \in Some /\ beat \in Some /\ update \in Some
  /\ waiting \in BoundedSeq(Setting, MaxCommands) /\ wire \in BoundedSeq(Setting, MaxCommands)
  /\ link \in {"down", "dead", "opening", "up"}
  /\ handling \in [at : {"idle", "save", "loops", "beat"}, s : Some]
  /\ {alive, lingering, adrift} \subseteq BOOLEAN

SettingsInit ==
  /\ wanted = Standard /\ memory = Standard /\ disk = Standard /\ loops = Standard
  /\ waiting = << >> /\ wire = << >> /\ link = "down" /\ alive = TRUE
  /\ handling = NotHandling /\ beat = NoSetting /\ update = NoSetting
  /\ lingering = FALSE /\ adrift = FALSE

-----------------------------------------------------------------------------
(* The server. *)

\* The UPDATE, the command's row and POST /command of the Durable Object, which
\* sends to every socket it has, a dead one too.
PatchSettings(s) ==
  /\ Len(waiting) + Len(wire) < MaxCommands
  /\ wanted' = s
  /\ \/ link = "down" /\ waiting' = Append(waiting, s) /\ UNCHANGED <<wire, adrift>>
     \/ link = "dead" /\ adrift' = TRUE /\ UNCHANGED <<waiting, wire>>
     \/ link \in {"opening", "up"} /\ wire' = Append(wire, s) /\ UNCHANGED <<waiting, adrift>>
  /\ UNCHANGED <<link, alive, handling, memory, disk, loops, beat, update, lingering>>

\* flushQueued, in the order of issue; what was sent directly meanwhile is overtaken.
FlushNext ==
  /\ link = "opening" /\ waiting # << >>
  /\ wire' = Append(wire, Head(waiting)) /\ waiting' = Tail(waiting)
  /\ adrift' = (adrift \/ (Len(waiting) = 1 /\ Head(waiting) # wanted))
  /\ UNCHANGED <<wanted, link, alive, handling, memory, disk, loops, beat, update,
                 lingering>>

-----------------------------------------------------------------------------
(* The agent. *)

\* connectAndServe once nothing of the last connection is being handled; the new
\* heartbeat reads the interval from the configuration.
LinkOpens ==
  /\ alive /\ link \in {"down", "dead"} /\ handling = NotHandling
  /\ link' = "opening" /\ beat' = memory
  /\ UNCHANGED <<wanted, waiting, wire, alive, handling, memory, disk, loops, update,
                 lingering, adrift>>

LinkReady ==
  /\ link = "opening" /\ waiting = << >> /\ link' = "up"
  /\ UNCHANGED <<wanted, waiting, wire, alive, handling, memory, disk, loops, beat,
                 update, lingering, adrift>>

LinkBreaks ==
  /\ link \in {"opening", "up"} /\ link' \in {"down", "dead"}
  /\ adrift' = (adrift \/ wire # << >>) /\ wire' = << >>
  /\ beat' = NoSetting /\ lingering' = TRUE
  /\ UNCHANGED <<wanted, waiting, alive, handling, memory, disk, loops, update>>

\* dispatch and applyAgentSettings up to Save; the payload is one the server
\* accepted, with the bounds the agent checks again.
HandleSettings ==
  /\ alive /\ link \in {"opening", "up"} /\ handling = NotHandling /\ wire # << >>
  /\ handling' = [at |-> "save", s |-> Head(wire)] /\ wire' = Tail(wire)
  /\ memory' = Head(wire)
  /\ UNCHANGED <<wanted, waiting, link, alive, disk, loops, beat, update, lingering, adrift>>

\* Save writes a file beside agent.json and renames it.
SaveConfig ==
  /\ handling.at = "save"
  /\ disk' = memory /\ handling' = [handling EXCEPT !.at = "loops"]
  /\ adrift' = (adrift /\ (handling.s # wanted \/ wire # << >> \/ waiting # << >>))
  /\ UNCHANGED <<wanted, waiting, wire, link, alive, memory, loops, beat, update, lingering>>

\* The command fails, though cfg has the new intervals.
SaveConfigFails ==
  /\ handling.at = "save"
  /\ handling' = NotHandling /\ adrift' = TRUE
  /\ UNCHANGED <<wanted, waiting, wire, link, alive, memory, disk, loops, beat, update,
                 lingering>>

\* startManagedLoops replaces every loop.
ReplaceLoops ==
  /\ handling.at = "loops"
  /\ loops' = memory /\ handling' = [handling EXCEPT !.at = "beat"]
  /\ UNCHANGED <<wanted, waiting, wire, link, alive, memory, disk, beat, update, lingering,
                 adrift>>

\* Mutant of SetHeartbeatInterval: a value not yet taken is not replaced.
SetHeartbeatIntervalOnce ==
  /\ handling.at = "beat"
  /\ update' = IF update = NoSetting THEN handling.s ELSE update
  /\ handling' = NotHandling
  /\ UNCHANGED <<wanted, waiting, wire, link, alive, memory, disk, loops, beat, lingering,
                 adrift>>

\* A value the heartbeat has not taken yet is replaced.
SetHeartbeatInterval ==
  /\ handling.at = "beat"
  /\ update' = handling.s /\ handling' = NotHandling
  /\ UNCHANGED <<wanted, waiting, wire, link, alive, memory, disk, loops, beat, lingering,
                 adrift>>

BeatUpdates ==
  /\ beat # NoSetting /\ update # NoSetting
  /\ beat' = update /\ update' = NoSetting
  /\ UNCHANGED <<wanted, waiting, wire, link, alive, handling, memory, disk, loops,
                 lingering, adrift>>

\* A goroutine whose connection is over chooses at random between the closed stop
\* channel and a value that was meant for its successor.
LingererLeaves ==
  /\ lingering
  /\ \/ lingering' = FALSE /\ UNCHANGED <<update, adrift>>
     \/ /\ update # NoSetting /\ update' = NoSetting /\ UNCHANGED lingering
        /\ adrift' = (adrift \/ beat # NoSetting)
  /\ UNCHANGED <<wanted, waiting, wire, link, alive, handling, memory, disk, loops, beat>>

\* Everything in memory is lost, at any step.
AgentExits ==
  /\ alive /\ alive' = FALSE
  /\ adrift' = (adrift \/ wire # << >> \/ handling.at = "save")
  /\ link' \in {"down", "dead"} /\ wire' = << >>
  /\ handling' = NotHandling /\ memory' = NoSetting /\ loops' = NoSetting /\ beat' = NoSetting
  /\ update' = NoSetting /\ lingering' = FALSE
  /\ UNCHANGED <<wanted, waiting, disk>>

AgentReturns ==
  /\ ~alive /\ alive' = TRUE
  /\ memory' = disk /\ loops' = disk
  /\ UNCHANGED <<wanted, waiting, wire, link, handling, disk, beat, update, lingering, adrift>>

SettingsNext ==
  \/ \E s \in Setting : PatchSettings(s)
  \/ FlushNext \/ LinkOpens \/ LinkReady \/ LinkBreaks
  \/ HandleSettings \/ SaveConfig \/ SaveConfigFails \/ ReplaceLoops \/ SetHeartbeatInterval
  \/ BeatUpdates \/ LingererLeaves \/ AgentExits \/ AgentReturns

SettingsSpec == SettingsInit /\ [][SettingsNext]_settingsVars

-----------------------------------------------------------------------------
(* Properties. *)

\* Once nothing is under way on an open connection, the loops, the heartbeat, the
\* file on disk and the row of the device have the same intervals, whatever
\* reconnections and restarts came in between, unless a command was lost, failed
\* or was overtaken since.
SettingsAgree ==
  /\ link = "up" /\ waiting = << >> /\ wire = << >> /\ handling = NotHandling
  /\ update = NoSetting /\ ~adrift
  => /\ loops = wanted /\ disk = wanted /\ beat = wanted
=============================================================================
