------------------------------- MODULE PlayerPage -------------------------------
(***************************************************************************)
(* The page Chromium shows on the kiosk (agent/assets/player.html) against *)
(* the agent's local HTTP server (player.go): polling /target.json, the    *)
(* fallback to /playlist.json, the switch between scenes and the rotation  *)
(* of a scene playlist, with every await and timer a step of its own.      *)
(*                                                                         *)
(* switchSerial and genId are compared for equality only, so a layer keeps *)
(* whether its number is still the current one.  A layer is ready when its *)
(* widgets have loaded, failed or timed out.  Left out: the widgets' inner *)
(* life, the notification and offline badges, and the legacy playlist mode *)
(* (resolveTarget never returns that kind).                                *)
(***************************************************************************)
EXTENDS Integers, Sequences, SequencesExt

CONSTANTS
  PageTarget,  \* resolved targets: [kind, scenes, loop]
  Poll         \* poll() calls under way

Empty == [kind |-> "none", scenes |-> << >>, loop |-> TRUE]
Idling == "idle"

Scenes == UNION {ToSet(t.scenes) : t \in PageTarget}

ASSUME PageAssumption ==
  /\ Empty \in PageTarget
  /\ PageTarget \subseteq [kind : {"none", "scene", "scene_playlist"},
                           scenes : Seq(Scenes), loop : BOOLEAN]
  /\ \A t \in PageTarget :
       /\ t.kind = "none" => t = Empty
       /\ t.kind = "scene" => Len(t.scenes) = 1

VARIABLES
  agentUp,  \* does the agent's HTTP server answer?
  served,   \* Player.target
  poll,     \* poll[p]: where the call stands and the response it holds
  applied,  \* revKey and mode: the target applied last (Unset at the start)
  layers,   \* hidden layers whose readiness is awaited
  index,    \* the rotation's position
  dwelling, \* is sceneTimer running?
  visible   \* what the viewer sees

pageVars == <<agentUp, served, poll, applied, layers, index, dwelling, visible>>

Unset    == [kind |-> "unset", scenes |-> << >>, loop |-> TRUE]
NoPoll   == [at |-> "none", answer |-> Empty]
Holding(t) == [at |-> "apply", answer |-> t]

PageTypeOK ==
  /\ agentUp \in BOOLEAN /\ served \in PageTarget
  /\ poll \in [Poll -> [at : {"none", "target", "playlist", "apply"},
                        answer : PageTarget]]
  /\ applied \in PageTarget \cup {Unset}
  /\ layers \subseteq [scene : Scenes, newest : BOOLEAN, mine : BOOLEAN]
  /\ index \in Nat /\ index <= Len(applied.scenes)
  /\ dwelling \in BOOLEAN /\ visible \in Scenes \cup {Idling}

PageInit ==
  /\ agentUp = TRUE /\ served = Empty
  /\ poll = [p \in Poll |-> NoPoll]
  /\ applied = Unset /\ layers = {} /\ index = 0 /\ dwelling = FALSE
  /\ visible = Idling

stage == <<layers, index, dwelling, visible>>

-----------------------------------------------------------------------------
(* The agent. *)

SwapTarget(t) ==
  /\ agentUp /\ served # t /\ served' = t
  /\ UNCHANGED <<agentUp, poll, applied, stage>>

\* The process ends and starts again with no target.
AgentStops ==
  /\ agentUp /\ agentUp' = FALSE /\ served' = Empty
  /\ UNCHANGED <<poll, applied, stage>>

AgentStarts ==
  /\ ~agentUp /\ agentUp' = TRUE
  /\ UNCHANGED <<served, poll, applied, stage>>

-----------------------------------------------------------------------------
(* Polling. *)

\* setInterval does not wait for the call before.
Ask(p) ==
  /\ poll[p] = NoPoll
  /\ poll' = [poll EXCEPT ![p].at = "target"]
  /\ UNCHANGED <<agentUp, served, applied, stage>>

\* GET /target.json.
GetTarget(p) ==
  /\ poll[p].at = "target"
  /\ poll' = [poll EXCEPT ![p] =
       IF agentUp THEN Holding(served) ELSE [@ EXCEPT !.at = "playlist"]]
  /\ UNCHANGED <<agentUp, served, applied, stage>>

\* GET /playlist.json: with no legacy playlist it says there is nothing to show,
\* whatever the target is.
GetPlaylist(p) ==
  /\ poll[p].at = "playlist"
  /\ poll' = [poll EXCEPT ![p] = IF agentUp THEN Holding(Empty) ELSE NoPoll]
  /\ UNCHANGED <<agentUp, served, applied, stage>>

-----------------------------------------------------------------------------
(* Switching. *)

Superseded(L) == {[x EXCEPT !.newest = FALSE] : x \in L}
TornDown(L)   == {[x EXCEPT !.mine = FALSE] : x \in Superseded(L)}

\* showScene up to its await: over the layers L.
Preload(L, s) ==
  layers' = Superseded(L) \cup {[scene |-> s, newest |-> TRUE, mine |-> TRUE]}

\* applyTarget: teardown, then the new mode.  What is visible stays until the
\* new layer is ready, except that idle shows at once and removes every layer.
Apply(p) ==
  /\ poll[p].at = "apply"
  /\ poll' = [poll EXCEPT ![p] = NoPoll]
  /\ LET t == poll[p].answer IN
     IF t = applied THEN UNCHANGED <<applied, stage>>
     ELSE /\ applied' = t /\ dwelling' = FALSE /\ index' = 0
          /\ IF t.scenes = << >>
               THEN visible' = Idling /\ layers' = TornDown(layers)
               ELSE Preload(TornDown(layers), t.scenes[1]) /\ UNCHANGED visible
  /\ UNCHANGED <<agentUp, served>>

\* A rotation whose generation is still current starts the dwell timer.
Continues(x) == x.mine /\ applied.kind = "scene_playlist"

\* Mutant of Ready: a layer that is ready is revealed, superseded or not.
ReadyReveals(x) ==
  /\ x \in layers
  /\ visible' = x.scene
  /\ layers' = layers \ {x}
  /\ dwelling' = (dwelling \/ Continues(x))
  /\ UNCHANGED <<agentUp, served, poll, applied, index>>

\* showScene after its await, and rotate after that.
Ready(x) ==
  /\ x \in layers
  /\ visible' = IF x.newest THEN x.scene ELSE visible
  /\ layers' = layers \ {x}
  /\ dwelling' = (dwelling \/ Continues(x))
  /\ UNCHANGED <<agentUp, served, poll, applied, index>>

\* sceneTimer: the next scene, the first one again, or the end of the list.
Advance ==
  /\ dwelling /\ dwelling' = FALSE
  /\ IF index + 1 < Len(applied.scenes) \/ applied.loop
       THEN /\ index' = (index + 1) % Len(applied.scenes)
            /\ Preload(layers, applied.scenes[index' + 1])
       ELSE UNCHANGED <<index, layers>>
  /\ UNCHANGED <<agentUp, served, poll, applied, visible>>

\* The browser is relaunched and loads the page anew.
Reload ==
  /\ poll' = [p \in Poll |-> NoPoll]
  /\ applied' = Unset /\ layers' = {} /\ index' = 0 /\ dwelling' = FALSE
  /\ visible' = Idling
  /\ UNCHANGED <<agentUp, served>>

PageNext ==
  \/ \E t \in PageTarget : SwapTarget(t)
  \/ AgentStops \/ AgentStarts
  \/ \E p \in Poll : Ask(p) \/ GetTarget(p) \/ GetPlaylist(p) \/ Apply(p)
  \/ \E x \in layers : Ready(x)
  \/ Advance \/ Reload

PageSpec == PageInit /\ [][PageNext]_pageVars

-----------------------------------------------------------------------------
(* Properties. *)

Showing(t) == IF t.scenes = << >> THEN {Idling} ELSE ToSet(t.scenes)

\* Once the agent stays up with one target and the browser is left alone, the
\* page shows that target and nothing else, whatever polls were overtaken and
\* whatever layers were still loading when the target changed.
PageFollows ==
  <>[]agentUp /\ <>[][UNCHANGED served /\ ~Reload]_pageVars =>
    <>[](visible \in Showing(served))
=============================================================================
