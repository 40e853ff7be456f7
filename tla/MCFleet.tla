-------------------------------- MODULE MCFleet --------------------------------
(***************************************************************************)
(* The components of the second group, which share no variable and are     *)
(* modelled apart: a behaviour of this module is a behaviour of the one    *)
(* that part names, while the others stay in their initial state.  TLC     *)
(* thus explores the sum of their state spaces and not their product, and  *)
(* a property of one component is checked against each of its behaviours.  *)
(* The fairness of a component is asked for only where it is the one that  *)
(* runs.                                                                   *)
(***************************************************************************)
EXTENDS AgentSettings, AgentUpdate, BrowserSupervisor, CanvasGeometry,
        CommandHistory, DeviceEvents, Enrollment, LiveList, MediaLibrary,
        PlayerPage, RemoteAccess, SceneEditing, ScheduleResolve, WidgetForms

VARIABLE part   \* the component that runs

Parts == {"access", "browser", "canvas", "editing", "enroll", "events", "forms",
          "history", "live", "media", "page", "schedule", "settings", "update"}

fleetVars == <<part, accessVars, browserVars, canvasVars, editingVars, enrollVars,
               eventVars, formVars, historyVars, liveVars, mediaVars, pageVars, scheduleVars,
               settingsVars, updateVars>>

FleetInit ==
  /\ part \in Parts
  /\ AccessInit /\ BrowserInit /\ CanvasInit /\ EditingInit /\ EnrollInit
  /\ EventsInit /\ FormsInit /\ HistoryInit /\ LiveInit /\ MediaInit /\ PageInit
  /\ ScheduleInit /\ SettingsInit /\ UpdateInit

FleetNext ==
  /\ UNCHANGED part
  /\ IF part = "access"   THEN AccessNext   ELSE UNCHANGED accessVars
  /\ IF part = "browser"  THEN BrowserNext  ELSE UNCHANGED browserVars
  /\ IF part = "canvas"   THEN CanvasNext   ELSE UNCHANGED canvasVars
  /\ IF part = "editing"  THEN EditingNext  ELSE UNCHANGED editingVars
  /\ IF part = "enroll"   THEN EnrollNext   ELSE UNCHANGED enrollVars
  /\ IF part = "events"   THEN EventsNext   ELSE UNCHANGED eventVars
  /\ IF part = "forms"    THEN FormsNext    ELSE UNCHANGED formVars
  /\ IF part = "history"  THEN HistoryNext  ELSE UNCHANGED historyVars
  /\ IF part = "live"     THEN LiveNext     ELSE UNCHANGED liveVars
  /\ IF part = "media"    THEN MediaNext    ELSE UNCHANGED mediaVars
  /\ IF part = "page"     THEN PageNext     ELSE UNCHANGED pageVars
  /\ IF part = "schedule" THEN ScheduleNext ELSE UNCHANGED scheduleVars
  /\ IF part = "settings" THEN SettingsNext ELSE UNCHANGED settingsVars
  /\ IF part = "update"   THEN UpdateNext   ELSE UNCHANGED updateVars

-----------------------------------------------------------------------------
(* Fairness. *)

\* Goroutines that can run do run, the killed process dies and the timer expires.
\* A select that finds several channels ready chooses at random, so that neither
\* Stop nor the callers are passed over for ever.
BrowserFairness ==
  /\ WF_browserVars(part = "browser" /\ Supervise)
  /\ WF_browserVars(part = "browser" /\ KilledDies)
  /\ WF_browserVars(part = "browser" /\ BackoffRuns)
  /\ WF_browserVars(part = "browser" /\ WatchersLeave)
  /\ SF_browserVars(part = "browser" /\ SeesStop)
  /\ SF_browserVars(part = "browser" /\ \E c \in Caller : Answer(c))

\* The update loop's ticker ticks and the steps of a process that runs are taken.
UpdateFairness ==
  /\ WF_updateVars(part = "update" /\ CheckUpdate("loop"))
  /\ \A u \in Updater :
       WF_updateVars(part = "update" /\ (\/ Download(u) \/ CopyDone(u) \/ Verify(u)
                                        \/ Install(u) \/ RemoveStaged(u) \/ Restart(u)))
  /\ WF_updateVars(part = "update" /\ (Exit \/ Start))

\* The worker goes on with a request it has not given up, and time passes.
EnrollFairness ==
  /\ \A u \in Uuid : WF_enrollVars(part = "enroll" /\ SignRefreshed(u)) /\ WF_enrollVars(part = "enroll" /\ AccessExpires(u))
  /\ \A b \in Box : WF_enrollVars(part = "enroll" /\ ServeEnroll(b))

\* The worker goes on with every request, and the operator presses the button
\* of a device in error again.
AccessFairness ==
  /\ \A w \in Requester : WF_accessVars(part = "access" /\ Continue(w))
  /\ WF_accessVars(part = "access" /\ \E d \in Device : Provision(Operator, d, FALSE))

\* The cron trigger fires every minute and the worker runs it.
EventsFairness == WF_eventVars(part = "events" /\ Sweep)

\* The polling interval ticks, requests end, widgets load or time out, and
\* .xinitrc starts the agent again.
PageFairness ==
  /\ \A p \in Poll : WF_pageVars(part = "page" /\ (Ask(p) \/ GetTarget(p) \/ GetPlaylist(p) \/ Apply(p)))
  /\ WF_pageVars(part = "page" /\ \E x \in layers : Ready(x))
  /\ WF_pageVars(part = "page" /\ AgentStarts)

FleetSpec ==
  /\ FleetInit /\ [][FleetNext]_fleetVars
  /\ AccessFairness /\ BrowserFairness /\ EnrollFairness
  /\ EventsFairness /\ PageFairness /\ UpdateFairness

-----------------------------------------------------------------------------
(* Constants. *)

MCStamp == [b \in Build \cup {First} |-> IF b = "one" THEN "v1" ELSE "v2"]

\* One other widget of the scene.
MCNeighbours == {[x |-> 8, width |-> 6]}

\* Schedules of the device and of its group, of two priorities and of all times,
\* and an overnight window of one weekday and a window inside the first day.
MCEntry ==
  LET E(t, w, p, s) == [target |-> t, from |-> w[1], to |-> w[2], first |-> 0,
                        last |-> w[3], weekdays |-> w[4], priority |-> p, source |-> s]
      always == <<-1, -1, 1, {0, 1}>>  overnight == <<3, 1, 1, {0}>>
      morning == <<1, 2, 0, {0, 1}>>
  IN {E("own", always, 0, "s2"), E("own", always, 1, "s1"),
      E("lobby", always, 0, "s1"), E("lobby", always, 1, "s2"),
      E("own", overnight, 1, "s1"), E("lobby", morning, 1, "s1")}

MCPageTarget ==
  {Empty,
   [kind |-> "scene", scenes |-> <<"s1">>, loop |-> TRUE],
   [kind |-> "scene_playlist", scenes |-> <<"s2">>, loop |-> TRUE],
   [kind |-> "scene_playlist", scenes |-> <<"s1", "s2">>, loop |-> FALSE]}

MCDrawing == {<< >>, <<"a">>, <<"a", "a">>, <<"b", "a">>}

-----------------------------------------------------------------------------
\* The component that runs keeps its variables inside their types.
FleetTypeOK ==
  /\ part \in Parts
  /\ part = "access"   => AccessTypeOK
  /\ part = "browser"  => BrowserTypeOK
  /\ part = "canvas"   => CanvasTypeOK
  /\ part = "editing"  => EditingTypeOK
  /\ part = "enroll"   => EnrollTypeOK
  /\ part = "events"   => EventsTypeOK
  /\ part = "forms"    => FormsTypeOK
  /\ part = "history"  => HistoryTypeOK
  /\ part = "live"     => LiveTypeOK
  /\ part = "media"    => MediaTypeOK
  /\ part = "page"     => PageTypeOK
  /\ part = "schedule" => ScheduleTypeOK
  /\ part = "settings" => SettingsTypeOK
  /\ part = "update"   => UpdateTypeOK
=============================================================================
