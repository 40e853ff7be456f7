------------------------------ MODULE FleetProofs ------------------------------
(***************************************************************************)
(* The components that MCFleet runs one at a time, for any value of their  *)
(* constants: a behaviour of FleetSpec is one of each component's own      *)
(* specification, in which the component rests unless it is the one that   *)
(* runs, so that what is proved of the components holds of FleetSpec.      *)
(***************************************************************************)
EXTENDS MCFleet, AgentProofs, ServerProofs, ConsoleProofs

\* A step of the component that runs is one of its own next-state relation, and
\* every other component stutters.
LEMMA FleetSteps ==
  ASSUME [FleetNext]_fleetVars
  PROVE  /\ [AccessNext]_accessVars /\ [BrowserNext]_browserVars
         /\ [CanvasNext]_canvasVars /\ [EditingNext]_editingVars
         /\ [EnrollNext]_enrollVars /\ [EventsNext]_eventVars
         /\ [FormsNext]_formVars /\ [HistoryNext]_historyVars
         /\ [LiveNext]_liveVars /\ [MediaNext]_mediaVars
         /\ [PageNext]_pageVars /\ [ScheduleNext]_scheduleVars
         /\ [SettingsNext]_settingsVars /\ [UpdateNext]_updateVars
         /\ UNCHANGED part
BY Zenon DEF FleetNext, fleetVars

\* Every component behaves as its own specification says.
LEMMA FleetRunsComponents ==
  FleetSpec => /\ AccessSpec /\ BrowserSpec /\ CanvasSpec /\ EditingSpec
               /\ EnrollSpec /\ EventsSpec /\ FormsSpec /\ HistorySpec
               /\ LiveSpec /\ MediaSpec /\ PageSpec /\ ScheduleSpec
               /\ SettingsSpec /\ UpdateSpec
<1>1. FleetInit => /\ AccessInit /\ BrowserInit /\ CanvasInit /\ EditingInit
                   /\ EnrollInit /\ EventsInit /\ FormsInit /\ HistoryInit
                   /\ LiveInit /\ MediaInit /\ PageInit /\ ScheduleInit
                   /\ SettingsInit /\ UpdateInit
  BY DEF FleetInit
<1> QED
  BY <1>1, FleetSteps, PTL
     DEF FleetSpec, AccessSpec, BrowserSpec, CanvasSpec, EditingSpec, EnrollSpec,
         EventsSpec, FormsSpec, HistorySpec, LiveSpec, MediaSpec, PageSpec,
         ScheduleSpec, SettingsSpec, UpdateSpec

\* No component leaves its types, whichever runs.
THEOREM FleetTypeCorrect == FleetSpec => []FleetTypeOK
<1> DEFINE AllTyped == /\ AccessTypeOK /\ BrowserTypeOK /\ CanvasTypeOK
                    /\ EditingTypeOK /\ EnrollTypeOK /\ EventsTypeOK
                    /\ FormsTypeOK /\ HistoryTypeOK /\ LiveTypeOK /\ MediaTypeOK
                    /\ PageTypeOK /\ ScheduleTypeOK /\ SettingsTypeOK /\ UpdateTypeOK
           Picked == part \in Parts
<1>1. FleetInit => Picked
  BY DEF FleetInit
<1>2. Picked /\ [FleetNext]_fleetVars => Picked'
  BY FleetSteps
<1>3. Picked /\ AllTyped => FleetTypeOK
  BY Zenon DEF FleetTypeOK
<1>4. FleetSpec => []AllTyped
  BY FleetRunsComponents, AccessTypeCorrect, BrowserTypeCorrect, CanvasTypeCorrect,
     EditingTypeCorrect, EnrollTypeCorrect, EventsTypeCorrect, FormsTypeCorrect,
     HistoryTypeCorrect, LiveTypeCorrect, MediaTypeCorrect, PageTypeCorrect,
     ScheduleTypeCorrect, SettingsTypeCorrect, UpdateTypeCorrect, PTL
<1> HIDE DEF AllTyped, Picked
<1>5. FleetSpec => []Picked
  BY <1>1, <1>2, PTL DEF FleetSpec
<1> QED
  BY <1>3, <1>4, <1>5, PTL

\* Every safety property that the run of MCFleet checks holds of FleetSpec.
THEOREM FleetSafe ==
  FleetSpec =>
    /\ [](/\ ReadyServes /\ OneBrowser /\ EditorShowsDraft /\ OneDevicePerCode
          /\ AlertOnce /\ ListTruthful /\ VersionsIntact /\ RankingHolds
          /\ SettingsAgree /\ UnwarnedSaves /\ HistoryTrue)
    /\ OrphansOnly /\ OppositeEdgeHeld /\ VerifiedInstall
BY FleetRunsComponents, ReadyServesHolds, OneBrowserHolds, EditorShowsDraftHolds,
   OneDevicePerCodeHolds, AlertOnceHolds, ListTruthfulHolds, VersionsIntactHolds,
   RankingAlwaysHolds, SettingsAgreeHolds, UnwarnedSavesHolds, HistoryTrueHolds,
   OrphansOnlyHolds, OppositeEdgeHolds, VerifiedInstallHolds, PTL
=============================================================================
