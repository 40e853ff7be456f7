# ScreenBoard: a TLA+ development

ScreenBoard drives digital-signage kiosks. A Go **agent** on each kiosk keeps a
WebSocket to a Cloudflare Worker **API** (D1 for rows, R2 for files, one
`DeviceConnection` Durable Object per kiosk, one `PresenceHub` for all consoles),
serves a local **player page** to a browser it supervises, caches media on disk and
updates itself. Operators use the **admin console** (React) over the API.

The modules here model the parts of that system whose correctness depends on the
order of things: TLC checks them on small instances and TLAPS proves their
safety properties for every instance.

## 1. Inventory

| component (source) | state | operations | interacts with | what is hard |
|---|---|---|---|---|
| DeviceConnection, presence (`apps/api/src/do/deviceConnection.ts`, `lib/scheduled.ts`) | storage `lastSeen`, `disconnectedAt`, one alarm; sockets; the row `devices.status/last_seen_at` | handleConnect, webSocketMessage/Close/Error, alarm, markOnline, markOffline; cron `sweepOffline`; `/health`, PATCH status | agent socket, D1, PresenceHub | every await on D1 lets other handlers in; one alarm serves two deadlines; close events come late or never; handlers die half-way |
| DeviceConnection, commands (same file, `lib/command.ts`, `routes/devices.ts`) | rows `commands.status`, frames in flight | issueCommand, handleCommand, flushQueued, ack, DELETE | agent socket, console | issue and handshake overlap; marks race with acks; frames vanish with a link |
| Agent WebSocket client (`agent/wsclient.go`) | connection, heartbeat ticker, stop channel | Run, connectAndServe, heartbeat, dispatch, send | DeviceConnection, command handlers | reconnects, concurrent writers |
| Agent player and cache (`agent/player.go`, `cache.go`, `run.go`, `client.go`) | target, file map, `curSet`/`prevSet`, cache directory with `.part` files | syncTarget, SetTarget, Prepare, Commit, eviction, HTTP handlers | API target and content, player page | two goroutines sync; downloads fail; the cap evicts; the process dies |
| Target resolution (`lib/resolve.ts`, `routes/schedules.ts`) | schedules, assignments, published versions | scheduleMatches, resolveTarget | player, console | overnight windows, weekdays, priorities; several reads without a transaction |
| Scenes and scene playlists (`routes/scenes.ts`, `scenePlaylists.ts`) | draft widgets, `scene_versions`, `published_version`, items | PUT widgets, publish, rollback, PUT items | resolution | several statements per request, two operators |
| Media (`routes/media.ts`, `content.ts`) | rows, versions, R2 objects | upload, new version, rollback, delete | player cache | version counter race, unchanged URL |
| Browser supervisor (`agent/browser.go`) | process, restarts, circuit breaker | supervise, Relaunch, Stop | player page | exit against health timer against relaunch |
| OTA (`routes/ota.ts`, `agent.ts`, `agent/ota.go`) | releases, rollout buckets, binary on disk | publish, `/update`, MaybeUpdate, installBinary | agent process | two updaters at once, crash between renames |
| Enrollment (`routes/enroll.ts`, `agent/run.go`) | one-time tokens, device tokens, config file | enroll, refresh | agent start | double spend, lost answers |
| Remote access (`lib/cloudflareTunnel.ts`) | tunnels, DNS, access apps | provision, deprovision, orphan deletion | Cloudflare API | partial failure, races of requests |
| PresenceHub, console stream (`do/presenceHub.ts`, `admin/src/realtime.ts`) | sockets | publish, reconnect | console | lost events |
| Agent loops (`agent/lifecycle.go`, `main.go`) | goroutines by name | replace, stop | everything in the agent | replacement while a loop body runs |
| Player page (`agent/assets/player.html`) | target, rotation timer, generation | poll, rotate, report | local HTTP server | stale timers and answers |
| Health, alerts, events (`routes/agent.ts`, `lib/scheduled.ts`, `lib/notify.ts`) | `events` rows, `devices.status` | health report, sweep, recordEvent | agent, cron, console | dedup by a count before an insert; one failure ends a loop over devices |
| Agent settings (`routes/devices.ts`, `agent/commands.go`, `config.go`, `lifecycle.go`, `wsclient.go`) | intervals in a row, a command, memory, a file, the loops, the heartbeat | PATCH, applyAgentSettings, Save, replace, SetHeartbeatInterval | command channel, loops | five copies of one value, lost commands, restarts |
| Admin console (`admin/src/pages/*.tsx`) | React state beside the server's rows | edit, save, publish, rollback; gestures; forms; command history | API | answers that come late, closures that keep an old page, validation in three places |
| Accounts, screenshots, dashboard, installer | rows | CRUD | console | bootstrap of the first account; otherwise single statements |

`PROJECT.json` lists every component with its status, and under `hazards` each
line of the code where one of these difficulties bites.

## 2. The modules

### DevicePresence — who is online

State: the Durable Object's storage (`lastSeen`, `disconnectedAt`, `alarm`), the D1
row (`status`, `lastSeenAt`), the network (`agent`, `link`, `beat`), and a program
counter for each handler that awaits D1 (`conn`, `watch`, `sweep`).

| action | code |
|---|---|
| Connect, MarkOnline, ConnectTouch | handleConnect, cut at the SELECT and the UPDATE of markOnline |
| Message | webSocketMessage (its touch) |
| SocketClose | webSocketClose and webSocketError |
| AlarmFires, AlarmSelect, AlarmFlip, AlarmClear | alarm and markOffline, cut at each await |
| ConnectDies, AlarmDies | a handler throws or the object is evicted; the runtime retries an alarm |
| Health, OperatorSets | `POST /api/agent/health`, `PATCH /api/devices/:uuid` |
| CronFires, SweepFlip | sweepOffline: the SELECT, and the UPDATE for this device |
| Drop, PowerOff, PowerOn, Forgotten | the kiosk and its network |
| Tick | the clock |

A Durable Object's handlers interleave at awaits on anything but the object's own
storage; the storage operations between two such awaits are one step. Timestamps
are ages and the alarm a countdown; a `Tick` waits until nothing is due, i.e. a
started handler finishes within one unit of time. Ages are capped at `MaxAge`, which is beyond
every comparison the code makes. Events, broadcasts and notifications are left
out, as are the fields of the row that presence does not read.

### KioskPlayer — what is on screen and on disk

`Fetch` is GetTarget in syncTarget (outside `updateMu`), then SetTarget under
`updateMu`: `ClearTarget`, `KeepTarget` (same revision) or `Prepare` with one
`Reuse`/`DownloadStarts`/`DownloadEnds`/`DownloadFails` per file, `Swap` (target and
file map under `mu`), `Commit` (rotation of the two sets, gcLocked, and what enforceCapLocked lists and
adds up) and the loop of enforceCapLocked file by file, oldest first: `PassOver` what is on screen, `Evict`
any other file, `EvictFails` where os.Remove does, `CommitEnds`. With `DiskFaults` a file may refuse to be
removed and a directory to be read; `stuck` notes which. `total` is the code's own count of the bytes, `older`
the order of the modification times, i.e. of the downloads (`cache.go:32` says "LRU-first", but nothing touches
a file that is used again).
`Restart` kills the process at any point and keeps only the directory. The server
changes its target (`Retarget`) and the bytes behind a media id (`ReplaceMedia`) at any time.
A cache file is its key (scene revision, media id), as `sceneRefs` builds it; `stale` holds the files
whose bytes the server has replaced.

### CommandChannel — remote commands

`row[c]` is `commands.status`. issueCommand is `Insert` and then handleCommand of
the object (`PostOffline`, or `PostSend` and `PostMark`, or `PostFails`); flushQueued
is `FlushSelect`, then `FlushSend` and `FlushMark` per row, then `FlushDone`. The
agent reads one frame at a time (`Dispatch`) and writes its answer to the same
connection (`SendAck`); `Ack` is the object's webSocketMessage. A frame can be
read, run and answered before the UPDATE that marks it lands, and that UPDATE then overwrites the answer:
nothing in the object orders the two, so neither does the model. `overtaken` notes such rows (history).
What a command does on the kiosk is abstracted to "it ran".

### SceneContent — what kiosks are told to show

The tables `scenes` (`status`, `canvas`, `published`), `scene_widgets` (`draft`),
`scene_versions` (`versions`) and `scene_playlist_items` (`items`). The API has no
transactions, so every SQL statement is a step: a save is `Save`, `Patch`, `Lookup`,
`Clear`, `InsertRow` per widget, `InsertDone`; a publication goes on with `ReadCanvas`,
`ReadWidgets` (buildSceneSnapshot), `InsertVersion`, `ReadMax`, `Point`; a rollback is
`Rollback`, `Point` and, with `restore_draft`, `Patch`, `Clear`, `InsertRow`; a duplicate
`Duplicate`, `CopyScene`, `CopyRows`, `InsertRow`. `DeleteScene` carries the cascades of the
foreign keys, which also reject the rows of a request whose scene is gone. `Fail` ends
a request at any statement. The playlist is replaced by `PutItems`, `ClearItems`,
`InsertItem`, `PutEnds`. A kiosk resolves its target by `Resolve` (schedules, assignment
and published versions), one `ReadSnapshot` per scene and `Receive`.

`job[e]` is the chain of requests one editor page has under way: the page saves before
it publishes and sends one request at a time. A draft is the sequence of its rows, a
snapshot stands for its revision. `overlapped` is a history variable: the scenes two
requests wrote at once, for which the code promises nothing about the draft.

### KioskScreen — the abstract player

What KioskPlayer promises without saying how: one target on screen, replaced in one
step (`Switch`) by one the syncer was told to show and whose files are all there;
what is fetched, kept and thrown away is open (`KeepHouse`) as long as the files of
the target on screen stay. `KioskPlayer!ImplementsScreen` is the refinement: `wanted`
is the server's target, `answer` what a syncer holds between its fetch and the swap,
`have` the cache directory.

### The fleet modules

Fourteen components that share no variable with each other. Each module has its own
Init, Next, type invariant and properties; `MCFleet` extends all of them with one
variable, `part`, chosen at the start: only that component moves. TLC thus explores
the sum of their state spaces in one run, and every property is checked against every
behaviour of the component it is about.

| module | code | state and actions |
|---|---|---|
| AgentUpdate | `routes/ota.ts`, `agent.ts` (/update), `content.ts`, `agent/ota.go`, `lifecycle.go` | packages and their objects, rollout per version, the staging path, the installed and the running binary; two updaters (`loop`, `command`), each `CheckUpdate`, `Download`, `CopyDone`, `Verify`, `Install`, `RemoveStaged`, `Restart`; `Crash` at any step |
| BrowserSupervisor | `agent/browser.go` | the supervisor's position, processes by generation, back-off and health timers, pending relaunches and Stop; the select takes any ready case |
| Enrollment | `routes/enroll.ts`, `auth.ts`, `groups.ts`, agent | codes, devices, tokens, the request of each box statement by statement; `RequestDies` and restarts; `Refresh` and deletion |
| RemoteAccess | `lib/cloudflareTunnel.ts`, `devices.ts`, `settings.ts` | tunnels, names, applications, rows; provisioning and removal call by call; while the cloud is unreliable a call fails without effect (`CallFails`), its answer is lost (`Replied`), or the request is cut off (`CutOff`); `Replace` is the operator's `force`; `ListTunnels`, `ConfirmOrphans`, `DeleteOrphan` |
| AgentSettings | `devices.ts`, `deviceConnection.ts`, `commands.go`, `config.go`, `lifecycle.go`, `wsclient.go` | one value in the row, in queued and sent commands, memory, file, loops, heartbeat and its channel |
| DeviceEvents | `scheduled.ts`, `agent.ts` (/health), `notify.ts` | status and silence of several devices; the sweep device by device; overlapping health reports and their deduplicated alerts |
| LiveList | `presenceHub.ts`, `presence.ts`, `realtime.ts` (both), `hooks.ts` | row, broadcasts under way, one stream, GETs, the list shown |
| ScheduleResolve | `resolve.ts`, `schedules.ts`, `groups.ts`, `devices.ts` | schedule rows, group, assignment, the clock; `ScheduleMatches`, `Beats`, `BestOf` (the loop after each row), `Resolved` are the code's choice |
| MediaLibrary | `media.ts`, `content.ts` | rows, versions, objects; two uploads step by step, rollback, deletion |
| PlayerPage | `player.html`, `player.go` | polls with their awaits, layers waiting for widgets, the rotation timer, fallback, reload |
| SceneEditing | `SceneEditor.tsx` | canvas, dirty flag, undone requests, the server's draft and publications; save, publish, rollback and the reload that follows |
| CanvasGeometry | `SceneEditor.tsx` | one axis of a drag or resize: snapping, clamping, minimum size, rounding, arrow keys, number fields |
| WidgetForms | `SceneEditor.tsx`, `scenes.ts`, `packages/shared` | the configuration of a widget through forms, warnings and validateWidget; legacy kinds |
| CommandHistory | `DeviceDetail.tsx`, `devices.ts`, `hooks.ts` | rows, the page asked for and the table shown, GETs in any order, put-off reloads, watchers, deletions |

`MCDevicePresence`, `MCKioskPlayer`, `MCCommandChannel`, `MCSceneContent` and `MCFleet` give the small
instances. The theorems are in `DevicePresenceProofs`, `KioskPlayerProofs`, `CommandChannelProofs`,
`SceneContentProofs`, in `AgentProofs` (AgentSettings, AgentUpdate, BrowserSupervisor, PlayerPage), `ServerProofs`
(Enrollment, DeviceEvents, MediaLibrary, RemoteAccess, ScheduleResolve) and `ConsoleProofs` (SceneEditing, LiveList,
CommandHistory, CanvasGeometry, WidgetForms), and in `FleetProofs`, which carries the last three to `FleetSpec`.

## 3. What the runs check

| run | instance | shows |
|---|---|---|
| presence_core | 2 sockets, watchdog 3, grace 1, heartbeat 2, cron 3, no faults | **SilentDropBound** (a live row was heard of within the watchdog window and one grace); **NoFalseVerdict** (alarm never judges an established socket offline); **FlipOnce** (alarm and sweep never both flip one outage) |
| presence_faults | 2 sockets, watchdog 2, heartbeat 1, cron 1, all faults, fair | **BackstopBound** (the sweep bounds an unrefreshed live row); **DeadGoesOffline** |
| presence_late_close | 2 sockets, late closes | violated: the grace alarm flips a reconnected device, although a comment says it re-checks the sockets |
| presence_heartbeat | 2 sockets, no faults, fair | violated: markOffline overwrites a reconnect between its SELECT and UPDATE, and heartbeats never repair the status |
| player_core | 2 syncers, two scenes sharing a file, two playlists and blank, cap below the sum, disk faults, crashes, fair | **Servable**; **CapAfterCommit** (the eviction loop keeps its books: oldest first, only above the cap, never what is on screen, and at the end the directory fits or holds nothing else that can be removed); **Converges**; **ImplementsScreen** (every behaviour is one of KioskScreen) |
| player_fresh | 1 syncer, no cap, no crash | violated: a replaced media file keeps its cache key, so a sync reports success with the old bytes |
| command_steady | 2 commands, 1 socket, no faults, fair | **NotStranded**; **SentIsInFlight** (a row is left at sent only by a mark that lands after its own answer); **Answered** |
| command_faults | 1 command, 2 sockets, all faults | **ReconnectRetries** |
| command_lost | 1 command, 2 sockets, drops, fair | violated: a flushed command is marked sent when the frame is written and never runs if the link was dead |
| content_core | 2 scenes, 2 operators, one kiosk on a scene and one on the playlist, 2 requests, fair kiosks | **PublishedExists** (published_version always names a version); **PublishedWhole** (a failed save is never published); **VersionsKept** (versions are immutable); **SceneStaysOn** (no dark screen between two reads); **Settles** |
| content_list | 1 scene, 1 operator, 1 kiosk on the playlist, 3 requests | violated: saving the playlist empties it first, and a kiosk that polls then goes idle |
| fleet_core | the fourteen fleet components, one at a time, fair | FleetTypeOK and the properties below |

fleet_core, component by component:

* AgentUpdate: **VerifiedInstall** (what is installed passed the checksum of its offer, or a second
  update disturbed the shared staging path in between); **Updated** (a covered device ends up on a good
  release whatever crashed and failed before, unless a broken file is installed).
* BrowserSupervisor: **OneBrowser**; **StopReaps** (Stop ends with every process waited for);
  **RelaunchReturns** (no caller of Relaunch is left waiting).
* Enrollment: **OneDevicePerCode** (but for codes sent twice at once or a worker that dies in between);
  **DeletedLosesAccess** (a deleted device's last token runs out and is not renewed).
* RemoteAccess: **OrphansOnly** (a tunnel in use is never deleted as an orphan, unless it was being provisioned
  when they were listed); **ReadyServes** (a ready row names a tunnel that is alive, named and protected, unless
  the device is `disturbed`); **ReprovisionHeals** (once the cloud answers, retries end in a row that says ready and
  works, or that something disturbed before; and an operator who also replaces by force what looks ready and does
  not work ends with working access, whatever was disturbed). `force` is a field of the request that no page of
  the console sends, so the second half asks for its fairness in the property itself, and the first does without.
* AgentSettings: **SettingsAgree** (at rest all copies agree unless a command was lost, failed or overtaken).
* DeviceEvents: **AlertOnce** (unless two reports overlapped); **SweepReachesAll**.
* LiveList: **ListTruthful**. CommandHistory: **HistoryTrue**. Both say that a console at rest shows the
  truth, and name the overtakings after which it may not.
* ScheduleResolve: **RankingHolds** (what plays is a matching schedule of the highest rank, at every minute).
* MediaLibrary: **VersionsIntact** (a version that can be chosen has the bytes its row describes).
* PlayerPage: **PageFollows** (the page ends up on the agent's target).
* SceneEditing: **EditorShowsDraft**. CanvasGeometry: **OppositeEdgeHeld**. WidgetForms:
  **UnwarnedSaves** (what the editor does not warn about is refused in the cases of `Unsaid`, and only in those).

Bounds. Two sockets are the old and the new connection, the only two an agent
can have (it dials after the previous connection has returned, and identities
are reused). One unit of time is about 30 seconds (watchdog 90s, heartbeats of up to 60s,
grace 20s); the faulty instance uses smaller timers in the same order. Two syncers are the two
goroutines of the code; two scenes that share a file, in either order, exercise the rule by
which `Prepare` keys a shared file under the first scene. The files have one and two bytes, a playlist three;
a cap of 2 is below the current target alone, so that every Commit of a playlist runs the loop to its end, and
failures of the disk make it go on past files that stay. Only the larger file gets new versions
(`Revised`): which file has old bytes changes nothing the four properties speak of. Two commands let one be issued while the
other is flushed. `CHECK_DEADLOCK FALSE` stands only in command_steady, where the system rests when
both commands are answered. `MaxRequests` counts what the operators send: two requests are
two publications, or a publication and a rollback, a save beside the playlist, at any distance;
the forms have two widgets and none, so a save can be cut short or be empty.

In fleet_core: one tunnel while Cloudflare is unreliable and up to five numbers afterwards (`MaxFlaky`, `MaxTunnels`)
let a tunnel be orphaned, listed, deleted and its number used again (with fewer numbers the operator's retries run out of them;
two and six pass too, in 810 849 states of RemoteAccess alone, too long beside the others); carousels of up to two items against
a limit of one (`MaxItems`, `ItemLimit`; 100 in the code) are within it and beyond; three failures reach the longest back-off and the cap (`FailCap`,
`MaxFailures`, `BackoffMax`); two boxes and two codes, two updaters and two later builds, two uploads of one filename,
two pollers, two writers and two GETs are the least that overlap; two days of four slots have an overnight window, a
weekday and an end day; canvas lengths reach past both borders and below the minimum size; a new command beside an
answered one, on pages of one row, makes two pages, and a batch limit of one refuses a batch. `CHECK_DEADLOCK FALSE` stands there because parts
rest: a stopped supervisor, an expired fleet, a settled history.

Fairness. DevicePresence: the runtime finishes started handlers and keeps its
alarms and cron triggers (`WF` of `Handlers` and `Tick`), and a running agent's
heartbeat ticker fires on an open socket. Nothing is assumed of the network or the
operator. KioskPlayer: a goroutine that can run does; `SF` of SetTarget since
`updateMu` is handed back and forth (Go's mutex does not starve); `SF` of a finished
download, i.e. one that is retried for ever succeeds in the end. CommandChannel: handlers
finish, the agent dials until connected, an open link delivers. SceneContent: the agent polls
for ever and its polls are answered (one that fails changes nothing, as if it had not been made
yet); nothing is asked of the operators. Fleet: goroutines and requests that can go on do, tickers and cron
fire, and `SF` of Stop and of answering a relaunch, since Go's select picks at random among ready cases; for
ReprovisionHeals only, the operator of a device in error presses the button again. Which component is fair is tied to `part`
(`MCFleet!FleetSpec`).

Every passing property has a mutant in `PROJECT.json`: an operator beside the one it replaces, which
makes the mistake a change of that code could make, and under which the run fails.

## 4. What is proved

Every safety property of the passing runs is a theorem for all constants that satisfy the assumptions named in the
modules: the invariants, the action properties and the refinement, and one liveness property that needs no fairness.
A proof finds an invariant `XInv` that implies the property, holds initially and is kept by every action (one lemma or
step per action); TLC has checked each `XInv` on an instance before. Where a theorem asks for more than the
named assumptions, a restriction of `Faults`, the line below says so.

* `DevicePresenceProofs`: TypeCorrect, BackstopHolds (any faults); VerdictSound (NoFalseVerdict without
  late closes, whatever dies); SilentDropDetected and OutageFlippedOnce (no faults).
  The invariants strengthen the properties with what the timers promise: while a
  socket is established, `lastSeen` is at most its `beat` and `disconnectedAt` is not set
  (so neither deadline can have passed); a live row always has an alarm that is due
  before the bound, or a handler under way that sets one. `SweptInTime` (for BackstopBound): between two sweeps
  the age of a live row and the time to the next sweep add up to no more than the bound.
* `KioskPlayerProofs`: TypeCorrect; AlwaysServable; CapRespected. `Servable` is not inductive:
  it needs `Mutex` (one SetTarget inside `updateMu`), `Prepared` (what the running
  SetTarget no longer has to look at is on disk: Commit and eviction of another
  one cannot interfere) and `OnDisk` (the file map is the target's and cached).
  CapRespected rests on `Books`: while the loop runs, `total` is the bytes of the directory, and what the loop
  has gone past is on screen or stuck (lemmas BytesCount and BytesWithout: a file taken away takes its size off).
  KeepsPromise (`Spec => ImplementsScreen`): the initial states and each action of KioskPlayer
  map to the abstract screen, `Swap` to `Switch` by `Prepared`, everything else to `KeepHouse`,
  `GiveUp`, `Want`, `Ask`, `StartOver` or a stutter.
* `CommandChannelProofs`: TypeCorrect; NeverStranded (without do_failure, any number of
  commands and sockets, links that break at any time): a queued row whose issuer
  has returned is covered by a handshake that has still to select it or has
  already, or there is no open link. SentInFlight (links hold and nothing fails; acks and UPDATEs in any order): `Accounted` covers the row from the moment its frame is
  written, before it is marked, up to its answer, and past it if that answer overtook the mark; `LinksHold` says that no link is gone, the agent runs only what came over an open
  one and a flush that sends has a target that takes the frame. ReconnectAlwaysRetries (any faults, no fairness): a liveness property, but of the form "if
  handshakes complete for ever"; the step lemma FlushHoldsRow says that a flush which has a queued row before it
  neither gets past it nor completes while it stays queued.
* `SceneContentProofs`: TypeCorrect; PublishedExistsHolds; VersionsKeptHolds;
  SceneStaysOnHolds; PublishedWholeHolds. published_version is written from a number read two statements
  earlier, so the invariant follows that number (`HeldNumbers`: it names a row until the
  scene is deleted) and says that scenes that are not live have no rows (`RowsOfLive`; ids are never used
  again). `Grows` says what any step leaves of a scene's versions; with it `ViewInv` carries
  a kiosk over the gap between its two reads. For PublishedWhole, `WholeInv` follows a save row by row: while its
  scene is written by nobody else (`Alone`), the rows are those inserted so far of the form that was sent
  (`Written`, `Inserted`), and once a publication reads canvas and widgets, the two together are a form.
* `AgentProofs`. OneBrowserHolds: a process that runs is of the newest generation, and none does where the
  supervisor is about to launch one. SettingsAgreeHolds: the furthest place a command under way has reached (wire, handler,
  file) carries what is wanted (`Carried`), and of the handler's own steps, each one behind it has taken effect in file,
  loops and heartbeat (`Progressed`), unless `adrift` is set. VerifiedInstallHolds: an updater that was not disturbed is the only one at work, and what it is
  about to install has the checksum of its offer (`StagedForOne`). PageTypeCorrect and PageSettles: a
  target with no scenes has neither a dwell timer nor layers of its own, and there is one newest layer at most
  (`Staged`); so the rotation never divides by zero or leaves its list, and what is visible when nothing is loading
  belongs to the target applied last (the safety part of PageFollows).
* `ServerProofs`. OneDevicePerCodeHolds: an uncontested code is in the hands of one request, which is past its
  INSERT if there is a device. AlertOnceHolds: without an overlap a device has one report at a time, which
  alerts only where it counted none (`OneReport`). VersionsIntactHolds: an upload alone has a number above every row's, and has written the
  object its row will describe (`NumberIsNew`). RankingAlwaysHolds: `BestOf` is the loop of resolveTarget as a recursive function; BestOfIs shows
  that the recursion has a solution, KeepsBestAfter that each row leaves in `best` one that applies and outranks all
  rows so far. Both go by induction over the rows, as a fact about the set of positions reached (lemma Upwards, from
  the least element of its complement). ReadyServesHolds and OrphansOnlyHolds: in `AccessInv` a tunnel belongs to one
  device at most, by its row or by a request at work on it (`Apart`); the only request at work on a device finds what
  it has made so far in place (`SoleProvisions`); and a tunnel that a clean-up still has on its list, while a request
  or a row has it too, was on its way when the tunnels were listed (`OrphansKnown`).
* `ConsoleProofs`. UnwarnedSavesHolds, EditorShowsDraftHolds, ListTruthfulHolds, HistoryTrueHolds,
  OppositeEdgeHolds. The invariants say what the last message still to come will bring: of the list, where the
  newest status is (`Arriving`: the last frame on the socket, else every response and the list, or an answer yet to
  come); of the history, that with no GET to come the last answer that waits, or else the table, is what a SELECT would
  say now (`LastMatches`), unless it is `late`; of the editor, which of canvas, response and draft are equal at each step
  of a request (`CarriedThrough`); of the forms, which fields may be blank (`Fits`), for any limit on the items and
  carousels of any length; of the canvas, that between two
  gestures the widget lies inside its bounds.
* `FleetProofs`. FleetRunsComponents: a behaviour of `FleetSpec` is one of each component's specification. With it
  FleetTypeCorrect (FleetTypeOK) and FleetSafe (all safety properties of fleet_core) follow from the component theorems.

Types are proved for all modules; the runs of the first four do not check them again.

Only model-checked: Answered, DeadGoesOffline, Converges, Settles, PageFollows, Updated, StopReaps, RelaunchReturns,
DeletedLosesAccess, ReprovisionHeals and SweepReachesAll. They are liveness properties that rest on fairness, and so on
ENABLED, which is out of the prover's reach.

## 5. What the models show beyond their properties

Behaviour the models have and the properties leave out by a named exception, or that was met
while reading the code:

* Presence. The sweep's UPDATE may flip a row refreshed after its SELECT (`scheduled.ts:16`);
  a warning by health and a PATCH of the status are never broadcast (LiveList `WriteSilently`); a device
  that flaps, with recordEvent failing each time, keeps the sweep from those after it (`scheduled.ts:19`).
* Player. Two polls that resolve to nothing rotate the previous target out of the cache (`player.go:377`); a
  switch that keeps failing leaves files above the cap until a Commit (`cache.go:78`), and after a Commit too if
  files cannot be removed or the directory not be read (`:136`, `:150`, `:195`); a page that still shows
  the previous scene asks for media that is gone (`player.go:289`); after a restart the agent serves an empty
  target until its first sync; a failed `/target.json` sends the page through `/playlist.json` to idle.
* Commands. An answer that arrives while handleCommand or flushQueued is still marking its row is overwritten by
  "sent" and stays so (`deviceConnection.ts:83`, `:292`), with no fault at all. Commands can run twice (`wsclient.go:191`). A command issued during the handshake overtakes the queued
  ones, and an old heartbeat goroutine may swallow a new interval (AgentSettings `adrift`); the row of the settings is
  written before their command is issued, so a worker that dies in between leaves them apart.
* Content. Of two publications the one that started first may end up live, and two operators who save
  one scene at once leave the widgets of both (`scenes.ts:365`, `:315`). Overlapping uploads of
  one medium take one version number, and under one filename one object (MediaLibrary `raced`).
* Scene editor. A rollback always restores the draft, but the reload after it is not awaited
  (`SceneEditor.tsx:719`): what is edited in between is lost, and the rollback link is not disabled
  while another request runs. A left edge that snaps closer than the minimum size moves the right edge (`:555`).
* Widgets. A fresh `web` widget (url "") and a fresh `carousel` (no items) are refused by PUT, although
  `scenes.ts:35` says that empty configurations are intentionally allowed; a carousel item whose URL was typed and
  emptied is refused even with a medium chosen; legacy kinds load and cannot be saved. The fields do not limit what
  validateWidget limits, and computeWarnings does not mention it: more than 100 items (`scenes.ts:60`), a text of more than 10 000
  characters (`:58`), a URL of more than 4 096 (`:26`) or an unfinished one, numbers out of range. The refusal comes after PATCH
  has saved the name and the canvas. What is not warned about is listed, all of it, in `WidgetForms!Unsaid`.
* Command history. `reloadCmds` keeps the page it was taken on: a reload put off on page 1 (`DeviceDetail.tsx:170`)
  fills the table with page 1 after the operator has turned to page 2, and "next" then leads to page 3 where there
  is one. Ticked rows stay ticked on other pages and after their deletion.
* Enrollment. Two boxes that send one code at once both enrol, and so does a second box after a worker died between
  the INSERT and the UPDATE (`enroll.ts:99`); a lost answer leaves a ghost device and a spent code; the box of a
  deleted device cannot enrol again before its agent.json is removed.
* Remote access. GET overwrites an "error" status with the connector's, after which a retry only repairs the connector;
  a removal cut off before its last statement leaves a row that says ready over what is gone, which only `force` heals;
  a tunnel deleted as an orphan while it is provisioned leaves a ready row that only `force` heals; the upsert of an
  error keeps the old tunnel_id, so the new tunnel is left to the orphan page.
* OTA. The bucket of a push (`ota.ts:136`) is not that of the gate (`agent.ts:253`), so a canary may be
  notified and refused; two packages of one version share an object (`ota.ts:64`).
* Schedules. An overnight window uses the weekday of the current UTC day, also after midnight; PATCH of a scene
  without its source_type leaves two active sources (`devices.ts:114` promises one); schedules of a deleted
  group stay listed.
* The browser is shown as crashed from the first launch that fails, though `browser.go:44` keeps the word for a
  supervisor that is past the cap of consecutive failures.

## 6. Not modelled

* Accounts and sessions: CRUD and TOTP; order matters only when the first account is created (the count of
  the users, then the INSERT) and when the last administrator is deleted, which nothing prevents.
* System information, self-management and installer scripts: reads of the operating system and shell.
* Screenshots, dashboard, installer routes, folders and other console forms: one statement per request.
* Rendering of widgets, the legacy playlist mode of the page (resolveTarget never returns that kind), `apps/player` (a
  separate static preview), Chromium's command line.
* Concurrent writers of one gorilla connection (`wsclient.go:203`) and what a file system keeps across a power cut
  (`client.go:222`): the outcome of the first is a dropped link, which the models have.

What is left to do: abstract specifications of a command's life cycle and of publication, refined by
CommandChannel and SceneContent.
