------------------------------ MODULE SceneContent ------------------------------
(***************************************************************************)
(* Scenes and the scene playlist in D1: drafts, publication, rollback,     *)
(* duplication, deletion, replacement of the playlist, and the kiosks that *)
(* resolve their target meanwhile.                                         *)
(*                                                                         *)
(* A request is several statements and no transaction, so one step here is *)
(* one statement, and the requests of several operators and kiosks         *)
(* interleave between any two of them.  Any statement may be the last one: *)
(* it may fail, or the worker may die.                                     *)
(*                                                                         *)
(* A draft is the sequence of its widget rows in the order of insertion    *)
(* (the save writes z in that order); a snapshot stands for its revision,  *)
(* the hash of its canvas and widgets.                                     *)
(***************************************************************************)
EXTENDS Integers, Sequences

CONSTANTS
  Scene,       \* scene ids (AUTOINCREMENT: an id is never used again)
  Canvas,      \* width, height and background of a scene
  Widget,      \* widgets, with their kind, place and settings
  Form,        \* what an editor page may hold when it saves
  Editor,      \* the operators' requests in progress
  List,        \* the lists an operator may save as the playlist
  Kiosk,       \* the devices
  Rotation,    \* the scene playlist, as an assignment
  Assigned,    \* Assigned[k]: the scene or playlist of device k
  MaxRequests  \* bound: requests the operators send

Snapshot == [canvas : Canvas, widgets : Seq(Widget)]

ASSUME ContentAssumption ==
  /\ Scene # {} /\ Form # {} /\ Form \subseteq Snapshot
  /\ List \subseteq Seq(Scene)
  /\ Rotation \notin Scene
  /\ Assigned \in [Kiosk -> Scene \cup {Rotation}]
  /\ MaxRequests \in Nat

VARIABLES
  status,     \* status[s]: is there a row in scenes?
  canvas,     \* canvas[s]: width, height, background of the row
  draft,      \* draft[s]: rows of scene_widgets
  versions,   \* versions[s][n]: snapshot of version n in scene_versions
  published,  \* published[s]: scenes.published_version, 0 for NULL
  job,        \* job[e]: the request of editor e
  overlapped, \* history: scenes written by two requests at once
  requests,   \* how many requests were sent
  items,      \* rows of scene_playlist_items
  put,        \* PUT /api/scene-playlists/:id/items in progress
  view,       \* view[k]: GET /api/agent/target in progress
  shown       \* shown[k]: the scenes device k was last sent

tables  == <<status, canvas, draft, versions, published>>
editors == <<job, overlapped, requests>>
lists   == <<items, put>>
kiosks  == <<view, shown>>
vars    == <<tables, editors, lists, kiosks>>

Labels == {"idle", "patch", "lookup", "clear", "insert", "canvas", "widgets",
           "number", "max", "point", "copy", "rows"}
Wants  == {"save", "rollback", "duplicate"}
Job    == [at : Labels, want : Wants, scene : Scene, into : Scene,
           form : Snapshot, next : Nat \ {0}, num : Nat]
View   == [at : {"idle", "rows"},
           todo : SUBSET [pos : Nat, scene : Scene, num : Nat],
           got : SUBSET [pos : Nat, snap : Snapshot]]

Live(s) == status[s] = "live"

TypeOK ==
  /\ status \in [Scene -> {"unborn", "live", "gone"}]
  /\ canvas \in [Scene -> Canvas]
  /\ draft \in [Scene -> Seq(Widget)]
  /\ versions \in [Scene -> Seq(Snapshot)]
  /\ published \in [Scene -> Nat]
  /\ job \in [Editor -> Job]
  /\ overlapped \subseteq Scene /\ requests \in Nat
  /\ items \subseteq [pos : Nat, scene : Scene]
  /\ put \in [at : {"idle", "clear", "insert"}, list : List \cup {<< >>}, next : Nat \ {0}]
  /\ view \in [Kiosk -> View]
  /\ shown \in [Kiosk -> SUBSET [pos : Nat, snap : Snapshot]]

NoForm == CHOOSE f \in Form : TRUE
NoView == [at |-> "idle", todo |-> {}, got |-> {}]
NoPut  == [at |-> "idle", list |-> << >>, next |-> 1]
NoJob  == [at |-> "idle", want |-> "save", scene |-> CHOOSE s \in Scene : TRUE,
           into |-> CHOOSE s \in Scene : TRUE, form |-> NoForm,
           next |-> 1, num |-> 0]

\* An empty database.
Init ==
  /\ status = [s \in Scene |-> "unborn"]
  /\ canvas = [s \in Scene |-> NoForm.canvas]
  /\ draft = [s \in Scene |-> << >>]
  /\ versions = [s \in Scene |-> << >>]
  /\ published = [s \in Scene |-> 0]
  /\ job = [e \in Editor |-> NoJob]
  /\ overlapped = {} /\ requests = 0
  /\ items = {} /\ put = NoPut
  /\ view = [k \in Kiosk |-> NoView]
  /\ shown = [k \in Kiosk |-> {}]

-----------------------------------------------------------------------------
(* The requests of the editor page. *)

At(e, label) == job[e].at = label
Become(e, j) == job' = [job EXCEPT ![e] = j]
Goto(e, label) == Become(e, [job[e] EXCEPT !.at = label])
Finish(e) == Become(e, NoJob)

\* POST /api/scenes
CreateScene(s, c) ==
  /\ status[s] = "unborn"
  /\ status' = [status EXCEPT ![s] = "live"]
  /\ canvas' = [canvas EXCEPT ![s] = c]
  /\ UNCHANGED <<draft, versions, published, editors, lists, kiosks>>

\* DELETE /api/scenes/:id; the foreign keys cascade to widgets, versions, items
DeleteScene(s) ==
  /\ Live(s)
  /\ status' = [status EXCEPT ![s] = "gone"]
  /\ draft' = [draft EXCEPT ![s] = << >>]
  /\ versions' = [versions EXCEPT ![s] = << >>]
  /\ published' = [published EXCEPT ![s] = 0]
  /\ canvas' = [canvas EXCEPT ![s] = NoForm.canvas]
  /\ items' = { r \in items : r.scene # s }
  /\ UNCHANGED <<editors, put, kiosks>>

\* A request on scene s begins, perhaps beside another one that writes s.
Begin(e, s, j) ==
  /\ At(e, "idle") /\ requests < MaxRequests
  /\ requests' = requests + 1
  /\ Become(e, j)
  /\ overlapped' = IF \E d \in Editor \ {e} : ~ At(d, "idle") /\ job[d].into = s
                   THEN overlapped \cup {s} ELSE overlapped
  /\ UNCHANGED <<tables, lists, kiosks>>

\* Save, or publish: the page sends its whole form before it publishes.
Save(e, s, f) ==
  /\ Live(s)
  /\ Begin(e, s, [NoJob EXCEPT !.at = "patch", !.scene = s, !.into = s, !.form = f])

\* PATCH /api/scenes/:id; also the canvas that a rollback restores
Patch(e) ==
  LET s == job[e].into IN
  /\ At(e, "patch")
  /\ canvas' = IF Live(s) THEN [canvas EXCEPT ![s] = job[e].form.canvas] ELSE canvas
  /\ Goto(e, IF job[e].want = "rollback" THEN "clear" ELSE "lookup")
  /\ UNCHANGED <<status, draft, versions, published, overlapped, requests, lists, kiosks>>

\* PUT /api/scenes/:id/widgets: 404 for a scene that is gone
Lookup(e) ==
  /\ At(e, "lookup")
  /\ IF Live(job[e].into) THEN Goto(e, "clear") ELSE Finish(e)
  /\ UNCHANGED <<tables, overlapped, requests, lists, kiosks>>

\* DELETE FROM scene_widgets
Clear(e) ==
  /\ At(e, "clear")
  /\ draft' = [draft EXCEPT ![job[e].into] = << >>]
  /\ Goto(e, "insert")
  /\ UNCHANGED <<status, canvas, versions, published, overlapped, requests, lists, kiosks>>

MoreRows(e) == job[e].next <= Len(job[e].form.widgets)

\* One INSERT INTO scene_widgets; the foreign key rejects it for a deleted scene.
InsertRow(e) ==
  LET s == job[e].into IN
  /\ At(e, "insert") /\ MoreRows(e)
  /\ IF Live(s)
     THEN /\ draft' = [draft EXCEPT ![s] = Append(@, job[e].form.widgets[job[e].next])]
          /\ Become(e, [job[e] EXCEPT !.next = @ + 1])
     ELSE Finish(e) /\ UNCHANGED draft
  /\ UNCHANGED <<status, canvas, versions, published, overlapped, requests, lists, kiosks>>

\* All rows are in; a page that was asked to publish goes on.
InsertDone(e) ==
  /\ At(e, "insert") /\ ~ MoreRows(e)
  /\ \/ Finish(e)
     \/ /\ job[e].want = "save"
        /\ Become(e, [NoJob EXCEPT !.at = "canvas", !.scene = job[e].scene,
                                    !.into = job[e].into])
  /\ UNCHANGED <<tables, overlapped, requests, lists, kiosks>>

\* POST /api/scenes/:id/publish, buildSceneSnapshot: the row of the scene ...
ReadCanvas(e) ==
  /\ At(e, "canvas")
  /\ IF Live(job[e].scene)
     THEN Become(e, [job[e] EXCEPT !.form.canvas = canvas[job[e].scene],
                                   !.at = "widgets"])
     ELSE Finish(e)
  /\ UNCHANGED <<tables, overlapped, requests, lists, kiosks>>

\* mutant of ReadWidgets: published_version is set before the version exists
ReadWidgetsPoint(e) ==
  /\ At(e, "widgets")
  /\ Become(e, [job[e] EXCEPT !.form.widgets = draft[job[e].scene], !.at = "number"])
  /\ published' = IF Live(job[e].scene)
                  THEN [published EXCEPT ![job[e].scene] = Len(versions[job[e].scene]) + 1]
                  ELSE published
  /\ UNCHANGED <<status, canvas, draft, versions, overlapped, requests, lists, kiosks>>

\* ... then, in a second statement, its widgets.
ReadWidgets(e) ==
  /\ At(e, "widgets")
  /\ Become(e, [job[e] EXCEPT !.form.widgets = draft[job[e].scene], !.at = "number"])
  /\ UNCHANGED <<tables, overlapped, requests, lists, kiosks>>

\* mutant of InsertVersion: publishing again amends the last version
InsertVersionAmend(e) ==
  LET s == job[e].scene IN
  /\ At(e, "number")
  /\ IF Live(s)
     THEN /\ versions' = [versions EXCEPT ![s] =
                            IF @ = << >> THEN <<job[e].form>>
                            ELSE [@ EXCEPT ![Len(versions[s])] = job[e].form]]
          /\ Become(e, [job[e] EXCEPT !.form = NoForm, !.at = "max"])
     ELSE Finish(e) /\ UNCHANGED versions
  /\ UNCHANGED <<status, canvas, draft, published, overlapped, requests, lists, kiosks>>

\* INSERT INTO scene_versions SELECT COALESCE(MAX(version), 0) + 1
InsertVersion(e) ==
  LET s == job[e].scene IN
  /\ At(e, "number")
  /\ IF Live(s)
     THEN /\ versions' = [versions EXCEPT ![s] = Append(@, job[e].form)]
          /\ Become(e, [job[e] EXCEPT !.form = NoForm, !.at = "max"])
     ELSE Finish(e) /\ UNCHANGED versions
  /\ UNCHANGED <<status, canvas, draft, published, overlapped, requests, lists, kiosks>>

\* SELECT MAX(version): 500 publish_failed when there is none
ReadMax(e) ==
  LET n == Len(versions[job[e].scene]) IN
  /\ At(e, "max")
  /\ IF n = 0 THEN Finish(e)
     ELSE Become(e, [job[e] EXCEPT !.num = n, !.at = "point"])
  /\ UNCHANGED <<tables, overlapped, requests, lists, kiosks>>

\* UPDATE scenes SET published_version, of a publication and of a rollback; a
\* rollback with restore_draft then writes the snapshot over the draft.
Point(e) ==
  LET s == job[e].scene IN
  /\ At(e, "point")
  /\ published' = IF Live(s) THEN [published EXCEPT ![s] = job[e].num] ELSE published
  /\ \/ Finish(e)
     \/ job[e].want = "rollback" /\ Goto(e, "patch")
  /\ UNCHANGED <<status, canvas, draft, versions, overlapped, requests, lists, kiosks>>

\* POST /api/scenes/:id/rollback/:version: 404 for a version without a row
Rollback(e, s, n) ==
  /\ n \in DOMAIN versions[s]
  /\ Begin(e, s, [NoJob EXCEPT !.at = "point", !.want = "rollback", !.scene = s,
                               !.into = s, !.form = versions[s][n], !.num = n])

\* POST /api/scenes/:id/duplicate: read the scene, create the copy, read the
\* widgets, insert them one by one
Duplicate(e, s) ==
  /\ Live(s)
  /\ Begin(e, s, [NoJob EXCEPT !.at = "copy", !.want = "duplicate", !.scene = s,
                               !.into = s, !.form.canvas = canvas[s]])

CopyScene(e, s) ==
  /\ At(e, "copy") /\ status[s] = "unborn"
  /\ status' = [status EXCEPT ![s] = "live"]
  /\ canvas' = [canvas EXCEPT ![s] = job[e].form.canvas]
  /\ Become(e, [job[e] EXCEPT !.into = s, !.at = "rows"])
  /\ UNCHANGED <<draft, versions, published, overlapped, requests, lists, kiosks>>

CopyRows(e) ==
  /\ At(e, "rows")
  /\ Become(e, [job[e] EXCEPT !.form.widgets = draft[job[e].scene], !.at = "insert"])
  /\ UNCHANGED <<tables, overlapped, requests, lists, kiosks>>

\* mutant of Fail: the page publishes although its save failed
FailPublishes(e) ==
  /\ ~ At(e, "idle")
  /\ IF At(e, "insert") /\ job[e].want = "save" THEN Goto(e, "canvas") ELSE Finish(e)
  /\ UNCHANGED <<tables, overlapped, requests, lists, kiosks>>

\* A statement fails or the worker dies: the page reports the error and sends
\* nothing further.  What was written stays.
Fail(e) ==
  /\ ~ At(e, "idle")
  /\ Finish(e)
  /\ UNCHANGED <<tables, overlapped, requests, lists, kiosks>>

-----------------------------------------------------------------------------
(* PUT /api/scene-playlists/:id/items. *)

PutItems(l) ==
  /\ put = NoPut /\ requests < MaxRequests
  /\ requests' = requests + 1
  /\ put' = [at |-> "clear", list |-> l, next |-> 1]
  /\ UNCHANGED <<tables, job, overlapped, items, kiosks>>

ClearItems ==
  /\ put.at = "clear"
  /\ items' = {}
  /\ put' = [put EXCEPT !.at = "insert"]
  /\ UNCHANGED <<tables, editors, kiosks>>

\* One INSERT; the foreign key rejects a scene that is gone, and with it the rest.
InsertItem ==
  LET s == put.list[put.next] IN
  /\ put.at = "insert" /\ put.next <= Len(put.list)
  /\ IF Live(s)
     THEN /\ items' = items \cup {[pos |-> put.next, scene |-> s]}
          /\ put' = [put EXCEPT !.next = @ + 1]
     ELSE put' = NoPut /\ UNCHANGED items
  /\ UNCHANGED <<tables, editors, kiosks>>

PutEnds ==  \* the last row is in, or the request fails half-way
  /\ put.at # "idle"
  /\ put' = NoPut
  /\ UNCHANGED <<tables, editors, items, kiosks>>

-----------------------------------------------------------------------------
(* GET /api/agent/target: resolveTarget, then one read per scene. *)

OnRotation(k) == Assigned[k] = Rotation

\* What the assignment lists, with the versions published at this moment.
Rows(k) ==
  LET rows == IF OnRotation(k) THEN items ELSE {[pos |-> 1, scene |-> Assigned[k]]}
  IN  { [pos |-> r.pos, scene |-> r.scene, num |-> published[r.scene]] : r \in rows }

\* The first reads; scenes that were never published or are gone have 0.  A poll
\* that fails leaves nothing behind, as if it had not been made yet.
Resolve(k) ==
  /\ view[k].at = "idle"
  /\ view' = [view EXCEPT ![k] = [at |-> "rows", todo |-> Rows(k), got |-> {}]]
  /\ UNCHANGED <<tables, editors, lists, shown>>

\* buildResolvedScene: a version without a row is left out, and so is version 0.
ReadSnapshot(k, r) ==
  /\ view[k].at = "rows" /\ r \in view[k].todo
  /\ LET got == IF r.num \in DOMAIN versions[r.scene]
                THEN view[k].got \cup {[pos |-> r.pos, snap |-> versions[r.scene][r.num]]}
                ELSE view[k].got
     IN  view' = [view EXCEPT ![k] = [view[k] EXCEPT !.todo = view[k].todo \ {r},
                                                !.got = got]]
  /\ UNCHANGED <<tables, editors, lists, shown>>

\* mutant of Receive: an answer with nothing to play keeps the last picture
ReceiveKeeps(k) ==
  /\ view[k].at = "rows" /\ view[k].todo = {}
  /\ shown' = IF view[k].got = {} THEN shown ELSE [shown EXCEPT ![k] = view[k].got]
  /\ view' = [view EXCEPT ![k] = NoView]
  /\ UNCHANGED <<tables, editors, lists>>

\* The answer arrives; with nothing to play the page shows its idle screen.
Receive(k) ==
  /\ view[k].at = "rows" /\ view[k].todo = {}
  /\ shown' = [shown EXCEPT ![k] = view[k].got]
  /\ view' = [view EXCEPT ![k] = NoView]
  /\ UNCHANGED <<tables, editors, lists>>

-----------------------------------------------------------------------------
EditorStep(e) ==
  \/ \E s \in Scene, f \in Form : Save(e, s, f)
  \/ \E s \in Scene : \E n \in DOMAIN versions[s] : Rollback(e, s, n)
  \/ \E s \in Scene : Duplicate(e, s) \/ CopyScene(e, s)
  \/ Patch(e) \/ Lookup(e) \/ Clear(e) \/ InsertRow(e) \/ InsertDone(e)
  \/ ReadCanvas(e) \/ ReadWidgets(e) \/ InsertVersion(e) \/ ReadMax(e) \/ Point(e)
  \/ CopyRows(e) \/ Fail(e)

ListStep == (\E l \in List : PutItems(l)) \/ ClearItems \/ InsertItem \/ PutEnds

KioskStep(k) ==
  \/ Resolve(k) \/ Receive(k)
  \/ \E r \in view[k].todo : ReadSnapshot(k, r)

Next ==
  \/ \E s \in Scene : (\E f \in Form : CreateScene(s, f.canvas)) \/ DeleteScene(s)
  \/ \E e \in Editor : EditorStep(e)
  \/ ListStep
  \/ \E k \in Kiosk : KioskStep(k)

Spec == Init /\ [][Next]_vars

\* The agent polls for ever and its poll is answered one day.  Nothing is asked
\* of the operators.
Fairness ==
  \A k \in Kiosk :
    /\ WF_vars(Resolve(k))
    /\ WF_vars(\E r \in view[k].todo : ReadSnapshot(k, r))
    /\ WF_vars(Receive(k))

FairSpec == Spec /\ Fairness

-----------------------------------------------------------------------------
(* Properties. *)

\* published_version always names a version that is there: between any two
\* statements of publications, rollbacks and deletions, by any operators.
PublishedExists ==
  \A s \in Scene : Live(s) => published[s] \in {0} \cup DOMAIN versions[s]

\* Snapshots are immutable: while its scene lives no version is changed,
\* renumbered or dropped, whatever is published or rolled back around it.
VersionsKept ==
  [][ \A s \in Scene : Live(s) /\ status'[s] = "live" =>
        \A n \in DOMAIN versions[s] :
          n \in DOMAIN versions'[s] /\ versions'[s][n] = versions[s][n] ]_vars

\* A version is a form some operator sent, whole: a save that failed half-way
\* is never published.  (Two saves of one scene at once do mix.)
PublishedWhole ==
  \A s \in Scene \ overlapped : \A n \in DOMAIN versions[s] : versions[s][n] \in Form

\* A kiosk assigned to a scene never falls back to its idle screen while the
\* scene exists, though it reads the version and the snapshot separately.
SceneStaysOn ==
  [][ \A k \in Kiosk :
        ~ OnRotation(k) /\ shown[k] # {} /\ shown'[k] = {} => ~ Live(Assigned[k]) ]_vars

\* Once the operators stop, every kiosk comes to show what is published.
Playing(k) ==
  { [pos |-> r.pos, snap |-> versions[r.scene][r.num]] : r \in { q \in Rows(k) : q.num # 0 } }
Settles ==
  \A k \in Kiosk :
    <>[](\A e \in Editor : At(e, "idle")) /\ <>[](put = NoPut)
      => <>[](shown[k] = Playing(k))

\* "Replace the full item list" (PUT items): a kiosk that plays the rotation is
\* not sent to its idle screen while every scene an operator may list is live
\* and published.  The code deletes the list before it inserts the new one.
RotationStaysOn ==
  [][ \A k \in Kiosk :
        OnRotation(k) /\ shown[k] # {} /\ shown'[k] = {}
          => \E s \in Scene : ~ Live(s) \/ published[s] = 0 ]_vars
=============================================================================
