--------------------------- MODULE SceneContentProofs ---------------------------
(***************************************************************************)
(* Theorems about SceneContent, for any scenes, forms, operators and       *)
(* kiosks: types, PublishedExists, VersionsKept, SceneStaysOn and          *)
(* PublishedWhole.                                                         *)
(***************************************************************************)
EXTENDS SceneContent, TLAPS

LEMMA NoJobType == NoForm \in Snapshot /\ NoJob \in Job
  BY ContentAssumption DEF NoForm, NoJob, Job, Labels, Wants, Snapshot

\* A kiosk's rows have the fields the reads expect.
LEMMA RowsType ==
  ASSUME TypeOK, NEW k \in Kiosk
  PROVE  Rows(k) \in SUBSET [pos : Nat, scene : Scene, num : Nat]
  BY ContentAssumption DEF TypeOK, Rows, OnRotation

LEMMA TypeInit == Init => TypeOK
  BY NoJobType, ContentAssumption DEF Init, TypeOK, NoView, NoPut, View, Snapshot

\* The request of an editor that begins keeps the types.
LEMMA TypeBegin ==
  ASSUME TypeOK, NEW e \in Editor, NEW s \in Scene, NEW j \in Job, Begin(e, s, j)
  PROVE  TypeOK'
<1>1. job' \in [Editor -> Job] /\ overlapped' \subseteq Scene /\ requests' \in Nat
  BY DEF Begin, Become, TypeOK
<1> QED BY <1>1 DEF Begin, TypeOK, tables, lists, kiosks

\* What a step of a request leaves of its record.
LEMMA JobType ==
  ASSUME NEW j \in Job, NEW l \in Labels
  PROVE  /\ [j EXCEPT !.at = l] \in Job
         /\ [j EXCEPT !.next = @ + 1] \in Job
         /\ \A n \in Nat : [j EXCEPT !.num = n, !.at = l] \in Job
         /\ \A s \in Scene : [j EXCEPT !.into = s, !.at = l] \in Job
         /\ \A f \in Snapshot : [j EXCEPT !.form = f, !.at = l] \in Job
         /\ \A c \in Canvas : [j EXCEPT !.form.canvas = c, !.at = l] \in Job
         /\ \A w \in Seq(Widget) : [j EXCEPT !.form.widgets = w, !.at = l] \in Job
<1>1. /\ [j EXCEPT !.at = l] \in Job
      /\ \A n \in Nat : [j EXCEPT !.num = n, !.at = l] \in Job
      /\ \A s \in Scene : [j EXCEPT !.into = s, !.at = l] \in Job
      /\ \A f \in Snapshot : [j EXCEPT !.form = f, !.at = l] \in Job
  <2>1. [j EXCEPT !.at = l] \in Job
    BY DEF Job
  <2>2. ASSUME NEW n \in Nat PROVE [j EXCEPT !.num = n, !.at = l] \in Job
    BY DEF Job
  <2>3. ASSUME NEW s \in Scene PROVE [j EXCEPT !.into = s, !.at = l] \in Job
    BY DEF Job
  <2>4. ASSUME NEW f \in Snapshot PROVE [j EXCEPT !.form = f, !.at = l] \in Job
    BY DEF Job
  <2> QED BY <2>1, <2>2, <2>3, <2>4
<1>4. [j EXCEPT !.next = @ + 1] \in Job
  <2>1. j.next + 1 \in Nat \ {0}
    BY DEF Job
  <2> QED BY <2>1 DEF Job
<1>2. ASSUME NEW c \in Canvas PROVE [j EXCEPT !.form.canvas = c, !.at = l] \in Job
  <2>1. [j.form EXCEPT !.canvas = c] \in Snapshot
    BY DEF Job, Snapshot
  <2> QED BY <2>1 DEF Job
<1>3. ASSUME NEW w \in Seq(Widget) PROVE [j EXCEPT !.form.widgets = w, !.at = l] \in Job
  <2>1. [j.form EXCEPT !.widgets = w] \in Snapshot
    BY DEF Job, Snapshot
  <2> QED BY <2>1 DEF Job
<1> QED BY <1>1, <1>2, <1>3, <1>4

LEMMA TypeEditor ==
  ASSUME TypeOK, NEW e \in Editor, EditorStep(e)
  PROVE  TypeOK'
<1>0. /\ NoForm \in Snapshot /\ NoJob \in Job /\ job[e] \in Job
      /\ job \in [Editor -> Job]
      /\ job[e].scene \in Scene /\ job[e].into \in Scene /\ job[e].form \in Snapshot
  BY NoJobType DEF TypeOK, Job
<1>1. ASSUME NEW s \in Scene, NEW f \in Form, Save(e, s, f) PROVE TypeOK'
  <2> DEFINE j == [NoJob EXCEPT !.at = "patch", !.scene = s, !.into = s, !.form = f]
  <2>1. j \in Job
    BY <1>0, ContentAssumption DEF Job, Labels
  <2>2. Begin(e, s, j)
    BY <1>1 DEF Save
  <2> QED BY <2>1, <2>2, TypeBegin
<1>2. ASSUME NEW s \in Scene, NEW n \in DOMAIN versions[s], Rollback(e, s, n)
      PROVE  TypeOK'
  <2> DEFINE j == [NoJob EXCEPT !.at = "point", !.want = "rollback", !.scene = s,
                                !.into = s, !.form = versions[s][n], !.num = n]
  <2>1. versions[s][n] \in Snapshot /\ n \in Nat
    BY DEF TypeOK
  <2>2. j \in Job
    BY <1>0, <2>1 DEF Job, Labels, Wants
  <2>3. Begin(e, s, j)
    BY <1>2 DEF Rollback
  <2> QED BY <2>2, <2>3, TypeBegin
<1>3. ASSUME NEW s \in Scene, Duplicate(e, s) PROVE TypeOK'
  <2> DEFINE j == [NoJob EXCEPT !.at = "copy", !.want = "duplicate", !.scene = s,
                                !.into = s, !.form.canvas = canvas[s]]
  <2>1. [NoJob.form EXCEPT !.canvas = canvas[s]] \in Snapshot
    BY <1>0 DEF Job, Snapshot, TypeOK
  <2>2. j \in Job
    BY <1>0, <2>1 DEF Job, Labels, Wants
  <2>3. Begin(e, s, j)
    BY <1>3 DEF Duplicate
  <2> QED BY <2>2, <2>3, TypeBegin
<1>4. ASSUME NEW s \in Scene, CopyScene(e, s) PROVE TypeOK'
  <2>1. job' \in [Editor -> Job] /\ job[e].form.canvas \in Canvas
    BY <1>0, <1>4, JobType DEF CopyScene, Become, Labels, Snapshot
  <2> QED BY <1>4, <2>1 DEF CopyScene, TypeOK, lists, kiosks
<1>5. CASE Patch(e)
  <2>1. job' \in [Editor -> Job] /\ job[e].form.canvas \in Canvas
    BY <1>0, <1>5, JobType DEF Patch, Goto, Become, Labels, Snapshot
  <2> QED BY <1>5, <2>1 DEF Patch, TypeOK, lists, kiosks
<1>6. CASE Lookup(e)
  <2>1. job' \in [Editor -> Job]
    BY <1>0, <1>6, JobType DEF Lookup, Goto, Finish, Become, Labels
  <2> QED BY <1>6, <2>1 DEF Lookup, TypeOK, tables, lists, kiosks
<1>7. CASE Clear(e)
  <2>1. job' \in [Editor -> Job]
    BY <1>0, <1>7, JobType DEF Clear, Goto, Become, Labels
  <2>2. draft' \in [Scene -> Seq(Widget)]
    <3>1. draft \in [Scene -> Seq(Widget)] /\ << >> \in Seq(Widget)
      BY DEF TypeOK
    <3> QED BY <1>7, <3>1 DEF Clear
  <2> QED BY <1>7, <2>1, <2>2 DEF Clear, TypeOK, lists, kiosks
<1>8. CASE InsertRow(e)
  <2>1. job' \in [Editor -> Job]
    BY <1>0, <1>8, JobType DEF InsertRow, Finish, Become, Labels
  <2>2. job[e].form.widgets[job[e].next] \in Widget
    <3>1. job[e].form.widgets \in Seq(Widget)
      BY <1>0 DEF Snapshot
    <3>2. job[e].next \in 1 .. Len(job[e].form.widgets)
      BY <1>0, <1>8, <3>1 DEF InsertRow, MoreRows, Job
    <3> QED BY <3>1, <3>2
  <2>3. draft' \in [Scene -> Seq(Widget)]
    <3>1. draft \in [Scene -> Seq(Widget)]
      BY DEF TypeOK
    <3>2. Append(draft[job[e].into], job[e].form.widgets[job[e].next]) \in Seq(Widget)
      BY <1>0, <2>2, <3>1
    <3> QED BY <1>8, <3>1, <3>2 DEF InsertRow
  <2> QED BY <1>8, <2>1, <2>3 DEF InsertRow, TypeOK, lists, kiosks
<1>9. CASE InsertDone(e)
  <2> DEFINE j == [NoJob EXCEPT !.at = "canvas", !.scene = job[e].scene,
                                !.into = job[e].into]
  <2>1. j \in Job
    BY <1>0 DEF Job, Labels
  <2>2. job' = [job EXCEPT ![e] = j] \/ job' = [job EXCEPT ![e] = NoJob]
    BY <1>9 DEF InsertDone, Finish, Become
  <2> HIDE DEF j
  <2>3. job' \in [Editor -> Job]
    BY <1>0, <2>1, <2>2
  <2> QED BY <1>9, <2>3 DEF InsertDone, TypeOK, tables, lists, kiosks
<1>10. CASE ReadCanvas(e)
  <2>1. canvas[job[e].scene] \in Canvas
    BY <1>0 DEF TypeOK
  <2>2. job' \in [Editor -> Job]
    <3>1. [job[e] EXCEPT !.form.canvas = canvas[job[e].scene], !.at = "widgets"] \in Job
      BY <1>0, <2>1, JobType DEF Labels
    <3> QED BY <1>0, <1>10, <3>1 DEF ReadCanvas, Finish, Become
  <2> QED BY <1>10, <2>2 DEF ReadCanvas, TypeOK, tables, lists, kiosks
<1>11. CASE ReadWidgets(e)
  <2>1. draft[job[e].scene] \in Seq(Widget)
    BY <1>0 DEF TypeOK
  <2>2. job' \in [Editor -> Job]
    BY <1>0, <1>11, <2>1, JobType DEF ReadWidgets, Become, Labels
  <2> QED BY <1>11, <2>2 DEF ReadWidgets, TypeOK, tables, lists, kiosks
<1>12. CASE InsertVersion(e)
  <2>1. job' \in [Editor -> Job]
    <3>1. [job[e] EXCEPT !.form = NoForm, !.at = "max"] \in Job
      BY <1>0, JobType DEF Labels
    <3> QED BY <1>0, <1>12, <3>1 DEF InsertVersion, Finish, Become
  <2>2. versions' \in [Scene -> Seq(Snapshot)]
    <3>1. versions \in [Scene -> Seq(Snapshot)]
      BY DEF TypeOK
    <3>2. Append(versions[job[e].scene], job[e].form) \in Seq(Snapshot)
      BY <1>0, <3>1
    <3> QED BY <1>12, <3>1, <3>2 DEF InsertVersion
  <2> QED BY <1>12, <2>1, <2>2 DEF InsertVersion, TypeOK, lists, kiosks
<1>13. CASE ReadMax(e)
  <2>1. Len(versions[job[e].scene]) \in Nat
    BY <1>0 DEF TypeOK
  <2>2. job' \in [Editor -> Job]
    <3>1. [job[e] EXCEPT !.num = Len(versions[job[e].scene]), !.at = "point"] \in Job
      BY <1>0, <2>1, JobType DEF Labels
    <3> QED BY <1>0, <1>13, <3>1 DEF ReadMax, Finish, Become
  <2> QED BY <1>13, <2>2 DEF ReadMax, TypeOK, tables, lists, kiosks
<1>14. CASE Point(e)
  <2>1. job[e].num \in Nat
    BY <1>0 DEF Job
  <2>2. job' \in [Editor -> Job]
    BY <1>0, <1>14, JobType DEF Point, Goto, Finish, Become, Labels
  <2> QED BY <1>14, <2>1, <2>2 DEF Point, TypeOK, lists, kiosks
<1>15. CASE CopyRows(e)
  <2>1. draft[job[e].scene] \in Seq(Widget)
    BY <1>0 DEF TypeOK
  <2>2. job' \in [Editor -> Job]
    BY <1>0, <1>15, <2>1, JobType DEF CopyRows, Become, Labels
  <2> QED BY <1>15, <2>2 DEF CopyRows, TypeOK, tables, lists, kiosks
<1>16. CASE Fail(e)
  <2>1. job' \in [Editor -> Job]
    BY <1>0, <1>16 DEF Fail, Finish, Become
  <2> QED BY <1>16, <2>1 DEF Fail, TypeOK, tables, lists, kiosks
<1> QED
  BY <1>1, <1>2, <1>3, <1>4, <1>5, <1>6, <1>7, <1>8, <1>9, <1>10, <1>11, <1>12,
     <1>13, <1>14, <1>15, <1>16 DEF EditorStep

LEMMA TypeStep == TypeOK /\ [Next]_vars => TypeOK'
<1> SUFFICES ASSUME TypeOK, [Next]_vars PROVE TypeOK'
  OBVIOUS
<1>1. ASSUME NEW s \in Scene, NEW f \in Form, CreateScene(s, f.canvas) PROVE TypeOK'
  <2>1. f.canvas \in Canvas
    BY ContentAssumption DEF Snapshot
  <2> QED BY <1>1, <2>1 DEF CreateScene, TypeOK, editors, lists, kiosks
<1>2. ASSUME NEW s \in Scene, DeleteScene(s) PROVE TypeOK'
  <2>1. NoForm.canvas \in Canvas /\ << >> \in Seq(Widget) /\ << >> \in Seq(Snapshot)
    BY NoJobType DEF Snapshot
  <2>2. /\ draft' \in [Scene -> Seq(Widget)]
        /\ versions' \in [Scene -> Seq(Snapshot)]
    BY <1>2, <2>1 DEF DeleteScene, TypeOK
  <2> QED BY <1>2, <2>1, <2>2 DEF DeleteScene, TypeOK, editors, kiosks
<1>3. ASSUME NEW e \in Editor, EditorStep(e) PROVE TypeOK'
  BY <1>3, TypeEditor
<1>4. CASE ListStep
  <2>1. ASSUME NEW l \in List, PutItems(l) PROVE TypeOK'
    BY <2>1 DEF PutItems, TypeOK, tables, kiosks
  <2>2. CASE ClearItems
    BY <2>2 DEF ClearItems, TypeOK, tables, editors, kiosks
  <2>3. CASE InsertItem
    <3>1. put.list[put.next] \in Scene
      <4>1. put.next \in 1 .. Len(put.list)
        BY <2>3 DEF InsertItem, TypeOK
      <4>2. put.list \in Seq(Scene)
        <5>1. put.list \in List \cup {<< >>} /\ << >> \in Seq(Scene)
          BY DEF TypeOK
        <5> QED BY <5>1, ContentAssumption
      <4> QED BY <4>1, <4>2
    <3>2. items' \subseteq [pos : Nat, scene : Scene]
      BY <2>3, <3>1 DEF InsertItem, TypeOK
    <3>3. put' \in [at : {"idle", "clear", "insert"}, list : List \cup {<< >>},
                    next : Nat \ {0}]
      <4>1. put \in [at : {"idle", "clear", "insert"}, list : List \cup {<< >>},
                     next : Nat \ {0}]
        BY DEF TypeOK
      <4>2. put.next + 1 \in Nat \ {0}
        BY <4>1
      <4>3. [put EXCEPT !.next = put.next + 1] \in
               [at : {"idle", "clear", "insert"}, list : List \cup {<< >>}, next : Nat \ {0}]
        BY <4>1, <4>2
      <4> QED BY <2>3, <4>3 DEF InsertItem, NoPut
    <3> QED BY <2>3, <3>2, <3>3 DEF InsertItem, TypeOK, tables, editors, kiosks
  <2>4. CASE PutEnds
    BY <2>4 DEF PutEnds, NoPut, TypeOK, tables, editors, kiosks
  <2> QED BY <1>4, <2>1, <2>2, <2>3, <2>4 DEF ListStep
<1>5. ASSUME NEW k \in Kiosk, KioskStep(k) PROVE TypeOK'
  <2>0. view[k] \in View
    BY DEF TypeOK
  <2>1. CASE Resolve(k)
    BY <2>1, RowsType DEF Resolve, TypeOK, View, tables, editors, lists
  <2>2. CASE Receive(k)
    BY <2>0, <2>2 DEF Receive, NoView, TypeOK, View, tables, editors, lists
  <2>3. ASSUME NEW r \in view[k].todo, ReadSnapshot(k, r) PROVE TypeOK'
    <3>1. r \in [pos : Nat, scene : Scene, num : Nat]
      BY <2>0 DEF View
    <3>2. r.num \in DOMAIN versions[r.scene] => versions[r.scene][r.num] \in Snapshot
      BY <3>1 DEF TypeOK
    <3> DEFINE got == IF r.num \in DOMAIN versions[r.scene]
                      THEN view[k].got \cup {[pos |-> r.pos, snap |-> versions[r.scene][r.num]]}
                      ELSE view[k].got
    <3>3. got \in SUBSET [pos : Nat, snap : Snapshot]
      BY <2>0, <3>1, <3>2 DEF View
    <3>4. view' = [view EXCEPT ![k] = [view[k] EXCEPT !.todo = view[k].todo \ {r}, !.got = got]]
      BY <2>3 DEF ReadSnapshot
    <3> HIDE DEF got
    <3>5. [view[k] EXCEPT !.todo = view[k].todo \ {r}, !.got = got] \in View
      BY <2>0, <3>3 DEF View
    <3> QED BY <2>3, <3>4, <3>5 DEF ReadSnapshot, TypeOK, tables, editors, lists
  <2> QED BY <1>5, <2>1, <2>2, <2>3 DEF KioskStep
<1>6. CASE UNCHANGED vars
  BY <1>6 DEF vars, tables, editors, lists, kiosks, TypeOK
<1> QED BY <1>1, <1>2, <1>3, <1>4, <1>5, <1>6 DEF Next

\* Every value keeps its type in every reachable state.
THEOREM TypeCorrect == Spec => []TypeOK
  BY TypeInit, TypeStep, PTL DEF Spec

-----------------------------------------------------------------------------
(***************************************************************************)
(* Publication.  published_version is set in a statement of its own, from  *)
(* a number read earlier.  What carries it over the gap: version rows      *)
(* exist only in a live scene and a number in an editor's hand names a row *)
(* for as long as the scene is not deleted.                                *)
(***************************************************************************)

RowsOfLive == \A s \in Scene : ~ Live(s) => versions[s] = << >> /\ published[s] = 0

HeldNumbers ==
  \A e \in Editor :
    At(e, "point") => \/ status[job[e].scene] = "gone"
                      \/ job[e].num \in DOMAIN versions[job[e].scene]

PublishInv == TypeOK /\ RowsOfLive /\ HeldNumbers /\ PublishedExists

\* What any step leaves of the tables, for a scene: it may be deleted;
\* otherwise its versions stay and it stays published.
Grows(s) ==
  /\ status[s] = "gone" => status'[s] = "gone"
  /\ \/ status'[s] = "gone"
     \/ /\ Live(s) => status'[s] = "live"
        /\ \A n \in DOMAIN versions[s] :
             n \in DOMAIN versions'[s] /\ versions'[s][n] = versions[s][n]
        /\ published[s] # 0 => published'[s] # 0

LEMMA GrowsUnchanged ==
  ASSUME UNCHANGED <<status, versions, published>>, NEW s \in Scene
  PROVE  Grows(s)
  BY DEF Grows, Live

LEMMA GrowsStep ==
  ASSUME PublishInv, [Next]_vars, NEW s \in Scene
  PROVE  Grows(s)
<1>0. /\ status \in [Scene -> {"unborn", "live", "gone"}]
      /\ versions \in [Scene -> Seq(Snapshot)] /\ published \in [Scene -> Nat]
      /\ \A e \in Editor : job[e].scene \in Scene /\ job[e].form \in Snapshot
  BY DEF PublishInv, TypeOK, Job
<1>1. ASSUME NEW t \in Scene, NEW f \in Form, CreateScene(t, f.canvas) PROVE Grows(s)
  BY <1>0, <1>1 DEF CreateScene, Grows, Live
<1>2. ASSUME NEW t \in Scene, DeleteScene(t) PROVE Grows(s)
  BY <1>0, <1>2 DEF DeleteScene, Grows, Live
<1>3. ASSUME NEW e \in Editor, NEW t \in Scene, CopyScene(e, t) PROVE Grows(s)
  BY <1>0, <1>3 DEF CopyScene, Grows, Live
<1>4. ASSUME NEW e \in Editor, InsertVersion(e) PROVE Grows(s)
  <2> DEFINE t == job[e].scene
  <2>1. versions[t] \in Seq(Snapshot) /\ job[e].form \in Snapshot /\ t \in Scene
    BY <1>0
  <2>2. \A n \in DOMAIN versions[t] :
           /\ n \in DOMAIN Append(versions[t], job[e].form)
           /\ Append(versions[t], job[e].form)[n] = versions[t][n]
    BY <2>1
  <2>3. UNCHANGED <<status, published>>
    BY <1>4 DEF InsertVersion
  <2>4. versions' = versions \/ versions' = [versions EXCEPT ![t] = Append(@, job[e].form)]
    BY <1>4 DEF InsertVersion
  <2> HIDE DEF t
  <2> QED BY <1>0, <2>1, <2>2, <2>3, <2>4 DEF Grows, Live
<1>5. ASSUME NEW e \in Editor, Point(e) PROVE Grows(s)
  <2>1. Live(job[e].scene) => job[e].num \in DOMAIN versions[job[e].scene]
    BY <1>5 DEF PublishInv, HeldNumbers, Point, Live
  <2>2. Live(job[e].scene) => job[e].num # 0
    BY <1>0, <2>1
  <2> QED BY <1>0, <1>5, <2>2 DEF Point, Grows, Live
<1>6. ASSUME NEW e \in Editor, EditorStep(e),
             \A t \in Scene : ~ CopyScene(e, t), ~ InsertVersion(e), ~ Point(e)
      PROVE  UNCHANGED <<status, versions, published>>
  BY <1>6 DEF EditorStep, Save, Rollback, Duplicate, Begin, Patch, Lookup, Clear, InsertRow,
        InsertDone, ReadCanvas, ReadWidgets, ReadMax, CopyRows, Fail, tables
<1>7. ASSUME NEW e \in Editor, EditorStep(e) PROVE Grows(s)
  BY <1>3, <1>4, <1>5, <1>6, <1>7, GrowsUnchanged
<1>8. CASE ListStep \/ UNCHANGED vars \/ \E k \in Kiosk : KioskStep(k)
  <2>1. UNCHANGED <<status, versions, published>>
    BY <1>8 DEF ListStep, PutItems, ClearItems, InsertItem, PutEnds, KioskStep, Resolve,
          Receive, ReadSnapshot, vars, tables
  <2> QED BY <2>1, GrowsUnchanged
<1> QED BY <1>1, <1>2, <1>7, <1>8 DEF Next

\* Rows of a scene that is not live: none are written.
LEMMA RowsStep == PublishInv /\ [Next]_vars => RowsOfLive' /\ PublishedExists'
<1> SUFFICES ASSUME PublishInv, [Next]_vars PROVE RowsOfLive' /\ PublishedExists'
  OBVIOUS
<1>0. /\ status \in [Scene -> {"unborn", "live", "gone"}]
      /\ versions \in [Scene -> Seq(Snapshot)] /\ published \in [Scene -> Nat]
      /\ \A e \in Editor : job[e].scene \in Scene /\ job[e].form \in Snapshot
  BY DEF PublishInv, TypeOK, Job
<1>1. ASSUME UNCHANGED <<status, versions, published>>
      PROVE  RowsOfLive' /\ PublishedExists'
  BY <1>1 DEF PublishInv, RowsOfLive, PublishedExists, Live
<1>2. ASSUME NEW s \in Scene, status' = [status EXCEPT ![s] = "live"], status[s] = "unborn",
             UNCHANGED <<versions, published>>
      PROVE  RowsOfLive' /\ PublishedExists'
  BY <1>0, <1>2 DEF PublishInv, RowsOfLive, PublishedExists, Live
<1>3. ASSUME NEW s \in Scene, DeleteScene(s) PROVE RowsOfLive' /\ PublishedExists'
  BY <1>0, <1>3 DEF DeleteScene, PublishInv, RowsOfLive, PublishedExists, Live
<1>4. ASSUME NEW e \in Editor, InsertVersion(e) PROVE RowsOfLive' /\ PublishedExists'
  <2> DEFINE t == job[e].scene
  <2>1. versions[t] \in Seq(Snapshot) /\ job[e].form \in Snapshot /\ t \in Scene
    BY <1>0
  <2>2. DOMAIN versions[t] \subseteq DOMAIN Append(versions[t], job[e].form)
    BY <2>1
  <2>3. UNCHANGED <<status, published>>
    BY <1>4 DEF InsertVersion
  <2>4. \/ versions' = versions
        \/ Live(t) /\ versions' = [versions EXCEPT ![t] = Append(@, job[e].form)]
    BY <1>4 DEF InsertVersion
  <2> HIDE DEF t
  <2> QED
    BY <1>0, <2>1, <2>2, <2>3, <2>4 DEF PublishInv, RowsOfLive, PublishedExists, Live
<1>5. ASSUME NEW e \in Editor, Point(e) PROVE RowsOfLive' /\ PublishedExists'
  <2>1. Live(job[e].scene) => job[e].num \in DOMAIN versions[job[e].scene]
    BY <1>5 DEF PublishInv, HeldNumbers, Point, Live
  <2> QED
    BY <1>0, <1>5, <2>1 DEF Point, PublishInv, RowsOfLive, PublishedExists, Live
<1>6. ASSUME NEW e \in Editor, EditorStep(e) PROVE RowsOfLive' /\ PublishedExists'
  <2>1. CASE \E t \in Scene : CopyScene(e, t)
    BY <1>2, <2>1 DEF CopyScene
  <2>2. CASE InsertVersion(e) \/ Point(e)
    BY <1>4, <1>5, <2>2
  <2>3. CASE ~ (\E t \in Scene : CopyScene(e, t)) /\ ~ InsertVersion(e) /\ ~ Point(e)
    <3>1. UNCHANGED <<status, versions, published>>
      BY <1>6, <2>3 DEF EditorStep, Save, Rollback, Duplicate, Begin, Patch, Lookup, Clear,
            InsertRow, InsertDone, ReadCanvas, ReadWidgets, ReadMax, CopyRows, Fail, tables
    <3> QED BY <1>1, <3>1
  <2> QED BY <2>1, <2>2, <2>3
<1>7. CASE ListStep \/ UNCHANGED vars \/ \E k \in Kiosk : KioskStep(k)
  <2>1. UNCHANGED <<status, versions, published>>
    BY <1>7 DEF ListStep, PutItems, ClearItems, InsertItem, PutEnds, KioskStep, Resolve,
          Receive, ReadSnapshot, vars, tables
  <2> QED BY <1>1, <2>1
<1>8. ASSUME NEW s \in Scene, NEW f \in Form, CreateScene(s, f.canvas)
      PROVE  RowsOfLive' /\ PublishedExists'
  BY <1>2, <1>8 DEF CreateScene
<1> QED BY <1>3, <1>6, <1>7, <1>8 DEF Next

LEMMA HeldStep == PublishInv /\ [Next]_vars => HeldNumbers'
<1> SUFFICES ASSUME PublishInv, [Next]_vars, NEW d \in Editor, At(d, "point")'
             PROVE  \/ status'[job'[d].scene] = "gone"
                    \/ job'[d].num \in DOMAIN versions'[job'[d].scene]
  BY DEF HeldNumbers, At
<1>0. /\ job \in [Editor -> Job] /\ versions \in [Scene -> Seq(Snapshot)]
      /\ \A e \in Editor : job[e].scene \in Scene /\ job[e] \in Job
  BY DEF PublishInv, TypeOK, Job
<1>1. CASE job'[d] = job[d]
  <2>1. \/ status[job[d].scene] = "gone"
        \/ job[d].num \in DOMAIN versions[job[d].scene]
    BY <1>1 DEF PublishInv, HeldNumbers, At
  <2>2. Grows(job[d].scene)
    BY <1>0, GrowsStep
  <2> QED BY <1>1, <2>1, <2>2 DEF Grows
<1>2. CASE job'[d] # job[d]
  <2>1. PICK e \in Editor : EditorStep(e)
    BY <1>2 DEF Next, CreateScene, DeleteScene, ListStep, PutItems, ClearItems, InsertItem,
          PutEnds, KioskStep, Resolve, Receive, ReadSnapshot, vars, editors
  <2>2. \E j : Become(e, j)
    BY <2>1 DEF EditorStep, Save, Rollback, Duplicate, Begin, CopyScene, Patch, Lookup, Clear,
          InsertRow, InsertDone, ReadCanvas, ReadWidgets, InsertVersion, ReadMax, Point,
          CopyRows, Fail, Goto, Finish
  <2>3. d = e
    BY <1>0, <1>2, <2>2 DEF Become
  <2>4. NoJob.at = "idle"
    BY DEF NoJob
  <2>5. ASSUME NEW s \in Scene, NEW n \in DOMAIN versions[s], Rollback(e, s, n)
        PROVE  job'[d].num \in DOMAIN versions'[job'[d].scene]
    <3>1. job'[d].num = n /\ job'[d].scene = s /\ versions' = versions
      BY <1>0, <2>3, <2>5 DEF Rollback, Begin, Become, NoJob, tables
    <3> QED BY <3>1
  <2>6. CASE ReadMax(e)
    <3> DEFINE s == job[e].scene
    <3>1. Len(versions[s]) # 0
      BY <1>0, <2>3, <2>4, <2>6 DEF ReadMax, Finish, Become, At
    <3>2. job'[d] = [job[e] EXCEPT !.num = Len(versions[s]), !.at = "point"]
      BY <1>0, <2>3, <2>6, <3>1 DEF ReadMax, Become
    <3>3. job'[d].num = Len(versions[s]) /\ job'[d].scene = s
      BY <1>0, <3>2 DEF Job
    <3>4. versions[s] \in Seq(Snapshot) /\ versions' = versions
      BY <1>0, <2>6 DEF ReadMax, tables
    <3> QED BY <3>1, <3>3, <3>4
  <2>7. ASSUME NEW l \in Labels \ {"point"}, Goto(e, l) \/ Finish(e) PROVE FALSE
    BY <1>0, <2>3, <2>4, <2>7 DEF Goto, Finish, Become, At, Job
  <2>9. ASSUME NEW s \in Scene, NEW f \in Form, Save(e, s, f) PROVE FALSE
    BY <1>0, <2>3, <2>9 DEF Save, Begin, Become, NoJob, At
  <2>10. ASSUME NEW s \in Scene, Duplicate(e, s) PROVE FALSE
    BY <1>0, <2>3, <2>10 DEF Duplicate, Begin, Become, NoJob, At
  <2>11. ASSUME NEW s \in Scene, CopyScene(e, s) PROVE FALSE
    BY <1>0, <2>3, <2>11 DEF CopyScene, Become, At, Job
  <2>12. CASE Patch(e) \/ Lookup(e) \/ Clear(e) \/ Fail(e)
    BY <2>7, <2>12 DEF Patch, Lookup, Clear, Fail, Labels
  <2>13. CASE InsertRow(e)
    <3>1. At(e, "insert")
      BY <2>13 DEF InsertRow
    <3> QED BY <1>0, <2>3, <2>4, <2>13, <3>1 DEF InsertRow, Finish, Become, At, Job
  <2>14. CASE InsertDone(e)
    <3> DEFINE j == [NoJob EXCEPT !.at = "canvas", !.scene = job[e].scene,
                                  !.into = job[e].into]
    <3>1. Become(e, j) \/ Finish(e)
      BY <2>14 DEF InsertDone
    <3>2. j.at = "canvas"
      BY DEF NoJob
    <3> HIDE DEF j
    <3> QED BY <1>0, <2>3, <2>4, <3>1, <3>2 DEF Finish, Become, At
  <2>15. CASE ReadCanvas(e)
    BY <1>0, <2>3, <2>4, <2>15 DEF ReadCanvas, Finish, Become, At, Job
  <2>16. CASE ReadWidgets(e)
    BY <1>0, <2>3, <2>16 DEF ReadWidgets, Become, At, Job
  <2>17. CASE InsertVersion(e)
    <3>1. Become(e, [job[e] EXCEPT !.form = NoForm, !.at = "max"]) \/ Finish(e)
      BY <2>17 DEF InsertVersion
    <3>2. [job[e] EXCEPT !.form = NoForm, !.at = "max"].at = "max"
      BY <1>0 DEF Job
    <3> QED BY <1>0, <2>3, <2>4, <3>1, <3>2 DEF Finish, Become, At
  <2>18. CASE CopyRows(e)
    BY <1>0, <2>3, <2>18 DEF CopyRows, Become, At, Job
  <2>19. CASE Point(e)
    BY <2>7, <2>19 DEF Point, Labels
  <2> QED BY <2>1, <2>5, <2>6, <2>9, <2>10, <2>11, <2>12, <2>13, <2>14, <2>15, <2>16, <2>17,
             <2>18, <2>19 DEF EditorStep
<1> QED BY <1>1, <1>2

LEMMA PublishInvariant == Spec => []PublishInv
<1>1. Init => PublishInv
  <2>1. Init => RowsOfLive /\ PublishedExists
    BY DEF Init, RowsOfLive, PublishedExists, Live
  <2>2. Init => HeldNumbers
    <3>1. Init => \A e \in Editor : job[e].at = "idle"
      BY DEF Init, NoJob
    <3> QED BY <3>1 DEF HeldNumbers, At
  <2> QED BY TypeInit, <2>1, <2>2 DEF PublishInv
<1>2. PublishInv /\ [Next]_vars => PublishInv'
  BY TypeStep, RowsStep, HeldStep DEF PublishInv
<1> QED BY <1>1, <1>2, PTL DEF Spec

\* published_version names a version row of its scene at every statement.
THEOREM PublishedExistsHolds == Spec => []PublishedExists
<1>1. PublishInv => PublishedExists
  BY DEF PublishInv
<1> QED BY <1>1, PublishInvariant, PTL

\* No version is changed or dropped while its scene lives.
THEOREM VersionsKeptHolds == Spec => VersionsKept
<1> DEFINE Kept == \A s \in Scene : Live(s) /\ status'[s] = "live" =>
                     \A n \in DOMAIN versions[s] :
                       n \in DOMAIN versions'[s] /\ versions'[s][n] = versions[s][n]
<1>1. PublishInv /\ [Next]_vars => [Kept]_vars
  BY GrowsStep DEF Grows
<1> QED BY <1>1, PublishInvariant, PTL DEF Spec, VersionsKept

-----------------------------------------------------------------------------
(***************************************************************************)
(* Resolution.  A kiosk reads published_version and the snapshot in two    *)
(* statements, so what it holds in between may be out of date; it is still *)
(* a version that exists, unless the scene was deleted.                    *)
(***************************************************************************)

Gone(s) == status[s] = "gone"

ViewInv ==
  \A k \in Kiosk : ~ OnRotation(k) =>
    LET s == Assigned[k]
        v == view[k]
    IN  /\ shown[k] # {} => Gone(s) \/ published[s] # 0
        /\ v.got # {} => Gone(s) \/ published[s] # 0
        /\ \A r \in v.todo :
             /\ r.scene = s
             /\ r.num # 0 => Gone(s) \/ (published[s] # 0 /\ r.num \in DOMAIN versions[s])
        /\ v.at = "rows" /\ shown[k] # {} =>
             Gone(s) \/ v.got # {} \/ \E r \in v.todo : r.num # 0

ContentInv == PublishInv /\ ViewInv

LEMMA ViewStep == ContentInv /\ [Next]_vars => ViewInv'
<1> SUFFICES ASSUME ContentInv, [Next]_vars, NEW k \in Kiosk, ~ OnRotation(k)
             PROVE  LET s == Assigned[k]
                        v == view[k]'
                    IN  /\ shown'[k] # {} => Gone(s)' \/ published'[s] # 0
                        /\ v.got # {} => Gone(s)' \/ published'[s] # 0
                        /\ \A r \in v.todo :
                             /\ r.scene = s
                             /\ r.num # 0 =>
                                  Gone(s)' \/ (published'[s] # 0 /\ r.num \in DOMAIN versions'[s])
                        /\ v.at = "rows" /\ shown'[k] # {} =>
                             Gone(s)' \/ v.got # {} \/ \E r \in v.todo : r.num # 0
  BY DEF ViewInv, OnRotation, Gone
<1> DEFINE s == Assigned[k]
<1>0. /\ s \in Scene
      /\ view \in [Kiosk -> View] /\ view[k] \in View
      /\ shown \in [Kiosk -> SUBSET [pos : Nat, snap : Snapshot]]
      /\ versions \in [Scene -> Seq(Snapshot)] /\ published \in [Scene -> Nat]
      /\ status \in [Scene -> {"unborn", "live", "gone"}]
  BY ContentAssumption DEF ContentInv, PublishInv, TypeOK, OnRotation
<1>1. /\ shown[k] # {} => Gone(s) \/ published[s] # 0
      /\ view[k].got # {} => Gone(s) \/ published[s] # 0
      /\ \A r \in view[k].todo :
           /\ r.scene = s
           /\ r.num # 0 => Gone(s) \/ (published[s] # 0 /\ r.num \in DOMAIN versions[s])
      /\ view[k].at = "rows" /\ shown[k] # {} =>
           Gone(s) \/ view[k].got # {} \/ \E r \in view[k].todo : r.num # 0
  BY DEF ContentInv, ViewInv
<1>2. Grows(s)
  BY <1>0, GrowsStep DEF ContentInv
<1>3. CASE view'[k] = view[k] /\ shown'[k] = shown[k]
  <2>1. Gone(s)' \/ (~ Gone(s) /\ (published[s] # 0 => published'[s] # 0)
                      /\ DOMAIN versions[s] \subseteq DOMAIN versions'[s])
    BY <1>2 DEF Grows, Gone
  <2>2. (Gone(s) \/ published[s] # 0) => (Gone(s)' \/ published'[s] # 0)
    BY <2>1
  <2>3. \A r \in view[k].todo :
           r.num # 0 => Gone(s)' \/ (published'[s] # 0 /\ r.num \in DOMAIN versions'[s])
    BY <1>1, <2>1
  <2>4. Gone(s) => Gone(s)'
    BY <2>1
  <2> QED BY <1>1, <1>3, <2>2, <2>3, <2>4
<1>4. CASE ~ (view'[k] = view[k] /\ shown'[k] = shown[k])
  <2>1. PICK q \in Kiosk : KioskStep(q)
    BY <1>4 DEF Next, CreateScene, DeleteScene, ListStep, PutItems, ClearItems, InsertItem,
          PutEnds, EditorStep, Save, Rollback, Duplicate, Begin, CopyScene, Patch, Lookup,
          Clear, InsertRow, InsertDone, ReadCanvas, ReadWidgets, InsertVersion, ReadMax,
          Point, CopyRows, Fail, vars, kiosks
  <2>2. UNCHANGED <<status, published, versions>>
    BY <2>1 DEF KioskStep, Resolve, Receive, ReadSnapshot, tables
  <2>3. q = k
    BY <1>0, <1>4, <2>1 DEF KioskStep, Resolve, Receive, ReadSnapshot
  <2>4. CASE Resolve(k)
    <3>1. /\ view'[k] = [at |-> "rows", todo |-> Rows(k), got |-> {}]
          /\ shown' = shown
      BY <1>0, <2>4 DEF Resolve
    <3>2. Rows(k) = {[pos |-> 1, scene |-> s, num |-> published[s]]}
      BY DEF Rows, OnRotation
    <3>3. published[s] # 0 => Gone(s) \/ published[s] \in DOMAIN versions[s]
      BY <1>0 DEF ContentInv, PublishInv, PublishedExists, RowsOfLive
    <3>4. Gone(s)' <=> Gone(s)
      BY <2>2 DEF Gone
    <3>5. view'[k].at = "rows" /\ view'[k].got = {}
          /\ view'[k].todo = {[pos |-> 1, scene |-> s, num |-> published[s]]}
      BY <3>1, <3>2
    <3>6. \A r \in view'[k].todo : r.scene = s /\ r.num = published[s]
      BY <3>5
    <3>7. published[s] # 0 => \E r \in view'[k].todo : r.num # 0
      BY <3>5
    <3> QED BY <1>1, <2>2, <3>1, <3>3, <3>4, <3>5, <3>6, <3>7
  <2>5. CASE Receive(k)
    <3>1. /\ view'[k] = [at |-> "idle", todo |-> {}, got |-> {}]
          /\ shown'[k] = view[k].got
      BY <1>0, <2>5 DEF Receive, NoView
    <3> QED BY <1>1, <2>2, <3>1 DEF Gone
  <2>6. ASSUME NEW r \in view[k].todo, ReadSnapshot(k, r)
        PROVE  LET v == view[k]'
               IN  /\ shown'[k] # {} => Gone(s)' \/ published'[s] # 0
                   /\ v.got # {} => Gone(s)' \/ published'[s] # 0
                   /\ \A t \in v.todo :
                        /\ t.scene = s
                        /\ t.num # 0 =>
                             Gone(s)' \/ (published'[s] # 0 /\ t.num \in DOMAIN versions'[s])
                   /\ v.at = "rows" /\ shown'[k] # {} =>
                        Gone(s)' \/ v.got # {} \/ \E t \in v.todo : t.num # 0
    <3> DEFINE hit == r.num \in DOMAIN versions[s]
               row == [pos |-> r.pos, snap |-> versions[s][r.num]]
               got == IF hit THEN view[k].got \cup {row} ELSE view[k].got
    <3>0. r.scene = s
      BY <1>1
    <3>1. /\ view'[k] = [view[k] EXCEPT !.todo = view[k].todo \ {r}, !.got = got]
          /\ shown' = shown /\ view[k].at = "rows"
      BY <1>0, <2>6, <3>0 DEF ReadSnapshot
    <3>2. hit => r.num # 0
      BY <1>0
    <3>3. hit => got # {}
      OBVIOUS
    <3>4. ~ hit => got = view[k].got
      OBVIOUS
    <3> HIDE DEF hit, row, got
    <3>5. /\ view'[k].at = "rows" /\ view'[k].todo = view[k].todo \ {r}
          /\ view'[k].got = got
      BY <1>0, <3>1 DEF View
    <3>6. r.num # 0 /\ ~ hit => Gone(s)
      BY <1>1 DEF hit
    <3> QED BY <1>1, <2>2, <3>1, <3>2, <3>3, <3>4, <3>5, <3>6 DEF Gone
  <2> QED BY <2>1, <2>3, <2>4, <2>5, <2>6 DEF KioskStep
<1> QED BY <1>3, <1>4

LEMMA ContentInvariant == Spec => []ContentInv
<1>1. Init => ViewInv
  BY DEF Init, ViewInv, NoView
<1>2. Init => PublishInv
  <2>1. Init => RowsOfLive /\ PublishedExists
    BY DEF Init, RowsOfLive, PublishedExists, Live
  <2>2. Init => \A e \in Editor : job[e].at = "idle"
    BY DEF Init, NoJob
  <2> QED BY TypeInit, <2>1, <2>2 DEF PublishInv, HeldNumbers, At
<1>3. ContentInv /\ [Next]_vars => ContentInv'
  BY TypeStep, RowsStep, HeldStep, ViewStep DEF ContentInv, PublishInv
<1> QED BY <1>1, <1>2, <1>3, PTL DEF Spec, ContentInv

\* A kiosk on a scene is not sent to its idle screen while the scene exists.
THEOREM SceneStaysOnHolds == Spec => SceneStaysOn
<1> DEFINE StaysOn == \A k \in Kiosk :
             ~ OnRotation(k) /\ shown[k] # {} /\ shown'[k] = {} => ~ Live(Assigned[k])
<1>1. ContentInv /\ [Next]_vars => [StaysOn]_vars
  <2> SUFFICES ASSUME ContentInv, Next, NEW k \in Kiosk, ~ OnRotation(k), shown[k] # {},
                      shown'[k] = {}
               PROVE  ~ Live(Assigned[k])
    OBVIOUS
  <2>1. PICK q \in Kiosk : Receive(q)
    BY DEF Next, CreateScene, DeleteScene, ListStep, PutItems, ClearItems, InsertItem,
          PutEnds, EditorStep, Save, Rollback, Duplicate, Begin, CopyScene, Patch, Lookup,
          Clear, InsertRow, InsertDone, ReadCanvas, ReadWidgets, InsertVersion, ReadMax,
          Point, CopyRows, Fail, KioskStep, Resolve, ReadSnapshot, kiosks
  <2>2. shown \in [Kiosk -> SUBSET [pos : Nat, snap : Snapshot]]
    BY DEF ContentInv, PublishInv, TypeOK
  <2>3. view[k].at = "rows" /\ view[k].todo = {} /\ view[k].got = {}
    BY <2>1, <2>2 DEF Receive
  <2> QED BY <2>3 DEF ContentInv, ViewInv, Gone, Live
<1> QED BY <1>1, ContentInvariant, PTL DEF Spec, SceneStaysOn

-----------------------------------------------------------------------------
(***************************************************************************)
(* What a version holds.  A page that publishes has written its whole form *)
(* first, and while no other request writes that scene the tables hold the *)
(* form, as far as the request has come.                                   *)
(***************************************************************************)

Busy(e) == ~ At(e, "idle")

\* Requests that write one scene at once are recorded in overlapped.
Alone ==
  \A d, e \in Editor :
    d # e /\ Busy(d) /\ Busy(e) /\ job[d].into = job[e].into => job[d].into \in overlapped

\* A request writes a scene that exists or existed, never one still to come.
Born == \A e \in Editor : Busy(e) => status[job[e].into] # "unborn"

\* Only a page that saved goes on to publish, and it publishes what it saved.
Orderly(j) ==
  /\ j.at \in {"lookup", "canvas", "widgets", "number"} => j.want = "save"
  /\ j.at = "patch" => j.want # "duplicate"
  /\ j.want = "save" => j.scene = j.into /\ ~ j.at \in {"copy", "rows"}
  /\ j.want = "save" /\ j.at \in {"patch", "lookup", "clear"} => j.next = 1

\* The first n - 1 rows of w are in.
Inserted(rows, w, n) ==
  Len(rows) = n - 1 /\ \A i \in 1 .. Len(rows) : i \in DOMAIN w /\ rows[i] = w[i]

\* How far a save, or the publication after it, has brought its scene.
Written(j, c, rows) ==
  /\ j.at \in {"patch", "lookup", "clear", "insert", "number"} => j.form \in Form
  /\ j.at \in {"lookup", "clear", "insert", "widgets"} => c = j.form.canvas
  /\ j.at = "insert" => Inserted(rows, j.form.widgets, j.next)
  /\ j.at \in {"canvas", "widgets"} => [canvas |-> c, widgets |-> rows] \in Form

Saving(e) ==
  LET s == job[e].into
  IN  job[e].want = "save" /\ Busy(e) /\ Live(s) /\ s \notin overlapped

SavesWhole ==
  \A e \in Editor : /\ Orderly(job[e])
                    /\ Saving(e) => Written(job[e], canvas[job[e].into], draft[job[e].into])

WholeInv == Alone /\ Born /\ SavesWhole /\ PublishedWhole

\* A step of one request leaves the other requests alone, brings scenes into being
\* only, and writes to no scene but its own.
LEMMA EditorTouches ==
  ASSUME TypeOK, NEW e \in Editor, EditorStep(e)
  PROVE  /\ \A d \in Editor \ {e} : job'[d] = job[d]
         /\ overlapped \subseteq overlapped'
         /\ \A s \in Scene : \/ status'[s] = status[s]
                             \/ (status[s] = "unborn" /\ status'[s] = "live")
         /\ \A s \in Scene : Live(s) /\ (Busy(e) => s # job[e].into) =>
                                canvas'[s] = canvas[s] /\ draft'[s] = draft[s]
<1>0. /\ job \in [Editor -> Job] /\ status \in [Scene -> {"unborn", "live", "gone"}]
      /\ canvas \in [Scene -> Canvas] /\ draft \in [Scene -> Seq(Widget)]
      /\ job[e].into \in Scene
  BY DEF TypeOK, Job
<1>1. \A d \in Editor \ {e} : job'[d] = job[d]
  <2>1. \E j : Become(e, j)
    BY DEF EditorStep, Save, Rollback, Duplicate, Begin, CopyScene, Patch, Lookup, Clear,
          InsertRow, InsertDone, ReadCanvas, ReadWidgets, InsertVersion, ReadMax, Point,
          CopyRows, Fail, Goto, Finish
  <2> QED BY <1>0, <2>1 DEF Become
<1>2. overlapped \subseteq overlapped'
  BY DEF EditorStep, Save, Rollback, Duplicate, Begin, CopyScene, Patch, Lookup, Clear,
        InsertRow, InsertDone, ReadCanvas, ReadWidgets, InsertVersion, ReadMax, Point,
        CopyRows, Fail
<1>3. ASSUME NEW s \in Scene
      PROVE  \/ status'[s] = status[s]
             \/ (status[s] = "unborn" /\ status'[s] = "live")
  BY <1>0 DEF EditorStep, Save, Rollback, Duplicate, Begin, CopyScene, Patch, Lookup, Clear,
        InsertRow, InsertDone, ReadCanvas, ReadWidgets, InsertVersion, ReadMax, Point,
        CopyRows, Fail, tables
<1>4. ASSUME NEW s \in Scene, Live(s), Busy(e) => s # job[e].into
      PROVE  canvas'[s] = canvas[s] /\ draft'[s] = draft[s]
  <2>1. CASE Patch(e) \/ Clear(e) \/ InsertRow(e)
    BY <1>0, <1>4, <2>1 DEF Patch, Clear, InsertRow, Busy, At
  <2>2. CASE \E u \in Scene : CopyScene(e, u)
    BY <1>0, <1>4, <2>2 DEF CopyScene, Live
  <2>3. CASE ~ (Patch(e) \/ Clear(e) \/ InsertRow(e)) /\ ~ \E u \in Scene : CopyScene(e, u)
    <3>1. UNCHANGED <<canvas, draft>>
      BY <2>3 DEF EditorStep, Save, Rollback, Duplicate, Begin, Lookup, InsertDone, ReadCanvas,
            ReadWidgets, InsertVersion, ReadMax, Point, CopyRows, Fail, tables
    <3> QED BY <3>1
  <2> QED BY <2>1, <2>2, <2>3
<1> QED BY <1>1, <1>2, <1>3, <1>4

\* The scene a request writes: it keeps it, or begins on one that is there, or turns
\* to the copy it has just created.
LEMMA EditorTurns ==
  ASSUME PublishInv, NEW e \in Editor, EditorStep(e), Busy(e)'
  PROVE  LET s == job'[e].into IN
         /\ s \in Scene
         /\ \/ Busy(e) /\ s = job[e].into
            \/ /\ status[s] # "unborn"
               /\ \A d \in Editor \ {e} : Busy(d) /\ job[d].into = s => s \in overlapped'
            \/ (status[s] = "unborn" /\ status'[s] = "live")
<1>0. /\ TypeOK /\ job \in [Editor -> Job] /\ job[e] \in Job
      /\ status \in [Scene -> {"unborn", "live", "gone"}]
      /\ job[e].into \in Scene /\ RowsOfLive
      /\ versions \in [Scene -> Seq(Snapshot)]
  BY DEF PublishInv, TypeOK, Job
<1>00. NoJob \in Job /\ NoJob.at = "idle"
  BY NoJobType DEF NoJob
<1>1. ASSUME NEW s \in Scene, NEW j, Begin(e, s, j), Live(s), j.into = s
      PROVE  /\ job'[e].into = s /\ status[s] # "unborn"
             /\ \A d \in Editor \ {e} : Busy(d) /\ job[d].into = s => s \in overlapped'
  BY <1>0, <1>1 DEF Begin, Become, Live, Busy
<1>2. ASSUME NEW s \in Scene, NEW f \in Form, Save(e, s, f)
      PROVE  Live(s) /\ \E j : Begin(e, s, j) /\ j.into = s
  <2> DEFINE j == [NoJob EXCEPT !.at = "patch", !.scene = s, !.into = s, !.form = f]
  <2>1. j.into = s
    BY <1>00 DEF Job
  <2>2. Begin(e, s, j) /\ Live(s)
    BY <1>2 DEF Save
  <2> QED BY <2>1, <2>2
<1>3. ASSUME NEW s \in Scene, NEW n \in DOMAIN versions[s], Rollback(e, s, n)
      PROVE  Live(s) /\ \E j : Begin(e, s, j) /\ j.into = s
  <2> DEFINE j == [NoJob EXCEPT !.at = "point", !.want = "rollback", !.scene = s,
                                !.into = s, !.form = versions[s][n], !.num = n]
  <2>1. j.into = s
    BY <1>00 DEF Job
  <2>2. Begin(e, s, j)
    BY <1>3 DEF Rollback
  <2>3. Live(s)
    BY <1>0 DEF RowsOfLive
  <2> QED BY <2>1, <2>2, <2>3
<1>4. ASSUME NEW s \in Scene, Duplicate(e, s)
      PROVE  Live(s) /\ \E j : Begin(e, s, j) /\ j.into = s
  <2> DEFINE j == [NoJob EXCEPT !.at = "copy", !.want = "duplicate", !.scene = s,
                                !.into = s, !.form.canvas = canvas[s]]
  <2>1. j.into = s
    BY <1>00 DEF Job
  <2>2. Begin(e, s, j) /\ Live(s)
    BY <1>4 DEF Duplicate
  <2> QED BY <2>1, <2>2
<1>5. ASSUME NEW s \in Scene, CopyScene(e, s)
      PROVE  job'[e].into = s /\ status[s] = "unborn" /\ status'[s] = "live"
  <2>1. job'[e] = [job[e] EXCEPT !.into = s, !.at = "rows"]
    BY <1>0, <1>5 DEF CopyScene, Become
  <2>2. job'[e].into = s
    BY <1>0, <2>1 DEF Job
  <2> QED BY <1>0, <1>5, <2>2 DEF CopyScene
<1>6. ASSUME NEW j \in Job, Become(e, j), Busy(e), j.into = job[e].into
      PROVE  job'[e].into = job[e].into
  BY <1>0, <1>6 DEF Become
<1>7. CASE InsertDone(e)
  <2> DEFINE j == [NoJob EXCEPT !.at = "canvas", !.scene = job[e].scene,
                                !.into = job[e].into]
  <2>1. j.into = job[e].into
    BY <1>00 DEF Job
  <2>2. job' = [job EXCEPT ![e] = j] \/ job' = [job EXCEPT ![e] = NoJob]
    BY <1>7 DEF InsertDone, Finish, Become
  <2> HIDE DEF j
  <2>3. job'[e] = j
    BY <1>0, <1>00, <2>2 DEF Busy, At
  <2>4. Busy(e)
    BY <1>7 DEF InsertDone, Busy, At
  <2> QED BY <1>0, <2>1, <2>3, <2>4
<1>8. CASE \/ Patch(e) \/ Lookup(e) \/ Clear(e) \/ InsertRow(e) \/ ReadCanvas(e)
           \/ ReadWidgets(e) \/ InsertVersion(e) \/ ReadMax(e) \/ Point(e) \/ CopyRows(e)
           \/ Fail(e)
  <2>1. Busy(e)
    BY <1>8 DEF Patch, Lookup, Clear, InsertRow, ReadCanvas, ReadWidgets, InsertVersion,
          ReadMax, Point, CopyRows, Fail, Busy, At
  <2>2. Finish(e) => FALSE
    BY <1>0, <1>00 DEF Finish, Become, Busy, At
  <2>3. job'[e].into = job[e].into
    <3>1. CASE Patch(e) \/ Lookup(e) \/ Clear(e)
      BY <1>0, <2>2, <3>1 DEF Patch, Lookup, Clear, Goto, Become, Job
    <3>2. CASE InsertRow(e)
      BY <1>0, <2>2, <3>2 DEF InsertRow, Become, Job
    <3>3. CASE ReadCanvas(e)
      BY <1>0, <2>2, <3>3 DEF ReadCanvas, Become, Job
    <3>4. CASE ReadWidgets(e) \/ CopyRows(e)
      BY <1>0, <2>2, <3>4 DEF ReadWidgets, CopyRows, Become, Job
    <3>5. CASE InsertVersion(e)
      <4>1. job'[e] = [job[e] EXCEPT !.form = NoForm, !.at = "max"]
        BY <1>0, <2>2, <3>5 DEF InsertVersion, Become
      <4> QED BY <1>0, <4>1 DEF Job
    <3>6. CASE ReadMax(e)
      <4>1. job'[e] = [job[e] EXCEPT !.num = Len(versions[job[e].scene]), !.at = "point"]
        BY <1>0, <2>2, <3>6 DEF ReadMax, Become
      <4> QED BY <1>0, <4>1 DEF Job
    <3>7. CASE Point(e)
      BY <1>0, <2>2, <3>7 DEF Point, Goto, Become, Job
    <3> QED BY <1>8, <2>2, <3>1, <3>2, <3>3, <3>4, <3>5, <3>6, <3>7 DEF Fail
  <2> QED BY <1>0, <2>1, <2>3
<1>9. CASE \/ \E s \in Scene, f \in Form : Save(e, s, f)
           \/ \E s \in Scene : \E n \in DOMAIN versions[s] : Rollback(e, s, n)
           \/ \E s \in Scene : Duplicate(e, s)
  <2>1. PICK s \in Scene : Live(s) /\ \E j : Begin(e, s, j) /\ j.into = s
    BY <1>2, <1>3, <1>4, <1>9
  <2> QED BY <1>1, <2>1
<1> QED BY <1>5, <1>7, <1>8, <1>9 DEF EditorStep

\* The rows that are in grow by one; once all are in they are the form's.
LEMMA InsertedGrows ==
  ASSUME NEW rows \in Seq(Widget), NEW w \in Seq(Widget), NEW n \in Nat \ {0},
         Inserted(rows, w, n)
  PROVE  /\ n <= Len(w) => Inserted(Append(rows, w[n]), w, n + 1)
         /\ ~ (n <= Len(w)) => rows = w
<1>1. Len(rows) = n - 1 /\ \A i \in 1 .. Len(rows) : i \in DOMAIN w /\ rows[i] = w[i]
  BY DEF Inserted
<1>2. Len(w) \in Nat /\ Len(rows) \in Nat /\ DOMAIN w = 1 .. Len(w)
  OBVIOUS
<1>3. ASSUME n <= Len(w) PROVE Inserted(Append(rows, w[n]), w, n + 1)
  <2>1. w[n] \in Widget /\ n \in DOMAIN w
    BY <1>2, <1>3
  <2>2. /\ Len(Append(rows, w[n])) = n
        /\ \A i \in 1 .. Len(rows) : Append(rows, w[n])[i] = rows[i]
        /\ Append(rows, w[n])[n] = w[n]
    BY <1>1, <2>1
  <2> QED BY <1>1, <1>2, <2>1, <2>2 DEF Inserted
<1>4. ASSUME ~ (n <= Len(w)) PROVE rows = w
  <2>1. Len(rows) = Len(w)
    <3>1. Len(rows) # 0 => Len(rows) \in 1 .. Len(rows)
      BY <1>2
    <3>2. Len(rows) <= Len(w)
      BY <1>1, <1>2, <3>1
    <3> QED BY <1>1, <1>2, <1>4, <3>2
  <2> QED BY <1>1, <2>1
<1> QED BY <1>3, <1>4

\* What a step makes of the request that takes it.
LEMMA OwnStep ==
  ASSUME PublishInv, WholeInv, NEW e \in Editor, EditorStep(e)
  PROVE  /\ Orderly(job'[e])
         /\ Saving(e)' => Written(job'[e], canvas'[job'[e].into], draft'[job'[e].into])
<1> DEFINE j == job[e]
           s == job[e].into
           Own == /\ Orderly(job'[e])
                  /\ Saving(e)' => Written(job'[e], canvas'[job'[e].into], draft'[job'[e].into])
<1>0. /\ TypeOK /\ job \in [Editor -> Job] /\ j \in Job
      /\ status \in [Scene -> {"unborn", "live", "gone"}]
      /\ canvas \in [Scene -> Canvas] /\ draft \in [Scene -> Seq(Widget)]
      /\ s \in Scene /\ j.scene \in Scene /\ j.form \in Snapshot /\ j.next \in Nat \ {0}
      /\ j.form.widgets \in Seq(Widget) /\ j.want \in Wants
      /\ versions \in [Scene -> Seq(Snapshot)]
  BY DEF PublishInv, TypeOK, Job, Snapshot
<1>00. /\ NoJob \in Job /\ NoJob.at = "idle" /\ NoJob.want = "save" /\ NoJob.next = 1
       /\ NoJob.scene = NoJob.into
  BY NoJobType DEF NoJob
<1>1. /\ Orderly(j)
      /\ Saving(e) => Written(j, canvas[s], draft[s])
      /\ Busy(e) => status[s] # "unborn"
  BY DEF WholeInv, SavesWhole, Born
<1>2. ASSUME Finish(e) PROVE Own
  <2>1. job'[e] = NoJob
    BY <1>0, <1>2 DEF Finish, Become
  <2> QED BY <1>00, <2>1 DEF Orderly, Saving, Busy, At
<1>3. ASSUME NEW r \in Job, Become(e, r), Busy(e), r.into = s, r.want = j.want
      PROVE  job'[e] = r /\ (Saving(e)' => Saving(e))
  <2>1. job'[e] = r
    BY <1>0, <1>3 DEF Become
  <2>2. status'[s] = "live" => status[s] = "live"
    BY <1>0, <1>1, <1>3, EditorTouches
  <2> QED BY <1>3, <2>1, <2>2, EditorTouches, <1>0 DEF Saving, Live
<1>4. ASSUME NEW u \in Scene, NEW f \in Form, Save(e, u, f) PROVE Own
  <2> DEFINE r == [NoJob EXCEPT !.at = "patch", !.scene = u, !.into = u, !.form = f]
  <2>1. /\ r.at = "patch" /\ r.scene = u /\ r.into = u /\ r.form = f /\ r.want = "save"
        /\ r.next = 1
    BY <1>00 DEF Job
  <2>2. job'[e] = r
    BY <1>0, <1>4 DEF Save, Begin, Become
  <2> HIDE DEF r
  <2> QED BY <2>1, <2>2 DEF Orderly, Written
<1>5. ASSUME NEW u \in Scene, NEW n \in DOMAIN versions[u], Rollback(e, u, n) PROVE Own
  <2> DEFINE r == [NoJob EXCEPT !.at = "point", !.want = "rollback", !.scene = u,
                                !.into = u, !.form = versions[u][n], !.num = n]
  <2>1. r.at = "point" /\ r.want = "rollback"
    BY <1>00 DEF Job
  <2>2. job'[e] = r
    BY <1>0, <1>5 DEF Rollback, Begin, Become
  <2> HIDE DEF r
  <2> QED BY <2>1, <2>2 DEF Orderly, Saving
<1>6. ASSUME NEW u \in Scene, Duplicate(e, u) PROVE Own
  <2> DEFINE r == [NoJob EXCEPT !.at = "copy", !.want = "duplicate", !.scene = u,
                                !.into = u, !.form.canvas = canvas[u]]
  <2>1. r.at = "copy" /\ r.want = "duplicate"
    BY <1>00 DEF Job
  <2>2. job'[e] = r
    BY <1>0, <1>6 DEF Duplicate, Begin, Become
  <2> HIDE DEF r
  <2> QED BY <2>1, <2>2 DEF Orderly, Saving
<1>7. ASSUME NEW u \in Scene, CopyScene(e, u) PROVE Own
  <2> DEFINE r == [j EXCEPT !.into = u, !.at = "rows"]
  <2>1. r.at = "rows" /\ r.want = j.want
    BY <1>0 DEF Job
  <2>2. job'[e] = r /\ j.at = "copy"
    BY <1>0, <1>7 DEF CopyScene, Become, At
  <2> HIDE DEF r
  <2> QED BY <1>1, <2>1, <2>2 DEF Orderly, Saving
<1>8. CASE Patch(e)
  <2> DEFINE l == IF j.want = "rollback" THEN "clear" ELSE "lookup"
             r == [j EXCEPT !.at = l]
  <2>1. /\ r \in Job /\ r.at = l /\ r.want = j.want /\ r.into = s /\ r.form = j.form
        /\ r.scene = j.scene /\ r.next = j.next
    BY <1>0 DEF Job, Labels
  <2>2. Become(e, r) /\ Busy(e) /\ j.at = "patch"
    BY <1>8 DEF Patch, Goto, Busy, At
  <2>3. Live(s) => canvas'[s] = j.form.canvas
    BY <1>0, <1>8 DEF Patch
  <2> HIDE DEF r
  <2>4. job'[e] = r /\ (Saving(e)' => Saving(e))
    BY <1>3, <2>1, <2>2
  <2>5. Orderly(r)
    BY <1>0, <1>1, <2>1, <2>2 DEF Orderly, Wants
  <2>6. Saving(e) => Written(r, canvas'[s], draft'[s])
    BY <1>1, <2>1, <2>2, <2>3 DEF Written, Saving
  <2> QED BY <2>1, <2>4, <2>5, <2>6
<1>9. CASE Lookup(e)
  <2> DEFINE r == [j EXCEPT !.at = "clear"]
  <2>1. /\ r \in Job /\ r.at = "clear" /\ r.want = j.want /\ r.into = s /\ r.form = j.form
        /\ r.scene = j.scene /\ r.next = j.next
    BY <1>0 DEF Job, Labels
  <2>2. Busy(e) /\ j.at = "lookup" /\ (Become(e, r) \/ Finish(e)) /\ UNCHANGED <<canvas, draft>>
    BY <1>9 DEF Lookup, Goto, Busy, At, tables
  <2> HIDE DEF r
  <2>3. CASE Become(e, r)
    <3>1. job'[e] = r /\ (Saving(e)' => Saving(e))
      BY <1>3, <2>1, <2>2, <2>3
    <3>2. Orderly(r) /\ (Saving(e) => Written(r, canvas[s], draft[s]))
      BY <1>1, <2>1, <2>2 DEF Orderly, Written
    <3> QED BY <2>1, <2>2, <3>1, <3>2
  <2> QED BY <1>2, <2>2, <2>3
<1>10. CASE Clear(e)
  <2> DEFINE r == [j EXCEPT !.at = "insert"]
  <2>1. /\ r \in Job /\ r.at = "insert" /\ r.want = j.want /\ r.into = s /\ r.form = j.form
        /\ r.scene = j.scene /\ r.next = j.next
    BY <1>0 DEF Job, Labels
  <2>2. /\ Busy(e) /\ j.at = "clear" /\ Become(e, r)
        /\ draft'[s] = << >> /\ canvas' = canvas
    BY <1>0, <1>10 DEF Clear, Goto, Busy, At
  <2> HIDE DEF r
  <2>3. job'[e] = r /\ (Saving(e)' => Saving(e))
    BY <1>3, <2>1, <2>2
  <2>4. Inserted(<< >>, j.form.widgets, 1)
    BY DEF Inserted
  <2>5. Orderly(r)
    BY <1>1, <2>1, <2>2 DEF Orderly
  <2>6. Saving(e) => j.next = 1
    BY <1>1, <2>2 DEF Orderly, Saving
  <2>7. Saving(e) => Written(r, canvas[s], << >>)
    BY <1>1, <2>1, <2>2, <2>4, <2>6 DEF Written
  <2> QED BY <2>1, <2>2, <2>3, <2>5, <2>7
<1>11. CASE InsertRow(e)
  <2> DEFINE w == j.form.widgets
             r == [j EXCEPT !.next = j.next + 1]
  <2>0. j.next + 1 \in Nat \ {0}
    BY <1>0
  <2>1. /\ r \in Job /\ r.at = j.at /\ r.want = j.want /\ r.into = s /\ r.form = j.form
        /\ r.scene = j.scene /\ r.next = j.next + 1
    BY <1>0, <2>0 DEF Job
  <2>2. /\ Busy(e) /\ j.at = "insert" /\ canvas' = canvas /\ j.next <= Len(w)
        /\ Finish(e) \/ (Become(e, r) /\ draft'[s] = Append(draft[s], w[j.next]))
    BY <1>0, <1>11 DEF InsertRow, MoreRows, Busy, At
  <2> HIDE DEF r
  <2>3. CASE Become(e, r) /\ draft'[s] = Append(draft[s], w[j.next])
    <3>1. job'[e] = r /\ (Saving(e)' => Saving(e))
      BY <1>3, <2>1, <2>2, <2>3
    <3>2. Orderly(r)
      BY <1>1, <2>1, <2>2 DEF Orderly
    <3>3. Inserted(draft[s], w, j.next) => Inserted(draft'[s], w, j.next + 1)
      BY <1>0, <2>2, <2>3, InsertedGrows
    <3>4. Saving(e) => Written(r, canvas[s], draft'[s])
      BY <1>1, <2>1, <2>2, <3>3 DEF Written
    <3> QED BY <2>1, <2>2, <3>1, <3>2, <3>4
  <2> QED BY <1>2, <2>2, <2>3
<1>12. CASE InsertDone(e)
  <2> DEFINE r == [NoJob EXCEPT !.at = "canvas", !.scene = j.scene, !.into = s]
  <2>1. /\ r \in Job /\ r.at = "canvas" /\ r.want = "save" /\ r.into = s
        /\ r.scene = j.scene
    BY <1>0, <1>00 DEF Job, Labels
  <2>2. /\ Busy(e) /\ j.at = "insert" /\ UNCHANGED <<canvas, draft>>
        /\ ~ (j.next <= Len(j.form.widgets))
        /\ Finish(e) \/ (Become(e, r) /\ j.want = "save")
    BY <1>12 DEF InsertDone, MoreRows, Busy, At, tables
  <2> HIDE DEF r
  <2>3. CASE Become(e, r) /\ j.want = "save"
    <3>1. job'[e] = r /\ (Saving(e)' => Saving(e))
      BY <1>3, <2>1, <2>2, <2>3
    <3>2. Orderly(r)
      BY <1>1, <2>1, <2>3 DEF Orderly
    <3>3. ASSUME Saving(e) PROVE [canvas |-> canvas[s], widgets |-> draft[s]] \in Form
      <4>1. canvas[s] = j.form.canvas /\ Inserted(draft[s], j.form.widgets, j.next) /\ j.form \in Form
        BY <1>1, <2>2, <3>3 DEF Written
      <4>2. draft[s] = j.form.widgets
        BY <1>0, <2>2, <4>1, InsertedGrows
      <4>3. j.form = [canvas |-> canvas[s], widgets |-> draft[s]]
        BY <1>0, <4>1, <4>2 DEF Snapshot
      <4> QED BY <4>1, <4>3
    <3>4. Saving(e) => Written(r, canvas[s], draft[s])
      BY <2>1, <3>3 DEF Written
    <3> QED BY <2>1, <2>2, <3>1, <3>2, <3>4
  <2> QED BY <1>2, <2>2, <2>3
<1>13. CASE ReadCanvas(e)
  <2> DEFINE r == [j EXCEPT !.form.canvas = canvas[j.scene], !.at = "widgets"]
  <2>0. r \in Job
    BY <1>0, JobType DEF Labels
  <2>1. /\ r.at = "widgets" /\ r.want = j.want /\ r.into = s
        /\ r.form.canvas = canvas[j.scene] /\ r.scene = j.scene
    BY <1>0 DEF Job, Snapshot
  <2>2. /\ Busy(e) /\ j.at = "canvas" /\ UNCHANGED <<canvas, draft>>
        /\ Finish(e) \/ Become(e, r)
    BY <1>13 DEF ReadCanvas, Busy, At, tables
  <2> HIDE DEF r
  <2>3. CASE Become(e, r)
    <3>1. job'[e] = r /\ (Saving(e)' => Saving(e))
      BY <1>3, <2>0, <2>1, <2>2, <2>3
    <3>2. Orderly(r) /\ j.scene = s
      BY <1>1, <2>1, <2>2 DEF Orderly
    <3>3. Saving(e) => Written(r, canvas[s], draft[s])
      BY <1>1, <2>1, <2>2, <3>2 DEF Written
    <3> QED BY <2>1, <2>2, <3>1, <3>2, <3>3
  <2> QED BY <1>2, <2>2, <2>3
<1>14. CASE ReadWidgets(e)
  <2> DEFINE r == [j EXCEPT !.form.widgets = draft[j.scene], !.at = "number"]
  <2>0. r \in Job
    BY <1>0, JobType DEF Labels
  <2>1. /\ r.at = "number" /\ r.want = j.want /\ r.into = s
        /\ r.form = [canvas |-> j.form.canvas, widgets |-> draft[j.scene]]
        /\ r.scene = j.scene
    BY <1>0 DEF Job, Snapshot
  <2>2. /\ Busy(e) /\ j.at = "widgets" /\ UNCHANGED <<canvas, draft>> /\ Become(e, r)
    BY <1>14 DEF ReadWidgets, Busy, At, tables
  <2> HIDE DEF r
  <2>3. job'[e] = r /\ (Saving(e)' => Saving(e))
    BY <1>3, <2>0, <2>1, <2>2
  <2>4. Orderly(r) /\ j.scene = s
    BY <1>1, <2>1, <2>2 DEF Orderly
  <2>5. Saving(e) => Written(r, canvas[s], draft[s])
    BY <1>1, <2>1, <2>2, <2>4 DEF Written
  <2> QED BY <2>1, <2>2, <2>3, <2>4, <2>5
<1>15. CASE InsertVersion(e) \/ ReadMax(e) \/ CopyRows(e)
  <2>1. CASE Finish(e)
    BY <1>2, <2>1
  <2>2. CASE InsertVersion(e) /\ ~ Finish(e)
    <3>1. job'[e] = [j EXCEPT !.form = NoForm, !.at = "max"] /\ j.at = "number"
      BY <1>0, <2>2 DEF InsertVersion, Become, At
    <3>2. /\ job'[e].at = "max" /\ job'[e].want = j.want /\ job'[e].into = s
          /\ job'[e].scene = j.scene
      BY <1>0, <3>1 DEF Job
    <3> QED BY <1>1, <3>1, <3>2 DEF Orderly, Written
  <2>3. CASE ReadMax(e) /\ ~ Finish(e)
    <3>1. job'[e] = [j EXCEPT !.num = Len(versions[j.scene]), !.at = "point"] /\ j.at = "max"
      BY <1>0, <2>3 DEF ReadMax, Become, At
    <3>2. /\ job'[e].at = "point" /\ job'[e].want = j.want /\ job'[e].into = s
          /\ job'[e].scene = j.scene
      BY <1>0, <3>1 DEF Job
    <3> QED BY <1>1, <3>1, <3>2 DEF Orderly, Written
  <2>4. CASE CopyRows(e)
    <3>1. job'[e] = [j EXCEPT !.form.widgets = draft[j.scene], !.at = "insert"] /\ j.at = "rows"
      BY <1>0, <2>4 DEF CopyRows, Become, At
    <3>2. job'[e].at = "insert" /\ job'[e].want = j.want
      BY <1>0, <3>1 DEF Job
    <3>3. j.want # "save"
      BY <1>1, <3>1 DEF Orderly
    <3> QED BY <3>2, <3>3 DEF Orderly, Saving
  <2> QED BY <1>15, <2>1, <2>2, <2>3, <2>4
<1>16. CASE Point(e)
  <2>1. CASE Finish(e)
    BY <1>2, <2>1
  <2>2. CASE ~ Finish(e)
    <3>1. job'[e] = [j EXCEPT !.at = "patch"] /\ j.want = "rollback"
      BY <1>0, <1>16, <2>2 DEF Point, Goto, Become
    <3>2. job'[e].at = "patch" /\ job'[e].want = "rollback"
      BY <1>0, <3>1 DEF Job
    <3> QED BY <3>2 DEF Orderly, Saving
  <2> QED BY <2>1, <2>2
<1>17. CASE Fail(e)
  BY <1>2, <1>17 DEF Fail
<1> QED
  BY <1>4, <1>5, <1>6, <1>7, <1>8, <1>9, <1>10, <1>11, <1>12, <1>13, <1>14, <1>15, <1>16, <1>17
     DEF EditorStep

LEMMA WholeStep ==
  ASSUME PublishInv, WholeInv, [Next]_vars
  PROVE  WholeInv'
<1>0. /\ TypeOK /\ job \in [Editor -> Job]
      /\ status \in [Scene -> {"unborn", "live", "gone"}]
      /\ canvas \in [Scene -> Canvas] /\ draft \in [Scene -> Seq(Widget)]
      /\ versions \in [Scene -> Seq(Snapshot)] /\ RowsOfLive
      /\ \A e \in Editor : job[e].into \in Scene /\ job[e].scene \in Scene
  BY DEF PublishInv, TypeOK, Job
<1>1. Alone /\ Born /\ SavesWhole /\ PublishedWhole
  BY DEF WholeInv
<1>2. ASSUME NEW d \in Editor, job'[d] = job[d], overlapped \subseteq overlapped',
             status'[job[d].into] = "live" => Live(job[d].into),
             Saving(d) => /\ canvas'[job[d].into] = canvas[job[d].into]
                          /\ draft'[job[d].into] = draft[job[d].into]
      PROVE  /\ Orderly(job'[d])
             /\ Saving(d)' => Written(job'[d], canvas'[job'[d].into], draft'[job'[d].into])
  BY <1>1, <1>2 DEF SavesWhole, Saving, Busy, At, Live
<1>3. ASSUME NEW e \in Editor, EditorStep(e) PROVE WholeInv'
  <2>1. /\ \A d \in Editor \ {e} : job'[d] = job[d]
        /\ overlapped \subseteq overlapped'
        /\ \A s \in Scene : \/ status'[s] = status[s]
                            \/ (status[s] = "unborn" /\ status'[s] = "live")
        /\ \A s \in Scene : Live(s) /\ (Busy(e) => s # job[e].into) =>
                               canvas'[s] = canvas[s] /\ draft'[s] = draft[s]
    BY <1>0, <1>3, EditorTouches
  <2>2. Busy(e)' => LET s == job'[e].into IN
                    /\ s \in Scene
                    /\ \/ Busy(e) /\ s = job[e].into
                       \/ /\ status[s] # "unborn"
                          /\ \A d \in Editor \ {e} : Busy(d) /\ job[d].into = s => s \in overlapped'
                       \/ (status[s] = "unborn" /\ status'[s] = "live")
    BY <1>3, EditorTurns
  <2>3. Alone'
    <3> SUFFICES ASSUME NEW c \in Editor, NEW d \in Editor, c # d, Busy(c)', Busy(d)',
                        job'[c].into = job'[d].into
                 PROVE  job'[c].into \in overlapped'
      BY DEF Alone
    <3>1. ASSUME NEW d1 \in Editor \ {e}, Busy(e)', Busy(d1)', job'[e].into = job'[d1].into
          PROVE  job'[e].into \in overlapped'
      <4>1. Busy(d1) /\ job[d1].into = job'[e].into
        BY <2>1, <3>1 DEF Busy, At
      <4>2. status[job[d1].into] # "unborn"
        BY <1>1, <4>1 DEF Born
      <4>3. Busy(e) /\ job'[e].into = job[e].into => job'[e].into \in overlapped
        BY <1>1, <3>1, <4>1 DEF Alone
      <4> QED BY <2>1, <2>2, <3>1, <4>1, <4>2, <4>3
    <3>2. CASE c = e
      BY <3>1, <3>2
    <3>3. CASE d = e
      BY <3>1, <3>3
    <3>4. CASE c # e /\ d # e
      BY <1>1, <2>1, <3>4 DEF Alone, Busy, At
    <3> QED BY <3>2, <3>3, <3>4
  <2>4. Born'
    <3> SUFFICES ASSUME NEW d \in Editor, Busy(d)' PROVE status'[job'[d].into] # "unborn"
      BY DEF Born
    <3>1. CASE d = e
      BY <1>0, <1>1, <2>1, <2>2, <3>1 DEF Born
    <3>2. CASE d # e
      BY <1>0, <1>1, <2>1, <3>2 DEF Born, Busy, At
    <3> QED BY <3>1, <3>2
  <2>5. SavesWhole'
    <3> SUFFICES ASSUME NEW d \in Editor
                 PROVE  /\ Orderly(job'[d])
                        /\ Saving(d)' => Written(job'[d], canvas'[job'[d].into], draft'[job'[d].into])
      BY DEF SavesWhole
    <3>1. CASE d = e
      BY <1>3, <3>1, OwnStep
    <3>2. CASE d # e
      <4>1. Busy(d) /\ status'[job[d].into] = "live" => Live(job[d].into)
        BY <1>0, <1>1, <2>1 DEF Born, Live
      <4>2. Saving(d) => Live(job[d].into) /\ (Busy(e) => job[d].into # job[e].into)
        BY <1>1, <3>2 DEF Saving, Alone
      <4>3. CASE Busy(d)
        BY <1>0, <1>2, <2>1, <3>2, <4>1, <4>2, <4>3
      <4>4. CASE ~ Busy(d)
        BY <1>1, <2>1, <3>2, <4>4 DEF SavesWhole, Saving, Busy, At
      <4> QED BY <4>3, <4>4
    <3> QED BY <3>1, <3>2
  <2>6. PublishedWhole'
    <3>1. CASE InsertVersion(e) /\ versions' # versions
      <4> DEFINE s == job[e].scene
      <4>1. /\ At(e, "number") /\ Live(s) /\ overlapped' = overlapped
            /\ versions' = [versions EXCEPT ![s] = Append(@, job[e].form)]
        BY <3>1 DEF InsertVersion
      <4>2. s = job[e].into /\ (s \notin overlapped => job[e].form \in Form)
        BY <1>1, <4>1 DEF SavesWhole, Orderly, Saving, Written, Busy, At
      <4>3. /\ versions[s] \in Seq(Snapshot) /\ s \in Scene
            /\ versions'[s] = Append(versions[s], job[e].form)
        BY <1>0, <4>1
      <4>4. \A n \in DOMAIN versions'[s] : n \in DOMAIN versions[s] \/ n = Len(versions[s]) + 1
        BY <4>3
      <4>5. /\ \A n \in DOMAIN versions[s] : versions'[s][n] = versions[s][n]
            /\ versions'[s][Len(versions[s]) + 1] = job[e].form
        BY <4>3
      <4>6. \A u \in Scene \ {s} : versions'[u] = versions[u]
        BY <1>0, <4>1
      <4> HIDE DEF s
      <4> QED BY <1>1, <4>1, <4>2, <4>4, <4>5, <4>6 DEF PublishedWhole
    <3>2. CASE versions' = versions
      BY <1>1, <2>1, <3>2 DEF PublishedWhole
    <3>3. InsertVersion(e) \/ versions' = versions
      BY <1>3 DEF EditorStep, Save, Rollback, Duplicate, Begin, CopyScene, Patch, Lookup, Clear,
            InsertRow, InsertDone, ReadCanvas, ReadWidgets, ReadMax, Point, CopyRows, Fail, tables
    <3> QED BY <3>1, <3>2, <3>3
  <2> QED BY <2>3, <2>4, <2>5, <2>6 DEF WholeInv
<1>4. ASSUME UNCHANGED <<job, overlapped>>,
             \A s \in Scene : /\ status[s] # "unborn" => status'[s] # "unborn"
                              /\ status'[s] = "live" => status[s] # "gone"
                              /\ Live(s) /\ status'[s] = "live" =>
                                   canvas'[s] = canvas[s] /\ draft'[s] = draft[s]
                              /\ versions'[s] = versions[s] \/ versions'[s] = << >>
      PROVE  WholeInv'
  <2>1. Alone'
    BY <1>1, <1>4 DEF Alone, Busy, At
  <2>2. Born'
    BY <1>0, <1>1, <1>4 DEF Born, Busy, At
  <2>3. PublishedWhole'
    <3> SUFFICES ASSUME NEW s \in Scene \ overlapped, NEW n \in DOMAIN versions'[s]
                 PROVE  versions'[s][n] \in Form
      BY <1>4 DEF PublishedWhole
    <3>1. versions'[s] # << >>
      OBVIOUS
    <3> QED BY <1>1, <1>4, <3>1 DEF PublishedWhole
  <2>4. SavesWhole'
    <3> SUFFICES ASSUME NEW d \in Editor
                 PROVE  /\ Orderly(job'[d])
                        /\ Saving(d)' => Written(job'[d], canvas'[job'[d].into], draft'[job'[d].into])
      BY DEF SavesWhole
    <3>1. Orderly(job[d]) /\ (Saving(d) => Written(job[d], canvas[job[d].into], draft[job[d].into]))
      BY <1>1 DEF SavesWhole
    <3>2. Saving(d)' => Saving(d) /\ status'[job[d].into] = "live"
      BY <1>0, <1>1, <1>4 DEF Saving, Born, Live, Busy, At
    <3> QED BY <1>0, <1>4, <3>1, <3>2 DEF Saving
  <2> QED BY <2>1, <2>2, <2>3, <2>4 DEF WholeInv
<1>5. ASSUME NEW s \in Scene, NEW f \in Form, CreateScene(s, f.canvas) PROVE WholeInv'
  BY <1>0, <1>4, <1>5 DEF CreateScene, Live, editors
<1>6. ASSUME NEW s \in Scene, DeleteScene(s) PROVE WholeInv'
  BY <1>0, <1>4, <1>6 DEF DeleteScene, Live, editors
<1>7. CASE ListStep \/ UNCHANGED vars \/ \E k \in Kiosk : KioskStep(k)
  <2>1. UNCHANGED <<job, overlapped, status, canvas, draft, versions>>
    BY <1>7 DEF ListStep, PutItems, ClearItems, InsertItem, PutEnds, KioskStep, Resolve,
          Receive, ReadSnapshot, vars, tables, editors
  <2> QED BY <1>0, <1>4, <2>1 DEF Live
<1> QED BY <1>3, <1>5, <1>6, <1>7 DEF Next

\* A version of a scene that no two requests wrote at once is a form an operator sent,
\* whole, for any number of operators, forms and failures.
THEOREM PublishedWholeHolds == Spec => []PublishedWhole
<1>1. Init => WholeInv
  <2>1. Init => \A e \in Editor : job[e] = NoJob
    BY DEF Init
  <2>2. NoJob.at = "idle" /\ NoJob.scene = NoJob.into
    BY DEF NoJob
  <2>3. Init => SavesWhole /\ Alone /\ Born
    BY <2>1, <2>2 DEF SavesWhole, Orderly, Saving, Busy, At, Alone, Born
  <2>4. Init => PublishedWhole
    BY DEF Init, PublishedWhole
  <2> QED BY <2>3, <2>4 DEF WholeInv
<1>2. PublishInv /\ WholeInv /\ [Next]_vars => WholeInv'
  BY WholeStep
<1>3. WholeInv => PublishedWhole
  BY DEF WholeInv
<1> QED BY <1>1, <1>2, <1>3, PublishInvariant, PTL DEF Spec
=============================================================================
