------------------------------ MODULE SceneEditing ------------------------------
(***************************************************************************)
(* The scene editor of the console (admin/pages/SceneEditor.tsx): edits on *)
(* the canvas, and the save, publish and rollback requests with the reload *)
(* that follows a rollback.                                                *)
(*                                                                         *)
(* One operator.  A request takes one step here; SceneContent has its      *)
(* statements and other operators.  The canvas is the stack of widgets in  *)
(* z order; position, size and configuration of one are its look.          *)
(***************************************************************************)
EXTENDS Integers, Sequences, FiniteSets, SequencesExt

CONSTANTS
  Drawing,      \* bound: the stacks of looks the canvas is followed through
  FirstLook,    \* the look of a new widget
  MaxPublished  \* bound: published versions

Look == UNION {ToSet(d) : d \in Drawing}

ASSUME EditingAssumption ==
  /\ IsFiniteSet(Drawing) /\ << >> \in Drawing /\ FirstLook \in Look
  /\ MaxPublished \in Nat

VARIABLES
  canvas,     \* what the editor shows
  saving,     \* save or publish under way: its step, what persist captured, and
              \*   whether publication follows; one at a time (a bound)
  rolling,    \* the version of the rollback under way, or 0
  busy,       \* are the save and publish buttons disabled?
  reloading,  \* the GET of a reload: "none", "asked" or "answered"
  response,   \* what it answered
  draft,      \* the server's draft
  releases,  \* the versions published so far
  dirty,      \* edited since the last load or captured save (history)
  astray      \* since the last rollback made in peace a request failed, or
              \*   requests or reloads overlapped (history)

editingVars == <<canvas, saving, rolling, busy, reloading, response, draft,
                 releases, dirty, astray>>

NoSave == [at |-> "none", widgets |-> << >>, publish |-> FALSE]

EditingTypeOK ==
  /\ canvas \in Drawing /\ draft \in Drawing /\ response \in Drawing
  /\ saving \in [at : {"none", "save", "publish"}, widgets : Drawing,
                 publish : BOOLEAN]
  /\ rolling \in 0 .. MaxPublished
  /\ reloading \in {"none", "asked", "answered"}
  /\ releases \in UNION {[1 .. n -> Drawing] : n \in 0 .. MaxPublished}
  /\ {busy, dirty, astray} \subseteq BOOLEAN

EditingInit ==
  /\ canvas = << >> /\ draft = << >> /\ releases = << >>
  /\ saving = NoSave /\ rolling = 0 /\ busy = FALSE
  /\ reloading = "none" /\ response = << >>
  /\ dirty = FALSE /\ astray = FALSE

-----------------------------------------------------------------------------
(* The canvas. *)

Edit(stack) ==
  /\ stack \in Drawing
  /\ canvas' = stack /\ dirty' = TRUE
  /\ UNCHANGED <<saving, rolling, busy, reloading, response, draft, releases, astray>>

\* addWidget and duplicateWidget put the new one on top of the stack.
AddWidget == Edit(Append(canvas, FirstLook))

DuplicateWidget(i) == i \in DOMAIN canvas /\ Edit(Append(canvas, canvas[i]))

RemoveWidget(i) == i \in DOMAIN canvas /\ Edit(RemoveAt(canvas, i))

\* One step up; one step down is the neighbour's step up.
Reorder(i) ==
  /\ i \in DOMAIN canvas /\ i + 1 \in DOMAIN canvas
  /\ Edit([canvas EXCEPT ![i] = canvas[i + 1], ![i + 1] = canvas[i]])

\* Drag, resize, arrow keys and the forms of a widget that is not locked.  The
\* listeners of a gesture hold the uid of mousedown, so after a reload in between
\* they move nothing.
PatchWidget(i, look) ==
  i \in DOMAIN canvas /\ canvas[i] # look /\ Edit([canvas EXCEPT ![i] = look])

-----------------------------------------------------------------------------
(* Requests. *)

Alone == saving = NoSave /\ rolling = 0 /\ reloading = "none"

\* saveDraft and publish: persist takes what is on the canvas now.
StartSave(publish) ==
  /\ ~busy /\ saving = NoSave
  /\ saving' = [at |-> "save", widgets |-> canvas, publish |-> publish]
  /\ busy' = TRUE /\ dirty' = FALSE
  /\ astray' = (astray \/ ~Alone)
  /\ UNCHANGED <<canvas, rolling, reloading, response, draft, releases>>

\* PATCH, then PUT widgets.  "finally": whichever request ends, the buttons come
\* back.
SaveDone ==
  /\ saving.at = "save"
  /\ draft' = saving.widgets
  /\ IF saving.publish THEN saving' = [saving EXCEPT !.at = "publish"] /\ UNCHANGED busy
                       ELSE saving' = NoSave /\ busy' = FALSE
  /\ UNCHANGED <<canvas, rolling, reloading, response, releases, dirty, astray>>

\* POST publish takes the draft of that moment.
PublishDone ==
  /\ saving.at = "publish" /\ Len(releases) < MaxPublished
  /\ releases' = Append(releases, draft)
  /\ saving' = NoSave /\ busy' = FALSE
  /\ UNCHANGED <<canvas, rolling, reloading, response, draft, dirty, astray>>

\* A call of them fails, before or after its effect on the draft.
SaveFails ==
  /\ saving # NoSave
  /\ draft' \in {draft} \cup IF saving.at = "save" THEN {saving.widgets, << >>} ELSE {}
  /\ saving' = NoSave /\ busy' = FALSE /\ astray' = TRUE
  /\ UNCHANGED <<canvas, rolling, reloading, response, releases, dirty>>

\* The link of a version is there while a save runs, too, and here also beside the
\* version the editor holds for the published one (which the page leaves out).
StartRollback(v) ==
  /\ v \in DOMAIN releases /\ rolling = 0
  /\ rolling' = v /\ busy' = TRUE
  /\ astray' = (astray \/ ~Alone)
  /\ UNCHANGED <<canvas, saving, reloading, response, draft, releases, dirty>>

\* Mutant of RollbackDone: the editor keeps what it shows.
RollbackStays ==
  /\ rolling # 0 /\ rolling' = 0
  /\ draft' = releases[rolling]
  /\ busy' = FALSE /\ dirty' = FALSE
  /\ astray' = (astray /\ ~(saving = NoSave /\ reloading = "none"))
  /\ UNCHANGED <<canvas, saving, reloading, response, releases>>

\* The draft is restored and a reload begins, which nobody waits for.  Unsaved
\* edits are given up ("will be lost").
RollbackDone ==
  /\ rolling # 0 /\ rolling' = 0
  /\ draft' = releases[rolling]
  /\ busy' = FALSE /\ dirty' = FALSE
  /\ reloading' = "asked" /\ response' = << >>
  /\ astray' = (astray /\ ~(saving = NoSave /\ reloading = "none"))
  /\ UNCHANGED <<canvas, saving, releases>>

RollbackFails ==
  /\ rolling # 0 /\ rolling' = 0
  /\ draft' \in {draft, releases[rolling]}
  /\ busy' = FALSE /\ astray' = TRUE
  /\ UNCHANGED <<canvas, saving, reloading, response, releases, dirty>>

SelectDraft ==
  /\ reloading = "asked" /\ reloading' = "answered"
  /\ response' = draft
  /\ UNCHANGED <<canvas, saving, rolling, busy, draft, releases, dirty, astray>>

\* setData, and the effect that rebuilds the canvas: edits made since the
\* rollback are gone too.
Populate ==
  /\ reloading = "answered" /\ reloading' = "none"
  /\ canvas' = response /\ dirty' = FALSE /\ response' = << >>
  /\ UNCHANGED <<saving, rolling, busy, draft, releases, astray>>

ReloadFails ==
  /\ reloading # "none" /\ reloading' = "none" /\ response' = << >>
  /\ astray' = TRUE
  /\ UNCHANGED <<canvas, saving, rolling, busy, draft, releases, dirty>>

EditingNext ==
  \/ AddWidget
  \/ \E i \in DOMAIN canvas :
       \/ DuplicateWidget(i) \/ RemoveWidget(i) \/ Reorder(i)
       \/ \E look \in Look : PatchWidget(i, look)
  \/ (\E publish \in BOOLEAN : StartSave(publish)) \/ SaveDone \/ PublishDone \/ SaveFails
  \/ (\E v \in DOMAIN releases : StartRollback(v)) \/ RollbackDone \/ RollbackFails
  \/ SelectDraft \/ Populate \/ ReloadFails

EditingSpec == EditingInit /\ [][EditingNext]_editingVars

-----------------------------------------------------------------------------
(* Properties. *)

\* An editor at rest without unsaved edits shows the server's draft, so that the
\* next publication brings nothing back that was saved over or rolled back.
\* Failed, overlapping and overtaken requests may part the two; the next
\* rollback that runs undisturbed brings them together again.
EditorShowsDraft ==
  Alone /\ ~dirty /\ ~astray => canvas = draft
=============================================================================
