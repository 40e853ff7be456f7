------------------------------ MODULE ConsoleProofs ------------------------------
(***************************************************************************)
(* Proofs about the console: the forms of a widget, the scene editor, its  *)
(* canvas, the live device list and the command history.                   *)
(***************************************************************************)
EXTENDS SceneEditing, LiveList, CommandHistory, CanvasGeometry, WidgetForms,
        FiniteSetTheorems, TLAPS

-----------------------------------------------------------------------------
(* Sequences. *)

LEMMA IsBounded ==
  ASSUME NEW S, NEW n \in Nat, NEW q
  PROVE  q \in UNION {[1 .. m -> S] : m \in 0 .. n} <=> q \in Seq(S) /\ Len(q) <= n
<1>1. ASSUME NEW m \in 0 .. n, q \in [1 .. m -> S] PROVE q \in Seq(S) /\ Len(q) <= n
  BY <1>1
<1>2. ASSUME q \in Seq(S), Len(q) <= n PROVE q \in [1 .. Len(q) -> S] /\ Len(q) \in 0 .. n
  BY <1>2
<1> QED
  BY <1>1, <1>2

\* What is left after the first one, and the last one before and after.
LEMMA TailKeepsLast ==
  ASSUME NEW S, NEW q \in Seq(S), q # << >>
  PROVE  /\ Tail(q) \in Seq(S) /\ Len(Tail(q)) = Len(q) - 1 /\ Head(q) \in S
         /\ Tail(q) = << >> => Head(q) = q[Len(q)]
         /\ Tail(q) # << >> => Tail(q)[Len(Tail(q))] = q[Len(q)]
<1>1. /\ Len(q) >= 1 /\ Tail(q) \in Seq(S) /\ Len(Tail(q)) = Len(q) - 1
      /\ Head(q) \in S /\ Head(q) = q[1]
  OBVIOUS
<1>2. ASSUME NEW t \in Seq(S) PROVE t = << >> <=> Len(t) = 0
  OBVIOUS
<1>3. Tail(q) = << >> <=> Len(Tail(q)) = 0
  BY <1>1, <1>2, Zenon
<1>4. Len(Tail(q)) # 0 => Tail(q)[Len(Tail(q))] = q[Len(q)]
  BY <1>1
<1> QED
  BY <1>1, <1>3, <1>4

-----------------------------------------------------------------------------
(* WidgetForms. *)

\* No form leaves a blank where validateWidget wants "undefined" or a URL and no
\* warning is given: only the URL of a web page may be blank.
Fits(k, c) == k \in Kind => c.source # "blank" /\ (k = "web" \/ c.url # "blank")

FormsInv ==
  /\ FormsTypeOK
  /\ Fits(edited, settings)
  /\ Fits(kept[1], kept[2])

LEMMA ItemFormKeepsType ==
  ASSUME NEW item \in Item, NEW x \in ItemForm(item)
  PROVE  x \in Item
BY DEF ItemForm, Item, Url, Typed, Amount

LEMMA CarouselFormKeeps ==
  ASSUME NEW c \in Config, NEW d \in CarouselForm(c)
  PROVE  d \in Config /\ d.source = c.source /\ d.url = c.url
<1> DEFINE added == [medium |-> FALSE, url |-> "undefined", dwell |-> "inside"]
<1>1. /\ c.items \in Seq(Item) /\ Len(c.items) <= MaxItems /\ MaxItems \in Nat
      /\ \A q \in Seq(Item) : Len(q) <= MaxItems => q \in BoundedSeq(Item, MaxItems)
  BY IsBounded, FormsAssumption DEF Config, BoundedSeq, SeqOf
<1>2. \A q \in Seq(Item) : Len(q) <= MaxItems => [c EXCEPT !.items = q] \in Config
  BY <1>1 DEF Config
<1>3. PICK q \in Seq(Item) : Len(q) <= MaxItems /\ d = [c EXCEPT !.items = q]
  <2>1. CASE Len(c.items) < MaxItems /\ d = [c EXCEPT !.items = Append(@, added)]
    <3>1. added \in Item
      BY DEF Item, Url, Typed, Amount
    <3>2. Append(c.items, added) \in Seq(Item) /\ Len(Append(c.items, added)) <= MaxItems
      BY <1>1, <2>1, <3>1
    <3> QED
      BY <2>1, <3>2
  <2>2. ASSUME NEW i \in DOMAIN c.items, d = [c EXCEPT !.items = RemoveAt(@, i)]
        PROVE  \E q \in Seq(Item) : Len(q) <= MaxItems /\ d = [c EXCEPT !.items = q]
    <3>1. /\ RemoveAt(c.items, i) \in Seq(Item)
          /\ Len(RemoveAt(c.items, i)) <= MaxItems
      BY <1>1 DEF RemoveAt
    <3> QED
      BY <2>2, <3>1
  <2>3. ASSUME NEW i \in DOMAIN c.items, NEW x \in ItemForm(c.items[i]),
               d = [c EXCEPT !.items[i] = x]
        PROVE  \E q \in Seq(Item) : Len(q) <= MaxItems /\ d = [c EXCEPT !.items = q]
    <3>1. x \in Item
      BY <1>1, ItemFormKeepsType
    <3>2. /\ [c.items EXCEPT ![i] = x] \in Seq(Item)
          /\ Len([c.items EXCEPT ![i] = x]) <= MaxItems
      BY <1>1, <3>1
    <3> QED
      BY <2>3, <3>2
  <2> QED
    BY <2>1, <2>2, <2>3 DEF CarouselForm
<1> QED
  BY <1>2, <1>3 DEF Config

LEMMA FormKeeps ==
  ASSUME NEW k \in Kind \cup Legacy, NEW c \in Config, Fits(k, c),
         NEW d \in WidgetConfigForm(k, c)
  PROVE  d \in Config /\ Fits(k, d)
<1>1. CASE k = "carousel"
  BY <1>1, CarouselFormKeeps DEF WidgetConfigForm, Fits
<1>2. CASE k \in {"image", "video"}
  BY <1>2 DEF WidgetConfigForm, MediumForm, OrUndefined, Typed, Url, Config, Fits, Kind
<1>3. CASE k = "web"
  BY <1>3 DEF WidgetConfigForm, WebForm, NumberField, Typed, Url, Config, Fits
<1>4. CASE k = "text"
  BY <1>4 DEF WidgetConfigForm, TextForm, TextField, SourceField, NumberField, OrUndefined,
              Typed, Url, Config, Fits
<1>5. CASE k = "ticker"
  BY <1>5 DEF WidgetConfigForm, TickerForm, TextField, SourceField, NumberField, OrUndefined,
              Typed, Url, Config, Fits, Kind
<1>6. CASE k \in {"direction", "clock"}
  BY <1>6 DEF WidgetConfigForm, DirectionForm, ClockForm, NumberField, Config, Fits
<1> QED
  BY <1>1, <1>2, <1>3, <1>4, <1>5, <1>6 DEF Kind, Legacy

LEMMA DefaultFits ==
  ASSUME NEW k \in Kind \cup Legacy
  PROVE  DefaultConfig(k) \in Config /\ Fits(k, DefaultConfig(k))
<1>1. << >> \in [1 .. 0 -> Item] /\ 0 \in 0 .. MaxItems
  BY FormsAssumption
<1>2. << >> \in BoundedSeq(Item, MaxItems)
  BY <1>1 DEF BoundedSeq, SeqOf
<1> QED
  BY <1>2 DEF DefaultConfig, Bare, Config, Fits, Url, Typed, Amount

LEMMA FormsInitially == FormsInit => FormsInv
<1>1. Bare \in Config /\ Fits("text", Bare)
  BY DefaultFits DEF DefaultConfig, Kind
<1> QED
  BY <1>1 DEF FormsInit, FormsInv, FormsTypeOK, Kind

LEMMA FormsInductive ==
  ASSUME FormsInv, [FormsNext]_formVars
  PROVE  FormsInv'
<1>1. ASSUME NEW k \in Kind, NewWidget(k) PROVE FormsInv'
  BY <1>1, DefaultFits DEF NewWidget, FormsInv, FormsTypeOK
<1>2. ASSUME NEW k \in Legacy, Migrate(k) PROVE FormsInv'
  BY <1>2, DefaultFits DEF Migrate, FormsInv, FormsTypeOK
<1>3. CASE EditConfig
  BY <1>3, FormKeeps DEF EditConfig, FormsInv, FormsTypeOK
<1>4. CASE SaveWidgets
  BY <1>4 DEF SaveWidgets, FormsInv, FormsTypeOK
<1>5. CASE LoadWidgets
  BY <1>5 DEF LoadWidgets, FormsInv, FormsTypeOK
<1>6. CASE UNCHANGED formVars
  BY <1>6 DEF formVars, FormsInv, FormsTypeOK
<1> QED
  BY <1>1, <1>2, <1>3, <1>4, <1>5, <1>6 DEF FormsNext

\* The forms, the warnings and validateWidget agree, for any limit on the items and
\* carousels of any length: what is not warned of is refused if and only if it is one
\* of the cases of Unsaid.
THEOREM UnwarnedSavesHolds == FormsSpec => []UnwarnedSaves
<1>1. FormsInv => UnwarnedSaves
  <2> SUFFICES ASSUME FormsInv, ~Warned(edited, settings)
               PROVE  Unsaid(edited, settings) <=> ~ValidWidget(edited, settings)
    BY DEF UnwarnedSaves
  <2>1. /\ edited \in Kind \cup Legacy /\ settings \in Config
        /\ edited \in Kind => settings.source # "blank"
        /\ edited \in Kind => (edited = "web" \/ settings.url # "blank")
    BY DEF FormsInv, FormsTypeOK, Fits
  <2>2. ASSUME NEW i \in DOMAIN settings.items PROVE settings.items[i] \in Item
    BY <2>1 DEF Config, BoundedSeq, SeqOf
  <2>3. Len(settings.items) \in Nat
    BY <2>1, IsBounded, FormsAssumption DEF Config, BoundedSeq, SeqOf
  <2>4. ASSUME ~Unsaid(edited, settings) PROVE ValidWidget(edited, settings)
    <3>1. /\ edited \in Kind /\ settings.number = "inside" /\ settings.text = "short"
          /\ ValidUrl(settings.url) /\ ValidUrl(settings.source)
      BY <2>1, <2>4 DEF Config, Url, Typed, Amount, Unsaid, Warned, ValidUrl
    <3>2. ASSUME edited = "carousel", NEW i \in DOMAIN settings.items
          PROVE  ValidItem(settings.items[i])
      BY <2>2, <2>4, <3>2 DEF Item, Url, Typed, Amount, Unsaid, Warned, ValidUrl, ValidItem
    <3>3. edited = "carousel" => settings.items # << >> /\ Len(settings.items) <= ItemLimit
      BY <2>3, <2>4, FormsAssumption DEF Unsaid, Warned
    <3> QED
      BY <3>1, <3>2, <3>3 DEF ValidWidget
  <2>5. ASSUME Unsaid(edited, settings), ValidWidget(edited, settings) PROVE FALSE
    <3>1. /\ edited \in Kind /\ settings.number = "inside" /\ settings.text = "short"
          /\ settings.url \in {"undefined", "http"}
          /\ settings.source \in {"undefined", "http"}
      BY <2>5 DEF ValidWidget, ValidUrl
    <3>2. edited = "carousel" /\ ~(Len(settings.items) > ItemLimit)
      BY <2>3, <2>5, <3>1, FormsAssumption DEF Unsaid, ValidWidget, Kind, Legacy
    <3>3. ASSUME NEW i \in DOMAIN settings.items
          PROVE  /\ settings.items[i].dwell = "inside"
                 /\ settings.items[i].url \in {"undefined", "http"}
      BY <2>5, <3>2 DEF ValidWidget, ValidItem, ValidUrl
    <3> QED
      BY <2>5, <3>1, <3>2, <3>3 DEF Unsaid, Kind, Legacy
  <2> QED
    BY <2>4, <2>5
<1> QED
  BY <1>1, FormsInitially, FormsInductive, PTL DEF FormsSpec

\* The forms keep to their types, for carousels of any length.
THEOREM FormsTypeCorrect == FormsSpec => []FormsTypeOK
<1>1. FormsInv => FormsTypeOK
  BY DEF FormsInv
<1> QED
  BY <1>1, FormsInitially, FormsInductive, PTL DEF FormsSpec

-----------------------------------------------------------------------------
(* SceneEditing. *)

\* Undisturbed, one request is under way at most.
OneAtATime ==
  ~astray =>
    /\ rolling # 0 => saving = NoSave /\ reloading = "none"
    /\ reloading # "none" => saving = NoSave /\ rolling = 0

\* What is captured, restored or loaded at each step of a request, so that the
\* last step of it finds the canvas and the draft equal.
CarriedThrough ==
  ~astray =>
    /\ reloading = "answered" => response = draft
    /\ ~dirty => /\ saving.at = "save" => saving.widgets = canvas
                 /\ saving.at = "publish" => canvas = draft
                 /\ Alone => canvas = draft

EditingInv ==
  /\ EditingTypeOK /\ OneAtATime /\ CarriedThrough
  /\ rolling # 0 => rolling \in DOMAIN releases

\* An edit leaves the requests alone, and what they carry to an edited canvas is
\* not promised.
LEMMA EditKeeps ==
  ASSUME EditingInv, NEW stack, Edit(stack)
  PROVE  EditingInv'
BY DEF EditingInv, EditingTypeOK, OneAtATime, CarriedThrough, Alone, Edit

LEMMA ReleasesGrow ==
  ASSUME EditingTypeOK, Len(releases) < MaxPublished
  PROVE  /\ Append(releases, draft) \in UNION {[1 .. n -> Drawing] : n \in 0 .. MaxPublished}
         /\ \A v \in DOMAIN releases : v \in DOMAIN Append(releases, draft)
<1>1. releases \in Seq(Drawing) /\ draft \in Drawing /\ MaxPublished \in Nat
  BY IsBounded, EditingAssumption DEF EditingTypeOK
<1>2. /\ Append(releases, draft) \in Seq(Drawing)
      /\ Len(Append(releases, draft)) = Len(releases) + 1
      /\ \A v \in DOMAIN releases : v \in DOMAIN Append(releases, draft)
  BY <1>1
<1>3. Len(Append(releases, draft)) <= MaxPublished
  BY <1>1, <1>2
<1> QED
  BY <1>1, <1>2, <1>3, IsBounded, Zenon

LEMMA SaveKeeps ==
  ASSUME EditingInv, (\E publish \in BOOLEAN : StartSave(publish)) \/ SaveDone
                       \/ PublishDone \/ SaveFails
  PROVE  EditingInv'
<1> USE EditingAssumption
<1>1. ASSUME NEW publish \in BOOLEAN, StartSave(publish) PROVE EditingInv'
  <2>1. EditingTypeOK'
    BY <1>1 DEF EditingInv, EditingTypeOK, StartSave
  <2>2. astray' = astray \/ astray' = TRUE
    BY <1>1 DEF EditingInv, EditingTypeOK, StartSave
  <2>3. ~astray' => ~astray /\ Alone
    BY <1>1 DEF EditingInv, EditingTypeOK, StartSave
  <2> QED
    BY <1>1, <2>1, <2>2, <2>3 DEF EditingInv, OneAtATime, CarriedThrough, Alone, NoSave,
              StartSave
<1>2. CASE SaveDone
  <2>1. EditingTypeOK'
    <3>1. saving' \in [at : {"none", "save", "publish"}, widgets : Drawing, publish : BOOLEAN]
      <4>1. saving \in [at : {"none", "save", "publish"}, widgets : Drawing, publish : BOOLEAN]
        BY DEF EditingInv, EditingTypeOK
      <4>2. [saving EXCEPT !.at = "publish"]
              \in [at : {"none", "save", "publish"}, widgets : Drawing, publish : BOOLEAN]
        BY <4>1, Zenon
      <4>3. NoSave \in [at : {"none", "save", "publish"}, widgets : Drawing, publish : BOOLEAN]
        BY EditingAssumption DEF NoSave
      <4> QED
        BY <1>2, <4>2, <4>3 DEF SaveDone
    <3>2. {busy', dirty', astray'} \subseteq BOOLEAN
      BY <1>2 DEF EditingInv, EditingTypeOK, SaveDone, NoSave
    <3> QED
      BY <1>2, <3>1, <3>2 DEF EditingInv, EditingTypeOK, SaveDone
  <2>2. OneAtATime'
    BY <1>2 DEF EditingInv, OneAtATime, NoSave, SaveDone
  <2>3. CarriedThrough'
    BY <1>2 DEF EditingInv, EditingTypeOK, OneAtATime, CarriedThrough, NoSave, SaveDone
  <2> QED
    BY <1>2, <2>1, <2>2, <2>3 DEF EditingInv, SaveDone
<1>3. CASE PublishDone
  <2>1. /\ releases' \in UNION {[1 .. n -> Drawing] : n \in 0 .. MaxPublished}
        /\ \A v \in DOMAIN releases : v \in DOMAIN releases'
    BY <1>3, ReleasesGrow DEF PublishDone, EditingInv
  <2> QED
    BY <1>3, <2>1 DEF EditingInv, EditingTypeOK, OneAtATime, CarriedThrough, Alone,
                      NoSave, PublishDone
<1>4. CASE SaveFails
  BY <1>4 DEF EditingInv, EditingTypeOK, OneAtATime, CarriedThrough, Alone, NoSave,
              SaveFails
<1> QED
  BY <1>1, <1>2, <1>3, <1>4

LEMMA RollbackKeeps ==
  ASSUME EditingInv, (\E v \in DOMAIN releases : StartRollback(v)) \/ RollbackDone
                       \/ RollbackFails
  PROVE  EditingInv'
<1>1. PICK n \in 0 .. MaxPublished : releases \in [1 .. n -> Drawing]
  BY DEF EditingInv, EditingTypeOK
<1>2. ASSUME NEW v \in DOMAIN releases, StartRollback(v) PROVE EditingInv'
  <2>1. v \in 0 .. MaxPublished
    BY <1>1, EditingAssumption
  <2> QED
    BY <1>2, <2>1 DEF EditingInv, EditingTypeOK, OneAtATime, CarriedThrough, Alone,
                      StartRollback
<1>3. CASE RollbackDone
  <2>1. releases[rolling] \in Drawing
    BY <1>1, <1>3 DEF EditingInv, RollbackDone
  <2>2. EditingTypeOK'
    <3>1. {busy', dirty', astray'} \subseteq BOOLEAN
      BY <1>3 DEF EditingInv, EditingTypeOK, RollbackDone
    <3> QED
      BY <1>3, <2>1, <3>1, EditingAssumption DEF EditingInv, EditingTypeOK, RollbackDone
  <2>3. ~astray' => saving' = NoSave /\ rolling' = 0 /\ reloading' = "asked"
    BY <1>3 DEF EditingInv, OneAtATime, RollbackDone
  <2>4. OneAtATime' /\ CarriedThrough'
    BY <2>3 DEF OneAtATime, CarriedThrough, Alone, NoSave
  <2> QED
    BY <1>3, <2>2, <2>4 DEF EditingInv, RollbackDone
<1>4. CASE RollbackFails
  <2>1. releases[rolling] \in Drawing
    BY <1>1, <1>4 DEF EditingInv, RollbackFails
  <2>2. EditingTypeOK'
    <3>1. {busy', dirty', astray'} \subseteq BOOLEAN /\ draft' \in Drawing
      BY <1>4, <2>1 DEF EditingInv, EditingTypeOK, RollbackFails
    <3> QED
      BY <1>4, <3>1, EditingAssumption DEF EditingInv, EditingTypeOK, RollbackFails
  <2>3. astray' = TRUE /\ rolling' = 0
    BY <1>4 DEF RollbackFails
  <2> QED
    BY <2>2, <2>3 DEF EditingInv, OneAtATime, CarriedThrough
<1> QED
  BY <1>2, <1>3, <1>4

LEMMA ReloadKeeps ==
  ASSUME EditingInv, SelectDraft \/ Populate \/ ReloadFails
  PROVE  EditingInv'
<1>1. CASE SelectDraft
  BY <1>1 DEF EditingInv, EditingTypeOK, OneAtATime, CarriedThrough, Alone, SelectDraft
<1>2. CASE Populate
  <2>1. EditingTypeOK'
    BY <1>2, EditingAssumption DEF EditingInv, EditingTypeOK, Populate
  <2>2. OneAtATime'
    BY <1>2 DEF EditingInv, OneAtATime, Populate
  <2>3. CarriedThrough'
    BY <1>2 DEF EditingInv, OneAtATime, CarriedThrough, Alone, NoSave, Populate
  <2> QED
    BY <1>2, <2>1, <2>2, <2>3 DEF EditingInv, Populate
<1>3. CASE ReloadFails
  <2>1. EditingTypeOK'
    BY <1>3, EditingAssumption DEF EditingInv, EditingTypeOK, ReloadFails
  <2> QED
    BY <1>3, <2>1 DEF EditingInv, OneAtATime, CarriedThrough, ReloadFails
<1> QED
  BY <1>1, <1>2, <1>3

LEMMA EditingInitially == EditingInit => EditingInv
<1>1. EditingInit => EditingTypeOK
  <2> SUFFICES ASSUME EditingInit PROVE EditingTypeOK
    OBVIOUS
  <2>1. releases \in [1 .. 0 -> Drawing] /\ 0 \in 0 .. MaxPublished
    BY EditingAssumption DEF EditingInit
  <2>2. releases \in UNION {[1 .. n -> Drawing] : n \in 0 .. MaxPublished}
    BY <2>1
  <2> QED
    BY <2>1, <2>2, EditingAssumption DEF EditingInit, EditingTypeOK, NoSave
<1> QED
  BY <1>1 DEF EditingInit, EditingInv, OneAtATime, CarriedThrough, NoSave

LEMMA EditingInductive ==
  ASSUME EditingInv, [EditingNext]_editingVars
  PROVE  EditingInv'
<1>1. CASE AddWidget
  BY <1>1, EditKeeps DEF AddWidget
<1>2. ASSUME NEW i \in DOMAIN canvas,
             \/ DuplicateWidget(i) \/ RemoveWidget(i) \/ Reorder(i)
             \/ \E look \in Look : PatchWidget(i, look)
      PROVE  EditingInv'
  BY <1>2, EditKeeps DEF DuplicateWidget, RemoveWidget, Reorder, PatchWidget
<1>3. CASE UNCHANGED editingVars
  BY <1>3 DEF editingVars, EditingInv, EditingTypeOK, OneAtATime, CarriedThrough, Alone
<1> QED
  BY <1>1, <1>2, <1>3, SaveKeeps, RollbackKeeps, ReloadKeeps DEF EditingNext

\* At rest and without unsaved edits the editor shows the draft of the server, for
\* stacks of any looks and heights and any number of versions.
THEOREM EditorShowsDraftHolds == EditingSpec => []EditorShowsDraft
<1>1. EditingInv => EditorShowsDraft
  BY DEF EditingInv, CarriedThrough, EditorShowsDraft
<1> QED
  BY <1>1, EditingInitially, EditingInductive, PTL DEF EditingSpec

\* The scene editor keeps to its types, for any stacks and any number of versions.
THEOREM EditingTypeCorrect == EditingSpec => []EditingTypeOK
<1>1. EditingInv => EditingTypeOK
  BY DEF EditingInv
<1> QED
  BY <1>1, EditingInitially, EditingInductive, PTL DEF EditingSpec

-----------------------------------------------------------------------------
(* LiveList. *)

\* Where the newest status is: the last frame on the socket, and when there is
\* none, in every response and on the page, or in an answer yet to come.
Arriving ==
  /\ inbox # << >> => inbox[Len(inbox)] = row
  /\ inbox = << >> => /\ \A g \in Getter : getting[g] \in Shown => getting[g] = row
                      /\ list = row \/ \E g \in Getter : getting[g] # "none"

\* The type invariant with the frames as a sequence and their number apart.
LiveTyped ==
  /\ row \in Shown /\ list \in Shown \cup {"none"}
  /\ posting \in [Poster -> Pushed \cup {"none"}]
  /\ stream \in BOOLEAN /\ missed \in BOOLEAN
  /\ inbox \in Seq(Pushed) /\ Len(inbox) <= MaxFrames
  /\ getting \in [Getter -> Shown \cup {"none", NoAnswer}]

LiveInv ==
  /\ LiveTyped
  /\ ~stream => missed /\ inbox = << >>
  /\ ~missed =>
       /\ list = "none" => \E g \in Getter : getting[g] # "none"
       /\ Arriving \/ \E p \in Poster : posting[p] = row

LEMMA ServerKeeps ==
  ASSUME LiveInv, NEW p \in Poster,
         (\E st \in Pushed : WriteAndPush(p, st)) \/ Broadcast(p) \/ BroadcastFails(p)
  PROVE  LiveInv'
<1>1. LiveTyped
  BY DEF LiveInv
<1>2. ASSUME NEW st \in Pushed, WriteAndPush(p, st) PROVE LiveInv'
  <2>1. /\ LiveTyped' /\ row' = st /\ posting'[p] = row'
        /\ UNCHANGED <<stream, inbox, getting, list, missed>>
    BY <1>1, <1>2 DEF LiveTyped, WriteAndPush, Shown
  <2> QED
    BY <2>1 DEF LiveInv
<1>3. CASE Broadcast(p)
  <2>1. posting[p] \in Pushed /\ Append(inbox, posting[p]) \in Seq(Pushed)
    BY <1>1, <1>3 DEF LiveTyped, Broadcast
  <2>2. /\ Len(Append(inbox, posting[p])) = Len(inbox) + 1
        /\ Append(inbox, posting[p]) # << >>
        /\ Append(inbox, posting[p])[Len(inbox) + 1] = posting[p]
    BY <1>1, <2>1 DEF LiveTyped
  <2>3. missed' \in BOOLEAN
    BY <1>1, <1>3 DEF LiveTyped, Broadcast
  <2>4. LiveTyped'
    BY <1>1, <1>3, <2>1, <2>2, <2>3, LiveListAssumption DEF LiveTyped, Broadcast
  <2>5. ~stream => missed' /\ inbox' = << >>
    BY <1>3 DEF Broadcast, LiveInv
  <2>6. ~missed' => ~missed /\ stream /\ posting[p] = row
    BY <1>3 DEF Broadcast
  <2>7. ~missed' => Arriving'
    BY <1>3, <2>2, <2>6 DEF Broadcast, Arriving
  <2> QED
    BY <1>3, <2>4, <2>5, <2>6, <2>7 DEF Broadcast, LiveInv
<1>4. CASE BroadcastFails(p)
  <2>1. LiveTyped' /\ missed' = TRUE /\ UNCHANGED <<stream, inbox>>
    BY <1>1, <1>4 DEF LiveTyped, BroadcastFails
  <2> QED
    BY <2>1 DEF LiveInv
<1> QED
  BY <1>2, <1>3, <1>4

\* What a step of a GET does to it.
LEMMA GetMoves ==
  ASSUME LiveTyped, NEW g \in Getter, NEW a \in Shown \cup {"none", NoAnswer},
         getting' = [getting EXCEPT ![g] = a]
  PROVE  /\ getting' \in [Getter -> Shown \cup {"none", NoAnswer}]
         /\ getting'[g] = a
         /\ \A h \in Getter \ {g} : getting'[h] = getting[h]
BY DEF LiveTyped

LEMMA BrowserKeeps ==
  ASSUME LiveInv, NEW g \in Getter,
         Load(g) \/ StreamOpens(g) \/ Select(g) \/ Response(g) \/ GetFails(g)
  PROVE  LiveInv'
<1>1. LiveTyped
  BY DEF LiveInv
<1>2. ASSUME Load(g) PROVE LiveInv'
  <2>1. /\ getting' \in [Getter -> Shown \cup {"none", NoAnswer}]
        /\ getting'[g] = NoAnswer
        /\ \A h \in Getter \ {g} : getting'[h] = getting[h]
    BY <1>1, <1>2, GetMoves DEF Load
  <2>2. LiveTyped' /\ UNCHANGED <<row, posting, stream, inbox, list, missed>>
    BY <1>1, <1>2, <2>1 DEF Load, LiveTyped
  <2>3. NoAnswer # "none" /\ NoAnswer \notin Shown
    BY DEF NoAnswer, Shown, Pushed
  <2> QED
    BY <2>1, <2>2, <2>3 DEF LiveInv, Arriving
<1>3. CASE StreamOpens(g)
  <2>1. /\ getting' \in [Getter -> Shown \cup {"none", NoAnswer}]
        /\ getting'[g] = NoAnswer
        /\ \A h \in Getter \ {g} : getting'[h] = getting[h]
    BY <1>1, <1>3, GetMoves DEF StreamOpens
  <2>2. missed' \in BOOLEAN /\ stream' = TRUE
    BY <1>3 DEF StreamOpens
  <2>3. LiveTyped' /\ UNCHANGED <<row, posting, inbox, list>>
    BY <1>1, <1>3, <2>1, <2>2 DEF StreamOpens, LiveTyped
  <2>4. inbox' = << >> /\ (~missed' => \A h \in Getter : getting[h] = "none")
    BY <1>3 DEF StreamOpens, LiveInv
  <2>5. NoAnswer # "none" /\ NoAnswer \notin Shown /\ "none" \notin Shown
    BY DEF NoAnswer, Shown, Pushed
  <2>6. ~missed' => Arriving'
    BY <2>1, <2>4, <2>5 DEF Arriving
  <2> QED
    BY <2>1, <2>2, <2>3, <2>5, <2>6 DEF LiveInv
<1>4. CASE Select(g)
  <2>1. /\ getting' \in [Getter -> Shown \cup {"none", NoAnswer}]
        /\ getting'[g] = row /\ row # "none"
        /\ \A h \in Getter \ {g} : getting'[h] = getting[h]
    BY <1>1, <1>4, GetMoves DEF Select, LiveTyped, Shown, Pushed
  <2>2. LiveTyped' /\ UNCHANGED <<row, posting, stream, inbox, list, missed>>
    BY <1>1, <1>4, <2>1 DEF Select, LiveTyped
  <2> QED
    BY <2>1, <2>2 DEF LiveInv, Arriving
<1>5. CASE Response(g)
  <2>1. /\ getting' \in [Getter -> Shown \cup {"none", NoAnswer}]
        /\ getting'[g] = "none"
        /\ \A h \in Getter \ {g} : getting'[h] = getting[h]
    BY <1>1, <1>5, GetMoves DEF Response
  <2>2. /\ LiveTyped' /\ UNCHANGED <<row, posting, stream, inbox, missed>>
        /\ list' = getting[g] /\ list' # "none" /\ getting[g] \in Shown
    BY <1>1, <1>5, <2>1 DEF Response, LiveTyped, Shown, Pushed
  <2>3. "none" \notin Shown
    BY DEF Shown, Pushed
  <2> QED
    BY <2>1, <2>2, <2>3 DEF LiveInv, Arriving
<1>6. CASE GetFails(g)
  <2>1. getting' \in [Getter -> Shown \cup {"none", NoAnswer}]
    BY <1>1, <1>6, GetMoves DEF GetFails
  <2>2. LiveTyped' /\ missed' = TRUE /\ UNCHANGED <<stream, inbox>>
    BY <1>1, <1>6, <2>1 DEF GetFails, LiveTyped
  <2> QED
    BY <2>2 DEF LiveInv
<1> QED
  BY <1>2, <1>3, <1>4, <1>5, <1>6

LEMMA FrameKeeps ==
  ASSUME LiveInv, Frame
  PROVE  LiveInv'
<1>1. /\ LiveTyped /\ Tail(inbox) \in Seq(Pushed) /\ Len(Tail(inbox)) = Len(inbox) - 1
      /\ Head(inbox) \in Pushed
      /\ Tail(inbox) = << >> => Head(inbox) = inbox[Len(inbox)]
      /\ Tail(inbox) # << >> => Tail(inbox)[Len(Tail(inbox))] = inbox[Len(inbox)]
  BY TailKeepsLast DEF Frame, LiveInv, LiveTyped
<1>2. missed' \in BOOLEAN
  BY <1>1 DEF Frame, LiveTyped
<1>3. LiveTyped'
  BY <1>1, <1>2, LiveListAssumption DEF Frame, LiveTyped, Shown
<1>4. ~missed' => ~missed /\ \A g \in Getter : getting[g] \notin Shown
  BY DEF Frame
<1>5. stream
  BY DEF Frame, LiveInv
<1>6. ~missed' /\ Arriving => Arriving'
  BY <1>1, <1>4 DEF Frame, Arriving, LiveInv
<1>7. list' = "none" => list = "none"
  BY <1>1 DEF Frame, Pushed
<1> QED
  BY <1>3, <1>4, <1>5, <1>6, <1>7 DEF Frame, LiveInv

LEMMA LiveInitially == LiveInit => LiveInv
<1>1. << >> \in Seq(Pushed) /\ Len(<< >>) <= MaxFrames
  BY LiveListAssumption
<1> QED
  BY <1>1 DEF LiveInit, LiveInv, LiveTyped, Shown, Pushed

LEMMA LiveInductive ==
  ASSUME LiveInv, [LiveNext]_liveVars
  PROVE  LiveInv'
<1>1. ASSUME NEW st \in {"online", "warning"}, WriteSilently(st) PROVE LiveInv'
  <2>1. LiveTyped' /\ missed' = TRUE /\ UNCHANGED <<stream, inbox>>
    BY <1>1 DEF WriteSilently, LiveInv, LiveTyped, Shown, Pushed
  <2> QED
    BY <2>1 DEF LiveInv
<1>2. CASE StreamCloses
  <2>1. << >> \in Seq(Pushed) /\ Len(<< >>) <= MaxFrames
    BY LiveListAssumption
  <2>2. LiveTyped' /\ missed' = TRUE /\ inbox' = << >>
    BY <1>2, <2>1 DEF StreamCloses, LiveInv, LiveTyped
  <2> QED
    BY <2>2 DEF LiveInv
<1>3. CASE UNCHANGED liveVars
  BY <1>3 DEF liveVars, LiveInv, LiveTyped, Arriving
<1> QED
  BY <1>1, <1>2, <1>3, ServerKeeps, BrowserKeeps, FrameKeeps DEF LiveNext

\* Once everything on its way has arrived on an open stream and nothing was missed
\* since it opened, the list is the truth: for any number of writers and requests
\* and any number of frames in the socket.
THEOREM ListTruthfulHolds == LiveSpec => []ListTruthful
<1>1. LiveInv => ListTruthful
  BY DEF LiveInv, LiveTyped, Shown, Pushed, Arriving, ListTruthful
<1> QED
  BY <1>1, LiveInitially, LiveInductive, PTL DEF LiveSpec

\* The list keeps to its types, for any number of writers, requests and frames.
THEOREM LiveTypeCorrect == LiveSpec => []LiveTypeOK
<1>1. LiveInv => LiveTypeOK
  BY IsBounded, LiveListAssumption DEF LiveInv, LiveTyped, LiveTypeOK
<1> QED
  BY <1>1, LiveInitially, LiveInductive, PTL DEF LiveSpec

-----------------------------------------------------------------------------
(* CommandHistory. *)

\* A GET is yet to be sent or to be answered.
Coming == timers # {} \/ deleting # 0 \/ \E p \in Page : asked[p] # 0

\* An answer says what a SELECT would say now.
Matches(a) ==
  /\ a.rows = Listed(a.page).rows
  /\ told \cap a.rows \subseteq a.done

\* What was announced is done.
ToldDone == \A c \in told : command[c] = "done"

\* With no GET to come, the last answer that waits, and when none waits the table,
\* say what a SELECT would say now.
LastMatches ==
  /\ ~Coming /\ answers # << >> =>
       answers[Len(answers)].late \/ Matches(answers[Len(answers)])
  /\ ~Coming /\ answers = << >> /\ ~unsure => table.page = page /\ Matches(table)

HistoryInv == HistoryTypeOK /\ ToldDone /\ LastMatches

LEMMA HistoryBounds ==
  /\ MaxIssued \in Nat /\ MaxIssued >= 1 /\ PageSize \in Nat /\ PageSize >= 1
  /\ BatchLimit \in Nat /\ MaxGets \in Nat /\ Earlier \subseteq Id
BY HistoryAssumption DEF Id

LEMMA TableRowsCounted ==
  Cardinality(Rows) \in 0 .. MaxIssued /\ Rows \subseteq Id
<1>1. IsFiniteSet(Id) /\ Cardinality(Id) = MaxIssued
  BY FS_Interval, HistoryBounds DEF Id
<1>2. Rows \in SUBSET Id
  BY DEF Rows
<1> QED
  BY <1>1, <1>2, FS_Subset, FS_CardinalityType, HistoryBounds

LEMMA PagesNeeded ==
  ASSUME NEW n \in 0 .. MaxIssued
  PROVE  (n + PageSize - 1) \div PageSize \in 0 .. MaxIssued
<1> DEFINE q == (n + PageSize - 1) \div PageSize
<1>1. n \in Nat /\ n <= MaxIssued /\ MaxIssued \in Nat /\ PageSize \in Nat /\ PageSize >= 1
  BY HistoryBounds
<1>2. q \in Int /\ PageSize * q <= n + PageSize - 1 /\ n + PageSize - 1 < PageSize * q + PageSize
  BY <1>1, Z3
<1> HIDE DEF q
<1>3. q >= 0
  BY <1>1, <1>2
<1>4. q <= n
  BY <1>1, <1>2
<1> QED
  BY <1>1, <1>2, <1>3, <1>4 DEF q

LEMMA ListedTyped ==
  ASSUME NEW p \in Page
  PROVE  Listed(p) \in PageAnswer /\ Listed(p).page = p /\ ~Listed(p).late
<1> DEFINE rows_ == {c \in Rows : Cardinality(Newer(c)) \in (p - 1) * PageSize .. p * PageSize - 1}
           full == (Cardinality(Rows) + PageSize - 1) \div PageSize
<1>1. rows_ \in SUBSET Id /\ {c \in rows_ : command[c] = "done"} \in SUBSET Id
  BY DEF Rows
<1>2. (IF full = 0 THEN 1 ELSE full) \in Page
  BY TableRowsCounted, PagesNeeded, HistoryBounds DEF Page
<1> HIDE DEF rows_, full
<1>3. [page |-> p, rows |-> rows_, done |-> {c \in rows_ : command[c] = "done"},
       pages |-> IF full = 0 THEN 1 ELSE full, late |-> FALSE] \in PageAnswer
  BY <1>1, <1>2 DEF PageAnswer
<1> QED
  BY <1>3 DEF Listed, rows_, full

\* The GETs under way, one pair for each.
Sent(f) == {t \in Page \X (1 .. MaxGets) : t[2] <= f[t[1]]}

LEMMA SentFinite ==
  ASSUME NEW f \in [Page -> 0 .. MaxGets]
  PROVE  IsFiniteSet(Sent(f))
<1>1. IsFiniteSet(Page) /\ IsFiniteSet(1 .. MaxGets)
  BY FS_Interval, HistoryBounds DEF Page
<1>2. IsFiniteSet(Page \X (1 .. MaxGets))
  BY <1>1, FS_Product
<1>3. Sent(f) \in SUBSET (Page \X (1 .. MaxGets))
  BY DEF Sent
<1> QED
  BY <1>2, <1>3, FS_Subset

LEMMA SentMore ==
  ASSUME NEW f \in [Page -> 0 .. MaxGets], NEW p \in Page, f[p] < MaxGets,
         NEW g, g = [f EXCEPT ![p] = @ + 1]
  PROVE  /\ g \in [Page -> 0 .. MaxGets] /\ IsFiniteSet(Sent(f))
         /\ Cardinality(Sent(g)) = Cardinality(Sent(f)) + 1
<1>2. IsFiniteSet(Sent(f))
  BY SentFinite
<1>3. g \in [Page -> 0 .. MaxGets] /\ g[p] = f[p] + 1 /\ \A r \in Page \ {p} : g[r] = f[r]
  BY HistoryBounds
<1>4. f[p] + 1 \in 1 .. MaxGets
  BY HistoryBounds
<1>5. <<p, f[p] + 1>> \notin Sent(f)
  BY <1>4 DEF Sent
<1>6. Sent(g) = Sent(f) \cup {<<p, f[p] + 1>>}
  <2>1. ASSUME NEW r \in Page, NEW n \in 1 .. MaxGets
        PROVE  n <= g[r] <=> n <= f[r] \/ <<r, n>> = <<p, f[p] + 1>>
    BY <1>3, HistoryBounds
  <2> QED
    BY <1>4, <2>1 DEF Sent
<1> QED
  BY <1>2, <1>3, <1>5, <1>6, FS_AddElement

LEMMA SentFull ==
  ASSUME NEW f \in [Page -> 0 .. MaxGets], NEW p \in Page
  PROVE  /\ Cardinality(Sent(f)) \in Nat /\ f[p] <= Cardinality(Sent(f))
<1>2. IsFiniteSet(Sent(f))
  BY SentFinite
<1>3. {p} \X (1 .. f[p]) \in SUBSET Sent(f)
  BY HistoryBounds DEF Sent
<1>4. Cardinality({p} \X (1 .. f[p])) = f[p]
  <2>1. IsFiniteSet({p}) /\ Cardinality({p}) = 1
    BY FS_Singleton
  <2>2. IsFiniteSet(1 .. f[p]) /\ Cardinality(1 .. f[p]) = f[p] /\ f[p] \in Nat
    BY FS_Interval, HistoryBounds
  <2>3. Cardinality({p} \X (1 .. f[p])) = Cardinality({p}) * Cardinality(1 .. f[p])
    BY <2>1, <2>2, FS_Product
  <2> QED
    BY <2>1, <2>2, <2>3
<1> QED
  BY <1>2, <1>3, <1>4, FS_Subset, FS_CardinalityType

\* The part of the type invariant that counts the GETs.
Queued ==
  /\ asked \in [Page -> 0 .. MaxGets] /\ answers \in Seq(PageAnswer)
  /\ Gets <= MaxGets

LEMMA GetQueued ==
  ASSUME Queued, NEW p \in Page, Get(p), UNCHANGED answers
  PROVE  Queued' /\ asked'[p] # 0
<1>1. /\ asked \in [Page -> 0 .. MaxGets] /\ Len(answers) \in Nat
      /\ Len(answers) + Cardinality(Sent(asked)) < MaxGets
  BY DEF Queued, Get, Gets, Sent
<1>2. asked[p] < MaxGets
  BY <1>1, SentFull, HistoryBounds
<1>3. /\ asked' \in [Page -> 0 .. MaxGets]
      /\ Cardinality(Sent(asked')) = Cardinality(Sent(asked)) + 1
  BY <1>1, <1>2, SentMore DEF Get
<1>4. asked'[p] # 0
  BY <1>1 DEF Get
<1>5. Len(answers) + Cardinality(Sent(asked')) <= MaxGets
  BY <1>1, <1>3, SentFull, HistoryBounds
<1> QED
  BY <1>3, <1>4, <1>5 DEF Queued, Gets, Sent

\* A GET that leaves: one less before its SELECT.
LEMMA Leaves ==
  ASSUME Queued, NEW p \in Page, asked[p] > 0, asked' = [asked EXCEPT ![p] = @ - 1]
  PROVE  /\ asked' \in [Page -> 0 .. MaxGets]
         /\ Len(answers) + Cardinality(Sent(asked')) + 1 <= MaxGets
<1>1. /\ asked \in [Page -> 0 .. MaxGets] /\ Len(answers) \in Nat
      /\ Len(answers) + Cardinality(Sent(asked)) <= MaxGets
  BY DEF Queued, Gets, Sent
<1>2. asked' \in [Page -> 0 .. MaxGets] /\ asked'[p] < MaxGets
  BY <1>1, HistoryBounds
<1>3. asked = [asked' EXCEPT ![p] = @ + 1]
  <2>1. asked'[p] + 1 = asked[p] /\ \A r \in Page \ {p} : asked'[r] = asked[r]
    BY <1>1, HistoryBounds
  <2>2. \A r \in Page : [asked' EXCEPT ![p] = @ + 1][r] = asked[r]
    BY <1>2, <2>1
  <2> QED
    BY <1>1, <1>2, <2>2
<1>4. Cardinality(Sent(asked)) = Cardinality(Sent(asked')) + 1
  BY <1>2, <1>3, SentMore
<1>5. Cardinality(Sent(asked')) \in Nat
  BY <1>2, SentFull
<1> QED
  BY <1>1, <1>2, <1>4, <1>5, HistoryBounds

LEMMA OutdatedLate ==
  ASSUME answers \in Seq(PageAnswer)
  PROVE  /\ Outdated \in Seq(PageAnswer) /\ Len(Outdated) = Len(answers)
         /\ Outdated # << >> => Outdated[Len(Outdated)].late
<1>1. \A i \in DOMAIN answers : [answers[i] EXCEPT !.late = TRUE] \in PageAnswer
                                /\ [answers[i] EXCEPT !.late = TRUE].late
  <2>1. \A a \in PageAnswer : [a EXCEPT !.late = TRUE] \in PageAnswer
    BY Zenon DEF PageAnswer
  <2>2. \A a \in PageAnswer : [a EXCEPT !.late = TRUE].late
    BY DEF PageAnswer
  <2> QED
    BY <2>1, <2>2
<1>2. \A i \in DOMAIN answers : Outdated[i] \in PageAnswer /\ Outdated[i].late
  BY <1>1 DEF Outdated
<1>3. /\ DOMAIN answers = 1 .. Len(answers) /\ Len(answers) \in Nat
      /\ Outdated = [i \in DOMAIN answers |-> Outdated[i]]
  BY DEF Outdated
<1>4. Outdated \in Seq(PageAnswer) /\ Len(Outdated) = Len(answers)
  BY <1>2, <1>3
<1>5. Outdated # << >> => Len(Outdated) \in DOMAIN answers
  BY <1>3, <1>4
<1> QED
  BY <1>2, <1>4, <1>5

\* The rest of the type invariant.
RowsTyped ==
  /\ command \in [Id -> {"none", "open", "done", "gone"}]
  /\ page \in Page /\ table \in PageAnswer
  /\ timers \subseteq Page /\ watch \in [Id -> Page \cup {0}]
  /\ told \subseteq Id /\ unsure \in BOOLEAN
  /\ deleting \in Page \cup {0}

LEMMA HistoryParts ==
  ASSUME HistoryInv
  PROVE  RowsTyped /\ Queued /\ ToldDone
BY DEF HistoryInv, HistoryTypeOK, RowsTyped, Queued, Rows

\* A step after which a GET is still to come has nothing else to keep.
LEMMA ComingKeeps ==
  ASSUME RowsTyped', Queued', ToldDone', Coming'
  PROVE  HistoryInv'
<1>1. told' \subseteq Rows'
  BY DEF RowsTyped, ToldDone, Rows
<1> QED
  BY <1>1 DEF HistoryInv, HistoryTypeOK, LastMatches, RowsTyped, Queued

\* Nor has one that disclaims every answer so far.
LEMMA UnsureKeeps ==
  ASSUME RowsTyped', asked' \in [Page -> 0 .. MaxGets], answers \in Seq(PageAnswer),
         Len(answers) + Cardinality(Sent(asked')) <= MaxGets,
         ToldDone', GoUnsure
  PROVE  HistoryInv'
<1>1. told' \subseteq Rows'
  BY DEF RowsTyped, ToldDone, Rows
<1>2. /\ answers' \in Seq(PageAnswer) /\ Len(answers') = Len(answers)
      /\ answers' # << >> => answers'[Len(answers')].late
      /\ unsure' = TRUE
  BY OutdatedLate DEF GoUnsure
<1>3. Gets' <= MaxGets
  BY <1>2 DEF Gets, Sent
<1>4. HistoryTypeOK'
  BY <1>1, <1>2, <1>3 DEF HistoryTypeOK, RowsTyped
<1>5. LastMatches'
  BY <1>2 DEF LastMatches
<1> QED
  BY <1>4, <1>5 DEF HistoryInv

\* And one that leaves the rows, the answers and the table alone keeps them equal.
LEMMA StillMatches ==
  ASSUME HistoryInv, RowsTyped', ToldDone', Rows' = Rows,
         UNCHANGED <<page, table, asked, answers, timers, told, deleting, unsure>>
  PROVE  HistoryInv'
<1>1. told' \subseteq Rows'
  BY DEF RowsTyped, ToldDone, Rows
<1>2. Gets' = Gets
  BY DEF Gets
<1>3. HistoryTypeOK'
  BY <1>1, <1>2 DEF HistoryTypeOK, RowsTyped, HistoryInv
<1>4. \A p : Listed(p)'.rows = Listed(p).rows
  BY DEF Listed, Newer
<1>5. \A a : Matches(a)' <=> Matches(a)
  BY <1>4 DEF Matches
<1>6. LastMatches'
  BY <1>5 DEF HistoryInv, LastMatches, Coming
<1> QED
  BY <1>3, <1>6 DEF HistoryInv

LEMMA CommandMoves ==
  ASSUME RowsTyped, NEW c \in Id, NEW v \in {"open", "done", "gone"},
         command' = [command EXCEPT ![c] = v]
  PROVE  /\ command' \in [Id -> {"none", "open", "done", "gone"}]
         /\ command'[c] = v
         /\ \A d \in Id \ {c} : command'[d] = command[d]
BY DEF RowsTyped

LEMMA CommandKeeps ==
  ASSUME HistoryInv, NEW c \in Id,
         RunCommand(c) \/ RunFails(c) \/ Elsewhere(c) \/ Acked(c)
  PROVE  HistoryInv'
<1>1. RowsTyped /\ Queued /\ ToldDone
  BY HistoryParts
<1>2. CASE RunCommand(c)
  <2>1. /\ command' \in [Id -> {"none", "open", "done", "gone"}]
        /\ \A d \in Id \ {c} : command'[d] = command[d]
    BY <1>1, <1>2, CommandMoves DEF RunCommand
  <2>2. RowsTyped'
    BY <1>1, <1>2, <2>1 DEF RowsTyped, RunCommand
  <2>3. ToldDone'
    BY <1>1, <1>2, <2>1 DEF ToldDone, RowsTyped, RunCommand
  <2>4. Queued'
    BY <1>1, <1>2 DEF Queued, Gets, RunCommand
  <2>5. Coming'
    BY <1>2 DEF Coming, RunCommand
  <2> QED
    BY <2>2, <2>3, <2>4, <2>5, ComingKeeps
<1>3. CASE RunFails(c) \/ Elsewhere(c)
  <2>1. PICK v \in {"open", "gone"} : command' = [command EXCEPT ![c] = v]
    BY <1>3 DEF RunFails, Elsewhere
  <2>2. /\ command' \in [Id -> {"none", "open", "done", "gone"}]
        /\ \A d \in Id \ {c} : command'[d] = command[d]
    BY <1>1, <2>1, CommandMoves
  <2>3. /\ GoUnsure /\ UNCHANGED <<page, table, asked, timers, watch, deleting>>
        /\ told' \subseteq told /\ (c \in told' => command[c] = "none")
    BY <1>3 DEF RunFails, Elsewhere
  <2>4. unsure' \in BOOLEAN
    BY <2>3 DEF GoUnsure
  <2>5. RowsTyped'
    BY <1>1, <2>2, <2>3, <2>4 DEF RowsTyped
  <2>6. ToldDone'
    BY <1>1, <2>2, <2>3 DEF ToldDone, RowsTyped
  <2>7. /\ asked' \in [Page -> 0 .. MaxGets] /\ answers \in Seq(PageAnswer)
        /\ Len(answers) + Cardinality(Sent(asked')) <= MaxGets
    BY <1>1, <2>3 DEF Queued, Gets, Sent
  <2> QED
    BY <2>3, <2>5, <2>6, <2>7, UnsureKeeps
<1>4. CASE Acked(c)
  <2>1. /\ command' \in [Id -> {"none", "open", "done", "gone"}]
        /\ command'[c] = "done" /\ command[c] = "open"
        /\ \A d \in Id \ {c} : command'[d] = command[d]
    BY <1>1, <1>4, CommandMoves DEF Acked
  <2>2. RowsTyped'
    BY <1>1, <1>4, <2>1 DEF RowsTyped, Acked
  <2>3. ToldDone'
    BY <1>1, <1>4, <2>1 DEF ToldDone, RowsTyped, Acked
  <2>4. Rows' = Rows
    BY <2>1 DEF Rows
  <2> QED
    BY <1>4, <2>2, <2>3, <2>4, StillMatches DEF Acked
<1> QED
  BY <1>2, <1>3, <1>4

LEMMA WatchKeeps ==
  ASSUME HistoryInv, NEW c \in Id, WatchTells(c) \/ WatchEnds(c)
  PROVE  HistoryInv'
<1>1. RowsTyped /\ Queued /\ ToldDone
  BY HistoryParts
<1>2. watch' \in [Id -> Page \cup {0}] /\ command' = command
  BY <1>1 DEF RowsTyped, WatchTells, WatchEnds
<1>3. CASE WatchTells(c)
  <2>1. watch[c] \in Page
    BY <1>1, <1>3 DEF RowsTyped, WatchTells
  <2>2. Queued' /\ asked'[watch[c]] # 0
    BY <1>1, <1>3, <2>1, GetQueued DEF WatchTells
  <2>3. Coming'
    BY <2>1, <2>2 DEF Coming
  <2>4. RowsTyped' /\ ToldDone'
    BY <1>1, <1>2, <1>3 DEF RowsTyped, ToldDone, WatchTells
  <2> QED
    BY <2>2, <2>3, <2>4, ComingKeeps
<1>4. CASE WatchEnds(c)
  <2>1. RowsTyped' /\ ToldDone' /\ Rows' = Rows
    BY <1>1, <1>2, <1>4 DEF RowsTyped, ToldDone, Rows, WatchEnds
  <2> QED
    BY <1>4, <2>1, StillMatches DEF WatchEnds
<1> QED
  BY <1>3, <1>4

LEMMA AskKeeps ==
  ASSUME HistoryInv,
         (\E p \in Page : TimerFires(p) \/ Turn(p)) \/ DeleteReturns
           \/ \E ids \in SUBSET Id : AskDelete(ids)
  PROVE  HistoryInv'
<1>1. RowsTyped /\ Queued /\ ToldDone
  BY HistoryParts
<1>2. ASSUME NEW p \in Page, TimerFires(p) \/ Turn(p) PROVE HistoryInv'
  <2>1. Queued' /\ asked'[p] # 0
    BY <1>1, <1>2, GetQueued DEF TimerFires, Turn
  <2>2. Coming'
    BY <2>1 DEF Coming
  <2>3. RowsTyped' /\ ToldDone'
    BY <1>1, <1>2 DEF RowsTyped, ToldDone, TimerFires, Turn
  <2> QED
    BY <2>1, <2>2, <2>3, ComingKeeps
<1>3. CASE DeleteReturns
  <2>1. deleting \in Page
    BY <1>1, <1>3 DEF RowsTyped, DeleteReturns
  <2>2. Queued' /\ asked'[deleting] # 0
    BY <1>1, <1>3, <2>1, GetQueued DEF DeleteReturns
  <2>3. Coming'
    BY <2>1, <2>2 DEF Coming
  <2>4. RowsTyped' /\ ToldDone'
    BY <1>1, <1>3 DEF RowsTyped, ToldDone, DeleteReturns
  <2> QED
    BY <2>2, <2>3, <2>4, ComingKeeps
<1>4. ASSUME NEW ids \in SUBSET Id, AskDelete(ids) PROVE HistoryInv'
  <2>1. deleting' \in Page /\ deleting' # 0
    BY <1>1, <1>4, HistoryBounds DEF RowsTyped, AskDelete, Page
  <2>2. Queued'
    BY <1>1, <1>4 DEF Queued, Gets, AskDelete
  <2>3. command' \in [Id -> {"none", "open", "done", "gone"}]
    BY <1>1, <1>4 DEF RowsTyped, AskDelete
  <2>4. RowsTyped'
    BY <1>1, <1>4, <2>1, <2>3 DEF RowsTyped, AskDelete
  <2>5. ToldDone'
    BY <1>1, <1>4 DEF RowsTyped, ToldDone, AskDelete
  <2> QED
    BY <2>1, <2>2, <2>4, <2>5, ComingKeeps DEF Coming
<1> QED
  BY <1>2, <1>3, <1>4

LEMMA SelectKeeps ==
  ASSUME HistoryInv, NEW p \in Page, SelectPage(p)
  PROVE  HistoryInv'
<1>1. RowsTyped /\ Queued /\ ToldDone
  BY HistoryParts
<1>2. /\ asked' \in [Page -> 0 .. MaxGets]
      /\ Len(answers) + Cardinality(Sent(asked')) + 1 <= MaxGets
      /\ answers \in Seq(PageAnswer) /\ Cardinality(Sent(asked')) \in Nat
  BY <1>1, Leaves, SentFull DEF SelectPage, Queued
<1>3. PICK r \in PageAnswer : r = Listed(p) /\ r.page = p
  BY ListedTyped
<1>4. answers' = Append(answers, r)
  BY <1>3 DEF SelectPage
<1>5. Matches(r)'
  <2>1. r.rows = Listed(p).rows /\ told \cap r.rows \subseteq r.done
    BY <1>1, <1>3 DEF ToldDone, Listed
  <2>2. UNCHANGED told /\ \A q : Listed(q)' = Listed(q)
    BY DEF SelectPage, Listed, Rows, Newer
  <2> QED
    BY <1>3, <2>1, <2>2 DEF Matches
<1>6. RowsTyped' /\ told' \subseteq Rows' /\ ToldDone'
  BY <1>1 DEF RowsTyped, ToldDone, Rows, SelectPage
<1>7. /\ answers' \in Seq(PageAnswer) /\ answers' # << >>
      /\ Len(answers') = Len(answers) + 1 /\ answers'[Len(answers')] = r
  BY <1>2, <1>4
<1>8. Gets' <= MaxGets
  BY <1>2, <1>7, HistoryBounds DEF Gets, Sent
<1>9. HistoryTypeOK'
  BY <1>2, <1>6, <1>7, <1>8 DEF HistoryTypeOK, RowsTyped
<1>10. LastMatches'
  BY <1>5, <1>7 DEF LastMatches
<1> QED
  BY <1>6, <1>9, <1>10 DEF HistoryInv

LEMMA ThrowKeeps ==
  ASSUME HistoryInv, (\E p \in Page : PageFails(p)) \/ DeleteThrows
  PROVE  HistoryInv'
<1>1. RowsTyped /\ Queued /\ ToldDone
  BY HistoryParts
<1>2. /\ asked' \in [Page -> 0 .. MaxGets] /\ answers \in Seq(PageAnswer)
      /\ Len(answers) + Cardinality(Sent(asked')) <= MaxGets
  <2>1. ASSUME NEW p \in Page, PageFails(p)
        PROVE  /\ asked' \in [Page -> 0 .. MaxGets]
               /\ Len(answers) + Cardinality(Sent(asked')) + 1 <= MaxGets
    BY <1>1, <2>1, Leaves DEF PageFails
  <2>2. CASE DeleteThrows
    BY <1>1, <2>2 DEF DeleteThrows, Queued, Gets, Sent
  <2>3. \A f \in [Page -> 0 .. MaxGets] : Cardinality(Sent(f)) \in Nat
    BY SentFull, HistoryBounds DEF Page
  <2> QED
    BY <1>1, <2>1, <2>2, <2>3, HistoryBounds DEF Queued
<1>3. GoUnsure /\ unsure' \in BOOLEAN
  BY DEF PageFails, DeleteThrows, GoUnsure
<1>4. RowsTyped' /\ ToldDone'
  BY <1>1, <1>3 DEF RowsTyped, ToldDone, PageFails, DeleteThrows
<1> QED
  BY <1>2, <1>3, <1>4, UnsureKeeps

LEMMA ShowKeeps ==
  ASSUME HistoryInv, NEW i \in DOMAIN answers, ShowAnswer(i)
  PROVE  HistoryInv'
<1>1. RowsTyped /\ Queued /\ ToldDone /\ answers \in Seq(PageAnswer)
  BY HistoryParts DEF Queued
<1>2. /\ i \in 1 .. Len(answers) /\ Len(answers) \in Nat /\ Len(answers) >= 1
      /\ answers[i] \in PageAnswer /\ answers # << >>
  BY <1>1
<1>3. /\ \A a \in PageAnswer : [a EXCEPT !.late = TRUE] \in PageAnswer
      /\ \A a \in PageAnswer : [a EXCEPT !.late = FALSE] \in PageAnswer
  BY Zenon DEF PageAnswer
<1>4. /\ \A a \in PageAnswer : [a EXCEPT !.late = TRUE].late
      /\ \A a \in PageAnswer : /\ [a EXCEPT !.late = FALSE].page = a.page
                             /\ [a EXCEPT !.late = FALSE].rows = a.rows
                             /\ [a EXCEPT !.late = FALSE].done = a.done
  BY DEF PageAnswer
<1>5. /\ table' \in PageAnswer /\ table'.page = answers[i].page
      /\ table'.rows = answers[i].rows /\ table'.done = answers[i].done
  BY <1>2, <1>3, <1>4 DEF ShowAnswer
<1>6. /\ \A j \in 1 .. Len(answers) - 1 :
           /\ j < i => answers'[j] = [answers[j] EXCEPT !.late = TRUE]
           /\ j >= i => answers'[j] = answers[j + 1]
      /\ answers' = [j \in 1 .. Len(answers) - 1 |-> answers'[j]]
  BY <1>2 DEF ShowAnswer
<1>7. \A j \in 1 .. Len(answers) - 1 : answers'[j] \in PageAnswer
  BY <1>1, <1>2, <1>3, <1>6
<1>8. answers' \in Seq(PageAnswer) /\ Len(answers') = Len(answers) - 1
  BY <1>2, <1>6, <1>7
<1>9. answers' # << >> =>
        \/ answers'[Len(answers')] = answers[Len(answers)]
        \/ answers'[Len(answers')].late
  <2> SUFFICES ASSUME answers' # << >>
               PROVE  \/ answers'[Len(answers')] = answers[Len(answers)]
                      \/ answers'[Len(answers')].late
    OBVIOUS
  <2>1. Len(answers') \in 1 .. Len(answers) - 1
    BY <1>2, <1>8
  <2>2. CASE i <= Len(answers')
    BY <1>2, <1>6, <1>8, <2>1, <2>2
  <2>3. CASE i > Len(answers')
    <3>1. answers'[Len(answers')] = [answers[Len(answers')] EXCEPT !.late = TRUE]
      BY <1>2, <1>6, <2>1, <2>3
    <3>2. answers[Len(answers')] \in PageAnswer
      BY <1>1, <1>2, <2>1
    <3> QED
      BY <1>4, <3>1, <3>2
  <2> QED
    BY <1>2, <2>1, <2>2, <2>3
<1>10. unsure' \in BOOLEAN
  BY DEF ShowAnswer
<1>11. RowsTyped' /\ ToldDone' /\ told' \subseteq Rows'
  BY <1>1, <1>5, <1>10 DEF RowsTyped, ToldDone, Rows, ShowAnswer
<1>12. HistoryTypeOK'
  <2>1. asked' = asked /\ Cardinality(Sent(asked)) \in Nat
    BY <1>1, SentFull, HistoryBounds DEF Queued, Page, ShowAnswer
  <2>2. Gets' <= MaxGets
    BY <1>1, <1>2, <1>8, <2>1, HistoryBounds DEF Queued, Gets, Sent
  <2> QED
    BY <1>1, <1>8, <1>11, <2>1, <2>2 DEF HistoryTypeOK, RowsTyped, Queued
<1>13. /\ UNCHANGED <<told, page>> /\ (Coming' <=> Coming)
       /\ \A q : Listed(q)' = Listed(q)
  BY DEF ShowAnswer, Coming, Listed, Rows, Newer
<1>14. \A a : Matches(a)' <=> Matches(a)
  BY <1>13 DEF Matches
<1>15. ~Coming => answers[Len(answers)].late \/ Matches(answers[Len(answers)])
  BY <1>2 DEF HistoryInv, LastMatches
<1>16. ~Coming' /\ answers' # << >> =>
         answers'[Len(answers')].late \/ Matches(answers[Len(answers)])'
  <2> SUFFICES ASSUME ~Coming', answers' # << >>, ~answers'[Len(answers')].late
               PROVE  Matches(answers[Len(answers)])'
    OBVIOUS
  <2>1. PICK a : a = answers[Len(answers)] /\ a = answers'[Len(answers')] /\ ~a.late
    BY <1>9
  <2>2. Matches(a)
    BY <1>13, <1>15, <2>1
  <2> QED
    BY <1>14, <2>1, <2>2 DEF Matches
<1>17. ~Coming' /\ answers' = << >> /\ ~unsure' => table'.page = page' /\ Matches(table)'
  <2> SUFFICES ASSUME ~Coming', answers' = << >>, ~unsure'
               PROVE  table'.page = page' /\ Matches(table)'
    OBVIOUS
  <2>1. i = Len(answers)
    BY <1>2, <1>8
  <2>2. ~answers[i].late /\ answers[i].page = page
    BY DEF ShowAnswer
  <2>3. Matches(answers[i])
    BY <1>13, <1>15, <2>1, <2>2
  <2> QED
    BY <1>5, <1>13, <2>2, <2>3 DEF Matches
<1> QED
  BY <1>11, <1>12, <1>16, <1>17 DEF HistoryInv, LastMatches

LEMMA HistoryInitially == HistoryInit => HistoryInv
<1> SUFFICES ASSUME HistoryInit PROVE HistoryInv
  OBVIOUS
<1>1. 1 \in Page /\ 0 \in 0 .. MaxGets
  BY HistoryBounds DEF Page
<1>2. Listed(1) \in PageAnswer /\ Listed(1).page = 1
  BY <1>1, ListedTyped
<1>3. RowsTyped /\ ToldDone /\ told = {} /\ answers = << >> /\ table = Listed(1)
  BY <1>1, <1>2 DEF HistoryInit, RowsTyped, ToldDone
<1>4. answers \in Seq(PageAnswer) /\ Len(answers) = 0
  BY <1>3
<1>5. asked \in [Page -> 0 .. MaxGets] /\ Cardinality(Sent(asked)) = 0
  <2>1. asked \in [Page -> 0 .. MaxGets] /\ \A p \in Page : asked[p] = 0
    BY <1>1 DEF HistoryInit
  <2>2. Sent(asked) = {}
    BY <2>1, HistoryBounds DEF Sent
  <2> QED
    BY <2>1, <2>2, FS_EmptySet
<1>6. Gets <= MaxGets
  BY <1>4, <1>5, HistoryBounds DEF Gets, Sent
<1>7. page = 1 /\ Matches(table)
  BY <1>2, <1>3 DEF HistoryInit, Matches
<1>8. LastMatches
  BY <1>2, <1>3, <1>7 DEF LastMatches
<1> QED
  BY <1>3, <1>4, <1>5, <1>6, <1>8 DEF HistoryInv, HistoryTypeOK, RowsTyped

LEMMA HistoryInductive ==
  ASSUME HistoryInv, [HistoryNext]_historyVars
  PROVE  HistoryInv'
<1>1. CASE UNCHANGED historyVars
  <2>1. RowsTyped' /\ ToldDone' /\ Rows' = Rows
    BY <1>1, HistoryParts DEF historyVars, RowsTyped, ToldDone, Rows
  <2> QED
    BY <1>1, <2>1, StillMatches DEF historyVars
<1> QED
  BY <1>1, CommandKeeps, WatchKeeps, AskKeeps, SelectKeeps, ThrowKeeps, ShowKeeps
     DEF HistoryNext

\* When nothing is on its way the command table is the page asked for, row for row,
\* with every announced outcome, unless the last answer was not to be trusted: for
\* any number of commands, rows to a page and requests under way.
THEOREM HistoryTrueHolds == HistorySpec => []HistoryTrue
<1>1. HistoryInv => HistoryTrue
  <2> SUFFICES ASSUME HistoryInv, answers = << >>, timers = {}, deleting = 0, ~unsure,
                      \A p \in Page : asked[p] = 0
               PROVE  /\ table.page = page /\ table.rows = Listed(page).rows
                      /\ told \cap table.rows \subseteq table.done
    BY DEF HistoryTrue
  <2>1. ~Coming
    BY DEF Coming
  <2> QED
    BY <2>1 DEF HistoryInv, LastMatches, Matches
<1> QED
  BY <1>1, HistoryInitially, HistoryInductive, PTL DEF HistorySpec

\* The command history keeps to its types, and GETs are never more than MaxGets.
THEOREM HistoryTypeCorrect == HistorySpec => []HistoryTypeOK
<1>1. HistoryInv => HistoryTypeOK
  BY DEF HistoryInv
<1> QED
  BY <1>1, HistoryInitially, HistoryInductive, PTL DEF HistorySpec

-----------------------------------------------------------------------------
(* CanvasGeometry. *)

\* A gesture starts from a place at rest.
CanvasInv ==
  /\ CanvasTypeOK
  /\ gesture.kind = "none" => left \in 0 .. MaxLeft /\ width \in 0 .. MaxWidth

LEMMA Lengths ==
  /\ SafeWidth \in Nat /\ MinSize \in Nat /\ Threshold \in Nat
  /\ MaxLeft \in Nat /\ MaxWidth \in Nat /\ MaxPull \in Nat /\ MinSize <= MaxWidth
BY CanvasAssumption

LEMMA TargetsAreInts == ResizeTargets \subseteq Int /\ DragTargets \subseteq Int
<1>1. \A x, w \in Int : Edges(x, w) \subseteq Int /\ Anchors(x, w) \subseteq Int
  BY DEF Edges, Anchors
<1>2. \A o \in Neighbours : o.x \in Int /\ o.width \in Int
  BY CanvasAssumption
<1>3. 0 \in Int /\ SafeWidth \in Int
  BY Lengths
<1> QED
  BY <1>1, <1>2, <1>3 DEF ResizeTargets, DragTargets

LEMMA NearestIsATarget ==
  ASSUME NEW v, NEW targets
  PROVE  Nearest(v, targets) \subseteq targets
BY Zenon DEF Nearest

LEMMA ShiftsAreInts ==
  ASSUME NEW x \in Int, NEW w \in Int
  PROVE  Shifts(x, w) \subseteq Int
<1>1. Anchors(x, w) \subseteq Int /\ DragTargets \subseteq Int
  BY TargetsAreInts DEF Anchors
<1>2. {t - e : e \in Anchors(x, w), t \in DragTargets} \subseteq Int
  BY <1>1
<1> QED
  BY <1>2 DEF Shifts

LEMMA RoundedUp ==
  ASSUME NEW v \in Int
  PROVE  Round(v) \in Int /\ Round(v) - v \in 0 .. 1
BY DEF Round, Px

LEMMA PullKeeps ==
  ASSUME CanvasInv, NEW pull \in -MaxPull .. MaxPull,
         MoveDragged(pull) \/ MoveRight(pull) \/ MoveLeft(pull)
  PROVE  CanvasInv'
<1>1. /\ gesture.x \in Int /\ gesture.width \in Int /\ pull \in Int /\ left \in Int /\ width \in Nat
      /\ gesture \in [kind : {"none", "drag", "left", "right"}, x : 0 .. MaxLeft,
                      width : 0 .. MaxWidth, guide : BOOLEAN]
  BY Lengths DEF CanvasInv, CanvasTypeOK
<1>2. \A b \in BOOLEAN : [gesture EXCEPT !.guide = b]
          \in [kind : {"none", "drag", "left", "right"}, x : 0 .. MaxLeft,
               width : 0 .. MaxWidth, guide : BOOLEAN]
  BY <1>1, Zenon
<1>3. \A b : [gesture EXCEPT !.guide = b].kind = gesture.kind
  BY <1>1
<1>4. CASE MoveDragged(pull)
  <2> DEFINE x == gesture.x + pull
             b == Shifts(x, gesture.width) # {}
  <2>1. x \in Int
    BY <1>1
  <2>2. Shifts(x, gesture.width) \subseteq Int
    BY <1>1, <2>1, ShiftsAreInts
  <2>3. left' \in Int /\ width' = width
    BY <1>1, <1>4, <2>1, <2>2 DEF MoveDragged
  <2>4. gesture' = [gesture EXCEPT !.guide = b] /\ b \in BOOLEAN /\ gesture.kind # "none"
    BY <1>4 DEF MoveDragged
  <2> HIDE DEF b
  <2> QED
    BY <1>1, <1>2, <1>3, <2>3, <2>4 DEF CanvasInv, CanvasTypeOK
<1>5. CASE MoveRight(pull)
  <2> DEFINE right == gesture.x + AtLeast(MinSize, gesture.width + pull)
             near == Nearest(right, ResizeTargets)
             b == near # {}
  <2>1. right \in Int
    BY <1>1, Lengths DEF AtLeast
  <2>2. near \subseteq Int
    BY TargetsAreInts, NearestIsATarget, Zenon
  <2>3. PICK r \in Int : width' = AtLeast(MinSize, r - gesture.x)
    BY <1>5, <2>1, <2>2 DEF MoveRight
  <2>4. width' \in Nat /\ left' \in Int
    BY <1>1, <1>5, <2>3, Lengths DEF MoveRight, AtLeast
  <2>5. gesture' = [gesture EXCEPT !.guide = b] /\ b \in BOOLEAN /\ gesture.kind # "none"
    BY <1>5 DEF MoveRight
  <2> HIDE DEF b
  <2> QED
    BY <1>1, <1>2, <1>3, <2>4, <2>5 DEF CanvasInv, CanvasTypeOK
<1>6. CASE MoveLeft(pull)
  <2> DEFINE clamped == LeftClamped(gesture.x + pull, gesture.x + gesture.width)
             right == clamped.x + clamped.width
             near == Nearest(clamped.x, ResizeTargets)
             b == near # {}
  <2>1. clamped.x \in Int /\ clamped.width \in Int
    BY <1>1, Lengths DEF LeftClamped
  <2>2. right \in Int
    BY <2>1
  <2>3. near \subseteq Int
    BY TargetsAreInts, NearestIsATarget, Zenon
  <2>4. PICK l \in Int : left' = l /\ width' = AtLeast(MinSize, right - l)
    BY <1>6, <2>1, <2>3 DEF MoveLeft
  <2>5. width' \in Nat /\ left' \in Int
    BY <2>2, <2>4, Lengths DEF AtLeast
  <2>6. gesture' = [gesture EXCEPT !.guide = b] /\ b \in BOOLEAN /\ gesture.kind # "none"
    BY <1>6 DEF MoveLeft
  <2> HIDE DEF b
  <2> QED
    BY <1>1, <1>2, <1>3, <2>5, <2>6 DEF CanvasInv, CanvasTypeOK
<1> QED
  BY <1>4, <1>5, <1>6

LEMMA CanvasInitially == CanvasInit => CanvasInv
BY Lengths DEF CanvasInit, CanvasInv, CanvasTypeOK, NoGesture

LEMMA CanvasInductive ==
  ASSUME CanvasInv, [CanvasNext]_canvasVars
  PROVE  CanvasInv'
<1>1. ASSUME NEW k \in {"drag", "left", "right"}, BeginGesture(k) PROVE CanvasInv'
  BY <1>1 DEF BeginGesture, CanvasInv, CanvasTypeOK
<1>2. CASE Release
  BY <1>2, Lengths DEF Release, Bounded, AtRest, NoGesture, CanvasInv, CanvasTypeOK
<1>3. ASSUME NEW step \in {-10, -1, 1, 10}, Nudge(step) PROVE CanvasInv'
  BY <1>3, Lengths DEF Nudge, CanvasInv, CanvasTypeOK
<1>4. ASSUME NEW v \in 0 .. MaxWidth, EnterLeft(v) \/ EnterWidth(v) PROVE CanvasInv'
  BY <1>4, Lengths DEF EnterLeft, EnterWidth, Bounded, AtRest, CanvasInv, CanvasTypeOK
<1>5. CASE UNCHANGED canvasVars
  BY <1>5 DEF canvasVars, CanvasInv, CanvasTypeOK
<1> QED
  BY <1>1, <1>2, <1>3, <1>4, <1>5, PullKeeps DEF CanvasNext

\* A pull on the left handle: the right edge stays, or is pushed by a snap.
LEMMA LeftPullHolds ==
  ASSUME CanvasInv, NEW pull \in -MaxPull .. MaxPull, MoveLeft(pull)
  PROVE  LET right == gesture.x + gesture.width IN
         \/ left' + width' = right
         \/ width' = MinSize /\ gesture'.guide /\ right - left' < MinSize
<1> DEFINE right == gesture.x + gesture.width
           clamped == LeftClamped(gesture.x + pull, right)
           near == Nearest(clamped.x, ResizeTargets)
<1>1. right \in Int /\ pull \in Int /\ gesture.x \in Int
  BY Lengths DEF CanvasInv, CanvasTypeOK
<1>2. /\ clamped.x \in Int /\ clamped.x + clamped.width = right
      /\ right - clamped.x >= MinSize
  BY <1>1, Lengths DEF LeftClamped
<1>3. near \subseteq Int
  BY TargetsAreInts DEF Nearest
<1>4. gesture'.guide = (near # {})
  BY DEF MoveLeft, CanvasInv, CanvasTypeOK
<1>5. PICK l \in IF near = {} THEN {clamped.x} ELSE near :
         left' = l /\ width' = AtLeast(MinSize, right - l)
  BY <1>2 DEF MoveLeft
<1>6. CASE near = {}
  BY <1>1, <1>2, <1>5, <1>6, Lengths DEF AtLeast
<1>7. CASE near # {} /\ right - l >= MinSize
  BY <1>1, <1>3, <1>5, <1>7, Lengths DEF AtLeast
<1>8. CASE near # {} /\ right - l < MinSize
  <2>1. width' = MinSize /\ left' = l
    BY <1>5, <1>8 DEF AtLeast
  <2> QED
    BY <1>4, <1>8, <2>1
<1> HIDE DEF near, right
<1>9. l \in Int /\ right \in Int
  BY <1>1, <1>2, <1>3, <1>5
<1>10. right - l >= MinSize \/ right - l < MinSize
  BY <1>9, Lengths
<1> QED
  BY <1>6, <1>7, <1>8, <1>10 DEF right

\* Letting go: the right edge moves by a pixel at most.
LEMMA ReleaseHolds ==
  ASSUME CanvasInv, Release, gesture.kind # "drag"
  PROVE  left' + width' - (left + width) \in 0 .. Px /\ gesture' = NoGesture
<1>1. left \in Int /\ width \in Int
  BY DEF CanvasInv, CanvasTypeOK
<1>2. left' = Round(left) /\ width' = Round(width) /\ gesture' = NoGesture
  BY DEF Release
<1> HIDE DEF Round
<1>3. /\ Round(left) \in Int /\ Round(left) - left \in 0 .. 1
      /\ Round(width) \in Int /\ Round(width) - width \in 0 .. 1
  BY <1>1, RoundedUp
<1> QED
  BY <1>1, <1>2, <1>3 DEF Px

\* A handle holds the opposite edge, on a canvas of any width, with any neighbours,
\* any snapping distance and any minimum size.
THEOREM OppositeEdgeHolds == CanvasSpec => OppositeEdgeHeld
<1> DEFINE Held ==
      gesture.kind \in {"left", "right"} =>
        LET right == gesture.x + gesture.width IN
        \/ left' + width' - (left + width) \in 0 .. Px /\ gesture' = NoGesture
        \/ gesture.kind = "right" /\ left' = gesture.x
        \/ gesture.kind = "left" /\ left' + width' = right
        \/ /\ gesture.kind = "left" /\ width' = MinSize /\ gesture'.guide
           /\ right - left' < MinSize
        \/ /\ width' = width /\ gesture' = gesture
           /\ Distance(left', left) \in {Px, 10 * Px}
<1>1. CanvasInv /\ [CanvasNext]_canvasVars => [Held]_canvasVars
  <2> SUFFICES ASSUME CanvasInv, CanvasNext PROVE Held
    OBVIOUS
  <2>1. ASSUME NEW k \in {"drag", "left", "right"}, BeginGesture(k) PROVE Held
    BY <2>1 DEF BeginGesture
  <2>2. ASSUME NEW pull \in -MaxPull .. MaxPull, MoveDragged(pull) \/ MoveRight(pull)
        PROVE  Held
    BY <2>2 DEF MoveDragged, MoveRight
  <2>3. ASSUME NEW pull \in -MaxPull .. MaxPull, MoveLeft(pull) PROVE Held
    <3>1. gesture.kind = "left"
      BY <2>3 DEF MoveLeft
    <3> QED
      BY <2>3, <3>1, LeftPullHolds
  <2>4. CASE Release
    BY <2>4, ReleaseHolds
  <2>5. ASSUME NEW step \in {-10, -1, 1, 10}, Nudge(step) PROVE Held
    BY <2>5 DEF Nudge, CanvasInv, CanvasTypeOK, Distance, Px
  <2>6. ASSUME NEW v \in 0 .. MaxWidth, EnterLeft(v) \/ EnterWidth(v) PROVE Held
    BY <2>6 DEF EnterLeft, EnterWidth
  <2> QED
    BY <2>1, <2>2, <2>3, <2>4, <2>5, <2>6 DEF CanvasNext
<1> QED
  BY <1>1, CanvasInitially, CanvasInductive, PTL DEF CanvasSpec, OppositeEdgeHeld

\* The canvas keeps to its types, for any sizes.
THEOREM CanvasTypeCorrect == CanvasSpec => []CanvasTypeOK
<1>1. CanvasInv => CanvasTypeOK
  BY DEF CanvasInv
<1> QED
  BY <1>1, CanvasInitially, CanvasInductive, PTL DEF CanvasSpec
=============================================================================
