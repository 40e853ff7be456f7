------------------------------ MODULE WidgetForms ------------------------------
(***************************************************************************)
(* What the forms of the scene editor can make of a widget, the warnings   *)
(* the editor gives about it (pages/SceneEditor.tsx) and what PUT          *)
(* /scenes/:id/widgets accepts (validateWidget in routes/scenes.ts): three *)
(* pieces of code that have to agree and share nothing.                    *)
(*                                                                         *)
(* A form is the set of configurations one edit away.  A URL is undefined, *)
(* blank, the beginning of one, http(s), or http(s) and longer than        *)
(* validateWidget takes; a number is inside or outside what it allows, a   *)
(* text short or too long for it.  Colours, labels and choices from a      *)
(* list, which every check lets pass, are left out, and so are             *)
(* - places and sizes: the fields and the handles keep a size positive,    *)
(*   persist rounds, and what is out of range is off the canvas and warned *)
(*   of;                                                                   *)
(* - the warning that a page may not be embeddable, without which Warned   *)
(*   is smaller and UnwarnedSaves says more;                               *)
(* - the limit of 200 widgets, which concerns the draft and not a widget.  *)
(***************************************************************************)
EXTENDS Naturals, Sequences, SequencesExt

CONSTANTS
  ItemLimit,   \* items of a carousel that validateWidget takes at most
  MaxItems     \* bound: items of a carousel in the editor, which has no limit

ASSUME FormsAssumption == ItemLimit \in Nat \ {0} /\ MaxItems \in Nat

Kind   == {"carousel", "web", "text", "direction", "clock"}
Legacy == {"image", "video", "ticker"}   \* only in drafts of earlier releases
Typed  == {"blank", "partial", "http", "long"}
Amount == {"inside", "outside"}
Url    == Typed \cup {"undefined"}
Item   == [medium : BOOLEAN, url : Url, dwell : Amount]

Config == [items : BoundedSeq(Item, MaxItems), medium : BOOLEAN, url : Url, source : Url,
           text : {"short", "long"}, behavior : {"static", "ticker"}, number : Amount]

VARIABLES
  edited,     \* kind of the widget in the editor
  settings,   \* its config
  kept        \* kind and config of the widget of the draft in D1

formVars == <<edited, settings, kept>>

FormsTypeOK ==
  /\ edited \in Kind \cup Legacy /\ settings \in Config
  /\ kept \in (Kind \cup Legacy) \X Config

\* What a text field leaves when its handler says `v || undefined`.
OrUndefined(u) == IF u = "blank" THEN "undefined" ELSE u

Bare == [items |-> << >>, medium |-> FALSE, url |-> "undefined", source |-> "undefined",
         text |-> "short", behavior |-> "static", number |-> "inside"]

DefaultConfig(k) == IF k = "web" THEN [Bare EXCEPT !.url = "blank"] ELSE Bare

FormsInit == edited = "text" /\ settings = Bare /\ kept = <<"text", Bare>>

-----------------------------------------------------------------------------
(* The forms. *)

NumberField(c) == {[c EXCEPT !.number = n] : n \in Amount}

TextField(c) == {[c EXCEPT !.text = t] : t \in {"short", "long"}}

SourceField(c) == {[c EXCEPT !.source = OrUndefined(u)] : u \in Typed}

\* The dwell time is at least one second, though not a whole number nor below a day.
ItemForm(item) ==
  {[item EXCEPT !.medium = m] : m \in BOOLEAN}
  \cup {[item EXCEPT !.url = u, !.medium = FALSE] : u \in Typed}
  \cup {[item EXCEPT !.dwell = n] : n \in Amount}

CarouselForm(c) ==
  LET added == [medium |-> FALSE, url |-> "undefined", dwell |-> "inside"] IN
  (IF Len(c.items) < MaxItems THEN {[c EXCEPT !.items = Append(@, added)]} ELSE {})
  \cup {[c EXCEPT !.items = RemoveAt(@, i)] : i \in DOMAIN c.items}
  \cup UNION {{[c EXCEPT !.items[i] = item] : item \in ItemForm(c.items[i])} :
                i \in DOMAIN c.items}

MediumForm(c) ==
  {[c EXCEPT !.medium = m] : m \in BOOLEAN}
  \cup {[c EXCEPT !.url = OrUndefined(u)] : u \in Typed}

WebForm(c) == {[c EXCEPT !.url = u] : u \in Typed} \cup NumberField(c)

\* Mutant of TextForm: an emptied source stays blank.
TextFormKeepsBlank(c) ==
  {[c EXCEPT !.behavior = b] : b \in {"static", "ticker"}} \cup NumberField(c) \cup TextField(c)
  \cup (IF c.behavior = "ticker" THEN {[c EXCEPT !.source = u] : u \in Typed} ELSE {})

\* The source is asked for only while the text runs, and kept when it stops.
TextForm(c) ==
  {[c EXCEPT !.behavior = b] : b \in {"static", "ticker"}} \cup NumberField(c) \cup TextField(c)
  \cup (IF c.behavior = "ticker" THEN SourceField(c) ELSE {})

TickerForm(c) == TextField(c) \cup SourceField(c) \cup NumberField(c)

\* The entries of a direction are an array, whatever is in them.
DirectionForm(c) == NumberField(c)

ClockForm(c) == NumberField(c)

WidgetConfigForm(k, c) ==
  CASE k = "carousel"           -> CarouselForm(c)
    [] k \in {"image", "video"} -> MediumForm(c)
    [] k = "web"                -> WebForm(c)
    [] k = "text"               -> TextForm(c)
    [] k = "ticker"             -> TickerForm(c)
    [] k = "direction"          -> DirectionForm(c)
    [] k = "clock"              -> ClockForm(c)

\* computeWarnings, without those about places and sizes.
Warned(k, c) ==
  \/ k \in {"image", "video"} /\ ~c.medium /\ c.url = "undefined"
  \/ /\ k = "carousel"
     /\ \/ c.items = << >>
        \/ \E i \in DOMAIN c.items :
             ~c.items[i].medium /\ c.items[i].url \in {"undefined", "blank"}
  \/ k = "web" /\ c.url \in {"undefined", "blank"}

-----------------------------------------------------------------------------
(* validateWidget *)

ValidUrl(u) == u \in {"undefined", "http"}

ValidItem(item) ==
  /\ item.dwell = "inside"
  /\ ValidUrl(item.url)
  /\ item.medium \/ item.url # "undefined"

ValidWidget(k, c) ==
  /\ k \in Kind
  /\ ValidUrl(c.url) /\ ValidUrl(c.source)
  /\ c.number = "inside" /\ c.text = "short"
  /\ k = "carousel" => /\ c.items # << >> /\ Len(c.items) <= ItemLimit
                       /\ \A i \in DOMAIN c.items : ValidItem(c.items[i])

-----------------------------------------------------------------------------
NewWidget(k) == edited' = k /\ settings' = DefaultConfig(k) /\ UNCHANGED kept

EditConfig == settings' \in WidgetConfigForm(edited, settings) /\ UNCHANGED <<edited, kept>>

\* The draft of an earlier release; nothing converts its widgets.
Migrate(k) == kept' = <<k, DefaultConfig(k)>> /\ UNCHANGED <<edited, settings>>

\* A draft with a widget that validateWidget refuses is not stored at all.
SaveWidgets ==
  /\ ValidWidget(edited, settings)
  /\ kept' = <<edited, settings>> /\ UNCHANGED <<edited, settings>>

LoadWidgets == edited' = kept[1] /\ settings' = kept[2] /\ UNCHANGED kept

FormsNext ==
  \/ \E k \in Kind : NewWidget(k)
  \/ \E k \in Legacy : Migrate(k)
  \/ EditConfig \/ SaveWidgets \/ LoadWidgets

FormsSpec == FormsInit /\ [][FormsNext]_formVars

-----------------------------------------------------------------------------
(* Properties. *)

\* What is refused although the editor says nothing: a number out of range, an
\* unfinished URL, a URL, a text or a carousel that is too long, the URL of an item
\* that was typed and emptied before a medium was chosen, and the kinds that no form
\* makes any more.
Unsaid(k, c) ==
  \/ k \in Legacy \/ c.number = "outside" \/ c.text = "long"
  \/ {c.url, c.source} \cap {"partial", "long"} # {}
  \/ /\ k = "carousel"
     /\ \/ Len(c.items) > ItemLimit
        \/ \E i \in DOMAIN c.items :
             LET item == c.items[i] IN
             \/ item.dwell = "outside" \/ item.url \in {"partial", "long"}
             \/ item.medium /\ item.url = "blank"

\* A widget the editor has no warning about can be saved, whatever sequence of
\* edits, saves and reloads led to it, but for the cases of Unsaid, and those are
\* refused one and all: the list is what the warnings leave out.
UnwarnedSaves ==
  Warned(edited, settings) \/ (Unsaid(edited, settings) <=> ~ValidWidget(edited, settings))
=============================================================================
