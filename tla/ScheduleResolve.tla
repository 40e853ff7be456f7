---------------------------- MODULE ScheduleResolve ----------------------------
(***************************************************************************)
(* What a kiosk should play right now: the schedules an operator edits     *)
(* (routes/schedules.ts, pages/Schedules.tsx), groups and assignments      *)
(* (routes/groups.ts, PATCH /devices/:uuid) and the choice resolveTarget   *)
(* makes among them (lib/resolve.ts) as the UTC clock runs.                *)
(*                                                                         *)
(* Days are dates and weekdays at once, and a day has SlotsPerDay minutes. *)
(* A scene is published or not; a scene playlist counts as one that is.    *)
(***************************************************************************)
EXTENDS Integers, Sequences, SequencesExt

CONSTANTS
  Days,         \* bound: the clock stops at the end of day Days - 1
  SlotsPerDay,  \* minutes of a day
  Entry,        \* what POST /schedules may insert: records with target (the
                \*   device's or a group's id), from, to (minutes, or both -1),
                \*   first, last (dates), weekdays, priority, source
  Group,        \* ids of groups
  Own,          \* the id of the device
  Source,       \* scenes and scene playlists
  MaxRows       \* bound: rows of schedules

ASSUME ScheduleAssumption ==
  /\ Days \in Nat \ {0} /\ SlotsPerDay \in Nat \ {0} /\ MaxRows \in Nat
  /\ Own \notin Group
  /\ \A e \in Entry : /\ e.target \in Group \cup {Own} /\ e.source \in Source
                      /\ e.priority \in Int

Blank == "none"   \* {kind: "none"}, no group

VARIABLES
  rows,       \* the schedules, in the order of their ids
  now,        \* [day, slot]
  groups,     \* rows of groups
  member,     \* the device's group_id
  fallback,   \* the device's own source
  published   \* sources with a published version

scheduleVars == <<rows, now, groups, member, fallback, published>>

ScheduleTypeOK ==
  /\ rows \in BoundedSeq(Entry, MaxRows)
  /\ now \in [day : 0 .. Days - 1, slot : 0 .. SlotsPerDay - 1]
  /\ groups \subseteq Group /\ member \in groups \cup {Blank}
  /\ fallback \in Source \cup {Blank}
  /\ published \subseteq Source

ScheduleInit ==
  /\ rows = << >> /\ now = [day |-> 0, slot |-> 0]
  /\ groups = Group /\ member = Blank /\ fallback = Blank /\ published = {}

-----------------------------------------------------------------------------
(* lib/resolve.ts *)

InWindow(e, slot) ==
  \/ e.from < 0
  \/ e.from <= e.to /\ e.from <= slot /\ slot < e.to
  \/ e.from > e.to /\ (e.from <= slot \/ slot < e.to)

\* Weekday and dates of the current UTC day, of the half-open window of its
\* minutes: an overnight window is two windows of each day it is on.
ScheduleMatches(e, t) ==
  /\ t.day \in e.weekdays
  /\ e.first <= t.day /\ t.day <= e.last
  /\ InWindow(e, t.slot)

Applies(e) == e.target = Own \/ e.target = member

Specific(e) == e.target = Own

\* Mutant of Beats: of two equal priorities the earlier row wins, even if it is the
\* group's and the later one the device's own.
BeatsUnspecific(e, best) == e.priority > best.priority

Beats(e, best) ==
  \/ e.priority > best.priority
  \/ e.priority = best.priority /\ Specific(e) /\ ~Specific(best)

\* The loop over the rows: one pass that keeps the best so far, if there is one.
Keep(best, e) ==
  IF Applies(e) /\ ScheduleMatches(e, now) /\ (best = << >> \/ Beats(e, best[1]))
    THEN <<e>> ELSE best

BestOf[i \in 0 .. Len(rows)] ==
  IF i = 0 THEN << >> ELSE Keep(BestOf[i - 1], rows[i])

Best == BestOf[Len(rows)]

\* An unpublished scene is nothing to play: it does not fall back.
Resolved ==
  LET src == IF Best = << >> THEN fallback ELSE Best[1].source IN
  IF src \in published THEN src ELSE Blank

-----------------------------------------------------------------------------
(* The console, and the clock. *)

\* What the form offers to schedule for.
Targets == groups \cup {Own}

CreateSchedule(e) ==
  /\ Len(rows) < MaxRows
  /\ e.target \in Targets
  /\ rows' = Append(rows, e)
  /\ UNCHANGED <<now, groups, member, fallback, published>>

DeleteSchedule(i) ==
  /\ rows' = RemoveAt(rows, i)
  /\ UNCHANGED <<now, groups, member, fallback, published>>

\* PATCH /devices/:uuid; an unknown group fails the foreign key.
AssignGroup(g) ==
  /\ member # g /\ g \in groups \cup {Blank}
  /\ member' = g
  /\ UNCHANGED <<rows, now, groups, fallback, published>>

AssignSource(s) ==
  /\ fallback # s
  /\ fallback' = s
  /\ UNCHANGED <<rows, now, groups, member, published>>

\* DELETE /groups/:id: the device leaves it (ON DELETE SET NULL); its schedules
\* stay, for an id that AUTOINCREMENT never gives out again.
DeleteGroup(g) ==
  /\ g \in groups
  /\ groups' = groups \ {g}
  /\ member' = IF member = g THEN Blank ELSE member
  /\ UNCHANGED <<rows, now, fallback, published>>

PublishSource(s) ==
  /\ s \notin published
  /\ published' = published \cup {s}
  /\ UNCHANGED <<rows, now, groups, member, fallback>>

MinutePasses ==
  /\ \/ now.slot < SlotsPerDay - 1 /\ now' = [now EXCEPT !.slot = @ + 1]
     \/ /\ now.slot = SlotsPerDay - 1 /\ now.day < Days - 1
        /\ now' = [day |-> now.day + 1, slot |-> 0]
  /\ UNCHANGED <<rows, groups, member, fallback, published>>

\* The page of schedules.
ConsoleEdits ==
  \/ \E e \in Entry : CreateSchedule(e)
  \/ \E i \in 1 .. Len(rows) : DeleteSchedule(i)

ScheduleNext ==
  \/ ConsoleEdits
  \/ \E g \in Group : AssignGroup(g) \/ DeleteGroup(g)
  \/ AssignGroup(Blank)
  \/ \E s \in Source : AssignSource(s) \/ PublishSource(s)
  \/ MinutePasses

ScheduleSpec == ScheduleInit /\ [][ScheduleNext]_scheduleVars

-----------------------------------------------------------------------------
(* Properties. *)

\* "Where schedules overlap the higher priority wins; at equal priority a
\* schedule for the device goes before one for its group" (Schedules.tsx:194),
\* in whatever order the rows were entered.
RankingHolds ==
  \A i \in 1 .. Len(rows) : Applies(rows[i]) /\ ScheduleMatches(rows[i], now) =>
    \E j \in 1 .. Len(rows) :
      /\ Applies(rows[j]) /\ ScheduleMatches(rows[j], now)
      /\ Resolved = (IF rows[j].source \in published THEN rows[j].source ELSE Blank)
      /\ rows[j].priority >= rows[i].priority
      /\ rows[j].priority = rows[i].priority /\ Specific(rows[i]) => Specific(rows[j])
=============================================================================
