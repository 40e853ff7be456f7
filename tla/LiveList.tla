-------------------------------- MODULE LiveList --------------------------------
(***************************************************************************)
(* The live device list of a console: the PresenceHub Durable Object       *)
(* (do/presenceHub.ts), broadcastDeviceStatus (lib/presence.ts), the       *)
(* stream route (routes/realtime.ts), and in the browser useDeviceStream   *)
(* (realtime.ts), useFetch (hooks.ts) and the pages that join them.        *)
(*                                                                         *)
(* One device and one console.  The row changes in three ways: with a      *)
(* broadcast that follows the write (the device's object, the cron sweep), *)
(* silently (health between online and warning, PATCH by an operator).     *)
(* Broadcasts are requests of their own and may overtake each other; the   *)
(* frames of one socket arrive in order.                                   *)
(***************************************************************************)
EXTENDS Integers, Sequences, FiniteSets

CONSTANTS
  Poster,     \* writers that broadcast: the device's object, the sweep
  Getter,     \* GET requests the page can have under way
  MaxFrames   \* bound: frames in a socket

ASSUME LiveListAssumption == MaxFrames \in Nat

Pushed == {"online", "offline"}         \* what is broadcast
Shown  == Pushed \cup {"warning"}       \* what a row can say here
NoAnswer == "pending"                   \* a GET before its SELECT

VARIABLES
  row,      \* devices.status, the truth
  posting,  \* posting[p]: the status p is about to broadcast, or "none"
  stream,   \* is the console's socket open?
  inbox,    \* frames sent on it and not yet handled
  getting,  \* getting[g]: "none", NoAnswer, or the status in the response
  list,     \* what the page shows, "none" before the first response
  missed    \* something has kept the list from the truth since the stream
            \*   last opened (history)

liveVars == <<row, posting, stream, inbox, getting, list, missed>>

LiveTypeOK ==
  /\ row \in Shown /\ list \in Shown \cup {"none"}
  /\ posting \in [Poster -> Pushed \cup {"none"}]
  /\ stream \in BOOLEAN /\ missed \in BOOLEAN
  /\ inbox \in UNION {[1 .. n -> Pushed] : n \in 0 .. MaxFrames}
  /\ getting \in [Getter -> Shown \cup {"none", NoAnswer}]

LiveInit ==
  /\ row = "offline"
  /\ posting = [p \in Poster |-> "none"]
  /\ stream = FALSE /\ inbox = << >>
  /\ getting = [g \in Getter |-> "none"]
  /\ list = "none" /\ missed = TRUE

-----------------------------------------------------------------------------
(* The server. *)

WriteAndPush(p, st) ==
  /\ posting[p] = "none" /\ row # st
  /\ row' = st
  /\ posting' = [posting EXCEPT ![p] = st]
  /\ UNCHANGED <<stream, inbox, getting, list, missed>>

\* A reconnect pushes "online" again, and turns a warning into it.
WriteSilently(st) ==
  /\ row # st /\ row # "offline"
  /\ row' = st
  /\ missed' = TRUE
  /\ UNCHANGED <<posting, stream, inbox, getting, list>>

\* The hub sends the frame to the open sockets.  One that another write has
\* overtaken says what is no longer so.
Broadcast(p) ==
  /\ posting[p] # "none" /\ Len(inbox) < MaxFrames
  /\ posting' = [posting EXCEPT ![p] = "none"]
  /\ inbox' = IF stream THEN Append(inbox, posting[p]) ELSE inbox
  /\ missed' = (missed \/ ~stream \/ posting[p] # row)
  /\ UNCHANGED <<row, stream, getting, list>>

BroadcastFails(p) ==
  /\ posting[p] # "none"
  /\ posting' = [posting EXCEPT ![p] = "none"]
  /\ missed' = TRUE
  /\ UNCHANGED <<row, stream, inbox, getting, list>>

-----------------------------------------------------------------------------
(* The browser. *)

\* The first load, or the reload of a button.
Load(g) ==
  /\ getting[g] = "none"
  /\ getting' = [getting EXCEPT ![g] = NoAnswer]
  /\ UNCHANGED <<row, posting, stream, inbox, list, missed>>

\* Mutant of StreamOpens: a reconnected stream is trusted to go on where it
\* stopped.
StreamReopens(g) ==
  /\ ~stream /\ stream' = TRUE
  /\ missed' = FALSE
  /\ getting[g] = "none" /\ list # "none"
  /\ UNCHANGED <<row, posting, inbox, list, getting>>

\* ws.onopen: onReady fetches the list anew.
StreamOpens(g) ==
  /\ ~stream /\ stream' = TRUE
  /\ getting[g] = "none"
  /\ getting' = [getting EXCEPT ![g] = NoAnswer]
  /\ missed' = \E h \in Getter : getting[h] # "none"
  /\ UNCHANGED <<row, posting, inbox, list>>

\* The socket closes, with what is in it; connect runs again after a back-off.
StreamCloses ==
  /\ stream /\ stream' = FALSE
  /\ inbox' = << >>
  /\ missed' = TRUE
  /\ UNCHANGED <<row, posting, getting, list>>

Select(g) ==
  /\ getting[g] = NoAnswer
  /\ getting' = [getting EXCEPT ![g] = row]
  /\ UNCHANGED <<row, posting, stream, inbox, list, missed>>

\* setData with the response, or the error of a request.
Response(g) ==
  /\ getting[g] \in Shown
  /\ list' = getting[g]
  /\ getting' = [getting EXCEPT ![g] = "none"]
  /\ UNCHANGED <<row, posting, stream, inbox, missed>>

GetFails(g) ==
  /\ getting[g] # "none"
  /\ getting' = [getting EXCEPT ![g] = "none"]
  /\ missed' = TRUE
  /\ UNCHANGED <<row, posting, stream, inbox, list>>

\* ws.onmessage: onEvent patches a list that is there.  A response that was
\* selected before and arrives after it will undo the patch.
Frame ==
  /\ inbox # << >>
  /\ list' = IF list = "none" THEN list ELSE Head(inbox)
  /\ inbox' = Tail(inbox)
  /\ missed' = (missed \/ \E g \in Getter : getting[g] \in Shown)
  /\ UNCHANGED <<row, posting, stream, getting>>

LiveNext ==
  \/ \E p \in Poster :
       \/ \E st \in Pushed : WriteAndPush(p, st)
       \/ Broadcast(p) \/ BroadcastFails(p)
  \/ \E st \in {"online", "warning"} : WriteSilently(st)
  \/ \E g \in Getter :
       Load(g) \/ StreamOpens(g) \/ Select(g) \/ Response(g) \/ GetFails(g)
  \/ StreamCloses \/ Frame

LiveSpec == LiveInit /\ [][LiveNext]_liveVars

-----------------------------------------------------------------------------
(* Properties. *)

\* "A console re-syncs the full list on every (re)connect, so an event missed
\* while it was briefly disconnected is corrected on reconnect rather than lost"
\* (presenceHub.ts:10-12): when nothing is on its way the list is the truth,
\* unless since the last reconnect the row was written without a broadcast, a
\* broadcast was overtaken by another write, one or a request failed, or a
\* response was overtaken by a frame.
ListTruthful ==
  /\ stream /\ ~missed
  /\ \A p \in Poster : posting[p] = "none"
  /\ inbox = << >> /\ \A g \in Getter : getting[g] = "none"
  => list = row
=============================================================================
