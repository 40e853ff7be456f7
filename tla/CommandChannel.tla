---------------------------- MODULE CommandChannel ----------------------------
(***************************************************************************)
(* Remote commands from the console to one kiosk: issueCommand writes a    *)
(* row and asks the DeviceConnection object to deliver it, a connecting    *)
(* agent is sent what is still queued (flushQueued), the agent runs each   *)
(* frame it reads and acknowledges it.                                     *)
(*                                                                         *)
(* Grain of atomicity.  A handler runs from one await on D1 (or on another *)
(* object) to the next.  A frame that is sent while a row's UPDATE is      *)
(* still under way can be read, run and answered before that UPDATE lands. *)
(* Presence (touch, markOnline) is DevicePresence; here it is the awaits   *)
(* between accepting a socket and the SELECT of flushQueued.               *)
(***************************************************************************)
EXTENDS Integers, Sequences

CONSTANTS
  Cmd,     \* command ids, each issued at most once (crypto.randomUUID)
  Socket,  \* WebSocket identities, reused once the object let go of them
  NoCmd,   \* not a command
  Faults   \* what may go wrong, see Fault

Fault ==
  { "drop",         \* links break and agents die
    "do_failure" }  \* a handler of the object, or a call to it, may fail

ASSUME CommandAssumption == NoCmd \notin Cmd /\ Faults \subseteq Fault

Answer == {"acked", "failed"}
Reply  == {"delivered", "queued"}  \* what the console is told

VARIABLES
  row,      \* row[c]: commands.status, "none" before and "deleted" after
  issuer,   \* issuer[c]: where issueCommand stands, or what it returned
  link,     \* link[s]: "free", "up", or "gone" (dead at the agent's end,
            \*   still attached to the object)
  conn,     \* conn[s]: where handleConnect stands
  targets,  \* targets[s]: the sockets flushQueued sends to
  pending,  \* pending[s]: rows flushQueued still has to send
  sending,  \* sending[s]: the row it is marking as sent
  inbox,    \* inbox[s]: frames on their way to the agent
  run,      \* run[s]: the command the agent is executing for a frame of s
  outbox,   \* outbox[s]: acks on their way to the object
  ran,      \* history: commands the agent has begun to execute
  overtaken \* history: commands whose last answer came while an UPDATE to
            \*   'sent' was still under way

flush   == <<conn, targets, pending, sending>>
wire    == <<inbox, outbox>>
past    == <<ran, overtaken>>
vars    == <<row, issuer, link, flush, wire, run, past>>

TypeOK ==
  /\ row \in [Cmd -> {"none", "queued", "sent", "deleted"} \cup Answer]
  /\ issuer \in [Cmd -> {"idle", "post", "update"} \cup Reply]
  /\ link \in [Socket -> {"free", "up", "gone"}]
  /\ conn \in [Socket -> {"idle", "select", "flush", "mark"}]
  /\ targets \in [Socket -> SUBSET Socket]
  /\ pending \in [Socket -> SUBSET Cmd]
  /\ sending \in [Socket -> Cmd \cup {NoCmd}]
  /\ \A s \in Socket : conn[s] = "mark" <=> sending[s] # NoCmd
  /\ inbox \in [Socket -> Seq(Cmd)]
  /\ run \in [Socket -> Cmd \cup {NoCmd}]
  /\ outbox \in [Socket -> Seq(Cmd)]
  /\ ran \subseteq Cmd /\ overtaken \subseteq Cmd

Init ==
  /\ row = [c \in Cmd |-> "none"]
  /\ issuer = [c \in Cmd |-> "idle"]
  /\ link = [s \in Socket |-> "free"]
  /\ conn = [s \in Socket |-> "idle"]
  /\ targets = [s \in Socket |-> {}] /\ pending = [s \in Socket |-> {}]
  /\ sending = [s \in Socket |-> NoCmd]
  /\ inbox = [s \in Socket |-> << >>] /\ outbox = [s \in Socket |-> << >>]
  /\ run = [s \in Socket |-> NoCmd]
  /\ ran = {} /\ overtaken = {}

Attached == { s \in Socket : link[s] # "free" }  \* state.getWebSockets()

\* ws.send to a set of sockets: a dead one swallows the frame.
Send(c, S) ==
  inbox' = [s \in Socket |-> IF s \in S /\ link[s] = "up"
                               THEN Append(inbox[s], c) ELSE inbox[s]]

\* UPDATE commands SET status ... WHERE id: nothing happens to a deleted row.
SetRow(c, st) ==
  row' = [row EXCEPT ![c] = IF @ = "deleted" THEN @ ELSE st]

-----------------------------------------------------------------------------
(* The console: issueCommand, and the deletion of command rows. *)

Insert(c) ==
  /\ row[c] = "none"
  /\ row' = [row EXCEPT ![c] = "queued"]
  /\ issuer' = [issuer EXCEPT ![c] = "post"]
  /\ UNCHANGED <<link, flush, wire, run, past>>

Return(c, reply) == issuer' = [issuer EXCEPT ![c] = reply]

\* Mutant of PostOffline: no early return, the row is marked all the same.
PostOfflineMark(c) ==
  /\ issuer[c] = "post" /\ Attached = {}
  /\ SetRow(c, "sent")
  /\ Return(c, "delivered")
  /\ UNCHANGED <<link, flush, wire, run, past>>

\* handleCommand: offline, the row stays queued ...
PostOffline(c) ==
  /\ issuer[c] = "post" /\ Attached = {}
  /\ Return(c, "queued")
  /\ UNCHANGED <<row, link, flush, wire, run, past>>

\* ... otherwise the frame goes to every attached socket ...
PostSend(c) ==
  /\ issuer[c] = "post" /\ Attached # {}
  /\ issuer' = [issuer EXCEPT ![c] = "update"]
  /\ Send(c, Attached)
  /\ UNCHANGED <<row, link, flush, outbox, run, past>>

\* ... and the row becomes sent, whether or not a socket took the frame.
PostMark(c) ==
  /\ issuer[c] = "update"
  /\ SetRow(c, "sent")
  /\ Return(c, "delivered")
  /\ UNCHANGED <<link, flush, wire, run, past>>

\* The call to the object throws, before or after the frame went out.
PostFails(c) ==
  /\ "do_failure" \in Faults
  /\ issuer[c] \in {"post", "update"}
  /\ Return(c, "queued")
  /\ UNCHANGED <<row, link, flush, wire, run, past>>

\* DELETE /api/devices/:uuid/commands/:id, one or a batch.
Delete(c) ==
  /\ row[c] \notin {"none", "deleted"}
  /\ row' = [row EXCEPT ![c] = "deleted"]
  /\ UNCHANGED <<issuer, link, flush, wire, run, past>>

-----------------------------------------------------------------------------
(* handleConnect and flushQueued. *)

\* The agent dials when its previous connection has returned: no link of its
\* own, no handler running.
Connect(s) ==
  /\ link[s] = "free" /\ conn[s] = "idle"
  /\ \A t \in Socket : link[t] # "up" /\ run[t] = NoCmd
  /\ link' = [link EXCEPT ![s] = "up"]
  /\ conn' = [conn EXCEPT ![s] = "select"]
  /\ targets' = [t \in Socket |-> targets[t] \ {s}]
  /\ UNCHANGED <<row, issuer, pending, sending, wire, run, past>>

\* Mutants of FlushSelect: LIMIT 1, and the wrong status.
FlushSelectOne(s) ==
  /\ conn[s] = "select"
  /\ conn' = [conn EXCEPT ![s] = IF Attached = {} THEN "idle" ELSE "flush"]
  /\ targets' = [targets EXCEPT ![s] = Attached]
  /\ \/ \E c \in Cmd : row[c] = "queued" /\ pending' = [pending EXCEPT ![s] = {c}]
     \/ (\A c \in Cmd : row[c] # "queued") /\ pending' = [pending EXCEPT ![s] = {}]
  /\ UNCHANGED <<row, issuer, link, sending, wire, run, past>>

FlushSelectSent(s) ==
  /\ conn[s] = "select"
  /\ conn' = [conn EXCEPT ![s] = IF Attached = {} THEN "idle" ELSE "flush"]
  /\ targets' = [targets EXCEPT ![s] = Attached]
  /\ pending' = [pending EXCEPT ![s] = { c \in Cmd : row[c] = "sent" }]
  /\ UNCHANGED <<row, issuer, link, sending, wire, run, past>>

\* flushQueued reads the attached sockets and the queued rows.  ORDER BY
\* issued_at has a resolution of a second: any order may come out.
FlushSelect(s) ==
  /\ conn[s] = "select"
  /\ conn' = [conn EXCEPT ![s] = IF Attached = {} THEN "idle" ELSE "flush"]
  /\ targets' = [targets EXCEPT ![s] = Attached]
  /\ pending' = [pending EXCEPT ![s] = { c \in Cmd : row[c] = "queued" }]
  /\ UNCHANGED <<row, issuer, link, sending, wire, run, past>>

FlushSend(s, c) ==
  /\ conn[s] = "flush" /\ c \in pending[s]
  /\ conn' = [conn EXCEPT ![s] = "mark"]
  /\ sending' = [sending EXCEPT ![s] = c]
  /\ pending' = [pending EXCEPT ![s] = @ \ {c}]
  /\ Send(c, targets[s])
  /\ UNCHANGED <<row, issuer, link, targets, outbox, run, past>>

FlushMark(s) ==
  /\ conn[s] = "mark"
  /\ conn' = [conn EXCEPT ![s] = "flush"]
  /\ sending' = [sending EXCEPT ![s] = NoCmd]
  /\ SetRow(sending[s], "sent")
  /\ UNCHANGED <<issuer, link, targets, pending, wire, run, past>>

\* Nothing is left: the 101 goes out and the agent starts to read.
FlushDone(s) ==
  /\ conn[s] = "flush" /\ pending[s] = {}
  /\ conn' = [conn EXCEPT ![s] = "idle"]
  /\ UNCHANGED <<row, issuer, link, targets, pending, sending, wire, run, past>>

LoseLinks(S) ==
  /\ link' = [s \in Socket |-> IF s \in S /\ link[s] = "up" THEN "gone" ELSE link[s]]
  /\ inbox' = [s \in Socket |-> IF s \in S THEN << >> ELSE inbox[s]]
  /\ outbox' = [s \in Socket |-> IF s \in S THEN << >> ELSE outbox[s]]

ConnectDies(s) ==
  /\ "do_failure" \in Faults
  /\ conn[s] # "idle"
  /\ conn' = [conn EXCEPT ![s] = "idle"]
  /\ sending' = [sending EXCEPT ![s] = NoCmd]
  /\ LoseLinks({s})
  /\ UNCHANGED <<row, issuer, targets, pending, run, past>>

-----------------------------------------------------------------------------
(* The link and the agent. *)

Drop(s) ==
  /\ "drop" \in Faults
  /\ link[s] = "up"
  /\ LoseLinks({s})
  /\ UNCHANGED <<row, issuer, flush, run, past>>

\* A reboot, an update or a panic; a handler that was running is cut short.
AgentDies ==
  /\ "drop" \in Faults
  /\ LoseLinks(Socket)
  /\ run' = [s \in Socket |-> NoCmd]
  /\ UNCHANGED <<row, issuer, flush, past>>

\* The close event, or the runtime forgets the socket.
SocketClose(s) ==
  /\ link[s] = "gone"
  /\ link' = [link EXCEPT ![s] = "free"]
  /\ UNCHANGED <<row, issuer, flush, wire, run, past>>

\* connectAndServe reads one frame and dispatches it: the read loop waits for
\* the handler.
Dispatch(s) ==
  /\ link[s] = "up" /\ conn[s] = "idle"
  /\ run[s] = NoCmd /\ inbox[s] # << >>
  /\ run' = [run EXCEPT ![s] = Head(inbox[s])]
  /\ ran' = ran \cup {Head(inbox[s])}
  /\ inbox' = [inbox EXCEPT ![s] = Tail(@)]
  /\ UNCHANGED <<row, issuer, link, flush, outbox, overtaken>>

\* The handler returns; its ack is written to the same connection.
SendAck(s) ==
  /\ run[s] # NoCmd
  /\ run' = [run EXCEPT ![s] = NoCmd]
  /\ outbox' = [outbox EXCEPT ![s] =
                  IF link[s] = "up" THEN Append(@, run[s]) ELSE @]
  /\ UNCHANGED <<row, issuer, link, flush, inbox, past>>

Marking(c) == issuer[c] = "update" \/ \E s \in Socket : sending[s] = c

\* webSocketMessage of an ack, which carries either answer.  Nothing makes it wait
\* for an UPDATE to 'sent' that handleCommand or flushQueued has under way: landing
\* later, that one overwrites the answer.
Ack(s, answer) ==
  /\ outbox[s] # << >>
  /\ LET c == Head(outbox[s])
     IN  /\ SetRow(c, answer)
         /\ overtaken' = IF Marking(c) THEN overtaken \cup {c} ELSE overtaken \ {c}
  /\ outbox' = [outbox EXCEPT ![s] = Tail(@)]
  /\ UNCHANGED <<issuer, link, flush, inbox, run, ran>>

-----------------------------------------------------------------------------
Post(c)  == PostOffline(c) \/ PostSend(c) \/ PostMark(c)
Flush(s) == \/ FlushSelect(s) \/ FlushMark(s) \/ FlushDone(s)
            \/ \E c \in Cmd : FlushSend(s, c)
Agent(s) == Dispatch(s) \/ SendAck(s)
Acks(s)  == \E answer \in Answer : Ack(s, answer)

Next ==
  \/ \E c \in Cmd : Insert(c) \/ Post(c) \/ PostFails(c) \/ Delete(c)
  \/ \E s \in Socket : Connect(s) \/ Flush(s) \/ ConnectDies(s)
                         \/ Drop(s) \/ SocketClose(s) \/ Agent(s) \/ Acks(s)
  \/ AgentDies

Spec == Init /\ [][Next]_vars

\* Handlers finish, the agent dials until it is connected, and an open link
\* delivers.
FairSpec ==
  /\ Spec
  /\ \A c \in Cmd : WF_vars(Post(c))
  /\ WF_vars(\E s \in Socket : Connect(s))
  /\ \A s \in Socket :
       WF_vars(Flush(s)) /\ WF_vars(SocketClose(s)) /\ WF_vars(Agent(s)) /\ WF_vars(Acks(s))

-----------------------------------------------------------------------------
(* Properties. *)

\* No command waits for the next reconnect while the agent is connected: a row
\* that is still queued once issueCommand has returned has no open link beside
\* it, however the issue and the handshake interleave (handleCommand and
\* flushQueued cover each other's gaps).
NotStranded ==
  \A c \in Cmd : row[c] = "queued" /\ issuer[c] \in Reply =>
    \A s \in Socket : ~(link[s] = "up" /\ conn[s] = "idle")

\* While links hold, a row that says sent has its frame with the agent or its
\* answer on the way back, or that answer came while the row was still being
\* marked: nothing but a mark that lands after its own answer (handleCommand,
\* flushQueued) leaves a row at sent for good.
SentIsInFlight ==
  \A c \in Cmd : row[c] = "sent" =>
    \/ c \in overtaken
    \/ \E s \in Socket :
         \/ \E i \in DOMAIN inbox[s] : inbox[s][i] = c
         \/ run[s] = c
         \/ \E i \in DOMAIN outbox[s] : outbox[s][i] = c

\* While links hold, every command is answered or deleted in the end, also one
\* that was issued before the kiosk ever connected.
Answered ==
  \A c \in Cmd : row[c] = "queued" ~> row[c] \in Answer \cup {"deleted"}

\* Whatever fails, a queued row is tried again at the next handshake that
\* completes: nothing the object loses makes it skip a row for good.
ReconnectRetries ==
  \A s \in Socket, c \in Cmd :
    []<><<FlushDone(s)>>_vars => []<>(row[c] # "queued")

\* DeviceDetail: a command that was not delivered is queued and "will run once
\* the device has connected".
QueuedRunsLater ==
  \A c \in Cmd :
    issuer[c] = "queued" ~> c \in ran \/ row[c] = "deleted"
=============================================================================
