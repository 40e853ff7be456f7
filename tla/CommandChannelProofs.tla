------------------------- MODULE CommandChannelProofs -------------------------
(***************************************************************************)
(* What holds of CommandChannel for any number of commands and sockets.    *)
(***************************************************************************)
EXTENDS CommandChannel, TLAPS

\* Every reachable state is well-typed, whatever faults are allowed.
THEOREM TypeCorrect == Spec => []TypeOK
<1>1. Init => TypeOK
  BY DEF Init, TypeOK
<1>2. TypeOK /\ [Next]_vars => TypeOK'
  <2> SUFFICES ASSUME TypeOK, [Next]_vars PROVE TypeOK'
    OBVIOUS
  <2> USE CommandAssumption DEF TypeOK, flush, wire, past, Answer, Reply
  <2>1. ASSUME NEW c \in Cmd, Insert(c) PROVE TypeOK'
    BY <2>1 DEF Insert
  <2>2. ASSUME NEW c \in Cmd, PostOffline(c) \/ PostFails(c) PROVE TypeOK'
    <3>1. issuer' = [issuer EXCEPT ![c] = "queued"]
      BY <2>2 DEF PostOffline, PostFails, Return
    <3> QED
      BY <2>2, <3>1 DEF PostOffline, PostFails
  <2>3. ASSUME NEW c \in Cmd, PostSend(c) PROVE TypeOK'
    <3>1. inbox' \in [Socket -> Seq(Cmd)]
      BY <2>3 DEF PostSend, Send
    <3> QED
      BY <2>3, <3>1 DEF PostSend
  <2>4. ASSUME NEW c \in Cmd, PostMark(c) PROVE TypeOK'
    BY <2>4 DEF PostMark, SetRow, Return
  <2>5. ASSUME NEW c \in Cmd, Delete(c) PROVE TypeOK'
    BY <2>5 DEF Delete
  <2>6. ASSUME NEW s \in Socket, Connect(s) PROVE TypeOK'
    BY <2>6 DEF Connect
  <2>7. ASSUME NEW s \in Socket, FlushSelect(s) PROVE TypeOK'
    BY <2>7 DEF FlushSelect, Attached
  <2>8. ASSUME NEW s \in Socket, NEW c \in Cmd, FlushSend(s, c) PROVE TypeOK'
    <3>1. inbox' \in [Socket -> Seq(Cmd)]
      BY <2>8 DEF FlushSend, Send
    <3> QED
      BY <2>8, <3>1 DEF FlushSend
  <2>9. ASSUME NEW s \in Socket, FlushMark(s) PROVE TypeOK'
    <3>1. sending[s] \in Cmd
      BY <2>9 DEF FlushMark
    <3>2. row' = [row EXCEPT ![sending[s]] = IF @ = "deleted" THEN @ ELSE "sent"]
      BY <2>9 DEF FlushMark, SetRow
    <3> QED
      BY <2>9, <3>1, <3>2 DEF FlushMark
  <2>10. ASSUME NEW s \in Socket, FlushDone(s) PROVE TypeOK'
    BY <2>10 DEF FlushDone
  <2>11. ASSUME NEW s \in Socket, ConnectDies(s) \/ Drop(s) PROVE TypeOK'
    <3>1. /\ link' \in [Socket -> {"free", "up", "gone"}]
          /\ inbox' \in [Socket -> Seq(Cmd)] /\ outbox' \in [Socket -> Seq(Cmd)]
      <4>1. LoseLinks({s})
        BY <2>11 DEF ConnectDies, Drop
      <4> QED
        BY <4>1 DEF LoseLinks
    <3>2. CASE ConnectDies(s)
      BY <3>1, <3>2 DEF ConnectDies
    <3>3. CASE Drop(s)
      BY <3>1, <3>3 DEF Drop
    <3> QED
      BY <2>11, <3>2, <3>3
  <2>12. ASSUME AgentDies PROVE TypeOK'
    BY <2>12 DEF AgentDies, LoseLinks
  <2>13. ASSUME NEW s \in Socket, SocketClose(s) PROVE TypeOK'
    BY <2>13 DEF SocketClose
  <2>14. ASSUME NEW s \in Socket, Dispatch(s) PROVE TypeOK'
    BY <2>14 DEF Dispatch
  <2>15. ASSUME NEW s \in Socket, SendAck(s) PROVE TypeOK'
    BY <2>15 DEF SendAck
  <2>16. ASSUME NEW s \in Socket, NEW a \in Answer, Ack(s, a) PROVE TypeOK'
    BY <2>16 DEF Ack, SetRow
  <2>17. ASSUME UNCHANGED vars PROVE TypeOK'
    BY <2>17 DEF vars
  <2> QED
    BY <2>1, <2>2, <2>3, <2>4, <2>5, <2>6, <2>7, <2>8, <2>9, <2>10, <2>11,
       <2>12, <2>13, <2>14, <2>15, <2>16, <2>17
       DEF Next, Post, Flush, Agent, Acks
<1> QED
  BY <1>1, <1>2, PTL DEF Spec

-----------------------------------------------------------------------------
(* A queued row that nobody is issuing is on the way through the handshake   *)
(* of every open link: not yet selected, listed, or being marked.            *)

InFlush(s, c) ==
  \/ conn[s] = "select"
  \/ conn[s] = "flush" /\ c \in pending[s]
  \/ conn[s] = "mark"  /\ (c \in pending[s] \/ sending[s] = c)

Covered ==
  \A c \in Cmd : row[c] = "queued" /\ issuer[c] \in Reply =>
    \A s \in Socket : link[s] = "up" => InFlush(s, c)

\* Covered is preserved as long as no handler of the object fails.
LEMMA CoveredStep ==
  ASSUME "do_failure" \notin Faults, TypeOK, Covered, [Next]_vars
  PROVE  Covered'
<1> USE DEF TypeOK, Covered, InFlush, flush, wire, past, Reply
<1>1. ASSUME NEW c \in Cmd, Insert(c) PROVE Covered'
  BY <1>1 DEF Insert
<1>2. ASSUME NEW c \in Cmd, PostOffline(c) PROVE Covered'
  BY <1>2 DEF PostOffline, Return, Attached
<1>3. ASSUME NEW c \in Cmd, PostSend(c) PROVE Covered'
  BY <1>3 DEF PostSend
<1>4. ASSUME NEW c \in Cmd, PostMark(c) PROVE Covered'
  BY <1>4 DEF PostMark, SetRow, Return
<1>5. ASSUME NEW c \in Cmd, Delete(c) PROVE Covered'
  BY <1>5 DEF Delete
<1>6. ASSUME NEW s \in Socket, Connect(s) PROVE Covered'
  BY <1>6 DEF Connect
<1>7. ASSUME NEW s \in Socket, FlushSelect(s) PROVE Covered'
  BY <1>7 DEF FlushSelect, Attached
<1>8. ASSUME NEW s \in Socket, NEW c \in Cmd, FlushSend(s, c) PROVE Covered'
  BY <1>8 DEF FlushSend
<1>9. ASSUME NEW s \in Socket, FlushMark(s) PROVE Covered'
  BY <1>9 DEF FlushMark, SetRow
<1>10. ASSUME NEW s \in Socket, FlushDone(s) PROVE Covered'
  BY <1>10 DEF FlushDone
<1>11. ASSUME NEW s \in Socket, Drop(s) \/ SocketClose(s) PROVE Covered'
  BY <1>11 DEF Drop, SocketClose, LoseLinks
<1>12. ASSUME AgentDies PROVE Covered'
  BY <1>12 DEF AgentDies, LoseLinks
<1>13. ASSUME NEW s \in Socket, Dispatch(s) \/ SendAck(s) PROVE Covered'
  BY <1>13 DEF Dispatch, SendAck
<1>14. ASSUME NEW s \in Socket, NEW a \in Answer, Ack(s, a) PROVE Covered'
  BY <1>14 DEF Ack, SetRow, Answer
<1>15. ASSUME UNCHANGED vars PROVE Covered'
  BY <1>15 DEF vars
<1>16. ASSUME \/ \E c \in Cmd : PostFails(c)
              \/ \E s \in Socket : ConnectDies(s)
       PROVE  Covered'
  BY <1>16 DEF PostFails, ConnectDies
<1> QED
  BY <1>1, <1>2, <1>3, <1>4, <1>5, <1>6, <1>7, <1>8, <1>9, <1>10, <1>11, <1>12,
     <1>13, <1>14, <1>15, <1>16 DEF Next, Post, Flush, Agent, Acks

\* If the handlers of the object do not fail, no command is left queued beside
\* an open link, whatever the links and the agent do.
THEOREM NeverStranded ==
  ASSUME "do_failure" \notin Faults
  PROVE  Spec => []NotStranded
<1>1. Init => Covered
  BY DEF Init, Covered
<1>2. Covered /\ TypeOK /\ [Next]_vars => Covered'
  BY CoveredStep
<1>3. Covered => NotStranded
  BY DEF Covered, InFlush, NotStranded
<1> QED
  BY <1>1, <1>2, <1>3, TypeCorrect, PTL DEF Spec

-----------------------------------------------------------------------------
(* Without faults: a command that was sent, or is being marked so, is with   *)
(* the agent, or its ack is on the way back or came before the mark.         *)

Holds(q, c) == \E i \in DOMAIN q : q[i] = c

InFlight(c) ==
  \E s \in Socket : Holds(inbox[s], c) \/ run[s] = c \/ Holds(outbox[s], c)

\* Links hold, the agent runs what came over one of them, and a flush that sends has
\* an open socket to send to.
LinksHold ==
  /\ \A s \in Socket : link[s] # "gone"
  /\ \A s \in Socket : run[s] # NoCmd => link[s] = "up"
  /\ \A s \in Socket : conn[s] \in {"flush", "mark"} => \E t \in targets[s] : link[t] = "up"

Accounted ==
  \A c \in Cmd : row[c] = "sent" \/ Marking(c) => InFlight(c) \/ c \in overtaken

SentInv == TypeOK /\ LinksHold /\ Accounted

LEMMA AppendHolds ==
  ASSUME NEW S, NEW q \in Seq(S), NEW x \in S, NEW c
  PROVE  Holds(Append(q, x), c) <=> Holds(q, c) \/ x = c
<1>1. /\ DOMAIN q = 1 .. Len(q) /\ Len(q) \in Nat
      /\ DOMAIN Append(q, x) = 1 .. Len(q) + 1
      /\ \A i \in 1 .. Len(q) : Append(q, x)[i] = q[i]
      /\ Append(q, x)[Len(q) + 1] = x
  OBVIOUS
<1>2. \A i \in 1 .. Len(q) : i \in 1 .. Len(q) + 1
  BY <1>1
<1>3. \A i \in 1 .. Len(q) + 1 : i \in 1 .. Len(q) \/ i = Len(q) + 1
  BY <1>1
<1>4. Len(q) + 1 \in 1 .. Len(q) + 1
  BY <1>1
<1> QED
  BY <1>1, <1>2, <1>3, <1>4, Zenon DEF Holds

LEMMA TailHolds ==
  ASSUME NEW S, NEW q \in Seq(S), q # << >>, NEW c
  PROVE  Holds(q, c) => Head(q) = c \/ Holds(Tail(q), c)
<1> SUFFICES ASSUME NEW i \in DOMAIN q, q[i] = c, i # 1
             PROVE  Holds(Tail(q), c)
  BY DEF Holds
<1>1. i - 1 \in DOMAIN Tail(q) /\ Tail(q)[i - 1] = q[i]
  OBVIOUS
<1> QED
  BY <1>1 DEF Holds

\* Sending to a set with an open socket puts the command in flight, and sending
\* takes nothing out of it.
LEMMA SendReaches ==
  ASSUME TypeOK, NEW c \in Cmd, NEW S, Send(c, S), UNCHANGED <<run, outbox>>
  PROVE  /\ \A d \in Cmd : InFlight(d) => InFlight(d)'
         /\ (\E s \in S \cap Socket : link[s] = "up") => InFlight(c)'
<1>1. \A s \in Socket : inbox[s] \in Seq(Cmd)
  BY DEF TypeOK
<1>2. \A s \in Socket : /\ \A d : Holds(inbox[s], d) => Holds(inbox'[s], d)
                        /\ s \in S /\ link[s] = "up" => Holds(inbox'[s], c)
  BY <1>1, AppendHolds DEF Send
<1> QED
  BY <1>2 DEF InFlight

\* SentInv is preserved by every step of a run without faults.
LEMMA SentInvStep ==
  ASSUME Faults = {}, SentInv, [Next]_vars, TypeOK'
  PROVE  SentInv'
<1>1. TypeOK /\ LinksHold /\ Accounted
  BY DEF SentInv
<1> USE CommandAssumption DEF SentInv, flush, wire, past
<1>2. ASSUME LinksHold', UNCHANGED <<inbox, run, outbox, overtaken>>,
             \A c \in Cmd : row'[c] = "sent" \/ Marking(c)' => row[c] = "sent" \/ Marking(c)
      PROVE  SentInv'
  BY <1>1, <1>2 DEF Accounted, InFlight
<1>3. ASSUME NEW c \in Cmd, Insert(c) PROVE SentInv'
  <2>1. LinksHold' /\ UNCHANGED <<inbox, run, outbox, overtaken>>
    BY <1>1, <1>3 DEF Insert, LinksHold
  <2>2. \A d \in Cmd : row'[d] = "sent" \/ Marking(d)' => row[d] = "sent" \/ Marking(d)
    BY <1>1, <1>3 DEF Insert, Marking, TypeOK
  <2> QED
    BY <1>2, <2>1, <2>2
<1>4. ASSUME NEW c \in Cmd, PostOffline(c) \/ PostMark(c) \/ Delete(c) PROVE SentInv'
  <2>1. LinksHold' /\ UNCHANGED <<inbox, run, outbox, overtaken>>
    BY <1>1, <1>4 DEF PostOffline, PostMark, Delete, LinksHold
  <2>2. \A d \in Cmd : row'[d] = "sent" \/ Marking(d)' => row[d] = "sent" \/ Marking(d)
    BY <1>1, <1>4 DEF PostOffline, PostMark, Delete, SetRow, Return, Marking, TypeOK
  <2> QED
    BY <1>2, <2>1, <2>2
<1>5. ASSUME NEW c \in Cmd, PostSend(c) PROVE SentInv'
  <2>1. LinksHold'
    BY <1>1, <1>5 DEF PostSend, LinksHold
  <2>2. \E s \in Attached \cap Socket : link[s] = "up"
    BY <1>1, <1>5 DEF PostSend, Attached, LinksHold, TypeOK
  <2>3. InFlight(c)' /\ \A d \in Cmd : InFlight(d) => InFlight(d)'
    BY <1>1, <1>5, <2>2, SendReaches DEF PostSend
  <2>4. \A d \in Cmd : row'[d] = "sent" \/ Marking(d)' => d = c \/ row[d] = "sent" \/ Marking(d)
    BY <1>1, <1>5 DEF PostSend, Marking, TypeOK
  <2> QED
    BY <1>1, <1>5, <2>1, <2>3, <2>4 DEF Accounted, PostSend
<1>6. ASSUME NEW s \in Socket, Connect(s) PROVE SentInv'
  <2>1. \A t \in Socket : link'[t] # "gone" /\ (link[t] = "up" => link'[t] = "up")
    BY <1>1, <1>6 DEF Connect, LinksHold, TypeOK
  <2>2. \A t \in Socket : conn'[t] \in {"flush", "mark"} => \E r \in targets'[t] : link'[r] = "up"
    <3> SUFFICES ASSUME NEW t \in Socket, conn'[t] \in {"flush", "mark"}
                 PROVE  \E r \in targets'[t] : link'[r] = "up"
      OBVIOUS
    <3>1. conn[t] \in {"flush", "mark"}
      BY <1>1, <1>6 DEF Connect, TypeOK
    <3>2. PICK r \in targets[t] : link[r] = "up"
      BY <1>1, <3>1 DEF LinksHold
    <3>3. r \in Socket /\ r # s /\ r \in targets'[t]
      BY <1>1, <1>6, <3>2 DEF Connect, TypeOK
    <3> QED
      BY <2>1, <3>2, <3>3
  <2>3. LinksHold' /\ UNCHANGED <<inbox, run, outbox, overtaken>>
    BY <1>1, <1>6, <2>1, <2>2 DEF Connect, LinksHold
  <2>4. \A d \in Cmd : row'[d] = "sent" \/ Marking(d)' => row[d] = "sent" \/ Marking(d)
    BY <1>1, <1>6 DEF Connect, Marking
  <2> QED
    BY <1>2, <2>3, <2>4
<1>7. ASSUME NEW s \in Socket, FlushSelect(s) PROVE SentInv'
  <2>1. \A t \in Socket : conn'[t] \in {"flush", "mark"} => \E r \in targets'[t] : link'[r] = "up"
    BY <1>1, <1>7 DEF FlushSelect, Attached, LinksHold, TypeOK
  <2>2. LinksHold' /\ UNCHANGED <<inbox, run, outbox, overtaken>>
    BY <1>1, <1>7, <2>1 DEF FlushSelect, LinksHold
  <2>3. \A d \in Cmd : row'[d] = "sent" \/ Marking(d)' => row[d] = "sent" \/ Marking(d)
    BY <1>1, <1>7 DEF FlushSelect, Marking
  <2> QED
    BY <1>2, <2>2, <2>3
<1>8. ASSUME NEW s \in Socket, NEW c \in Cmd, FlushSend(s, c) PROVE SentInv'
  <2>1. LinksHold'
    BY <1>1, <1>8 DEF FlushSend, LinksHold, TypeOK
  <2>2. \E t \in targets[s] \cap Socket : link[t] = "up"
    BY <1>1, <1>8 DEF FlushSend, LinksHold, TypeOK
  <2>3. InFlight(c)' /\ \A d \in Cmd : InFlight(d) => InFlight(d)'
    BY <1>1, <1>8, <2>2, SendReaches DEF FlushSend
  <2>4. \A d \in Cmd : row'[d] = "sent" \/ Marking(d)' => d = c \/ row[d] = "sent" \/ Marking(d)
    BY <1>1, <1>8 DEF FlushSend, Marking, TypeOK
  <2> QED
    BY <1>1, <1>8, <2>1, <2>3, <2>4 DEF Accounted, FlushSend
<1>9. ASSUME NEW s \in Socket, FlushMark(s) PROVE SentInv'
  <2>1. LinksHold' /\ UNCHANGED <<inbox, run, outbox, overtaken>>
    BY <1>1, <1>9 DEF FlushMark, LinksHold, TypeOK
  <2>2. sending[s] \in Cmd /\ Marking(sending[s])
    BY <1>1, <1>9 DEF FlushMark, Marking, TypeOK
  <2>3. \A d \in Cmd : row'[d] = "sent" \/ Marking(d)' => row[d] = "sent" \/ Marking(d)
    BY <1>1, <1>9, <2>2 DEF FlushMark, SetRow, Marking, TypeOK
  <2> QED
    BY <1>2, <2>1, <2>3
<1>10. ASSUME NEW s \in Socket, FlushDone(s) PROVE SentInv'
  <2>1. LinksHold' /\ UNCHANGED <<inbox, run, outbox, overtaken>>
    BY <1>1, <1>10 DEF FlushDone, LinksHold, TypeOK
  <2>2. \A d \in Cmd : row'[d] = "sent" \/ Marking(d)' => row[d] = "sent" \/ Marking(d)
    BY <1>1, <1>10 DEF FlushDone, Marking
  <2> QED
    BY <1>2, <2>1, <2>2
<1>11. ASSUME NEW s \in Socket, Dispatch(s) PROVE SentInv'
  <2>1. inbox[s] \in Seq(Cmd) /\ inbox[s] # << >> /\ run[s] = NoCmd
    BY <1>1, <1>11 DEF Dispatch, TypeOK
  <2>2. LinksHold'
    BY <1>1, <1>11 DEF Dispatch, LinksHold, TypeOK
  <2>3. ASSUME NEW d \in Cmd, InFlight(d) PROVE InFlight(d)'
    <3>1. /\ run'[s] = Head(inbox[s]) /\ inbox'[s] = Tail(inbox[s])
          /\ \A t \in Socket \ {s} : run'[t] = run[t] /\ inbox'[t] = inbox[t]
          /\ outbox' = outbox /\ run[s] # d
      BY <1>1, <1>11 DEF Dispatch, TypeOK
    <3>2. Holds(inbox[s], d) => run'[s] = d \/ Holds(inbox'[s], d)
      BY <2>1, <3>1, TailHolds
    <3> QED
      BY <2>3, <3>1, <3>2 DEF InFlight
  <2>4. \A d \in Cmd : row'[d] = "sent" \/ Marking(d)' => row[d] = "sent" \/ Marking(d)
    BY <1>1, <1>11 DEF Dispatch, Marking
  <2> QED
    BY <1>1, <1>11, <2>2, <2>3, <2>4 DEF Accounted, Dispatch
<1>12. ASSUME NEW s \in Socket, SendAck(s) PROVE SentInv'
  <2>1. outbox[s] \in Seq(Cmd) /\ run[s] \in Cmd /\ link[s] = "up"
    BY <1>1, <1>12 DEF SendAck, TypeOK, LinksHold
  <2>2. LinksHold'
    BY <1>1, <1>12 DEF SendAck, LinksHold, TypeOK
  <2>3. ASSUME NEW d \in Cmd, InFlight(d) PROVE InFlight(d)'
    <3>1. /\ outbox'[s] = Append(outbox[s], run[s])
          /\ \A t \in Socket \ {s} : run'[t] = run[t] /\ outbox'[t] = outbox[t]
          /\ inbox' = inbox
      BY <1>1, <1>12, <2>1 DEF SendAck, TypeOK
    <3>2. run[s] = d \/ Holds(outbox[s], d) => Holds(outbox'[s], d)
      BY <2>1, <3>1, AppendHolds
    <3> QED
      BY <2>3, <3>1, <3>2 DEF InFlight
  <2>4. \A d \in Cmd : row'[d] = "sent" \/ Marking(d)' => row[d] = "sent" \/ Marking(d)
    BY <1>1, <1>12 DEF SendAck, Marking
  <2> QED
    BY <1>1, <1>12, <2>2, <2>3, <2>4 DEF Accounted, SendAck
<1>13. ASSUME NEW s \in Socket, NEW a \in Answer, Ack(s, a) PROVE SentInv'
  <2> DEFINE c == Head(outbox[s])
  <2>1. outbox[s] \in Seq(Cmd) /\ outbox[s] # << >> /\ c \in Cmd
    BY <1>1, <1>13 DEF Ack, TypeOK
  <2>2. LinksHold'
    BY <1>1, <1>13 DEF Ack, LinksHold
  <2>3. ASSUME NEW d \in Cmd, InFlight(d), d # c PROVE InFlight(d)'
    <3>1. /\ outbox'[s] = Tail(outbox[s])
          /\ \A t \in Socket \ {s} : outbox'[t] = outbox[t]
          /\ UNCHANGED <<inbox, run>>
      BY <1>1, <1>13 DEF Ack, TypeOK
    <3>2. Holds(outbox[s], d) => Holds(outbox'[s], d)
      BY <2>1, <2>3, <3>1, TailHolds
    <3> QED
      BY <2>3, <3>1, <3>2 DEF InFlight
  <2>4. \A d \in Cmd : /\ Marking(d)' <=> Marking(d)
                       /\ row'[d] = "sent" => d # c /\ row[d] = "sent"
    BY <1>1, <1>13, <2>1 DEF Ack, SetRow, Marking, Answer, TypeOK
  <2>5. \A d \in Cmd : d # c => (d \in overtaken' <=> d \in overtaken)
    BY <1>13 DEF Ack
  <2>6. Marking(c) => c \in overtaken'
    BY <1>13 DEF Ack
  <2> QED
    BY <1>1, <2>2, <2>3, <2>4, <2>5, <2>6 DEF Accounted
<1>14. ASSUME \/ \E s \in Socket : Drop(s) \/ ConnectDies(s) \/ SocketClose(s)
              \/ \E c \in Cmd : PostFails(c)
              \/ AgentDies
       PROVE  SentInv'
  BY <1>1, <1>14 DEF Drop, ConnectDies, SocketClose, PostFails, AgentDies, LinksHold
<1>15. CASE UNCHANGED vars
  BY <1>1, <1>15, <1>2 DEF vars, LinksHold, Marking
<1> QED
  BY <1>3, <1>4, <1>5, <1>6, <1>7, <1>8, <1>9, <1>10, <1>11, <1>12, <1>13, <1>14, <1>15
     DEF Next, Post, Flush, Agent, Acks

\* While links hold, a row that says sent has its frame with the agent or its ack on
\* the way back, unless that ack overtook the mark, for any number of commands and
\* sockets.
THEOREM SentInFlight ==
  ASSUME Faults = {}
  PROVE  Spec => []SentIsInFlight
<1>1. Init => LinksHold /\ Accounted
  BY CommandAssumption DEF Init, LinksHold, Accounted, Marking
<1>2. (LinksHold /\ Accounted) /\ TypeOK /\ TypeOK' /\ [Next]_vars => (LinksHold /\ Accounted)'
  BY SentInvStep DEF SentInv
<1>3. LinksHold /\ Accounted => SentIsInFlight
  BY DEF Accounted, InFlight, Holds, SentIsInFlight
<1> QED
  BY <1>1, <1>2, <1>3, TypeCorrect, PTL DEF Spec

-----------------------------------------------------------------------------
(* Whatever fails: a row that stays queued is not passed over by a handshake *)
(* that began after it was.                                                  *)

Waits(s, c) == conn[s] = "idle" \/ InFlush(s, c)

\* While a row stays queued, a flush that is idle or has the row before it neither
\* gets past the row nor completes.
LEMMA FlushHoldsRow ==
  ASSUME TypeOK, [Next]_vars, NEW s \in Socket, NEW c \in Cmd,
         Waits(s, c), row[c] = "queued", row'[c] = "queued"
  PROVE  Waits(s, c)' /\ ~FlushDone(s)
<1>1. ~FlushDone(s)
  BY DEF TypeOK, Waits, InFlush, FlushDone
<1>2. Waits(s, c)'
  <2> USE DEF TypeOK, Waits, InFlush, flush, wire, past
  <2>1. ASSUME NEW d \in Cmd, Insert(d) \/ Post(d) \/ PostFails(d) \/ Delete(d)
        PROVE  Waits(s, c)'
    BY <2>1 DEF Insert, Post, PostOffline, PostSend, PostMark, PostFails, Delete
  <2>2. ASSUME NEW t \in Socket, Connect(t) PROVE Waits(s, c)'
    BY <2>2 DEF Connect
  <2>3. ASSUME NEW t \in Socket, FlushSelect(t) PROVE Waits(s, c)'
    BY <2>3 DEF FlushSelect
  <2>4. ASSUME NEW t \in Socket, NEW d \in Cmd, FlushSend(t, d) PROVE Waits(s, c)'
    BY <2>4 DEF FlushSend
  <2>5. ASSUME NEW t \in Socket, FlushMark(t) PROVE Waits(s, c)'
    BY <2>5 DEF FlushMark, SetRow
  <2>6. ASSUME NEW t \in Socket, FlushDone(t) \/ ConnectDies(t) PROVE Waits(s, c)'
    BY <2>6 DEF FlushDone, ConnectDies
  <2>7. ASSUME NEW t \in Socket, Drop(t) \/ SocketClose(t) \/ Agent(t) \/ Acks(t)
        PROVE  Waits(s, c)'
    BY <2>7 DEF Drop, SocketClose, Agent, Dispatch, SendAck, Acks, Ack
  <2>8. ASSUME AgentDies \/ UNCHANGED vars PROVE Waits(s, c)'
    BY <2>8 DEF AgentDies, vars
  <2> QED
    BY <2>1, <2>2, <2>3, <2>4, <2>5, <2>6, <2>7, <2>8 DEF Next, Flush
<1> QED
  BY <1>1, <1>2

\* Handshakes that complete again and again leave no row queued for ever, with
\* every fault and no fairness: once one has completed while the row is queued, no
\* other one completes until it no longer is.
THEOREM ReconnectAlwaysRetries == Spec => ReconnectRetries
<1> SUFFICES ASSUME NEW s \in Socket, NEW c \in Cmd
             PROVE  Spec => ([]<><<FlushDone(s)>>_vars => []<>(row[c] # "queued"))
  BY DEF ReconnectRetries
<1> DEFINE Q == row[c] = "queued"
           W == Waits(s, c)
<1>1. TypeOK /\ Q /\ W /\ [Next]_vars /\ Q' => W' /\ ~<<FlushDone(s)>>_vars
  BY FlushHoldsRow
<1>2. TypeOK /\ <<FlushDone(s)>>_vars => W'
  BY DEF FlushDone, Waits, TypeOK
<1>3. ~Q <=> row[c] # "queued"
  OBVIOUS
<1> HIDE DEF Q, W
<1> QED
  BY <1>1, <1>2, <1>3, TypeCorrect, PTL DEF Spec
=============================================================================
