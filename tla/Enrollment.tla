------------------------------ MODULE Enrollment ------------------------------
(***************************************************************************)
(* One-time enrolment codes and device tokens: POST /enroll and            *)
(* /token/refresh (apps/api/src/routes/enroll.ts), the codes an operator   *)
(* issues (groups.ts), deviceAuth (auth.ts), the agent's side of both      *)
(* (client.go, run.go, config.go, main.go) and DELETE /devices/:uuid.      *)
(*                                                                         *)
(* The statements of an enrolment interleave with those of the others.  A  *)
(* refresh token is as good as the uuid it was issued with, since both are *)
(* drawn at random in one request and stored together.  An access token is *)
(* the uuid it names and is valid until its exp passes.                    *)
(***************************************************************************)
EXTENDS Integers, FiniteSets

CONSTANTS
  Box,         \* kiosks that run an agent
  Code,        \* enrolment codes an operator issues
  MaxDevices,  \* bound: device rows ever created
  None         \* no code, no device

ASSUME EnrollAssumption ==
  MaxDevices \in Nat /\ None \notin Code /\ None \notin 1 .. MaxDevices

Uuid == 1 .. MaxDevices

VARIABLES
  codes,     \* codes[k]: "unissued", "fresh", "expired", or "used" once
             \*   used_by_uuid is set
  born,      \* born[u]: the code the row of device u was created with
  devices,   \* rows of devices
  valid,     \* devices that some unexpired access token names
  request,   \* request[b]: the POST /enroll of b as the server runs it
  listening, \* does the agent of b still wait for the answer?
  config,    \* config[b]: agent.json: the code and the identity
  renewing,  \* refresh requests past their SELECT, to be signed
  contested  \* codes two requests held at once, or whose request was killed
             \*   between its two statements (history)

enrollVars ==
  <<codes, born, devices, valid, request, listening, config, renewing, contested>>

NoRequest == [at |-> "none", code |-> None, uuid |-> None]

EnrollTypeOK ==
  /\ codes \in [Code -> {"unissued", "fresh", "expired", "used"}]
  /\ born \in [Uuid -> Code \cup {None}]
  /\ devices \subseteq Uuid /\ valid \subseteq Uuid /\ renewing \subseteq Uuid
  /\ request \in [Box -> [at : {"none", "insert", "consume", "sign"},
                          code : Code \cup {None}, uuid : Uuid \cup {None}]]
  /\ listening \subseteq Box
  /\ config \in [Box -> [code : Code \cup {None}, uuid : Uuid \cup {None}]]
  /\ contested \subseteq Code

EnrollInit ==
  /\ codes = [k \in Code |-> "unissued"]
  /\ born = [u \in Uuid |-> None]
  /\ devices = {} /\ valid = {} /\ renewing = {}
  /\ request = [b \in Box |-> NoRequest] /\ listening = {}
  /\ config = [b \in Box |-> [code |-> None, uuid |-> None]]
  /\ contested = {}

-----------------------------------------------------------------------------
(* Codes. *)

IssueCode(k) ==
  /\ codes[k] = "unissued"
  /\ codes' = [codes EXCEPT ![k] = "fresh"]
  /\ UNCHANGED <<born, devices, valid, request, listening, config, renewing, contested>>

ExpireCode(k) ==
  /\ codes[k] = "fresh"
  /\ codes' = [codes EXCEPT ![k] = "expired"]
  /\ UNCHANGED <<born, devices, valid, request, listening, config, renewing, contested>>

\* The installer writes the code into agent.json, over an earlier one, but
\* keeps an identity that is there.
EnterCode(b, k) ==
  /\ codes[k] # "unissued" /\ b \notin listening
  /\ config[b].code # k /\ config[b].uuid = None
  /\ config' = [config EXCEPT ![b].code = k]
  /\ UNCHANGED <<codes, born, devices, valid, request, listening, renewing, contested>>

-----------------------------------------------------------------------------
(* POST /enroll. *)

\* An agent without credentials asks, and the SELECT admits only a fresh code;
\* else it is refused (401, 409, 410), exits and is started again.
Admit(b) ==
  LET k == config[b].code IN
  /\ k # None /\ b \notin listening /\ request[b] = NoRequest
  /\ codes[k] = "fresh"
  /\ request' = [request EXCEPT ![b] = [at |-> "insert", code |-> k, uuid |-> None]]
  /\ listening' = listening \cup {b}
  /\ contested' = IF \E c \in Box : request[c].code = k /\ request[c].at # "sign"
                    THEN contested \cup {k} ELSE contested
  /\ UNCHANGED <<codes, born, devices, valid, config, renewing>>

\* The device row, under a new uuid.
InsertDevice(b) ==
  /\ request[b].at = "insert"
  /\ \E u \in Uuid :
       /\ born[u] = None /\ \A v \in 1 .. u - 1 : born[v] # None
       /\ born' = [born EXCEPT ![u] = request[b].code]
       /\ devices' = devices \cup {u}
       /\ request' = [request EXCEPT ![b].at = "consume", ![b].uuid = u]
  /\ UNCHANGED <<codes, valid, listening, config, renewing, contested>>

\* Mutant of Consume: the code is spent only when provisioning succeeded.
ConsumeLate(b) ==
  /\ request[b].at = "consume"
  /\ \/ codes' = [codes EXCEPT ![request[b].code] = "used"]
     \/ UNCHANGED codes
  /\ request' = [request EXCEPT ![b].at = "sign"]
  /\ UNCHANGED <<born, devices, valid, listening, config, renewing, contested>>

\* UPDATE enrollment_tokens, unconditionally.  Remote access is provisioned
\* next, and its failure is caught.
Consume(b) ==
  /\ request[b].at = "consume"
  /\ codes' = [codes EXCEPT ![request[b].code] = "used"]
  /\ request' = [request EXCEPT ![b].at = "sign"]
  /\ UNCHANGED <<born, devices, valid, listening, config, renewing, contested>>

\* The response, with both tokens, and what the agent makes of it: it saves
\* its credentials, atomically, and forgets the code.
Answered(b) ==
  /\ request[b].at = "sign"
  /\ request' = [request EXCEPT ![b] = NoRequest]
  /\ valid' = valid \cup {request[b].uuid}
  /\ listening' = listening \ {b}
  /\ \/ /\ b \in listening
        /\ config' = [config EXCEPT ![b] = [code |-> None, uuid |-> request[b].uuid]]
     \/ UNCHANGED config     \* the response is lost, or power fails before Save
  /\ UNCHANGED <<codes, born, devices, renewing, contested>>

\* The server gives the request up between two statements.
RequestDies(b) ==
  /\ request[b] # NoRequest
  /\ request' = [request EXCEPT ![b] = NoRequest]
  /\ listening' = listening \ {b}
  /\ contested' = IF request[b].at = "consume" THEN contested \cup {request[b].code}
                                               ELSE contested
  /\ UNCHANGED <<codes, born, devices, valid, config, renewing>>

-----------------------------------------------------------------------------
(* Access tokens. *)

\* Mutant of Refresh: whoever was once enrolled may refresh.
RefreshUnchecked(b) ==
  /\ config[b].uuid \in Uuid \ (valid \cup renewing)
  /\ renewing' = renewing \cup {config[b].uuid}
  /\ UNCHANGED <<codes, born, devices, valid, request, listening, config, contested>>

\* A request of the agent is refused once its access token expired, and do()
\* refreshes: the row must be there, the hash must match.
Refresh(b) ==
  /\ config[b].uuid \in devices \ (valid \cup renewing)
  /\ renewing' = renewing \cup {config[b].uuid}
  /\ UNCHANGED <<codes, born, devices, valid, request, listening, config, contested>>

SignRefreshed(u) ==
  /\ u \in renewing
  /\ renewing' = renewing \ {u}
  /\ valid' = valid \cup {u}
  /\ UNCHANGED <<codes, born, devices, request, listening, config, contested>>

AccessExpires(u) ==
  /\ u \in valid
  /\ valid' = valid \ {u}
  /\ UNCHANGED <<codes, born, devices, request, listening, config, renewing, contested>>

DeleteDevice(u) ==
  /\ u \in devices
  /\ devices' = devices \ {u}
  /\ UNCHANGED <<codes, born, valid, request, listening, config, renewing, contested>>

ServeEnroll(b) == InsertDevice(b) \/ Consume(b) \/ Answered(b)

EnrollNext ==
  \/ \E k \in Code : IssueCode(k) \/ ExpireCode(k) \/ \E b \in Box : EnterCode(b, k)
  \/ \E b \in Box : Admit(b) \/ ServeEnroll(b) \/ RequestDies(b) \/ Refresh(b)
  \/ \E u \in Uuid : SignRefreshed(u) \/ AccessExpires(u) \/ DeleteDevice(u)

EnrollSpec == EnrollInit /\ [][EnrollNext]_enrollVars

-----------------------------------------------------------------------------
(* Properties. *)

\* An error after the device row exists never leaves the code spendable
\* (enroll.ts:96-98): one code makes at most one device, unless two boxes sent it
\* at the same moment or the worker died between its two statements.
OneDevicePerCode ==
  \A u, v \in Uuid : born[u] = born[v] /\ born[u] # None =>
    u = v \/ born[u] \in contested

\* A deleted device is locked out for good once its last token has run out; a
\* refresh under way at that moment gains it one more token at most.
DeletedLosesAccess ==
  <>[](\A u \in valid : u \in devices)
=============================================================================
