------------------------------ MODULE ServerProofs ------------------------------
(***************************************************************************)
(* What holds of enrolment, device events, the media library, the          *)
(* schedules and remote access for any value of their constants.           *)
(***************************************************************************)
EXTENDS Enrollment, DeviceEvents, MediaLibrary, RemoteAccess, ScheduleResolve,
        FiniteSetTheorems, WellFoundedInduction, TLAPS

-----------------------------------------------------------------------------
(* Enrolment. *)

RequestState == [at : {"none", "insert", "consume", "sign"},
                 code : Code \cup {None}, uuid : Uuid \cup {None}]

\* A request that stands between the SELECT of its code and the UPDATE.
Holds(b, k) == request[b].code = k /\ request[b].at \in {"insert", "consume"}

\* A request has its code from the start and its device from the INSERT on.
RequestsFilled ==
  \A b \in Box :
    /\ request[b].at = "none" => request[b].code = None
    /\ request[b].at # "none" => request[b].code \in Code
    /\ request[b].at \in {"consume", "sign"} => request[b].uuid \in Uuid

\* An uncontested code is in the hands of one request, which is past its INSERT
\* if there is a device, and a device without such a request has spent its code.
SpentByOne ==
  \A k \in Code \ contested :
    /\ \A b, c \in Box : Holds(b, k) /\ Holds(c, k) => b = c
    /\ \A u, v \in Uuid : born[u] = k /\ born[v] = k => u = v
    /\ \A u \in Uuid : born[u] = k =>
         codes[k] = "used" \/ \E b \in Box : Holds(b, k) /\ request[b].at = "consume"
    /\ \A b \in Box, u \in Uuid : Holds(b, k) /\ request[b].at = "insert" => born[u] # k

EnrollInv == EnrollTypeOK /\ RequestsFilled /\ SpentByOne

\* What a step of the request of one box leaves of the others.
LEMMA RequestMoves ==
  ASSUME EnrollInv, NEW b \in Box, NEW r \in RequestState,
         request' = [request EXCEPT ![b] = r]
  PROVE  /\ request' \in [Box -> RequestState] /\ request'[b] = r
         /\ \A c \in Box \ {b} : request'[c] = request[c]
BY DEF EnrollInv, EnrollTypeOK, RequestState

LEMMA EnrollRequestInductive ==
  ASSUME EnrollInv, NEW b \in Box,
         Admit(b) \/ ServeEnroll(b) \/ RequestDies(b)
  PROVE  EnrollInv'
<1>1. request \in [Box -> RequestState] /\ request[b] \in RequestState
  BY DEF EnrollInv, EnrollTypeOK, RequestState
<1>2. None \notin Code /\ None \notin Uuid
  BY EnrollAssumption DEF Uuid
<1>3. NoRequest \in RequestState /\ NoRequest.at = "none" /\ NoRequest.code = None
  BY DEF NoRequest, RequestState
<1>4. CASE Admit(b)
  <2> DEFINE k == config[b].code
             r == [at |-> "insert", code |-> k, uuid |-> None]
  <2>1. k \in Code /\ codes[k] = "fresh" /\ request[b] = NoRequest
    BY <1>4 DEF Admit, EnrollInv, EnrollTypeOK
  <2>2. r \in RequestState /\ r.at = "insert" /\ r.code = k
    BY <2>1 DEF RequestState
  <2>3. request' = [request EXCEPT ![b] = r]
    BY <1>4 DEF Admit
  <2>4. /\ listening' = listening \cup {b}
        /\ contested' = IF \E c \in Box : request[c].code = k /\ request[c].at # "sign"
                          THEN contested \cup {k} ELSE contested
        /\ UNCHANGED <<codes, born, devices, valid, config, renewing>>
    BY <1>4 DEF Admit
  <2> HIDE DEF k, r
  <2>5. /\ request' \in [Box -> RequestState] /\ request'[b] = r
        /\ \A c \in Box \ {b} : request'[c] = request[c]
    BY <2>2, <2>3, RequestMoves
  <2>6. EnrollTypeOK'
    BY <2>1, <2>4, <2>5 DEF EnrollInv, EnrollTypeOK, RequestState
  <2>7. RequestsFilled'
    BY <2>1, <2>2, <2>5 DEF EnrollInv, RequestsFilled
  <2>8. ASSUME NEW j \in Code \ contested'
        PROVE  /\ j \in Code \ contested
               /\ \A c \in Box : Holds(c, j) => c # b /\ (Holds(c, j))'
               /\ \A c \in Box \ {b} : (Holds(c, j))' => Holds(c, j)
               /\ (Holds(b, j))' => /\ j = k /\ \A c \in Box : ~Holds(c, j)
                                    /\ codes[j] = "fresh"
    BY <1>3, <2>1, <2>2, <2>4, <2>5 DEF Holds
  <2>9. SpentByOne'
    <3> SUFFICES ASSUME NEW j \in Code \ contested'
                 PROVE  /\ \A d, c \in Box : Holds(d, j)' /\ Holds(c, j)' => d = c
                        /\ \A u, v \in Uuid : born[u] = j /\ born[v] = j => u = v
                        /\ \A u \in Uuid : born[u] = j =>
                             codes[j] = "used"
                             \/ \E c \in Box : Holds(c, j)' /\ request'[c].at = "consume"
                        /\ \A c \in Box, u \in Uuid :
                             Holds(c, j)' /\ request'[c].at = "insert" => born[u] # j
      BY <2>4 DEF SpentByOne
    <3>1. j \in Code \ contested
      BY <2>8
    <3>2. \A c \in Box : Holds(c, j) /\ request[c].at = "consume" =>
            Holds(c, j)' /\ request'[c].at = "consume"
      BY <2>5, <2>8
    <3>3. Holds(b, j)' => \A u \in Uuid : born[u] # j
      BY <2>8, <3>1 DEF EnrollInv, SpentByOne
    <3>4. \A c \in Box \ {b}, u \in Uuid :
            Holds(c, j)' /\ request'[c].at = "insert" => born[u] # j
      BY <2>5, <2>8, <3>1 DEF EnrollInv, SpentByOne
    <3>5. \A d, c \in Box : Holds(d, j)' /\ Holds(c, j)' => d = c
      BY <2>8, <3>1 DEF EnrollInv, SpentByOne
    <3>6. \A u \in Uuid : born[u] = j =>
            codes[j] = "used" \/ \E c \in Box : Holds(c, j)' /\ request'[c].at = "consume"
      BY <3>1, <3>2 DEF EnrollInv, SpentByOne
    <3>7. \A u, v \in Uuid : born[u] = j /\ born[v] = j => u = v
      BY <3>1 DEF EnrollInv, SpentByOne
    <3> QED
      BY <3>3, <3>4, <3>5, <3>6, <3>7
  <2> QED
    BY <2>6, <2>7, <2>9 DEF EnrollInv
<1>5. CASE InsertDevice(b)
  <2>1. PICK u \in Uuid :
          /\ born[u] = None /\ born' = [born EXCEPT ![u] = request[b].code]
          /\ devices' = devices \cup {u}
          /\ request' = [request EXCEPT ![b].at = "consume", ![b].uuid = u]
    BY <1>5 DEF InsertDevice
  <2> DEFINE r == [request[b] EXCEPT !.at = "consume", !.uuid = u]
             k == request[b].code
  <2>2. r \in RequestState /\ r.at = "consume" /\ r.code = k /\ r.uuid = u
    BY <1>1 DEF RequestState
  <2>3. request' = [request EXCEPT ![b] = r]
    BY <1>1, <2>1
  <2>4. /\ request[b].at = "insert" /\ k \in Code
        /\ UNCHANGED <<codes, valid, listening, config, renewing, contested>>
    BY <1>5 DEF InsertDevice, EnrollInv, RequestsFilled
  <2> HIDE DEF k, r
  <2>5. /\ request' \in [Box -> RequestState] /\ request'[b] = r
        /\ \A c \in Box \ {b} : request'[c] = request[c]
    BY <2>2, <2>3, RequestMoves
  <2>6. born' \in [Uuid -> Code \cup {None}] /\ born'[u] = k
        /\ \A v \in Uuid \ {u} : born'[v] = born[v]
    BY <2>1, <2>4 DEF EnrollInv, EnrollTypeOK, k
  <2>7. EnrollTypeOK'
    BY <2>1, <2>4, <2>5, <2>6 DEF EnrollInv, EnrollTypeOK, RequestState
  <2>8. RequestsFilled'
    BY <2>1, <2>2, <2>4, <2>5 DEF EnrollInv, RequestsFilled
  <2>9. \A c \in Box, j \in Code : Holds(c, j)' <=> Holds(c, j)
    BY <2>2, <2>4, <2>5 DEF Holds, k
  <2>10. Holds(b, k)
    BY <2>4 DEF Holds, k
  <2>11. ASSUME NEW j \in Code \ contested, j # k
         PROVE  /\ \A v \in Uuid : born'[v] = j <=> born[v] = j
                /\ \A c \in Box : Holds(c, j) => c # b
    BY <1>2, <2>1, <2>4, <2>6, <2>11 DEF Holds, k
  <2>12. ASSUME k \notin contested
         PROVE  /\ \A v \in Uuid : born[v] # k
                /\ \A c \in Box : Holds(c, k) => c = b
    BY <2>4, <2>10, <2>12 DEF EnrollInv, SpentByOne
  <2>13. SpentByOne'
    <3> SUFFICES ASSUME NEW j \in Code \ contested
                 PROVE  /\ \A d, c \in Box : Holds(d, j)' /\ Holds(c, j)' => d = c
                        /\ \A w, v \in Uuid : born'[w] = j /\ born'[v] = j => w = v
                        /\ \A w \in Uuid : born'[w] = j =>
                             codes[j] = "used"
                             \/ \E c \in Box : Holds(c, j)' /\ request'[c].at = "consume"
                        /\ \A c \in Box, w \in Uuid :
                             Holds(c, j)' /\ request'[c].at = "insert" => born'[w] # j
      BY <2>4 DEF SpentByOne
    <3>1. CASE j = k
      <4>1. \A c \in Box : Holds(c, j)' => c = b
        BY <2>4, <2>9, <2>12, <3>1
      <4>2. \A w \in Uuid : born'[w] = j => w = u
        BY <2>6, <2>12, <3>1
      <4>3. Holds(b, j)' /\ request'[b].at = "consume"
        BY <2>2, <2>4, <2>5, <2>9, <2>10, <3>1
      <4> QED
        BY <3>1, <4>1, <4>2, <4>3
    <3>2. CASE j # k
      <4>1. \A c \in Box : Holds(c, j)' => Holds(c, j) /\ request'[c] = request[c]
        BY <2>5, <2>9, <2>11, <3>2
      <4>2. \A c \in Box : Holds(c, j) => Holds(c, j)' /\ request'[c] = request[c]
        BY <2>5, <2>9, <2>11, <3>2
      <4>3. \A v \in Uuid : born'[v] = j <=> born[v] = j
        BY <2>11, <3>2
      <4> QED
        BY <4>1, <4>2, <4>3 DEF EnrollInv, SpentByOne
    <3> QED
      BY <3>1, <3>2
  <2> QED
    BY <2>7, <2>8, <2>13 DEF EnrollInv
<1>6. CASE Consume(b)
  <2> DEFINE r == [request[b] EXCEPT !.at = "sign"]
             k == request[b].code
  <2>1. r \in RequestState /\ r.at = "sign" /\ r.code = k /\ r.uuid = request[b].uuid
    BY <1>1 DEF RequestState
  <2>2. request' = [request EXCEPT ![b] = r]
    BY <1>1, <1>6 DEF Consume
  <2>3. /\ request[b].at = "consume" /\ k \in Code /\ request[b].uuid \in Uuid
        /\ codes' = [codes EXCEPT ![k] = "used"]
        /\ UNCHANGED <<born, devices, valid, listening, config, renewing, contested>>
    BY <1>6 DEF Consume, EnrollInv, RequestsFilled
  <2> HIDE DEF k, r
  <2>4. /\ request' \in [Box -> RequestState] /\ request'[b] = r
        /\ \A c \in Box \ {b} : request'[c] = request[c]
    BY <2>1, <2>2, RequestMoves
  <2>5. EnrollTypeOK'
    BY <2>3, <2>4 DEF EnrollInv, EnrollTypeOK, RequestState
  <2>6. RequestsFilled'
    BY <2>1, <2>3, <2>4 DEF EnrollInv, RequestsFilled
  <2>7. /\ codes'[k] = "used"
        /\ \A j \in Code : codes[j] = "used" => codes'[j] = "used"
    BY <2>3 DEF EnrollInv, EnrollTypeOK
  <2>8. \A c \in Box, j \in Code :
          /\ Holds(c, j)' => Holds(c, j) /\ request'[c] = request[c]
          /\ Holds(c, j) /\ j # k => Holds(c, j)' /\ request'[c] = request[c]
    BY <2>1, <2>4 DEF Holds, k
  <2>9. SpentByOne'
    BY <2>3, <2>7, <2>8 DEF EnrollInv, SpentByOne
  <2> QED
    BY <2>5, <2>6, <2>9 DEF EnrollInv
<1>7. CASE Answered(b) \/ RequestDies(b)
  <2>1. /\ request' = [request EXCEPT ![b] = NoRequest] /\ listening' = listening \ {b}
        /\ UNCHANGED <<codes, born, devices, renewing>>
    BY <1>7 DEF Answered, RequestDies
  <2>2. /\ request' \in [Box -> RequestState] /\ request'[b] = NoRequest
        /\ \A c \in Box \ {b} : request'[c] = request[c]
    BY <1>3, <2>1, RequestMoves
  <2>3. valid' \subseteq Uuid /\ contested' \subseteq Code
    BY <1>7 DEF Answered, RequestDies, EnrollInv, EnrollTypeOK, RequestsFilled
  <2>4. config' \in [Box -> [code : Code \cup {None}, uuid : Uuid \cup {None}]]
    BY <1>7 DEF Answered, RequestDies, EnrollInv, EnrollTypeOK, RequestsFilled
  <2>5. EnrollTypeOK'
    BY <2>1, <2>2, <2>3, <2>4 DEF EnrollInv, EnrollTypeOK, RequestState
  <2>6. RequestsFilled'
    BY <1>3, <2>2 DEF EnrollInv, RequestsFilled
  <2>7. contested \subseteq contested'
        /\ \A j \in Code \ contested' : ~(Holds(b, j) /\ request[b].at = "consume")
    BY <1>7 DEF Answered, RequestDies, Holds
  <2>8. \A c \in Box, j \in Code :
          /\ Holds(c, j)' => Holds(c, j) /\ request'[c] = request[c]
          /\ Holds(c, j) /\ c # b => Holds(c, j)' /\ request'[c] = request[c]
    BY <1>3, <2>2 DEF Holds
  <2>9. SpentByOne'
    BY <2>1, <2>7, <2>8 DEF EnrollInv, SpentByOne
  <2> QED
    BY <2>5, <2>6, <2>9 DEF EnrollInv
<1> QED
  BY <1>4, <1>5, <1>6, <1>7 DEF ServeEnroll

LEMMA EnrollInductive ==
  ASSUME EnrollInv, [EnrollNext]_enrollVars
  PROVE  EnrollInv'
<1>1. ASSUME NEW k \in Code, IssueCode(k) \/ ExpireCode(k) PROVE EnrollInv'
  <2>1. /\ codes' \in [Code -> {"unissued", "fresh", "expired", "used"}]
        /\ \A j \in Code : codes[j] = "used" => codes'[j] = "used"
        /\ UNCHANGED <<born, devices, valid, request, listening, config, renewing,
                       contested>>
    BY <1>1 DEF IssueCode, ExpireCode, EnrollInv, EnrollTypeOK
  <2> QED
    BY <2>1 DEF EnrollInv, EnrollTypeOK, RequestsFilled, SpentByOne, Holds
<1>2. ASSUME NEW k \in Code, NEW b \in Box, EnterCode(b, k) PROVE EnrollInv'
  <2>1. config' \in [Box -> [code : Code \cup {None}, uuid : Uuid \cup {None}]]
    BY <1>2 DEF EnterCode, EnrollInv, EnrollTypeOK
  <2>2. UNCHANGED <<codes, born, devices, valid, request, listening, renewing, contested>>
    BY <1>2 DEF EnterCode
  <2> QED
    BY <2>1, <2>2 DEF EnrollInv, EnrollTypeOK, RequestsFilled, SpentByOne, Holds
<1>3. ASSUME NEW b \in Box, Admit(b) \/ ServeEnroll(b) \/ RequestDies(b)
      PROVE  EnrollInv'
  BY <1>3, EnrollRequestInductive
<1>4. ASSUME NEW b \in Box, Refresh(b) PROVE EnrollInv'
  BY <1>4 DEF Refresh, EnrollInv, EnrollTypeOK, RequestsFilled, SpentByOne, Holds
<1>5. ASSUME NEW u \in Uuid, SignRefreshed(u) \/ AccessExpires(u) \/ DeleteDevice(u)
      PROVE  EnrollInv'
  BY <1>5 DEF SignRefreshed, AccessExpires, DeleteDevice, EnrollInv, EnrollTypeOK,
              RequestsFilled, SpentByOne, Holds
<1>6. CASE UNCHANGED enrollVars
  BY <1>6 DEF enrollVars, EnrollInv, EnrollTypeOK, RequestsFilled, SpentByOne, Holds
<1> QED
  BY <1>1, <1>2, <1>3, <1>4, <1>5, <1>6 DEF EnrollNext

LEMMA EnrollInitially ==
  ASSUME EnrollInit
  PROVE  EnrollInv
<1>1. NoRequest \in RequestState /\ NoRequest.at = "none" /\ NoRequest.code = None
  BY DEF NoRequest, RequestState
<1>2. \A b \in Box : request[b] = NoRequest
  BY DEF EnrollInit
<1>3. EnrollTypeOK
  BY <1>1 DEF EnrollInit, EnrollTypeOK, RequestState
<1>4. RequestsFilled
  BY <1>1, <1>2 DEF RequestsFilled
<1>5. SpentByOne
  BY <1>1, <1>2, EnrollAssumption DEF EnrollInit, SpentByOne, Holds
<1> QED
  BY <1>3, <1>4, <1>5 DEF EnrollInv

\* One code makes at most one device, for any number of boxes and codes, unless two
\* boxes sent it at once or the worker died between INSERT and UPDATE.
THEOREM OneDevicePerCodeHolds == EnrollSpec => []OneDevicePerCode
<1>1. EnrollInv => OneDevicePerCode
  BY EnrollAssumption DEF EnrollInv, EnrollTypeOK, SpentByOne, OneDevicePerCode
<1> QED
  BY <1>1, EnrollInitially, EnrollInductive, PTL DEF EnrollSpec

\* Codes, requests, devices and configurations keep their types.
THEOREM EnrollTypeCorrect == EnrollSpec => []EnrollTypeOK
<1>1. EnrollInv => EnrollTypeOK
  BY DEF EnrollInv
<1> QED
  BY <1>1, EnrollInitially, EnrollInductive, PTL DEF EnrollSpec

-----------------------------------------------------------------------------
(* Device events. *)

\* A post has a device while it runs, and none else.
PostsFilled ==
  \A p \in Post : post[p].at # "none" <=> post[p].dev \in Watched

\* Reports of a device that did not overlap: one at a time, and it alerts only
\* where it counted no alert.
OneReport ==
  \A d \in Watched \ overlapped :
    /\ \A p, q \in Post : post[p].dev = d /\ post[q].dev = d => p = q
    /\ alerts[d] <= 1
    /\ \A p \in Post : post[p].dev = d /\ post[p].at = "alert" => alerts[d] = 0

EventsInv == EventsTypeOK /\ PostsFilled /\ OneReport

PostState == [at : {"none", "count", "alert", "reflect"},
              dev : Watched \cup {NoDevice}, hot : BOOLEAN]
SweepState == [on : BOOLEAN, todo : SUBSET Watched, record : Watched \cup {NoDevice}]

\* The sweep and the connections touch neither alerts nor posts.
LEMMA EventsKept ==
  ASSUME EventsInv, UNCHANGED <<alerts, post, overlapped>>,
         status' \in [Watched -> {"online", "warning", "offline", "gone"}],
         silent' \subseteq Watched, sweeping' \in SweepState
  PROVE  EventsInv'
BY DEF EventsInv, EventsTypeOK, SweepState, PostsFilled, OneReport

LEMMA SweepInductive ==
  ASSUME EventsInv, Sweep
  PROVE  EventsInv'
<1>1. /\ status \in [Watched -> {"online", "warning", "offline", "gone"}]
      /\ silent \subseteq Watched /\ sweeping \in SweepState
  BY DEF EventsInv, EventsTypeOK, SweepState
<1>2. Asleep \in SweepState
  BY DEF Asleep, SweepState
<1>3. CASE StartSweep
  <2>1. [Asleep EXCEPT !.on = TRUE, !.todo = Stale] \in SweepState
    BY DEF Asleep, Stale, Known, SweepState
  <2> QED
    BY <1>1, <1>3, <2>1, EventsKept DEF StartSweep
<1>4. ASSUME NEW d \in Watched, SweepDevice(d) PROVE EventsInv'
  <2>1. [sweeping EXCEPT !.todo = @ \ {d}, !.record = d] \in SweepState
    BY <1>1 DEF SweepState
  <2>2. status' \in [Watched -> {"online", "warning", "offline", "gone"}]
    BY <1>1, <1>4 DEF SweepDevice
  <2> QED
    BY <1>1, <1>4, <2>1, <2>2, EventsKept DEF SweepDevice
<1>5. CASE SweepRecord \/ SweepEnds
  <2>1. [sweeping EXCEPT !.record = NoDevice] \in SweepState
    BY <1>1 DEF SweepState
  <2> QED
    BY <1>1, <1>2, <1>5, <2>1, EventsKept DEF SweepRecord, SweepEnds
<1> QED
  BY <1>3, <1>4, <1>5 DEF Sweep

\* What a step of one post leaves of the others.
LEMMA PostMoves ==
  ASSUME EventsInv, NEW p \in Post, NEW r \in PostState, post' = [post EXCEPT ![p] = r]
  PROVE  /\ post' \in [Post -> PostState] /\ post'[p] = r
         /\ \A q \in Post \ {p} : post'[q] = post[q]
BY DEF EventsInv, EventsTypeOK, PostState

LEMMA PostInductive ==
  ASSUME EventsInv, NEW p \in Post,
         (\E d \in Watched, hot \in BOOLEAN : Report(p, d, hot))
           \/ CountRecent(p) \/ Alert(p) \/ Reflect(p)
  PROVE  EventsInv'
<1>1. /\ status \in [Watched -> {"online", "warning", "offline", "gone"}]
      /\ silent \subseteq Watched /\ overlapped \subseteq Watched
      /\ alerts \in [Watched -> 0 .. MaxAlerts] /\ MaxAlerts \in Nat
      /\ post \in [Post -> PostState] /\ sweeping \in SweepState
      /\ post[p] \in PostState /\ NoDevice \notin Watched
  BY EventsAssumption DEF EventsInv, EventsTypeOK, PostState, SweepState
<1>2. NoPost \in PostState /\ NoPost.at = "none" /\ NoPost.dev = NoDevice
  BY DEF NoPost, PostState
<1>3. ASSUME NEW r \in PostState, post' = [post EXCEPT ![p] = r],
             status' \in [Watched -> {"online", "warning", "offline", "gone"}],
             silent' \subseteq Watched, sweeping' \in SweepState,
             overlapped' \subseteq Watched, alerts' \in [Watched -> 0 .. MaxAlerts],
             r.at # "none" <=> r.dev \in Watched
      PROVE  EventsTypeOK' /\ PostsFilled'
  <2>1. /\ post' \in [Post -> PostState] /\ post'[p] = r
        /\ \A q \in Post \ {p} : post'[q] = post[q]
    BY <1>3, PostMoves
  <2>2. EventsTypeOK'
    BY <1>3, <2>1 DEF EventsTypeOK, PostState, SweepState
  <2>3. PostsFilled'
    BY <1>3, <2>1 DEF EventsInv, PostsFilled
  <2> QED
    BY <2>2, <2>3
<1>4. ASSUME NEW d \in Watched, NEW hot \in BOOLEAN, Report(p, d, hot)
      PROVE  EventsInv'
  <2> DEFINE a == IF hot THEN "count" ELSE "reflect"
             r == [at |-> a, dev |-> d, hot |-> hot]
  <2>1. a \in {"count", "reflect"}
    OBVIOUS
  <2> HIDE DEF a
  <2>2. r \in PostState /\ r.at \in {"count", "reflect"} /\ r.dev = d
    BY <2>1 DEF PostState
  <2>3. post' = [post EXCEPT ![p] = r]
    BY <1>4 DEF Report, a
  <2>4. /\ overlapped' = IF \E q \in Post : post[q].dev = d
                           THEN overlapped \cup {d} ELSE overlapped
        /\ UNCHANGED <<status, silent, sweeping, alerts>> /\ post[p] = NoPost
    BY <1>4 DEF Report
  <2> HIDE DEF r
  <2>5. EventsTypeOK' /\ PostsFilled'
    BY <1>1, <1>3, <2>2, <2>3, <2>4
  <2>6. post'[p] = r /\ \A q \in Post \ {p} : post'[q] = post[q]
    BY <2>2, <2>3, PostMoves
  <2>7. ASSUME NEW e \in Watched \ overlapped'
        PROVE  /\ \A q \in Post : post'[q].dev = e /\ q # p => post[q].dev = e
               /\ post'[p].dev = e => \A q \in Post : post[q].dev # e
               /\ post'[p].at # "alert" /\ e \in Watched \ overlapped
    BY <2>2, <2>4, <2>6
  <2>8. OneReport'
    BY <2>4, <2>6, <2>7 DEF EventsInv, OneReport
  <2> QED
    BY <2>5, <2>8 DEF EventsInv
<1>5. CASE CountRecent(p)
  <2> DEFINE d == post[p].dev
             a == IF alerts[d] = 0 THEN "alert" ELSE "reflect"
             r == [post[p] EXCEPT !.at = a]
  <2>1. post[p].at = "count" /\ d \in Watched
        /\ UNCHANGED <<status, silent, sweeping, alerts, overlapped>>
    BY <1>5 DEF CountRecent, EventsInv, PostsFilled
  <2>2. a \in {"alert", "reflect"}
    OBVIOUS
  <2>3. post' = [post EXCEPT ![p] = r]
    BY <1>1, <1>5 DEF CountRecent
  <2>4. r \in PostState /\ r.at = a /\ r.dev = d
    <3> HIDE DEF a
    <3> QED
      BY <1>1, <2>2 DEF PostState
  <2>5. a = "alert" => alerts[d] = 0
    OBVIOUS
  <2> HIDE DEF d, a, r
  <2>6. EventsTypeOK' /\ PostsFilled'
    BY <1>1, <1>3, <2>1, <2>2, <2>3, <2>4
  <2>7. post'[p] = r /\ \A q \in Post \ {p} : post'[q] = post[q]
    BY <2>3, <2>4, PostMoves
  <2>8. \A q \in Post : post'[q].dev = post[q].dev
    BY <2>4, <2>7 DEF d
  <2>9. OneReport'
    BY <2>1, <2>4, <2>5, <2>7, <2>8 DEF EventsInv, OneReport
  <2> QED
    BY <2>6, <2>9 DEF EventsInv
<1>6. CASE Alert(p)
  <2> DEFINE d == post[p].dev
  <2>1. post[p].at = "alert" /\ d \in Watched
        /\ UNCHANGED <<status, silent, sweeping, overlapped>>
    BY <1>6 DEF Alert, EventsInv, PostsFilled
  <2>2. CASE post' = [post EXCEPT ![p] = NoPost] /\ UNCHANGED alerts
    <3>1. EventsTypeOK' /\ PostsFilled'
      BY <1>1, <1>2, <1>3, <2>1, <2>2
    <3>2. post'[p] = NoPost /\ \A q \in Post \ {p} : post'[q] = post[q]
      BY <1>2, <2>2, PostMoves
    <3>3. OneReport'
      BY <1>1, <1>2, <2>1, <2>2, <3>2 DEF EventsInv, OneReport
    <3> QED
      BY <3>1, <3>3 DEF EventsInv
  <2>3. CASE /\ alerts[d] < MaxAlerts /\ alerts' = [alerts EXCEPT ![d] = @ + 1]
             /\ post' = [post EXCEPT ![p].at = "reflect"]
    <3> DEFINE r == [post[p] EXCEPT !.at = "reflect"]
    <3>1. r \in PostState /\ r.at = "reflect" /\ r.dev = d
      BY <1>1 DEF PostState
    <3>2. post' = [post EXCEPT ![p] = r]
      BY <1>1, <2>3
    <3> HIDE DEF r, d
    <3>3. /\ alerts' \in [Watched -> 0 .. MaxAlerts] /\ alerts'[d] = alerts[d] + 1
          /\ \A e \in Watched \ {d} : alerts'[e] = alerts[e]
      BY <1>1, <2>1, <2>3
    <3>4. EventsTypeOK' /\ PostsFilled'
      BY <1>1, <1>3, <2>1, <3>1, <3>2, <3>3
    <3>5. post'[p] = r /\ \A q \in Post \ {p} : post'[q] = post[q]
      BY <3>1, <3>2, PostMoves
    <3>6. \A q \in Post : post'[q].dev = post[q].dev
      BY <3>1, <3>5 DEF d
    <3>7. d \notin overlapped =>
            /\ alerts[d] = 0 /\ \A q \in Post : post[q].dev = d => q = p
      BY <2>1 DEF EventsInv, OneReport, d
    <3>8. ASSUME NEW e \in Watched \ overlapped'
          PROVE  /\ \A q, t \in Post : post'[q].dev = e /\ post'[t].dev = e => q = t
                 /\ alerts'[e] <= 1
                 /\ \A q \in Post : post'[q].dev = e /\ post'[q].at = "alert" =>
                      alerts'[e] = 0
      <4>1. CASE e = d
        BY <1>1, <2>1, <3>1, <3>3, <3>5, <3>6, <3>7, <4>1
      <4>2. CASE e # d
        BY <1>1, <2>1, <3>1, <3>3, <3>5, <3>6, <4>2 DEF EventsInv, OneReport
      <4> QED
        BY <4>1, <4>2
    <3> QED
      BY <3>4, <3>8 DEF EventsInv, OneReport
  <2> QED
    BY <1>6, <2>2, <2>3 DEF Alert
<1>7. CASE Reflect(p)
  <2>1. /\ post' = [post EXCEPT ![p] = NoPost] /\ UNCHANGED <<sweeping, alerts, overlapped>>
        /\ silent' \subseteq silent
    BY <1>7 DEF Reflect
  <2>2. status' \in [Watched -> {"online", "warning", "offline", "gone"}]
    BY <1>1, <1>7 DEF Reflect
  <2>3. EventsTypeOK' /\ PostsFilled'
    BY <1>1, <1>2, <1>3, <2>1, <2>2
  <2>4. post'[p] = NoPost /\ \A q \in Post \ {p} : post'[q] = post[q]
    BY <1>2, <2>1, PostMoves
  <2>5. OneReport'
    BY <1>1, <1>2, <2>1, <2>4 DEF EventsInv, OneReport
  <2> QED
    BY <2>3, <2>5 DEF EventsInv
<1> QED
  BY <1>4, <1>5, <1>6, <1>7

LEMMA EventsInductive ==
  ASSUME EventsInv, [EventsNext]_eventVars
  PROVE  EventsInv'
<1>1. /\ status \in [Watched -> {"online", "warning", "offline", "gone"}]
      /\ silent \subseteq Watched /\ overlapped \subseteq Watched
      /\ alerts \in [Watched -> 0 .. MaxAlerts] /\ MaxAlerts \in Nat
      /\ sweeping \in SweepState
  BY EventsAssumption DEF EventsInv, EventsTypeOK, SweepState
<1>2. ASSUME NEW d \in Watched, Connect(d) \/ FallSilent(d) PROVE EventsInv'
  <2>1. /\ status' \in [Watched -> {"online", "warning", "offline", "gone"}]
        /\ silent' \subseteq Watched /\ UNCHANGED <<sweeping, alerts, post, overlapped>>
    BY <1>1, <1>2 DEF Connect, FallSilent
  <2> QED
    BY <1>1, <2>1, EventsKept
<1>3. ASSUME NEW d \in Watched, Forget(d) PROVE EventsInv'
  <2>1. /\ status' \in [Watched -> {"online", "warning", "offline", "gone"}]
        /\ alerts' \in [Watched -> 0 .. MaxAlerts] /\ alerts'[d] = 0
        /\ \A e \in Watched \ {d} : alerts'[e] = alerts[e]
        /\ UNCHANGED <<silent, sweeping, post, overlapped>>
    BY <1>1, <1>3 DEF Forget
  <2> QED
    BY <1>1, <2>1 DEF EventsInv, EventsTypeOK, PostsFilled, OneReport
<1>4. ASSUME NEW d \in Watched, AlertAges(d) PROVE EventsInv'
  <2>1. /\ alerts' \in [Watched -> 0 .. MaxAlerts] /\ alerts'[d] = alerts[d] - 1
        /\ \A e \in Watched \ {d} : alerts'[e] = alerts[e]
        /\ alerts[d] > 0 /\ UNCHANGED <<status, silent, sweeping, post>>
    BY <1>1, <1>4 DEF AlertAges
  <2>2. /\ overlapped' \subseteq overlapped
        /\ \A e \in Watched \ overlapped' :
             \/ e \in Watched \ overlapped
             \/ e = d /\ alerts[d] = 1 /\ \A p \in Post : post[p].dev # d
    BY <1>1, <1>4 DEF AlertAges
  <2>3. OneReport'
    <3> SUFFICES ASSUME NEW e \in Watched \ overlapped'
                 PROVE  /\ \A p, q \in Post : post[p].dev = e /\ post[q].dev = e => p = q
                        /\ alerts'[e] <= 1
                        /\ \A p \in Post : post[p].dev = e /\ post[p].at = "alert" =>
                             alerts'[e] = 0
      BY <2>1 DEF OneReport
    <3>1. CASE e \in Watched \ overlapped
      <4>1. alerts'[e] <= alerts[e] /\ (alerts[e] = 0 => alerts'[e] = 0)
        BY <1>1, <2>1
      <4> QED
        BY <1>1, <2>1, <3>1, <4>1 DEF EventsInv, OneReport
    <3>2. CASE e = d /\ alerts[d] = 1 /\ \A p \in Post : post[p].dev # d
      BY <2>1, <3>2
    <3> QED
      BY <2>2, <3>1, <3>2
  <2> QED
    BY <1>1, <2>1, <2>2, <2>3 DEF EventsInv, EventsTypeOK, PostsFilled
<1>5. CASE Sweep
  BY <1>5, SweepInductive
<1>6. ASSUME NEW p \in Post,
             (\E d \in Watched, hot \in BOOLEAN : Report(p, d, hot))
               \/ CountRecent(p) \/ Alert(p) \/ Reflect(p)
      PROVE  EventsInv'
  BY <1>6, PostInductive
<1>7. CASE UNCHANGED eventVars
  BY <1>1, <1>7, EventsKept DEF eventVars
<1> QED
  BY <1>2, <1>3, <1>4, <1>5, <1>6, <1>7 DEF EventsNext, Sweep

LEMMA EventsInitially ==
  ASSUME EventsInit
  PROVE  EventsInv
<1>1. NoPost \in PostState /\ NoPost.at = "none" /\ NoPost.dev = NoDevice
  BY DEF NoPost, PostState
<1>2. Asleep \in SweepState
  BY DEF Asleep, SweepState
<1>3. EventsTypeOK
  BY <1>1, <1>2, EventsAssumption DEF EventsInit, EventsTypeOK, PostState, SweepState
<1>4. PostsFilled /\ OneReport
  BY <1>1, EventsAssumption DEF EventsInit, PostsFilled, OneReport
<1> QED
  BY <1>3, <1>4 DEF EventsInv

\* At most one alert of a kind per device and half hour, for any number of devices
\* and requests, as long as no two reports of the device overlapped.
THEOREM AlertOnceHolds == EventsSpec => []AlertOnce
<1>1. EventsInv => AlertOnce
  <2> SUFFICES ASSUME EventsInv, NEW d \in Watched, d \notin overlapped
               PROVE  ~(alerts[d] > 1)
    BY DEF AlertOnce
  <2>1. alerts[d] \in Int /\ alerts[d] <= 1
    BY EventsAssumption DEF EventsInv, EventsTypeOK, OneReport
  <2> QED
    BY <2>1
<1> QED
  BY <1>1, EventsInitially, EventsInductive, PTL DEF EventsSpec

\* Rows, counts, posts and the sweep's loop keep their types.
THEOREM EventsTypeCorrect == EventsSpec => []EventsTypeOK
<1>1. EventsInv => EventsTypeOK
  BY DEF EventsInv
<1> QED
  BY <1>1, EventsInitially, EventsInductive, PTL DEF EventsSpec

-----------------------------------------------------------------------------
(* The media library. *)

Active(u) == upload[u] # NoFile

\* Version numbers and row ids never run ahead of the number of rows.
RowsCounted ==
  /\ IsFiniteSet(versions) /\ Cardinality(versions) <= MaxVersions
  /\ medium # "row" => versions = {}
  /\ \A r \in versions : Number(r.key) <= Cardinality(versions)
                         /\ r.id <= Cardinality(versions)
  /\ medium # "gone" =>
       \A u \in Upload : upload[u].at \in {"put", "insert"} =>
         Number(upload[u].key) <= Cardinality(versions) + 1

\* An upload alone has a number above every row's, and has written the object
\* its row will describe.
NumberIsNew ==
  /\ doomed \subseteq {r.key : r \in versions}
  /\ medium = "none" => \A u \in Upload : ~Active(u)
  /\ ~raced => \A u, v \in Upload : Active(u) /\ Active(v) => u = v
  /\ ~raced => \A u \in Upload :
       /\ upload[u].at \in {"put", "insert"} =>
            \A r \in versions : Number(upload[u].key) > Number(r.key)
       /\ upload[u].at = "insert" => objects[upload[u].key] = upload[u].bytes

MediaInv == MediaTypeOK /\ RowsCounted /\ NumberIsNew /\ VersionsIntact
UploadRecord == [at : {"put", "insert", "point"}, key : Key, bytes : Upload,
                 id : 0 .. MaxVersions]

\* A set of bounded naturals has a largest element.
LEMMA MaxIs ==
  ASSUME NEW n \in Nat, NEW S, S \subseteq 0 .. n, S # {}
  PROVE  Max(S) \in S /\ \A x \in S : x <= Max(S)
<1> DEFINE Rest(x) == n - x
           T == {Rest(x) : x \in S}
           R == OpToRel(<, Nat)
<1>0. \A x \in S : x \in 0 .. n /\ x \in Int /\ x <= n
  OBVIOUS
<1>1. T \subseteq Nat /\ T # {}
  <2>1. T \subseteq Nat
    BY <1>0
  <2>2. PICK x \in S : TRUE
    OBVIOUS
  <2>3. Rest(x) \in T
    BY <2>2
  <2> QED
    BY <2>1, <2>3
<1>2. PICK t \in T : \A y \in T : ~(<<y, t>> \in R)
  BY <1>1, NatLessThanWellFounded, WFMin
<1>3. ASSUME NEW y \in T PROVE t <= y
  <2>1. y \in Nat /\ t \in Nat
    BY <1>1
  <2>2. y < t => <<y, t>> \in R
    BY <2>1 DEF OpToRel
  <2> HIDE DEF R, T
  <2> QED
    BY <1>2, <2>1, <2>2
<1>4. PICK m \in S : t = Rest(m)
  BY <1>2
<1>5. ASSUME NEW x \in S PROVE x <= m
  <2>1. Rest(m) <= Rest(x)
    BY <1>3, <1>4
  <2> QED
    BY <1>0, <2>1
<1>6. \A x \in S : m >= x
  BY <1>5
<1>7. Max(S) \in S /\ \A x \in S : Max(S) >= x
  BY <1>6 DEF Max
<1> QED
  BY <1>7

\* The number SELECT MAX(version) leads to is above every row's, and within the
\* bound on rows; the same goes for the next row id.
LEMMA NextNumbers ==
  ASSUME MediaInv
  PROVE  /\ NextVersion \in Nat \ {0} /\ NextVersion <= Cardinality(versions) + 1
         /\ \A r \in versions : NextVersion > Number(r.key)
         /\ LET id == Max({0} \cup {r.id : r \in versions}) + 1 IN
            /\ id \in Nat \ {0} /\ id <= Cardinality(versions) + 1
            /\ \A r \in versions : id > r.id
<1>1. Cardinality(versions) \in Nat
  BY FS_CardinalityType DEF MediaInv, RowsCounted
<1>2. \A r \in versions : /\ Number(r.key) \in 0 .. Cardinality(versions)
                          /\ r.id \in 0 .. Cardinality(versions)
  BY <1>1, MediaAssumption
     DEF MediaInv, MediaTypeOK, RowsCounted, Row, Key, Number
<1> DEFINE S == {0} \cup {Number(r.key) : r \in versions}
           I == {0} \cup {r.id : r \in versions}
<1>3. S \subseteq 0 .. Cardinality(versions) /\ I \subseteq 0 .. Cardinality(versions)
  BY <1>1, <1>2
<1>4. Max(S) \in S /\ \A x \in S : x <= Max(S)
  BY <1>1, <1>3, MaxIs
<1>5. Max(I) \in I /\ \A x \in I : x <= Max(I)
  BY <1>1, <1>3, MaxIs
<1>6. /\ Max(S) \in 0 .. Cardinality(versions)
      /\ \A r \in versions : Number(r.key) <= Max(S)
  BY <1>3, <1>4
<1>7. Max(I) \in 0 .. Cardinality(versions) /\ \A r \in versions : r.id <= Max(I)
  BY <1>3, <1>5
<1>8. NextVersion = Max(S) + 1
  BY DEF NextVersion
<1> HIDE DEF S, I
<1>9. /\ NextVersion \in Nat \ {0} /\ NextVersion <= Cardinality(versions) + 1
      /\ \A r \in versions : NextVersion > Number(r.key)
  BY <1>1, <1>2, <1>6, <1>8
<1>10. /\ Max(I) + 1 \in Nat \ {0} /\ Max(I) + 1 <= Cardinality(versions) + 1
       /\ \A r \in versions : Max(I) + 1 > r.id
  BY <1>1, <1>2, <1>7
<1> QED
  BY <1>9, <1>10 DEF I

\* Facts about the types that every step uses.
LEMMA MediaFacts ==
  ASSUME MediaInv
  PROVE  /\ versions \subseteq Row /\ upload \in [Upload -> {NoFile} \cup UploadRecord]
         /\ objects \in [Key -> Upload \cup {NoBytes}] /\ doomed \subseteq Key
         /\ medium \in {"none", "row", "gone"} /\ current \in 0 .. MaxVersions
         /\ deletion \in {"none", "objects", "row"} /\ tags \subseteq Tag
         /\ tagging \subseteq Tag /\ raced \in BOOLEAN
         /\ Cardinality(versions) \in Nat /\ MaxVersions \in Nat
         /\ NoFile.at = "none" /\ \A r \in UploadRecord : r.at # "none" /\ r # NoFile
         /\ \A r \in versions : r.key \in Key
<1>1. NoFile.at = "none" /\ \A r \in UploadRecord : r.at # "none"
  BY DEF NoFile, UploadRecord
<1>2. \A r \in UploadRecord : r # NoFile
  BY <1>1
<1>3. \A r \in Row : r.key \in Key
  BY DEF Row
<1> QED
  BY <1>1, <1>2, <1>3, FS_CardinalityType, MediaAssumption
     DEF MediaInv, MediaTypeOK, RowsCounted, UploadRecord

\* Steps that touch neither rows nor objects nor numbers: an upload may end.
LEMMA UploadEnds ==
  ASSUME MediaInv, UNCHANGED <<medium, versions, objects, deletion, doomed, raced>>,
         current' \in 0 .. MaxVersions, tags' \subseteq Tag, tagging' \subseteq Tag,
         upload' \in [Upload -> {NoFile} \cup UploadRecord],
         \A u \in Upload : upload'[u] \in {upload[u], NoFile}
  PROVE  MediaInv'
<1>1. MediaTypeOK'
  BY DEF MediaInv, MediaTypeOK, UploadRecord
<1>2. NoFile.at = "none"
  BY DEF NoFile
<1>3. RowsCounted'
  BY <1>2 DEF MediaInv, RowsCounted
<1>4. NumberIsNew' /\ VersionsIntact'
  BY <1>2 DEF MediaInv, NumberIsNew, VersionsIntact, Active
<1> QED
  BY <1>1, <1>3, <1>4 DEF MediaInv

\* An upload begins with a number above every row's.
LEMMA BeginInductive ==
  ASSUME MediaInv, NEW u \in Upload, NEW f \in Filename, NEW n \in 1 .. MaxVersions + 1,
         n <= Cardinality(versions) + 1, \A r \in versions : n > Number(r.key),
         Begin(u, f, n), ~Active(u), medium' # "none",
         medium' = medium \/ (medium = "none" /\ medium' = "row"),
         UNCHANGED <<versions, current, objects, deletion, doomed, tags, tagging>>
  PROVE  MediaInv'
<1> DEFINE r == [at |-> "put", key |-> <<n, f>>, bytes |-> u, id |-> 0]
<1>1. r \in UploadRecord /\ r.at = "put" /\ Number(r.key) = n
  BY MediaFacts DEF UploadRecord, Key, Number
<1>2. upload' = [upload EXCEPT ![u] = r]
  BY DEF Begin
<1>3. raced' \in BOOLEAN /\ (~raced' => ~raced /\ \A v \in Upload : ~Active(v))
  BY DEF Begin, Active
<1> HIDE DEF r
<1>4. /\ upload' \in [Upload -> {NoFile} \cup UploadRecord] /\ upload'[u] = r
      /\ \A v \in Upload \ {u} : upload'[v] = upload[v]
  BY <1>1, <1>2, MediaFacts
<1>5. MediaTypeOK'
  BY <1>3, <1>4 DEF MediaInv, MediaTypeOK, UploadRecord
<1>6. RowsCounted'
  BY <1>1, <1>4 DEF MediaInv, RowsCounted
<1>7. ~raced' => \A v \in Upload \ {u} : upload'[v] = NoFile
  BY <1>3, <1>4 DEF Active
<1>8. NoFile.at = "none"
  BY DEF NoFile
<1>9. NumberIsNew'
  BY <1>1, <1>3, <1>4, <1>7, <1>8 DEF MediaInv, NumberIsNew, Active
<1>10. VersionsIntact'
  BY <1>3 DEF MediaInv, VersionsIntact
<1> QED
  BY <1>5, <1>6, <1>9, <1>10 DEF MediaInv
LEMMA MediaUploadInductive ==
  ASSUME MediaInv, NEW u \in Upload,
         \/ \E f \in Filename : CreateMedium(u, f) \/ ReadVersion(u, f)
         \/ PutMedia(u) \/ InsertVersionRow(u) \/ PointCurrent(u) \/ UploadFails(u)
  PROVE  MediaInv'
<1>1. /\ upload[u] \in {NoFile} \cup UploadRecord /\ NoFile.at = "none"
      /\ Cardinality(versions) \in Nat /\ MaxVersions \in Nat
      /\ \A r \in versions : r.key \in Key
  BY MediaFacts
<1>2. upload[u].at # "none" => upload[u] \in UploadRecord /\ Active(u)
  BY <1>1, MediaFacts DEF Active
<1>3. ASSUME NEW f \in Filename, CreateMedium(u, f) PROVE MediaInv'
  <2>1. medium = "none" /\ medium' = "row" /\ Begin(u, f, 1)
        /\ UNCHANGED <<versions, current, objects, deletion, doomed, tags, tagging>>
    BY <1>3 DEF CreateMedium
  <2>2. versions = {} /\ ~Active(u)
    BY <2>1 DEF MediaInv, RowsCounted, NumberIsNew
  <2> QED
    BY <1>1, <2>1, <2>2, BeginInductive
<1>4. ASSUME NEW f \in Filename, ReadVersion(u, f) PROVE MediaInv'
  <2>1. medium # "none" /\ UNCHANGED medium /\ Begin(u, f, NextVersion) /\ ~Active(u)
        /\ UNCHANGED <<versions, current, objects, deletion, doomed, tags, tagging>>
        /\ Cardinality(versions) < MaxVersions
    BY <1>4 DEF ReadVersion, Active
  <2>2. NextVersion \in 1 .. MaxVersions + 1
    BY <1>1, <2>1, NextNumbers
  <2> QED
    BY <2>1, <2>2, NextNumbers, BeginInductive
<1>5. CASE PutMedia(u)
  <2> DEFINE r == [upload[u] EXCEPT !.at = "insert"]
             k == upload[u].key
  <2>1. upload[u] \in UploadRecord /\ upload[u].at = "put" /\ Active(u)
    BY <1>2, <1>5 DEF PutMedia
  <2>2. r \in UploadRecord /\ r.at = "insert" /\ r.key = k /\ r.bytes = upload[u].bytes
    BY <2>1 DEF UploadRecord
  <2>3. upload' = [upload EXCEPT ![u] = r] /\ k \in Key /\ upload[u].bytes \in Upload
    BY <1>1, <1>5, <2>1, MediaFacts DEF PutMedia, UploadRecord
  <2>4. /\ objects' = [objects EXCEPT ![k] = upload[u].bytes]
        /\ UNCHANGED <<medium, versions, current, deletion, doomed, tags, tagging, raced>>
    BY <1>5 DEF PutMedia
  <2> HIDE DEF r, k
  <2>5. /\ upload' \in [Upload -> {NoFile} \cup UploadRecord] /\ upload'[u] = r
        /\ \A v \in Upload \ {u} : upload'[v] = upload[v]
    BY <2>2, <2>3, MediaFacts
  <2>6. /\ objects' \in [Key -> Upload \cup {NoBytes}] /\ objects'[k] = upload[u].bytes
        /\ \A j \in Key \ {k} : objects'[j] = objects[j]
    BY <2>3, <2>4, MediaFacts
  <2>7. MediaTypeOK'
    BY <2>4, <2>5, <2>6 DEF MediaInv, MediaTypeOK, UploadRecord
  <2>8. RowsCounted'
    BY <2>1, <2>2, <2>4, <2>5 DEF MediaInv, RowsCounted, k
  <2>9. \A v \in Upload : Active(v)' <=> Active(v)
    BY <2>1, <2>2, <2>5, MediaFacts DEF Active
  <2>10. ~raced => /\ \A v \in Upload \ {u} : upload[v] = NoFile
                   /\ \A w \in versions : Number(k) > Number(w.key)
    BY <2>1 DEF MediaInv, NumberIsNew, Active, k
  <2>11. ~raced => \A w \in versions : w.key # k
    BY <1>1, <2>3, <2>10, MediaFacts DEF Key, Number
  <2>12. NumberIsNew'
    BY <1>1, <2>2, <2>4, <2>5, <2>6, <2>9, <2>10 DEF MediaInv, NumberIsNew
  <2>13. VersionsIntact'
    BY <1>1, <2>4, <2>6, <2>11 DEF MediaInv, VersionsIntact
  <2> QED
    BY <2>7, <2>8, <2>12, <2>13 DEF MediaInv
<1>6. CASE InsertVersionRow(u)
  <2> DEFINE id == Max({0} \cup {r.id : r \in versions}) + 1
  <2>1. upload[u] \in UploadRecord /\ upload[u].at = "insert" /\ Active(u)
        /\ Cardinality(versions) < MaxVersions
        /\ UNCHANGED <<medium, current, objects, deletion, doomed, tags, tagging, raced>>
    BY <1>2, <1>6 DEF InsertVersionRow
  <2>2. CASE medium # "row"
    <3>1. UNCHANGED versions /\ upload' = [upload EXCEPT ![u] = NoFile]
      BY <1>6, <2>2 DEF InsertVersionRow
    <3> QED
      BY <2>1, <3>1, UploadEnds, MediaFacts
  <2>3. CASE medium = "row"
    <3> DEFINE k == upload[u].key
               new == [id |-> id, key |-> k, bytes |-> upload[u].bytes]
               r == [upload[u] EXCEPT !.at = "point", !.id = id]
    <3>1. versions' = versions \cup {new}
          /\ upload' = [upload EXCEPT ![u].at = "point", ![u].id = id]
      BY <1>6, <2>3 DEF InsertVersionRow
    <3>2. /\ id \in 1 .. MaxVersions /\ id <= Cardinality(versions) + 1
          /\ \A w \in versions : id > w.id /\ w.id \in Int
      <4>1. /\ id \in Nat \ {0} /\ id <= Cardinality(versions) + 1
            /\ \A w \in versions : id > w.id
        BY NextNumbers
      <4>2. \A w \in versions : w.id \in Int
        BY MediaFacts DEF Row
      <4> HIDE DEF id
      <4> QED
        BY <1>1, <2>1, <4>1, <4>2
    <3> HIDE DEF id
    <3>3. r \in UploadRecord /\ r.at = "point"
      <4>1. id \in 0 .. MaxVersions
        BY <1>1, <3>2
      <4> QED
        BY <2>1, <4>1 DEF UploadRecord
    <3>4. upload' = [upload EXCEPT ![u] = r] /\ k \in Key /\ upload[u].bytes \in Upload
      BY <2>1, <3>1, MediaFacts DEF UploadRecord
    <3>5. new \in Row /\ new.key = k /\ new.id = id /\ new.bytes = upload[u].bytes
      BY <3>2, <3>4 DEF Row
    <3>6. new \notin versions
      BY <3>2, <3>5
    <3>7. Number(k) <= Cardinality(versions) + 1
      BY <2>1, <2>3 DEF MediaInv, RowsCounted
    <3>8. ~raced => /\ \A v \in Upload \ {u} : upload[v] = NoFile
                    /\ objects[k] = upload[u].bytes
      BY <2>1 DEF MediaInv, NumberIsNew, Active
    <3> HIDE DEF r, k, new
    <3>9. /\ upload' \in [Upload -> {NoFile} \cup UploadRecord] /\ upload'[u] = r
          /\ \A v \in Upload \ {u} : upload'[v] = upload[v]
      BY <3>3, <3>4, MediaFacts
    <3>10. /\ IsFiniteSet(versions') /\ Cardinality(versions') = Cardinality(versions) + 1
      BY <3>1, <3>6, FS_AddElement DEF MediaInv, RowsCounted
    <3>11. MediaTypeOK'
      BY <2>1, <3>1, <3>5, <3>9 DEF MediaInv, MediaTypeOK, UploadRecord
    <3>12. RowsCounted'
      <4>1. \A w \in versions : Number(w.key) \in Int /\ w.id \in Int
        BY MediaFacts DEF Row, Key, Number
      <4>2. \A w \in versions' : Number(w.key) <= Cardinality(versions')
                                 /\ w.id <= Cardinality(versions')
        BY <1>1, <3>1, <3>2, <3>5, <3>7, <3>10, <4>1 DEF MediaInv, RowsCounted
      <4>3. \A v \in Upload : upload'[v].at \in {"put", "insert"} =>
              v # u /\ Number(upload[v].key) \in Int
        <5>1. ASSUME NEW v \in Upload, upload'[v].at \in {"put", "insert"}
              PROVE  upload[v] \in UploadRecord /\ v # u
          BY <1>1, <3>3, <3>9, <5>1, MediaFacts
        <5> QED
          BY <5>1, MediaFacts DEF UploadRecord, Key, Number
      <4>4. \A v \in Upload : upload'[v].at \in {"put", "insert"} =>
              Number(upload'[v].key) <= Cardinality(versions') + 1
        BY <1>1, <2>3, <3>9, <3>10, <4>3 DEF MediaInv, RowsCounted
      <4> QED
        BY <1>1, <2>1, <2>3, <3>10, <4>2, <4>4 DEF RowsCounted
    <3>13. \A v \in Upload : Active(v)' <=> Active(v)
      BY <2>1, <3>3, <3>9, MediaFacts DEF Active
    <3>14. NumberIsNew'
      BY <1>1, <2>1, <2>3, <3>1, <3>3, <3>8, <3>9, <3>13 DEF MediaInv, NumberIsNew
    <3>15. VersionsIntact'
      BY <2>1, <3>1, <3>5, <3>8 DEF MediaInv, VersionsIntact
    <3> QED
      BY <3>11, <3>12, <3>14, <3>15 DEF MediaInv
  <2> QED
    BY <2>2, <2>3
<1>7. CASE PointCurrent(u)
  <2>1. upload[u] \in UploadRecord
    BY <1>2, <1>7 DEF PointCurrent
  <2>2. current' \in 0 .. MaxVersions
    BY <1>7, <2>1, MediaFacts DEF PointCurrent, UploadRecord
  <2>3. upload' = [upload EXCEPT ![u] = NoFile]
        /\ UNCHANGED <<medium, versions, objects, deletion, doomed, tags, tagging, raced>>
    BY <1>7 DEF PointCurrent
  <2> QED
    BY <2>2, <2>3, UploadEnds, MediaFacts
<1>8. CASE UploadFails(u)
  <2>1. /\ upload' = [upload EXCEPT ![u] = NoFile]
        /\ UNCHANGED <<medium, versions, current, objects, deletion, doomed, tags,
                       tagging, raced>>
    BY <1>8 DEF UploadFails
  <2> QED
    BY <2>1, UploadEnds, MediaFacts
<1> QED
  BY <1>3, <1>4, <1>5, <1>6, <1>7, <1>8

\* The deletion reaches no key that an upload alone is about to describe.
LEMMA MediaDeletionInductive ==
  ASSUME MediaInv, ReadKeys \/ DeleteObjects \/ DeleteMedium \/ DeletionFails
  PROVE  MediaInv'
<1>1. \A r \in versions : r.key \in Key
  BY MediaFacts
<1>2. /\ doomed \subseteq {r.key : r \in versions}
      /\ ~raced => \A u \in Upload : upload[u].at = "insert" =>
           /\ objects[upload[u].key] = upload[u].bytes
           /\ upload[u].key \in Key /\ upload[u].key \notin doomed
  <2> SUFFICES ASSUME ~raced, NEW u \in Upload, upload[u].at = "insert"
               PROVE  /\ objects[upload[u].key] = upload[u].bytes
                      /\ upload[u].key \in Key /\ upload[u].key \notin doomed
    BY DEF MediaInv, NumberIsNew
  <2>1. upload[u].key \in Key
    <3>1. upload[u] \in UploadRecord
      BY MediaFacts
    <3> QED
      BY <3>1 DEF UploadRecord
  <2>2. /\ objects[upload[u].key] = upload[u].bytes
        /\ \A r \in versions : Number(upload[u].key) > Number(r.key)
    BY DEF MediaInv, NumberIsNew
  <2>3. \A k \in Key : Number(k) \in Int
    BY DEF Key, Number
  <2>4. \A r \in versions : r.key # upload[u].key
    BY <1>1, <2>1, <2>2, <2>3
  <2> QED
    BY <2>1, <2>2, <2>4 DEF MediaInv, NumberIsNew
<1>3. ASSUME NEW lost \in SUBSET doomed,
             objects' = [k \in Key |-> IF k \in lost THEN NoBytes ELSE objects[k]],
             deletion' \in {"none", "objects", "row"},
             UNCHANGED <<medium, versions, current, upload, doomed, tags, tagging, raced>>
      PROVE  MediaInv'
  <2>1. /\ objects' \in [Key -> Upload \cup {NoBytes}]
        /\ \A k \in Key \ doomed : objects'[k] = objects[k]
    BY <1>3, MediaFacts
  <2>2. MediaTypeOK' /\ RowsCounted'
    BY <1>3, <2>1 DEF MediaInv, MediaTypeOK, RowsCounted
  <2>3. NumberIsNew'
    BY <1>2, <1>3, <2>1 DEF MediaInv, NumberIsNew, Active
  <2>4. VersionsIntact'
    BY <1>1, <1>3, <2>1 DEF MediaInv, VersionsIntact
  <2> QED
    BY <2>2, <2>3, <2>4 DEF MediaInv
<1>4. CASE ReadKeys
  <2>1. /\ deletion' = "objects" /\ doomed' = {r.key : r \in versions}
        /\ UNCHANGED <<medium, versions, current, objects, upload, tags, tagging, raced>>
    BY <1>4 DEF ReadKeys
  <2>2. doomed' \subseteq Key
    BY <1>1, <2>1
  <2>3. MediaTypeOK' /\ RowsCounted'
    BY <2>1, <2>2 DEF MediaInv, MediaTypeOK, RowsCounted
  <2>4. NumberIsNew' /\ VersionsIntact'
    BY <2>1 DEF MediaInv, NumberIsNew, VersionsIntact, Active
  <2> QED
    BY <2>3, <2>4 DEF MediaInv
<1>5. CASE DeleteObjects
  BY <1>3, <1>5 DEF DeleteObjects
<1>6. CASE DeletionFails
  <2>1. PICK lost \in IF deletion = "objects" THEN SUBSET doomed ELSE {{}} :
          objects' = [k \in Key |-> IF k \in lost THEN NoBytes ELSE objects[k]]
    BY <1>6 DEF DeletionFails
  <2>2. lost \in SUBSET doomed
    BY <2>1
  <2> QED
    BY <1>3, <1>6, <2>1, <2>2 DEF DeletionFails
<1>7. CASE DeleteMedium
  <2>1. /\ deletion' = "none" /\ doomed' = {} /\ medium' = "gone" /\ versions' = {}
        /\ current' = 0 /\ tags' = {} /\ UNCHANGED <<objects, upload, tagging, raced>>
    BY <1>7 DEF DeleteMedium
  <2>2. MediaTypeOK'
    BY <2>1, MediaFacts DEF MediaInv, MediaTypeOK
  <2>3. RowsCounted'
    BY <2>1, FS_EmptySet, MediaFacts DEF MediaInv, RowsCounted
  <2>4. NumberIsNew' /\ VersionsIntact'
    BY <2>1 DEF MediaInv, NumberIsNew, VersionsIntact, Active
  <2> QED
    BY <2>2, <2>3, <2>4 DEF MediaInv
<1> QED
  BY <1>4, <1>5, <1>6, <1>7

LEMMA MediaInductive ==
  ASSUME MediaInv, [MediaNext]_mediaVars
  PROVE  MediaInv'
<1>1. ASSUME NEW u \in Upload,
             \/ \E f \in Filename : CreateMedium(u, f) \/ ReadVersion(u, f)
             \/ PutMedia(u) \/ InsertVersionRow(u) \/ PointCurrent(u) \/ UploadFails(u)
      PROVE  MediaInv'
  BY <1>1, MediaUploadInductive
<1>2. ASSUME NEW r \in versions, RollBackMedium(r) PROVE MediaInv'
  <2>1. r.id \in 0 .. MaxVersions
    BY MediaFacts DEF Row
  <2> QED
    BY <1>2, <2>1, UploadEnds, MediaFacts DEF RollBackMedium
<1>3. ASSUME NEW T \in SUBSET Tag, ClearTags(T) PROVE MediaInv'
  BY <1>3, UploadEnds, MediaFacts DEF ClearTags
<1>4. ASSUME NEW t \in Tag, InsertTag(t) PROVE MediaInv'
  BY <1>4, UploadEnds, MediaFacts DEF InsertTag
<1>5. CASE ReadKeys \/ DeleteObjects \/ DeleteMedium \/ DeletionFails
  BY <1>5, MediaDeletionInductive
<1>6. CASE UNCHANGED mediaVars
  BY <1>6, UploadEnds, MediaFacts DEF mediaVars
<1> QED
  BY <1>1, <1>2, <1>3, <1>4, <1>5, <1>6 DEF MediaNext

LEMMA MediaInitially ==
  ASSUME MediaInit
  PROVE  MediaInv
<1>1. NoFile.at = "none"
  BY DEF NoFile
<1>2. raced \in BOOLEAN
  BY DEF MediaInit
<1>3. MediaTypeOK
  BY <1>2, MediaAssumption DEF MediaInit, MediaTypeOK
<1>4. RowsCounted
  BY <1>1, FS_EmptySet, MediaAssumption DEF MediaInit, RowsCounted
<1>5. NumberIsNew /\ VersionsIntact
  BY <1>1 DEF MediaInit, NumberIsNew, VersionsIntact, Active
<1> QED
  BY <1>3, <1>4, <1>5 DEF MediaInv

\* A version that a rollback can choose has its bytes, for any number of uploads,
\* names and versions, unless uploads overlapped or a deletion took its key.
THEOREM VersionsIntactHolds == MediaSpec => []VersionsIntact
<1>1. MediaInv => VersionsIntact
  BY DEF MediaInv
<1> QED
  BY <1>1, MediaInitially, MediaInductive, PTL DEF MediaSpec

\* Rows, objects and uploads keep their types; version numbers and row ids stay
\* within the bound on rows.
THEOREM MediaTypeCorrect == MediaSpec => []MediaTypeOK
<1>1. MediaInv => MediaTypeOK
  BY DEF MediaInv
<1> QED
  BY <1>1, MediaInitially, MediaInductive, PTL DEF MediaSpec

-----------------------------------------------------------------------------
(* Schedules. *)

\* The type invariant with the rows as a sequence and their number apart.
ScheduleTyped ==
  /\ rows \in Seq(Entry) /\ Len(rows) <= MaxRows
  /\ now \in [day : 0 .. Days - 1, slot : 0 .. SlotsPerDay - 1]
  /\ groups \subseteq Group /\ member \in groups \cup {Blank}
  /\ fallback \in Source \cup {Blank} /\ published \subseteq Source

LEMMA RemoveAtShorter ==
  ASSUME NEW S, NEW q \in Seq(S), NEW i \in 1 .. Len(q)
  PROVE  RemoveAt(q, i) \in Seq(S) /\ Len(RemoveAt(q, i)) = Len(q) - 1
<1> DEFINE a == SubSeq(q, 1, i - 1)
           b == SubSeq(q, i + 1, Len(q))
<1>1. a \in Seq(S) /\ Len(a) = i - 1
  OBVIOUS
<1>2. b \in Seq(S) /\ Len(b) = Len(q) - i
  OBVIOUS
<1>3. RemoveAt(q, i) = a \o b
  BY DEF RemoveAt
<1> HIDE DEF a, b
<1> QED
  BY <1>1, <1>2, <1>3

LEMMA ScheduleInductive ==
  ASSUME ScheduleTyped, [ScheduleNext]_scheduleVars
  PROVE  ScheduleTyped'
<1> USE ScheduleAssumption DEF ScheduleTyped
<1>1. ASSUME NEW e \in Entry, CreateSchedule(e) PROVE ScheduleTyped'
  BY <1>1 DEF CreateSchedule
<1>2. ASSUME NEW i \in 1 .. Len(rows), DeleteSchedule(i) PROVE ScheduleTyped'
  BY <1>2, RemoveAtShorter DEF DeleteSchedule
<1>3. ASSUME NEW g \in Group \cup {Blank}, AssignGroup(g) PROVE ScheduleTyped'
  BY <1>3 DEF AssignGroup
<1>4. ASSUME NEW g \in Group, DeleteGroup(g) PROVE ScheduleTyped'
  BY <1>4 DEF DeleteGroup
<1>5. ASSUME NEW s \in Source, AssignSource(s) \/ PublishSource(s) PROVE ScheduleTyped'
  BY <1>5 DEF AssignSource, PublishSource
<1>6. CASE MinutePasses
  BY <1>6 DEF MinutePasses
<1>7. CASE UNCHANGED scheduleVars
  BY <1>7 DEF scheduleVars
<1> QED
  BY <1>1, <1>2, <1>3, <1>4, <1>5, <1>6, <1>7 DEF ScheduleNext, ConsoleEdits

\* Schedules, clock, groups and assignments keep their types; a device is never in
\* a group that was deleted.
THEOREM ScheduleTypeCorrect == ScheduleSpec => []ScheduleTypeOK
<1>1. ScheduleInit => ScheduleTyped
  BY ScheduleAssumption DEF ScheduleInit, ScheduleTyped
<1>2. ScheduleTyped => ScheduleTypeOK
  <2> SUFFICES ASSUME ScheduleTyped PROVE rows \in BoundedSeq(Entry, MaxRows)
    BY DEF ScheduleTyped, ScheduleTypeOK
  <2>1. rows \in [1 .. Len(rows) -> Entry] /\ Len(rows) \in 0 .. MaxRows
    BY ScheduleAssumption DEF ScheduleTyped
  <2> QED
    BY <2>1 DEF BoundedSeq, SeqOf
<1> QED
  BY <1>1, <1>2, ScheduleInductive, PTL DEF ScheduleSpec

\* Induction on a position, as a fact about the set of those it has been shown of.
LEMMA Upwards ==
  ASSUME NEW n \in Nat, NEW S, 0 \in S, \A i \in 1 .. n : i - 1 \in S => i \in S
  PROVE  \A i \in 0 .. n : i \in S
<1> DEFINE T == {i \in 0 .. n : i \notin S}
           R == OpToRel(<, Nat)
<1> SUFFICES ASSUME T # {} PROVE FALSE
  OBVIOUS
<1>1. T \subseteq Nat
  OBVIOUS
<1>2. PICK t \in T : \A y \in T : ~(<<y, t>> \in R)
  BY <1>1, NatLessThanWellFounded, WFMin
<1>3. t \in 1 .. n /\ t \notin S /\ t - 1 \in 0 .. n
  <2>1. t \in 0 .. n /\ t \notin S
    OBVIOUS
  <2>2. t # 0
    BY <2>1
  <2> HIDE DEF T, R
  <2> QED
    BY <2>1, <2>2
<1>4. t - 1 \in T
  BY <1>3
<1>5. <<t - 1, t>> \in R
  BY <1>1, <1>2, <1>4 DEF OpToRel
<1> QED
  BY <1>2, <1>4, <1>5

\* The loop's recursion has a solution: after every number of rows there is one
\* for that many.
LEMMA BestOfIs ==
  ASSUME rows \in Seq(Entry)
  PROVE  /\ BestOf[0] = << >>
         /\ \A i \in 1 .. Len(rows) : BestOf[i] = Keep(BestOf[i - 1], rows[i])
<1> DEFINE Body(f, i) == IF i = 0 THEN << >> ELSE Keep(f[i - 1], rows[i])
           Solves(f, n) == f = [i \in 0 .. n |-> Body(f, i)]
           S == {n \in Nat : \E f : Solves(f, n)}
<1>1. Len(rows) \in Nat
  OBVIOUS
<1>2. 0 \in S
  <2> DEFINE f == [i \in 0 .. 0 |-> << >>]
  <2>1. Solves(f, 0)
    OBVIOUS
  <2> QED
    BY <2>1
<1>3. ASSUME NEW n \in 1 .. Len(rows), n - 1 \in S PROVE n \in S
  <2>1. PICK f : Solves(f, n - 1)
    BY <1>3
  <2> DEFINE g == [i \in 0 .. n |-> Body(f, i)]
  <2>2. \A i \in 0 .. n - 1 : g[i] = f[i]
    BY <2>1
  <2>3. \A i \in 0 .. n : Body(f, i) = Body(g, i)
    <3> TAKE i \in 0 .. n
    <3>1. i # 0 => i - 1 \in 0 .. n - 1
      OBVIOUS
    <3> QED
      BY <2>2, <3>1
  <2>4. Solves(g, n)
    BY <2>3
  <2>5. \E h : Solves(h, n)
    <3> HIDE DEF Solves, g
    <3> QED
      BY <2>4
  <2> HIDE DEF Solves
  <2> QED
    BY <2>5
<1> HIDE DEF S
<1>4. Len(rows) \in S
  <2>1. \A i \in 0 .. Len(rows) : i \in S
    BY <1>1, <1>2, <1>3, Upwards, Zenon
  <2> QED
    BY <1>1, <2>1
<1>5. PICK f : Solves(f, Len(rows))
  BY <1>4 DEF S
<1>6. Solves(BestOf, Len(rows))
  BY <1>5 DEF BestOf
<1> QED
  BY <1>1, <1>6

Suits(e) == Applies(e) /\ ScheduleMatches(e, now)

\* a goes before b, or is its equal.
Ranks(a, b) ==
  /\ a.priority >= b.priority
  /\ a.priority = b.priority /\ Specific(b) => Specific(a)

\* What the loop knows after i rows: what it keeps is one of them that suits and
\* goes before all of them that do.
KeepsBest(i) ==
  \/ BestOf[i] = << >> /\ \A k \in 1 .. i : ~Suits(rows[k])
  \/ \E j \in 1 .. i :
       /\ BestOf[i] = <<rows[j]>> /\ Suits(rows[j])
       /\ \A k \in 1 .. i : Suits(rows[k]) => Ranks(rows[j], rows[k])

LEMMA RanksOrder ==
  ASSUME NEW a \in Entry, NEW b \in Entry, NEW c \in Entry
  PROVE  /\ Ranks(a, a)
         /\ Ranks(a, b) /\ Ranks(b, c) => Ranks(a, c)
         /\ Beats(a, b) => Ranks(a, b)
         /\ ~Beats(a, b) => Ranks(b, a)
<1>1. a.priority \in Int /\ b.priority \in Int /\ c.priority \in Int
  BY ScheduleAssumption
<1> QED
  BY <1>1 DEF Ranks, Beats

LEMMA KeepsBestAfter ==
  ASSUME rows \in Seq(Entry), NEW i \in 1 .. Len(rows), KeepsBest(i - 1)
  PROVE  KeepsBest(i)
<1> DEFINE e == rows[i]
<1>1. /\ \A k \in 1 .. i : rows[k] \in Entry
      /\ \A k \in 1 .. i : k = i \/ k \in 1 .. i - 1
      /\ i \in 1 .. i /\ \A k \in 1 .. i - 1 : k \in 1 .. i
  OBVIOUS
<1>2. BestOf[i] = Keep(BestOf[i - 1], e)
  BY BestOfIs
<1>3. \A x, y : <<x>> = <<y>> => x = y
  OBVIOUS
<1>4. \A x : <<x>> # << >> /\ <<x>>[1] = x
  OBVIOUS
<1>5. CASE BestOf[i - 1] = << >> /\ \A k \in 1 .. i - 1 : ~Suits(rows[k])
  <2>1. CASE Suits(e)
    <3>1. BestOf[i] = <<e>>
      BY <1>2, <1>5, <2>1 DEF Keep, Suits
    <3>2. \A k \in 1 .. i : Suits(rows[k]) => Ranks(e, rows[k])
      BY <1>1, <1>5, RanksOrder, Zenon
    <3> QED
      BY <1>1, <2>1, <3>1, <3>2, Zenon DEF KeepsBest
  <2>2. CASE ~Suits(e)
    <3>1. BestOf[i] = << >>
      BY <1>2, <1>5, <2>2 DEF Keep, Suits
    <3> QED
      BY <1>1, <1>5, <2>2, <3>1, Zenon DEF KeepsBest
  <2> QED
    BY <2>1, <2>2
<1>6. ASSUME NEW j \in 1 .. i - 1, BestOf[i - 1] = <<rows[j]>>, Suits(rows[j]),
             \A k \in 1 .. i - 1 : Suits(rows[k]) => Ranks(rows[j], rows[k])
      PROVE  KeepsBest(i)
  <2>1. j \in 1 .. i /\ rows[j] \in Entry /\ e \in Entry
    BY <1>1
  <2>2. CASE Suits(e) /\ Beats(e, rows[j])
    <3>1. BestOf[i] = <<e>>
      BY <1>2, <1>4, <1>6, <2>2 DEF Keep, Suits
    <3>2. \A k \in 1 .. i : Suits(rows[k]) => Ranks(e, rows[k])
      BY <1>1, <1>6, <2>1, <2>2, RanksOrder, Zenon
    <3> QED
      BY <1>1, <2>2, <3>1, <3>2, Zenon DEF KeepsBest
  <2>3. CASE ~(Suits(e) /\ Beats(e, rows[j]))
    <3>1. BestOf[i] = <<rows[j]>>
      BY <1>2, <1>4, <1>6, <2>3 DEF Keep, Suits
    <3>2. Suits(e) => Ranks(rows[j], e)
      BY <2>1, <2>3, RanksOrder, Zenon
    <3>3. \A k \in 1 .. i : Suits(rows[k]) => Ranks(rows[j], rows[k])
      BY <1>1, <1>6, <3>2, Zenon
    <3> QED
      BY <1>6, <2>1, <3>1, <3>3, Zenon DEF KeepsBest
  <2> QED
    BY <2>2, <2>3
<1> QED
  BY <1>5, <1>6, Zenon DEF KeepsBest

LEMMA RankingFollows ==
  ASSUME ScheduleTyped
  PROVE  RankingHolds
<1> DEFINE S == {i \in Nat : KeepsBest(i)}
           n == Len(rows)
<1>1. rows \in Seq(Entry) /\ n \in Nat
  BY DEF ScheduleTyped
<1>2. 0 \in S
  BY <1>1, BestOfIs DEF KeepsBest
<1>3. \A i \in 1 .. n : i - 1 \in S => i \in S
  BY <1>1, KeepsBestAfter
<1> HIDE DEF S
<1>4. n \in S
  <2>1. \A i \in 0 .. n : i \in S
    BY <1>1, <1>2, <1>3, Upwards, Zenon
  <2> QED
    BY <1>1, <2>1
<1>5. KeepsBest(n)
  BY <1>4 DEF S
<1> HIDE DEF n
<1>6. SUFFICES ASSUME NEW i \in 1 .. n, Suits(rows[i])
      PROVE  \E j \in 1 .. n :
               /\ Suits(rows[j])
               /\ Resolved = (IF rows[j].source \in published
                                THEN rows[j].source ELSE Blank)
               /\ Ranks(rows[j], rows[i])
  BY Zenon DEF RankingHolds, Suits, Ranks, n
<1>7. PICK j \in 1 .. n : /\ BestOf[n] = <<rows[j]>> /\ Suits(rows[j])
                          /\ Ranks(rows[j], rows[i])
  BY <1>5, <1>6, Zenon DEF KeepsBest
<1>8. Best = <<rows[j]>>
  BY <1>7 DEF Best, n
<1>9. Best # << >> /\ Best[1] = rows[j]
  BY <1>8
<1>10. Resolved = IF rows[j].source \in published THEN rows[j].source ELSE Blank
  BY <1>9 DEF Resolved
<1> QED
  BY <1>7, <1>10

\* Whatever the order of the rows, what plays is the source of a schedule that
\* applies now and that no other one that does goes before.
THEOREM RankingAlwaysHolds == ScheduleSpec => []RankingHolds
<1>1. ScheduleInit => ScheduleTyped
  BY ScheduleAssumption DEF ScheduleInit, ScheduleTyped
<1> QED
  BY <1>1, ScheduleInductive, RankingFollows, PTL DEF ScheduleSpec

-----------------------------------------------------------------------------
(* Remote access. *)

Works == {"tunnel", "dns", "app", "guard", "row", "failed", "delapp", "deldns",
          "deltunnel", "delrow"}

Provisions == {"dns", "app", "guard", "row", "failed"}

\* A request at work has a device, one that provisions a tunnel; the others have no
\* number of either.
Filled(j) ==
  /\ IF j.at \in Works THEN j.dev \in Device ELSE j.dev = "none" /\ j.old = NoAccess
  /\ IF j.at \in Provisions THEN j.tunnel \in Tunnel ELSE j.tunnel = 0 /\ j.app = 0

Placed == \A w \in Requester : Filled(task[w])

\* An application has the number of the tunnel it was made for.
SameNumber ==
  /\ \A d \in Device : access[d].app \in {0, access[d].tunnel}
  /\ \A w \in Requester : /\ task[w].app \in {0, task[w].tunnel}
                          /\ task[w].old.app \in {0, task[w].old.tunnel}

\* The tunnels of a device: of its row, and of the requests at work on it.
Owns(d, t) ==
  \/ access[d].tunnel = t
  \/ \E w \in Requester :
       task[w].dev = d /\ (task[w].tunnel = t \/ task[w].old.tunnel = t)

Apart ==
  \A d, e \in Device : \A t \in Tunnel : Owns(d, t) /\ Owns(e, t) => d = e

\* Two requests at work on one device are recorded.
SoleRequest ==
  \A v, w \in Requester :
    v # w /\ task[v].dev = task[w].dev /\ task[v].dev \in Device => task[v].dev \in disturbed

\* How far the only request at work on a device has come with its tunnel.
Provisioned(w) ==
  LET d == task[w].dev
      t == task[w].tunnel
  IN  /\ task[w].at \in {"tunnel", "dns", "app", "guard", "row"} => access[d] = NoAccess
      /\ task[w].at \in {"app", "guard", "row"} => t \in tunnels /\ dns[d] = t
      /\ task[w].at = "row" => task[w].app \in guarded

SoleProvisions ==
  \A w \in Requester : task[w].dev \in Device \ disturbed => Provisioned(w)

\* A tunnel that a clean-up still has on its list and that a request holds was on its
\* way when the tunnels were listed; once the rows were read, so was one in a row.
OrphansKnown ==
  \A v \in Requester :
    /\ task[v].at \notin {"orphans", "orphan"} => task[v].seen = {}
    /\ \A w \in Requester :
         task[w].tunnel \in task[v].seen => task[w].tunnel \in task[v].flying
    /\ task[v].at = "orphan" =>
         \A d \in Device : access[d].tunnel \in task[v].seen => access[d].tunnel \in task[v].flying

AccessInv == AccessTypeOK /\ Placed /\ SameNumber /\ Apart /\ SoleRequest
               /\ SoleProvisions /\ OrphansKnown /\ ReadyServes

-----------------------------------------------------------------------------
\* What a step of request w leaves to the other requests and devices.
Spares(w) ==
  /\ \A v \in Requester \ {w} : task'[v] = task[v]
  /\ disturbed \subseteq disturbed' /\ fleet' \subseteq fleet
  /\ \A d \in Device \ {task[w].dev} : access'[d] = access[d] /\ dns'[d] = dns[d]
  /\ \A t \in tunnels \ tunnels' :
       \/ task[w].dev \in Device /\ Owns(task[w].dev, t)
       \/ \A d \in Device :
            \/ access[d].tunnel = t
            \/ \E v \in Requester : task[v].dev = d /\ task[v].tunnel = t
            => d \in disturbed'
  /\ \A a \in guarded \ guarded' : task[w].dev \in Device /\ Owns(task[w].dev, a)

\* Where the numbers come from that it goes on with or writes into a row.
Numbered(w) ==
  /\ task'[w].dev = task[w].dev =>
       /\ task'[w].old \in {NoAccess, task[w].old}
       /\ task'[w].tunnel \in {0, task[w].tunnel} \/ task'[w].tunnel \notin Named
  /\ task'[w].dev # task[w].dev =>
       /\ task'[w].tunnel = 0
       /\ \/ task'[w].old = NoAccess
          \/ task'[w].dev \in Device /\ task'[w].old = access[task'[w].dev]
  /\ task'[w].app \in {0, task'[w].tunnel}
  /\ \A d \in Device :
       /\ \/ access'[d].tunnel \in {0, access[d].tunnel}
          \/ d = task[w].dev /\ access'[d].tunnel = task[w].tunnel
       /\ access'[d].app \in {0, access'[d].tunnel}

\* What it has achieved for its own device, and what it knows of the tunnels.
Achieves(w) ==
  /\ Filled(task'[w])
  /\ task'[w].dev # task[w].dev =>
       \A v \in Requester \ {w} :
         task[v].dev = task'[w].dev /\ task[v].dev \in Device => task[v].dev \in disturbed'
  /\ task'[w].dev \in Device \ disturbed' => Provisioned(w)'
  /\ \A d \in fleet' \ disturbed' :
       d = task[w].dev /\ task'[w].dev # d /\ access'[d].status = "ready" /\ access'[d].app # 0
         => /\ access'[d].app \in guarded'
            /\ dns'[d] = access'[d].tunnel
            /\ access'[d].tunnel \in tunnels'
  /\ task'[w].at \notin {"orphans", "orphan"} => task'[w].seen = {}
  /\ \A v \in Requester :
       task'[v].tunnel \in task'[w].seen => task'[v].tunnel \in task'[w].flying
  /\ task'[w].at = "orphan" =>
       \A d \in Device : access'[d].tunnel \in task'[w].seen => access'[d].tunnel \in task'[w].flying

Moves(w) == AccessTypeOK' /\ Spares(w) /\ Numbered(w) /\ Achieves(w)

LEMMA TaskFields ==
  ASSUME AccessTypeOK
  PROVE  /\ task \in [Requester -> Task]
         /\ \A w \in Requester :
              /\ task[w] \in Task /\ task[w].old \in AccessRow
              /\ task[w].dev \in Device \cup {"none"}
              /\ task[w].tunnel \in 0 .. MaxTunnels /\ task[w].app \in 0 .. MaxTunnels
              /\ task[w].old.tunnel \in 0 .. MaxTunnels
              /\ task[w].seen \subseteq Tunnel /\ task[w].flying \subseteq Tunnel
         /\ \A d \in Device : access[d] \in AccessRow /\ access[d].tunnel \in 0 .. MaxTunnels
  BY DEF AccessTypeOK, Task, AccessRow

\* Every step that keeps to this keeps the invariant.
LEMMA MovesKeep ==
  ASSUME AccessInv, NEW w \in Requester, Moves(w)
  PROVE  AccessInv'
<1>1. /\ AccessTypeOK /\ Placed /\ SameNumber /\ Apart /\ SoleRequest
      /\ SoleProvisions /\ OrphansKnown /\ ReadyServes
      /\ AccessTypeOK' /\ Spares(w) /\ Numbered(w) /\ Achieves(w)
  BY DEF AccessInv, Moves
<1>2. /\ \A v \in Requester : /\ task[v].dev \in Device \cup {"none"}
                              /\ task[v].tunnel \in 0 .. MaxTunnels
                              /\ task[v].seen \subseteq Tunnel
      /\ \A t \in Tunnel : t # 0
      /\ tunnels \subseteq Tunnel /\ guarded \subseteq Tunnel
      /\ "none" \notin Device
  <2>1. \A t \in Tunnel : t # 0
    BY DEF Tunnel
  <2> QED BY <1>1, <2>1, TaskFields, AccessAssumption DEF AccessAssumption, AccessTypeOK
<1>3. Placed'
  BY <1>1 DEF Placed, Spares, Achieves
<1>4. SameNumber'
  <2>1. \A d \in Device : access'[d].app \in {0, access'[d].tunnel}
    BY <1>1 DEF Numbered
  <2>2. ASSUME NEW v \in Requester, v # w
        PROVE  task'[v].app \in {0, task'[v].tunnel} /\ task'[v].old.app \in {0, task'[v].old.tunnel}
    BY <1>1, <2>2 DEF SameNumber, Spares
  <2>3. task'[w].app \in {0, task'[w].tunnel}
    BY <1>1 DEF Numbered
  <2>4. task'[w].old.app \in {0, task'[w].old.tunnel}
    <3>1. NoAccess.app \in {0, NoAccess.tunnel}
      BY DEF NoAccess
    <3>2. /\ task[w].old.app \in {0, task[w].old.tunnel}
          /\ \A d \in Device : access[d].app \in {0, access[d].tunnel}
      BY <1>1 DEF SameNumber
    <3>3. \/ task'[w].old \in {NoAccess, task[w].old}
          \/ task'[w].dev \in Device /\ task'[w].old = access[task'[w].dev]
      BY <1>1 DEF Numbered
    <3> QED BY <3>1, <3>2, <3>3
  <2> QED BY <2>1, <2>2, <2>3, <2>4 DEF SameNumber
<1>5. ASSUME NEW d \in Device, NEW t \in Tunnel, Owns(d, t)'
      PROVE  Owns(d, t) \/ (d = task[w].dev /\ t \notin Named)
  <2>0. t # 0 /\ NoAccess.tunnel = 0
    BY <1>2 DEF NoAccess
  <2>1. CASE access'[d].tunnel = t
    BY <1>1, <2>0, <2>1 DEF Numbered, Owns
  <2>2. ASSUME NEW v \in Requester, task'[v].dev = d,
               task'[v].tunnel = t \/ task'[v].old.tunnel = t
        PROVE  Owns(d, t) \/ (d = task[w].dev /\ t \notin Named)
    <3>1. CASE v # w
      BY <1>1, <2>2, <3>1 DEF Spares, Owns
    <3>2. CASE v = w
      BY <1>1, <2>0, <2>2, <3>2 DEF Numbered, Owns
    <3> QED BY <3>1, <3>2
  <2> QED BY <1>5, <2>1, <2>2 DEF Owns
<1>6. \A d \in Device : \A t \in Tunnel : Owns(d, t) => t \in Named
  BY DEF Owns, Named
<1>7. Apart'
  <2> SUFFICES ASSUME NEW d \in Device, NEW e \in Device, NEW t \in Tunnel, Owns(d, t)', Owns(e, t)'
               PROVE  d = e
    BY DEF Apart, Tunnel
  <2> QED BY <1>1, <1>5, <1>6 DEF Apart
<1>8. SoleRequest'
  <2> SUFFICES ASSUME NEW u \in Requester, NEW v \in Requester, u # v,
                      task'[u].dev = task'[v].dev, task'[u].dev \in Device
               PROVE  task'[u].dev \in disturbed'
    BY DEF SoleRequest
  <2>1. ASSUME NEW x \in Requester \ {w}, task'[x].dev = task'[w].dev, task'[x].dev \in Device
        PROVE  task'[x].dev \in disturbed'
    <3>1. task'[x] = task[x] /\ disturbed \subseteq disturbed'
      BY <1>1, <2>1 DEF Spares
    <3>2. CASE task'[w].dev = task[w].dev
      BY <1>1, <2>1, <3>1, <3>2 DEF SoleRequest
    <3>3. CASE task'[w].dev # task[w].dev
      BY <1>1, <2>1, <3>1, <3>3 DEF Achieves
    <3> QED BY <3>2, <3>3
  <2>2. CASE u # w /\ v # w
    BY <1>1, <2>2 DEF SoleRequest, Spares
  <2>3. CASE u = w
    BY <2>1, <2>3
  <2>4. CASE v = w
    BY <2>1, <2>4
  <2> QED BY <2>2, <2>3, <2>4
<1>9. ASSUME NEW d \in Device \ disturbed', d # task[w].dev, NEW t \in tunnels,
             \/ access[d].tunnel = t
             \/ \E v \in Requester : task[v].dev = d /\ task[v].tunnel = t
      PROVE  t \in tunnels' /\ (t \in guarded => t \in guarded')
  <2>1. t \in Tunnel /\ Owns(d, t)
    BY <1>1, <1>9 DEF AccessTypeOK, Owns
  <2>2. ~ (task[w].dev \in Device /\ Owns(task[w].dev, t))
    BY <1>1, <1>9, <2>1 DEF Apart
  <2> QED BY <1>1, <1>9, <2>2 DEF Spares
<1>10. SoleProvisions'
  <2> SUFFICES ASSUME NEW v \in Requester, task'[v].dev \in Device \ disturbed'
               PROVE  Provisioned(v)'
    BY DEF SoleProvisions
  <2>1. CASE v = w
    BY <1>1, <2>1 DEF Achieves
  <2>2. CASE v # w
    <3>1. task'[v] = task[v] /\ disturbed \subseteq disturbed'
      BY <1>1, <2>2 DEF Spares
    <3>2. Provisioned(v)
      BY <1>1, <3>1 DEF SoleProvisions
    <3>3. task[v].dev # task[w].dev
      BY <1>1, <2>2, <3>1 DEF SoleRequest
    <3>4. access'[task[v].dev] = access[task[v].dev] /\ dns'[task[v].dev] = dns[task[v].dev]
      BY <1>1, <3>1, <3>3 DEF Spares
    <3>5. task[v].tunnel \in tunnels =>
            task[v].tunnel \in tunnels' /\ (task[v].tunnel \in guarded => task[v].tunnel \in guarded')
      BY <1>9, <3>1, <3>3
    <3>6. task[v].at = "row" => task[v].app \in guarded'
      <4>1. 0 \notin guarded
        BY <1>2
      <4>2. task[v].app \in {0, task[v].tunnel}
        BY <1>1 DEF SameNumber
      <4> QED BY <3>2, <3>5, <4>1, <4>2 DEF Provisioned
    <3> QED BY <3>1, <3>2, <3>4, <3>5, <3>6 DEF Provisioned
  <2> QED BY <2>1, <2>2
<1>11. OrphansKnown'
  <2>1. ASSUME NEW v \in Requester, v # w
        PROVE  /\ task'[v].at \notin {"orphans", "orphan"} => task'[v].seen = {}
               /\ \A u \in Requester :
                    task'[u].tunnel \in task'[v].seen => task'[u].tunnel \in task'[v].flying
               /\ task'[v].at = "orphan" =>
                    \A d \in Device :
                      access'[d].tunnel \in task'[v].seen => access'[d].tunnel \in task'[v].flying
    <3>1. task'[v] = task[v] /\ \A u \in Requester : u # w => task'[u] = task[u]
      BY <1>1, <2>1 DEF Spares
    <3>2. /\ task[v].at \notin {"orphans", "orphan"} => task[v].seen = {}
          /\ \A u \in Requester :
               task[u].tunnel \in task[v].seen => task[u].tunnel \in task[v].flying
          /\ task[v].at = "orphan" =>
               \A d \in Device :
                 access[d].tunnel \in task[v].seen => access[d].tunnel \in task[v].flying
      BY <1>1 DEF OrphansKnown
    <3>3. 0 \notin task[v].seen /\ \A t \in task[v].seen : t \in Named
      <4>1. 0 \notin task[v].seen
        BY <1>2
      <4>2. \A t \in task[v].seen : t \in Named
        BY DEF Named
      <4> QED BY <4>1, <4>2
    <3>4. task'[w].tunnel \in task[v].seen => task'[w].tunnel \in task[v].flying
      BY <1>1, <3>2, <3>3 DEF Numbered
    <3>5. \A d \in Device :
            \/ access'[d].tunnel \in {0, access[d].tunnel}
            \/ d = task[w].dev /\ access'[d].tunnel = task[w].tunnel
      BY <1>1 DEF Numbered
    <3> QED BY <3>1, <3>2, <3>3, <3>4, <3>5
  <2>2. /\ task'[w].at \notin {"orphans", "orphan"} => task'[w].seen = {}
        /\ \A u \in Requester :
             task'[u].tunnel \in task'[w].seen => task'[u].tunnel \in task'[w].flying
        /\ task'[w].at = "orphan" =>
             \A d \in Device :
               access'[d].tunnel \in task'[w].seen => access'[d].tunnel \in task'[w].flying
    BY <1>1 DEF Achieves
  <2> QED BY <2>1, <2>2 DEF OrphansKnown
<1>12. ReadyServes'
  <2> SUFFICES ASSUME NEW d \in fleet' \ disturbed',
                      access'[d].status = "ready", access'[d].app # 0,
                      \A v \in Requester : task'[v].dev # d
               PROVE  /\ access'[d].app \in guarded'
                      /\ dns'[d] = access'[d].tunnel
                      /\ access'[d].tunnel \in tunnels'
    BY DEF ReadyServes, Serves, LooksReady
  <2>0. d \in Device /\ d \in fleet \ disturbed
    BY <1>1 DEF Spares, AccessTypeOK
  <2>1. CASE d = task[w].dev
    BY <1>1, <2>1 DEF Achieves
  <2>2. CASE d # task[w].dev
    <3>1. access'[d] = access[d] /\ dns'[d] = dns[d]
      BY <1>1, <2>0, <2>2 DEF Spares
    <3>2. \A v \in Requester : task[v].dev # d
      BY <1>1, <2>2 DEF Spares
    <3>3. access[d].app \in guarded /\ dns[d] = access[d].tunnel /\ access[d].tunnel \in tunnels
      BY <1>1, <2>0, <3>1, <3>2 DEF ReadyServes, Serves, LooksReady
    <3>4. access[d].app = access[d].tunnel
      BY <1>1, <2>0, <3>1 DEF SameNumber
    <3> QED BY <1>9, <2>0, <2>2, <3>1, <3>3, <3>4
  <2> QED BY <2>1, <2>2
<1> QED
  BY <1>1, <1>3, <1>4, <1>7, <1>8, <1>10, <1>11, <1>12 DEF AccessInv

-----------------------------------------------------------------------------
Steps == {"none", "tunnel", "dns", "app", "guard", "row", "failed", "delapp", "deldns",
          "deltunnel", "delrow", "orphans", "orphan"}

NoTaskFields ==
  /\ NoTask.at = "none" /\ NoTask.dev = "none" /\ NoTask.old = NoAccess
  /\ NoTask.tunnel = 0 /\ NoTask.app = 0 /\ NoTask.seen = {} /\ NoTask.flying = {}

LEMMA NoTaskType == NoTask \in Task /\ NoTaskFields /\ NoAccess \in AccessRow
<1>1. NoAccess \in AccessRow
  BY AccessAssumption DEF AccessAssumption, NoAccess, AccessRow
<1>2. NoTask \in Task
  BY <1>1, AccessAssumption DEF AccessAssumption, NoTask, Task
<1> QED BY <1>1, <1>2 DEF NoTask, NoTaskFields

LEMMA Went ==
  ASSUME AccessTypeOK, NEW w \in Requester, NEW l \in Steps, Goto(w, l)
  PROVE  /\ task' \in [Requester -> Task]
         /\ \A v \in Requester \ {w} : task'[v] = task[v]
         /\ task'[w].at = l /\ task'[w].dev = task[w].dev /\ task'[w].old = task[w].old
         /\ task'[w].tunnel = task[w].tunnel /\ task'[w].app = task[w].app
         /\ task'[w].seen = task[w].seen /\ task'[w].flying = task[w].flying
<1>1. task \in [Requester -> Task]
  BY DEF AccessTypeOK
<1>2. [task[w] EXCEPT !.at = l] \in Task
  BY <1>1 DEF Task, Steps
<1>3. task'[w] = [task[w] EXCEPT !.at = l]
  BY <1>1 DEF Goto
<1>4. task' \in [Requester -> Task]
  BY <1>1, <1>2 DEF Goto
<1>5. /\ task'[w].at = l /\ task'[w].dev = task[w].dev /\ task'[w].old = task[w].old
      /\ task'[w].tunnel = task[w].tunnel /\ task'[w].app = task[w].app
      /\ task'[w].seen = task[w].seen /\ task'[w].flying = task[w].flying
  BY <1>1, <1>3 DEF Task
<1> QED BY <1>1, <1>4, <1>5 DEF Goto

LEMMA Ended ==
  ASSUME AccessTypeOK, NEW w \in Requester, End(w)
  PROVE  /\ task' \in [Requester -> Task]
         /\ \A v \in Requester \ {w} : task'[v] = task[v]
         /\ task'[w] = NoTask
  BY NoTaskType DEF End, AccessTypeOK

\* A step that only moves on, with what it knows of its own device.
LEMMA GoesOn ==
  ASSUME AccessInv, NEW w \in Requester, NEW l \in Works, Goto(w, l), task[w].at \in Works,
         l \in Provisions <=> task[w].at \in Provisions,
         UNCHANGED <<fleet, access, disturbed>>, AccessTypeOK', Spares(w),
         task[w].dev \in disturbed \/ Provisioned(w)'
  PROVE  Moves(w)
<1>1. AccessTypeOK /\ Placed /\ SameNumber /\ OrphansKnown
  BY DEF AccessInv
<1>2. /\ \A v \in Requester \ {w} : task'[v] = task[v]
      /\ task'[w].at = l /\ task'[w].dev = task[w].dev /\ task'[w].old = task[w].old
      /\ task'[w].tunnel = task[w].tunnel /\ task'[w].app = task[w].app
      /\ task'[w].seen = task[w].seen
  BY <1>1, Went DEF Works, Steps
<1>3. Numbered(w)
  BY <1>1, <1>2 DEF Numbered, SameNumber
<1>4. task[w].seen = {}
  BY <1>1 DEF OrphansKnown, Works
<1>5. Achieves(w)
  BY <1>1, <1>2, <1>4 DEF Achieves, Placed, Filled, Works, Provisions
<1> QED BY <1>3, <1>5 DEF Moves

LEMMA MovesProvision ==
  ASSUME AccessInv, NEW w \in Requester, PointName(w) \/ GuardApp(w)
  PROVE  Moves(w)
<1>1. AccessTypeOK /\ Placed /\ SameNumber /\ SoleProvisions
  BY DEF AccessInv
<1>2. /\ task[w].at \in {"dns", "guard"}
      /\ UNCHANGED <<fleet, access, tunnels, apps, disturbed, cloud>>
  BY DEF PointName, GuardApp
<1>3. task[w].dev \in Device
  BY <1>1, <1>2 DEF Placed, Filled, Works, Provisions
<1>4. /\ dns' \in [Device -> 0 .. MaxTunnels]
      /\ guarded' \subseteq apps /\ guarded \subseteq guarded'
      /\ \A d \in Device \ {task[w].dev} : dns'[d] = dns[d]
  BY <1>1, <1>3, TaskFields DEF PointName, GuardApp, AccessTypeOK
<1>5. PICK l \in {"app", "row", "failed"} :
        /\ Goto(w, l)
        /\ l = "app" => task[w].tunnel \in tunnels /\ dns'[task[w].dev] = task[w].tunnel
        /\ l = "row" => task[w].at = "guard" /\ dns' = dns /\ task[w].app \in guarded'
  BY <1>1, <1>3 DEF PointName, GuardApp, Replied, AccessTypeOK
<1>6. /\ task' \in [Requester -> Task]
      /\ \A v \in Requester \ {w} : task'[v] = task[v]
      /\ task'[w].at = l /\ task'[w].dev = task[w].dev
      /\ task'[w].tunnel = task[w].tunnel /\ task'[w].app = task[w].app
  BY <1>1, <1>5, Went DEF Steps
<1>7. AccessTypeOK'
  BY <1>1, <1>2, <1>4, <1>6 DEF AccessTypeOK
<1>8. Spares(w)
  BY <1>2, <1>4, <1>6 DEF Spares
<1>9. task[w].dev \in disturbed \/ Provisioned(w)'
  BY <1>1, <1>2, <1>3, <1>5, <1>6 DEF SoleProvisions, Provisioned
<1> QED
  BY <1>2, <1>5, <1>7, <1>8, <1>9, GoesOn DEF Works, Provisions

\* A step that ends a request, with what it leaves of its device.
LEMMA Stops ==
  ASSUME AccessInv, NEW w \in Requester, End(w), AccessTypeOK', Spares(w),
         \A d \in Device : /\ \/ access'[d].tunnel \in {0, access[d].tunnel}
                              \/ d = task[w].dev /\ access'[d].tunnel = task[w].tunnel
                           /\ access'[d].app \in {0, access'[d].tunnel},
         task[w].dev \in fleet' \ disturbed' =>
           \/ access'[task[w].dev].status # "ready"
           \/ access'[task[w].dev].app = 0
           \/ /\ access'[task[w].dev].app \in guarded'
              /\ dns'[task[w].dev] = access'[task[w].dev].tunnel
              /\ access'[task[w].dev].tunnel \in tunnels'
  PROVE  Moves(w)
<1>1. AccessTypeOK /\ Placed
  BY DEF AccessInv
<1>2. /\ \A v \in Requester \ {w} : task'[v] = task[v]
      /\ task'[w] = NoTask /\ NoTaskFields
  BY <1>1, Ended, NoTaskType
<1>3. "none" \notin Device /\ "none" \notin Works
  BY AccessAssumption DEF Works
<1>4. Numbered(w)
  <2>1. task'[w].dev = task[w].dev => task[w].dev = "none"
    BY <1>2 DEF NoTaskFields
  <2> QED BY <1>2, <2>1 DEF Numbered, NoTaskFields
<1>5. Achieves(w)
  <2>1. task'[w].dev = "none" /\ task'[w].at = "none" /\ task'[w].seen = {}
    BY <1>2 DEF NoTaskFields
  <2>2. ASSUME NEW d \in fleet' \ disturbed', d = task[w].dev,
               access'[d].status = "ready", access'[d].app # 0
        PROVE  /\ access'[d].app \in guarded'
               /\ dns'[d] = access'[d].tunnel
               /\ access'[d].tunnel \in tunnels'
    <3>1. task[w].dev \in fleet' \ disturbed'
      BY <2>2
    <3>2. /\ access'[task[w].dev].app \in guarded'
          /\ dns'[task[w].dev] = access'[task[w].dev].tunnel
          /\ access'[task[w].dev].tunnel \in tunnels'
      BY <2>2, <3>1
    <3> QED BY <2>2, <3>2
  <2> QED BY <1>2, <1>3, <2>1, <2>2 DEF Achieves, Filled, Provisions, NoTaskFields
<1> QED BY <1>4, <1>5 DEF Moves

LEMMA MovesStart ==
  ASSUME AccessInv, NEW w \in Requester, NEW d \in Device,
         RemoveDevice(w, d) \/ \E force \in BOOLEAN : Provision(w, d, force)
  PROVE  Moves(w)
<1>1. AccessTypeOK /\ Placed /\ SameNumber /\ task[w] = NoTask /\ NoTaskFields
      /\ NoTask \in Task
  BY NoTaskType DEF AccessInv, RemoveDevice, Provision
<1>2. /\ UNCHANGED <<fleet, access, tunnels, dns, apps, guarded, cloud>> /\ Overlap(w, d)
      /\ \E l \in {"tunnel", "delapp", "delrow"}, n \in {"none", "provision", "delete"} :
           Claim(w, d, l, n) /\ (l = "tunnel" => access[d] = NoAccess)
  BY DEF RemoveDevice, Provision
<1>3. PICK l \in {"tunnel", "delapp", "delrow"}, n \in {"none", "provision", "delete"} :
        Claim(w, d, l, n) /\ (l = "tunnel" => access[d] = NoAccess)
  BY <1>2
<1> DEFINE r == [NoTask EXCEPT !.at = l, !.dev = d, !.old = access[d], !.after = n]
<1>4. /\ r \in Task /\ r.at = l /\ r.dev = d /\ r.old = access[d] /\ r.tunnel = 0 /\ r.app = 0
      /\ r.seen = {} /\ r.flying = {}
  BY <1>1, TaskFields DEF Task, NoTaskFields
<1>5. task' = [task EXCEPT ![w] = r]
  BY <1>3 DEF Claim
<1> HIDE DEF r
<1>6. /\ task' \in [Requester -> Task] /\ task'[w] = r
      /\ \A v \in Requester \ {w} : task'[v] = task[v]
  BY <1>1, <1>4, <1>5, TaskFields
<1>7. /\ disturbed' \subseteq Device /\ disturbed \subseteq disturbed'
      /\ \A v \in Requester \ {w} : task[v].dev = d => d \in disturbed'
  BY <1>1, <1>2 DEF Overlap, AccessTypeOK
<1>8. AccessTypeOK'
  BY <1>1, <1>2, <1>6, <1>7 DEF AccessTypeOK
<1>9. Spares(w)
  BY <1>2, <1>6, <1>7 DEF Spares
<1>10. task[w].dev = "none" /\ "none" \notin Device /\ fleet \subseteq Device
  BY <1>1, AccessAssumption DEF NoTaskFields, AccessTypeOK
<1>11. Numbered(w)
  BY <1>1, <1>2, <1>4, <1>6, <1>10 DEF Numbered, SameNumber
<1>12. Provisioned(w)'
  BY <1>2, <1>3, <1>4, <1>6 DEF Provisioned
<1>13. Achieves(w)
  BY <1>2, <1>4, <1>6, <1>7, <1>10, <1>12 DEF Achieves, Filled, Works, Provisions
<1> QED BY <1>8, <1>9, <1>11, <1>13 DEF Moves

LEMMA MovesCreateTunnel ==
  ASSUME AccessInv, NEW w \in Requester, CreateTunnel(w)
  PROVE  Moves(w)
<1>1. AccessTypeOK /\ Placed /\ SameNumber /\ SoleProvisions /\ OrphansKnown
  BY DEF AccessInv
<1>2. PICK t \in Tunnel \ Named :
        /\ tunnels' = tunnels \cup {t}
        /\ End(w) \/ task' = [task EXCEPT ![w].at = "dns", ![w].tunnel = t]
  <2>1. 1 .. (IF cloud = "flaky" THEN MaxFlaky ELSE MaxTunnels) \subseteq Tunnel
    BY AccessAssumption DEF Tunnel
  <2> QED BY <2>1 DEF CreateTunnel
<1>3. task[w].at = "tunnel" /\ UNCHANGED <<fleet, access, dns, apps, guarded, cloud, disturbed>>
  BY DEF CreateTunnel
<1>15. CASE End(w)
  <2>1. /\ task' \in [Requester -> Task] /\ \A v \in Requester \ {w} : task'[v] = task[v]
    BY <1>1, <1>15, Ended
  <2>2. AccessTypeOK' /\ Spares(w)
    BY <1>1, <1>2, <1>3, <2>1 DEF AccessTypeOK, Spares
  <2>3. task[w].dev \in Device
    BY <1>1, <1>3 DEF Placed, Filled, Works
  <2>4. ASSUME task[w].dev \in fleet' \ disturbed'
        PROVE  access'[task[w].dev].status # "ready"
    BY <1>1, <1>3, <2>3, <2>4 DEF SoleProvisions, Provisioned, NoAccess
  <2> QED BY <1>1, <1>3, <1>15, <2>2, <2>4, Stops DEF SameNumber
<1>16. SUFFICES ASSUME task' = [task EXCEPT ![w].at = "dns", ![w].tunnel = t]
                PROVE  Moves(w)
  BY <1>2, <1>15
<1> DEFINE r == [task[w] EXCEPT !.at = "dns", !.tunnel = t]
<1>4. t \in 0 .. MaxTunnels
  BY DEF Tunnel
<1>5. /\ r \in Task /\ r.at = "dns" /\ r.dev = task[w].dev /\ r.old = task[w].old
      /\ r.tunnel = t /\ r.app = task[w].app /\ r.seen = task[w].seen
  BY <1>1, <1>4, TaskFields DEF Task
<1>6. task' = [task EXCEPT ![w] = r]
  BY <1>1, <1>16, TaskFields
<1> HIDE DEF r
<1>7. /\ task' \in [Requester -> Task] /\ task'[w] = r
      /\ \A v \in Requester \ {w} : task'[v] = task[v]
  BY <1>1, <1>5, <1>6, TaskFields
<1>8. AccessTypeOK'
  BY <1>1, <1>2, <1>3, <1>7 DEF AccessTypeOK
<1>9. Spares(w)
  BY <1>2, <1>3, <1>7 DEF Spares
<1>10. task[w].seen = {} /\ task[w].dev \in Device
  BY <1>1, <1>3 DEF OrphansKnown, Placed, Filled, Works, Provisions
<1>11. r.app \in {0, r.tunnel}
  BY <1>1, <1>3, <1>5 DEF Placed, Filled, Provisions
<1>12. Numbered(w)
  BY <1>1, <1>2, <1>3, <1>5, <1>7, <1>11 DEF Numbered, SameNumber
<1>13. task'[w].dev \in Device \ disturbed' => Provisioned(w)'
  BY <1>1, <1>3, <1>5, <1>7 DEF SoleProvisions, Provisioned
<1>14. Achieves(w)
  BY <1>3, <1>5, <1>7, <1>10, <1>13 DEF Achieves, Filled, Works, Provisions
<1> QED BY <1>8, <1>9, <1>12, <1>14 DEF Moves

LEMMA MovesCreateApp ==
  ASSUME AccessInv, NEW w \in Requester, CreateApp(w)
  PROVE  Moves(w)
<1>1. AccessTypeOK /\ Placed /\ SameNumber /\ SoleProvisions /\ OrphansKnown
  BY DEF AccessInv
<1>2. /\ task[w].at = "app" /\ UNCHANGED <<fleet, access, tunnels, dns, guarded, cloud, disturbed>>
      /\ apps' = apps \cup {task[w].tunnel}
  BY DEF CreateApp
<1>13. CASE Goto(w, "failed")
  <2>1. task' \in [Requester -> Task] /\ task'[w].at = "failed"
        /\ \A v \in Requester \ {w} : task'[v] = task[v]
    BY <1>1, <1>13, Went DEF Steps
  <2>2. task[w].tunnel \in Tunnel
    BY <1>1, <1>2 DEF Placed, Filled, Provisions
  <2>3. AccessTypeOK' /\ Spares(w) /\ Provisioned(w)'
    BY <1>1, <1>2, <2>1, <2>2 DEF AccessTypeOK, Spares, Provisioned
  <2> QED BY <1>2, <1>13, <2>3, GoesOn DEF Works, Provisions
<1>14. SUFFICES ASSUME task' = [task EXCEPT ![w].at = "guard", ![w].app = task[w].tunnel]
                PROVE  Moves(w)
  BY <1>13 DEF CreateApp
<1> DEFINE r == [task[w] EXCEPT !.at = "guard", !.app = task[w].tunnel]
<1>3. /\ r \in Task /\ r.at = "guard" /\ r.dev = task[w].dev /\ r.old = task[w].old
      /\ r.tunnel = task[w].tunnel /\ r.app = task[w].tunnel /\ r.seen = task[w].seen
  BY <1>1, TaskFields DEF Task
<1>4. task' = [task EXCEPT ![w] = r]
  BY <1>1, <1>14, TaskFields
<1> HIDE DEF r
<1>5. /\ task' \in [Requester -> Task] /\ task'[w] = r
      /\ \A v \in Requester \ {w} : task'[v] = task[v]
  BY <1>1, <1>3, <1>4, TaskFields
<1>12. task[w].tunnel \in Tunnel
  BY <1>1, <1>2 DEF Placed, Filled, Provisions
<1>6. AccessTypeOK'
  BY <1>1, <1>2, <1>5, <1>12 DEF AccessTypeOK
<1>7. Spares(w)
  BY <1>2, <1>5 DEF Spares
<1>8. task[w].seen = {} /\ task[w].dev \in Device
  BY <1>1, <1>2 DEF OrphansKnown, Placed, Filled, Works, Provisions
<1>9. Numbered(w)
  BY <1>1, <1>2, <1>3, <1>5 DEF Numbered, SameNumber
<1>10. task'[w].dev \in Device \ disturbed' => Provisioned(w)'
  BY <1>1, <1>2, <1>3, <1>5 DEF SoleProvisions, Provisioned
<1>11. Achieves(w)
  BY <1>2, <1>3, <1>5, <1>8, <1>10, <1>12 DEF Achieves, Filled, Works, Provisions
<1> QED BY <1>6, <1>7, <1>9, <1>11 DEF Moves

LEMMA MovesRecord ==
  ASSUME AccessInv, NEW w \in Requester, RecordReady(w) \/ RecordError(w)
  PROVE  Moves(w)
<1> DEFINE d == task[w].dev
           t == task[w].tunnel
<1>1. AccessTypeOK /\ Placed /\ SameNumber /\ SoleProvisions
  BY DEF AccessInv
<1>2. /\ task[w].at \in {"row", "failed"}
      /\ UNCHANGED <<fleet, tunnels, dns, apps, guarded, cloud, disturbed>>
  BY DEF RecordReady, RecordError
<1>3. /\ d \in Device /\ t \in Tunnel /\ t \in 0 .. MaxTunnels
      /\ task[w].app \in 0 .. MaxTunnels /\ task[w].app \in {0, t}
      /\ access \in [Device -> AccessRow]
  BY <1>1, <1>2, TaskFields DEF Placed, Filled, Works, Provisions, SameNumber, AccessTypeOK
<1>4. ASSUME NEW row \in AccessRow, access' = [access EXCEPT ![d] = row], End(w),
             row.tunnel \in {t, access[d].tunnel}, row.app \in {0, row.tunnel},
             d \notin disturbed /\ row.status = "ready" =>
               row.app \in guarded /\ dns[d] = row.tunnel /\ row.tunnel \in tunnels
      PROVE  Moves(w)
  <2>1. /\ access' \in [Device -> AccessRow] /\ access'[d] = row
        /\ \A e \in Device \ {d} : access'[e] = access[e]
    BY <1>3, <1>4
  <2>2. /\ task' \in [Requester -> Task] /\ \A v \in Requester \ {w} : task'[v] = task[v]
    BY <1>1, <1>4, Ended
  <2>3. AccessTypeOK'
    BY <1>1, <1>2, <2>1, <2>2 DEF AccessTypeOK
  <2>4. Spares(w)
    BY <1>2, <2>1, <2>2 DEF Spares
  <2>5. ASSUME NEW e \in Device
        PROVE  /\ \/ access'[e].tunnel \in {0, access[e].tunnel}
                  \/ e = task[w].dev /\ access'[e].tunnel = task[w].tunnel
               /\ access'[e].app \in {0, access'[e].tunnel}
    BY <1>1, <1>4, <2>1 DEF SameNumber
  <2>6. d \in fleet' \ disturbed =>
          \/ access'[d].status # "ready"
          \/ access'[d].app = 0
          \/ /\ access'[d].app \in guarded'
             /\ dns'[d] = access'[d].tunnel
             /\ access'[d].tunnel \in tunnels'
    BY <1>2, <1>4, <2>1
  <2> QED BY <1>2, <1>4, <2>3, <2>4, <2>5, <2>6, Stops
<1>5. CASE RecordReady(w)
  <2>1. CASE d \in fleet /\ access[d] = NoAccess
    <3> DEFINE row == [tunnel |-> t, app |-> task[w].app, status |-> "ready"]
    <3>1. row \in AccessRow /\ row.tunnel = t /\ row.app = task[w].app
      BY <1>3 DEF AccessRow
    <3>2. access' = [access EXCEPT ![d] = row] /\ End(w)
      BY <1>5, <2>1 DEF RecordReady
    <3>3. d \notin disturbed => task[w].app \in guarded /\ dns[d] = t /\ t \in tunnels
      BY <1>1, <1>3, <1>5 DEF SoleProvisions, Provisioned, RecordReady
    <3> HIDE DEF row
    <3> QED BY <1>3, <1>4, <3>1, <3>2, <3>3
  <2>2. CASE ~ (d \in fleet /\ access[d] = NoAccess)
    <3>1. access' = access /\ Goto(w, "failed") /\ task[w].at = "row"
      BY <1>5, <2>2 DEF RecordReady
    <3>2. task' \in [Requester -> Task] /\ task'[w].at = "failed"
          /\ \A v \in Requester \ {w} : task'[v] = task[v]
      BY <1>1, <3>1, Went DEF Steps
    <3>3. AccessTypeOK'
      BY <1>1, <1>2, <3>1, <3>2 DEF AccessTypeOK
    <3>4. Spares(w)
      BY <1>2, <3>1, <3>2 DEF Spares
    <3>5. Provisioned(w)'
      BY <3>2 DEF Provisioned
    <3> QED BY <1>2, <3>1, <3>3, <3>4, <3>5, GoesOn DEF Works, Provisions
  <2> QED BY <2>1, <2>2
<1>6. CASE RecordError(w)
  <2>0. End(w)
    BY <1>6 DEF RecordError
  <2>1. CASE d \notin fleet
    <3>1. access' = access
      BY <1>6, <2>1 DEF RecordError
    <3>2. /\ task' \in [Requester -> Task] /\ \A v \in Requester \ {w} : task'[v] = task[v]
      BY <1>1, <2>0, Ended
    <3>3. AccessTypeOK'
      BY <1>1, <1>2, <3>1, <3>2 DEF AccessTypeOK
    <3>4. Spares(w)
      BY <1>2, <3>1, <3>2 DEF Spares
    <3> QED BY <1>1, <1>2, <2>0, <2>1, <3>1, <3>3, <3>4, Stops DEF SameNumber
  <2>2. CASE d \in fleet /\ access[d] = NoAccess
    <3> DEFINE row == [tunnel |-> t, app |-> task[w].app, status |-> "error"]
    <3>1. row \in AccessRow /\ row.tunnel = t /\ row.app = task[w].app /\ row.status = "error"
      BY <1>3 DEF AccessRow
    <3>2. access' = [access EXCEPT ![d] = row]
      BY <1>6, <2>2 DEF RecordError
    <3> HIDE DEF row
    <3> QED BY <1>3, <1>4, <2>0, <3>1, <3>2
  <2>3. CASE d \in fleet /\ access[d] # NoAccess
    <3> DEFINE row == [access[d] EXCEPT !.status = "error"]
    <3>1. /\ row \in AccessRow /\ row.tunnel = access[d].tunnel /\ row.app = access[d].app
          /\ row.status = "error"
      BY <1>3 DEF AccessRow
    <3>2. access' = [access EXCEPT ![d] = row]
      BY <1>3, <1>6, <2>3 DEF RecordError
    <3>3. access[d].app \in {0, access[d].tunnel}
      BY <1>1, <1>3 DEF SameNumber
    <3> HIDE DEF row
    <3> QED BY <1>3, <1>4, <2>0, <3>1, <3>2, <3>3
  <2> QED BY <2>1, <2>2, <2>3
<1> QED BY <1>5, <1>6

LEMMA MovesRemove ==
  ASSUME AccessInv, NEW w \in Requester, DeleteApp(w) \/ DeleteName(w) \/ DeleteTunnel(w)
  PROVE  Moves(w)
<1> DEFINE d == task[w].dev
<1>1. AccessTypeOK /\ Placed /\ SameNumber
  BY DEF AccessInv
<1>2. /\ task[w].at \in {"delapp", "deldns", "deltunnel"}
      /\ UNCHANGED <<fleet, access, cloud, disturbed>>
      /\ \E l \in {"deldns", "deltunnel", "delrow"} : Goto(w, l)
  BY DEF DeleteApp, DeleteName, DeleteTunnel, Replied
<1>3. PICK l \in {"deldns", "deltunnel", "delrow"} : Goto(w, l)
  BY <1>2
<1>4. task' \in [Requester -> Task] /\ task'[w].at = l
      /\ \A v \in Requester \ {w} : task'[v] = task[v]
  BY <1>1, <1>3, Went DEF Steps
<1>5. d \in Device
  BY <1>1, <1>2 DEF Placed, Filled, Works
<1>6. /\ dns' \in [Device -> 0 .. MaxTunnels]
      /\ \A e \in Device \ {d} : dns'[e] = dns[e]
  BY <1>1, <1>5, AccessAssumption DEF DeleteApp, DeleteName, DeleteTunnel, AccessTypeOK
<1>7. tunnels' \subseteq tunnels /\ apps' \subseteq apps /\ guarded' \subseteq apps'
  BY <1>1 DEF DeleteApp, DeleteName, DeleteTunnel, AccessTypeOK
<1>8. AccessTypeOK'
  BY <1>1, <1>2, <1>4, <1>6, <1>7 DEF AccessTypeOK
<1>9. ASSUME NEW t \in tunnels \ tunnels' PROVE Owns(d, t)
  BY <1>9 DEF DeleteApp, DeleteName, DeleteTunnel, Owns
<1>10. ASSUME NEW a \in guarded \ guarded' PROVE Owns(d, a)
  <2>1. a = task[w].old.app
    BY <1>10 DEF DeleteApp, DeleteName, DeleteTunnel
  <2>2. a # 0
    <3>1. a \in Tunnel
      BY <1>1 DEF AccessTypeOK
    <3> QED BY <3>1 DEF Tunnel
  <2> QED BY <1>1, <2>1, <2>2 DEF SameNumber, Owns
<1>11. Spares(w)
  BY <1>2, <1>4, <1>5, <1>6, <1>9, <1>10 DEF Spares
<1>12. Provisioned(w)'
  BY <1>4 DEF Provisioned
<1> QED BY <1>2, <1>3, <1>8, <1>11, <1>12, GoesOn DEF Works, Provisions

LEMMA MovesDeleteAccess ==
  ASSUME AccessInv, NEW w \in Requester, DeleteAccess(w)
  PROVE  Moves(w)
<1> DEFINE d == task[w].dev
<1>1. AccessTypeOK /\ Placed /\ SameNumber /\ NoTask \in Task /\ NoTaskFields
      /\ NoAccess \in AccessRow
  BY NoTaskType DEF AccessInv
<1>2. /\ task[w].at = "delrow" /\ access' = [access EXCEPT ![d] = NoAccess]
      /\ UNCHANGED <<tunnels, dns, apps, guarded, cloud, disturbed>>
  BY DEF DeleteAccess
<1>3. d \in Device
  BY <1>1, <1>2 DEF Placed, Filled, Works
<1>4. /\ access' \in [Device -> AccessRow] /\ access'[d] = NoAccess
      /\ \A e \in Device \ {d} : access'[e] = access[e]
      /\ NoAccess.tunnel = 0 /\ NoAccess.app = 0
  BY <1>1, <1>2, <1>3 DEF AccessTypeOK, NoAccess
<1>5. \A e \in Device : /\ access'[e].tunnel \in {0, access[e].tunnel}
                        /\ access'[e].app \in {0, access'[e].tunnel}
  BY <1>1, <1>4 DEF SameNumber
<1>6. CASE task[w].after = "delete"
  <2>1. fleet' = fleet \ {d} /\ End(w)
    BY <1>6 DEF DeleteAccess
  <2>2. /\ task' \in [Requester -> Task] /\ \A v \in Requester \ {w} : task'[v] = task[v]
    BY <1>1, <2>1, Ended
  <2>3. AccessTypeOK'
    BY <1>1, <1>2, <1>4, <2>1, <2>2 DEF AccessTypeOK
  <2>4. Spares(w)
    BY <1>2, <1>4, <2>1, <2>2 DEF Spares
  <2> QED BY <1>4, <1>5, <2>1, <2>3, <2>4, Stops
<1>7. CASE task[w].after # "delete"
  <2> DEFINE r == [NoTask EXCEPT !.at = "tunnel", !.dev = d]
  <2>1. /\ r \in Task /\ r.at = "tunnel" /\ r.dev = d /\ r.old = NoAccess /\ r.tunnel = 0
        /\ r.app = 0 /\ r.seen = {}
    BY <1>1, <1>3 DEF Task, NoTaskFields
  <2>2. task' = [task EXCEPT ![w] = r] /\ fleet' = fleet
    BY <1>7 DEF DeleteAccess
  <2> HIDE DEF r
  <2>3. /\ task' \in [Requester -> Task] /\ task'[w] = r
        /\ \A v \in Requester \ {w} : task'[v] = task[v]
    BY <1>1, <2>1, <2>2, TaskFields
  <2>4. AccessTypeOK'
    BY <1>1, <1>2, <1>4, <2>2, <2>3 DEF AccessTypeOK
  <2>5. Spares(w)
    BY <1>2, <1>4, <2>2, <2>3 DEF Spares
  <2>6. Numbered(w)
    BY <1>5, <2>1, <2>3 DEF Numbered
  <2>7. Provisioned(w)'
    BY <1>4, <2>1, <2>3 DEF Provisioned
  <2>8. Achieves(w)
    BY <1>3, <1>4, <2>1, <2>3, <2>7 DEF Achieves, Filled, Works, Provisions
  <2> QED BY <2>4, <2>5, <2>6, <2>8 DEF Moves
<1> QED BY <1>6, <1>7

LEMMA MovesCallFails ==
  ASSUME AccessInv, NEW w \in Requester, CallFails(w)
  PROVE  Moves(w)
<1>1. AccessTypeOK /\ Placed /\ SameNumber /\ SoleProvisions
  BY DEF AccessInv
<1>2. UNCHANGED <<fleet, access, tunnels, dns, apps, guarded, cloud, disturbed>>
  BY DEF CallFails
<1>3. CASE /\ task[w].at \in {"delapp", "deldns", "deltunnel", "dns", "app", "guard", "row"}
           /\ \E l \in {"delrow", "failed"} :
                Goto(w, l) /\ (l \in Provisions <=> task[w].at \in Provisions)
  <2>1. PICK l \in {"delrow", "failed"} :
          Goto(w, l) /\ (l \in Provisions <=> task[w].at \in Provisions)
    BY <1>3
  <2>2. task' \in [Requester -> Task] /\ task'[w].at = l
        /\ \A v \in Requester \ {w} : task'[v] = task[v]
    BY <1>1, <2>1, Went DEF Steps
  <2>3. AccessTypeOK' /\ Spares(w) /\ Provisioned(w)'
    BY <1>1, <1>2, <2>2 DEF AccessTypeOK, Spares, Provisioned
  <2> QED BY <1>2, <1>3, <2>1, <2>3, GoesOn DEF Works
<1>4. CASE task[w].at \in {"tunnel", "orphans", "orphan"} /\ End(w)
  <2>1. /\ task' \in [Requester -> Task] /\ \A v \in Requester \ {w} : task'[v] = task[v]
    BY <1>1, <1>4, Ended
  <2>2. AccessTypeOK' /\ Spares(w)
    BY <1>1, <1>2, <2>1 DEF AccessTypeOK, Spares
  <2>3. ASSUME task[w].dev \in fleet' \ disturbed
        PROVE  access'[task[w].dev].status # "ready"
    <3>1. task[w].dev \in Device \ disturbed /\ "none" \notin Device
      BY <1>1, <1>2, <2>3, AccessAssumption DEF AccessTypeOK
    <3>2. task[w].at = "tunnel"
      BY <1>1, <1>4, <3>1 DEF Placed, Filled, Works
    <3> QED BY <1>1, <1>2, <3>1, <3>2 DEF SoleProvisions, Provisioned, NoAccess
  <2> QED BY <1>1, <1>2, <1>4, <2>2, <2>3, Stops DEF SameNumber
<1> QED BY <1>3, <1>4 DEF CallFails, Provisions

\* A request that is cut off leaves its device as it is; if that has a row, this is
\* recorded.
LEMMA MovesCutOff ==
  ASSUME AccessInv, NEW w \in Requester, CutOff(w)
  PROVE  Moves(w)
<1> DEFINE d == task[w].dev
<1>1. AccessTypeOK /\ SameNumber
  BY DEF AccessInv
<1>2. /\ End(w) /\ UNCHANGED <<fleet, access, tunnels, dns, apps, guarded, cloud>>
      /\ disturbed' = IF d \in Device /\ access[d] # NoAccess
                        THEN disturbed \cup {d} ELSE disturbed
  BY DEF CutOff
<1>3. task' \in [Requester -> Task] /\ \A v \in Requester \ {w} : task'[v] = task[v]
  BY <1>1, <1>2, Ended
<1>4. disturbed \subseteq disturbed' /\ disturbed' \subseteq Device
  BY <1>1, <1>2 DEF AccessTypeOK
<1>5. AccessTypeOK' /\ Spares(w)
  BY <1>1, <1>2, <1>3, <1>4 DEF AccessTypeOK, Spares
<1>6. ASSUME d \in fleet' \ disturbed' PROVE access'[d].status # "ready"
  <2>1. d \in Device
    BY <1>1, <1>2, <1>6 DEF AccessTypeOK
  <2>2. access[d] = NoAccess
    BY <1>2, <1>6, <2>1
  <2> QED BY <1>2, <2>2 DEF NoAccess
<1> QED BY <1>1, <1>2, <1>5, <1>6, Stops DEF SameNumber

\* A clean-up of orphans touches no request and no row; what it deletes was on its way
\* if a request or a row names it.
LEMMA MovesOrphans ==
  ASSUME AccessInv, NEW w \in Requester, ListTunnels(w) \/ ConfirmOrphans(w) \/ DeleteOrphan(w)
  PROVE  Moves(w)
<1>1. /\ AccessTypeOK /\ Placed /\ SameNumber /\ OrphansKnown
      /\ NoTaskFields /\ "none" \notin Device
  BY NoTaskType, AccessAssumption DEF AccessInv
<1>2. UNCHANGED <<fleet, access, dns, apps, guarded, cloud>>
  BY DEF ListTunnels, ConfirmOrphans, DeleteOrphan
<1>3. /\ task[w].dev = "none" /\ task[w].tunnel = 0 /\ task[w].app = 0 /\ task[w].old = NoAccess
      /\ task[w].at \in {"none", "orphans", "orphan"}
  <2>1. task[w].at \in {"none", "orphans", "orphan"}
    BY <1>1 DEF ListTunnels, ConfirmOrphans, DeleteOrphan, NoTaskFields
  <2> QED BY <1>1, <2>1 DEF Placed, Filled, Works, Provisions
<1>4. ASSUME NEW r \in Task, task' = [task EXCEPT ![w] = r],
             r.at \in {"orphans", "orphan"}, r.dev = task[w].dev, r.old = task[w].old,
             r.tunnel = task[w].tunnel, r.app = task[w].app,
             \A v \in Requester : task[v].tunnel \in r.seen => task[v].tunnel \in r.flying,
             r.at = "orphan" =>
               \A d \in Device : access[d].tunnel \in r.seen => access[d].tunnel \in r.flying,
             tunnels' \subseteq tunnels, disturbed \subseteq disturbed', disturbed' \subseteq Device,
             \A t \in tunnels \ tunnels' : \A d \in Device :
               \/ access[d].tunnel = t
               \/ \E v \in Requester : task[v].dev = d /\ task[v].tunnel = t
               => d \in disturbed'
      PROVE  Moves(w)
  <2>1. /\ task' \in [Requester -> Task] /\ task'[w] = r
        /\ \A v \in Requester \ {w} : task'[v] = task[v]
    BY <1>1, <1>4, TaskFields
  <2>2. AccessTypeOK'
    BY <1>1, <1>2, <1>4, <2>1 DEF AccessTypeOK
  <2>3. Spares(w)
    BY <1>2, <1>4, <2>1 DEF Spares
  <2>4. Numbered(w)
    BY <1>1, <1>2, <1>3, <1>4, <2>1 DEF Numbered, SameNumber
  <2>5. Filled(r)
    BY <1>3, <1>4 DEF Filled, Works, Provisions
  <2>6. Achieves(w)
    BY <1>1, <1>2, <1>3, <1>4, <2>1, <2>5 DEF Achieves
  <2> QED BY <2>2, <2>3, <2>4, <2>6 DEF Moves
<1>5. CASE ListTunnels(w)
  <2> DEFINE r == [task[w] EXCEPT !.at = "orphans", !.seen = tunnels, !.flying = Unrecorded]
  <2>1. tunnels \subseteq Tunnel /\ Unrecorded \subseteq Tunnel
    BY <1>1 DEF AccessTypeOK, Unrecorded
  <2>2. /\ r \in Task /\ r.at = "orphans" /\ r.dev = task[w].dev /\ r.old = task[w].old
        /\ r.tunnel = task[w].tunnel /\ r.app = task[w].app
        /\ r.seen = tunnels /\ r.flying = Unrecorded
    BY <1>1, <2>1, TaskFields DEF Task
  <2>3. task' = [task EXCEPT ![w] = r] /\ UNCHANGED <<tunnels, disturbed>>
    BY <1>1, <1>5, TaskFields DEF ListTunnels
  <2> HIDE DEF r
  <2>4. \A v \in Requester : task[v].tunnel \in tunnels => task[v].tunnel \in Unrecorded
    BY DEF Unrecorded
  <2>5. disturbed' \subseteq Device
    BY <1>1, <2>3 DEF AccessTypeOK
  <2> QED BY <1>4, <2>2, <2>3, <2>4, <2>5
<1>6. CASE ConfirmOrphans(w)
  <2> DEFINE r == [task[w] EXCEPT !.at = "orphan", !.seen = @ \ InUse]
  <2>1. /\ r \in Task /\ r.at = "orphan" /\ r.dev = task[w].dev /\ r.old = task[w].old
        /\ r.tunnel = task[w].tunnel /\ r.app = task[w].app
        /\ r.seen = task[w].seen \ InUse /\ r.flying = task[w].flying
    BY <1>1, TaskFields DEF Task
  <2>2. task' = [task EXCEPT ![w] = r] /\ UNCHANGED <<tunnels, disturbed>>
    BY <1>1, <1>6, TaskFields DEF ConfirmOrphans
  <2> HIDE DEF r
  <2>3. \A d \in Device : access[d].tunnel \in InUse
    BY DEF InUse
  <2>4. \A v \in Requester : task[v].tunnel \in r.seen => task[v].tunnel \in r.flying
    BY <1>1, <2>1 DEF OrphansKnown
  <2>5. disturbed' \subseteq Device
    BY <1>1, <2>2 DEF AccessTypeOK
  <2> QED BY <1>4, <2>1, <2>2, <2>3, <2>4, <2>5
<1>7. CASE DeleteOrphan(w) /\ ~ End(w)
  <2>1. PICK t \in task[w].seen :
          /\ tunnels' = tunnels \ {t}
          /\ task' = [task EXCEPT ![w].seen = @ \ {t}]
          /\ disturbed' = disturbed \cup
               {d \in Device : /\ t \in task[w].flying
                               /\ \/ access[d].tunnel = t
                                  \/ \E v \in Requester : /\ task[v].dev = d
                                                           /\ task[v].tunnel = t}
    BY <1>7 DEF DeleteOrphan
  <2>2. task[w].at = "orphan"
    BY <1>7 DEF DeleteOrphan
  <2> DEFINE r == [task[w] EXCEPT !.seen = @ \ {t}]
  <2>3. /\ r \in Task /\ r.at = "orphan" /\ r.dev = task[w].dev /\ r.old = task[w].old
        /\ r.tunnel = task[w].tunnel /\ r.app = task[w].app
        /\ r.seen = task[w].seen \ {t} /\ r.flying = task[w].flying
    BY <1>1, <2>2, TaskFields DEF Task
  <2>4. task' = [task EXCEPT ![w] = r]
    BY <1>1, <2>1, TaskFields
  <2> HIDE DEF r
  <2>5. /\ \A v \in Requester : task[v].tunnel \in task[w].seen => task[v].tunnel \in task[w].flying
        /\ \A d \in Device : access[d].tunnel \in task[w].seen => access[d].tunnel \in task[w].flying
    BY <1>1, <2>2 DEF OrphansKnown
  <2>6. ASSUME NEW d \in Device,
               \/ access[d].tunnel = t
               \/ \E v \in Requester : task[v].dev = d /\ task[v].tunnel = t
        PROVE  d \in disturbed'
    BY <2>1, <2>5, <2>6
  <2>7. disturbed' \subseteq Device /\ disturbed \subseteq disturbed'
    BY <1>1, <2>1 DEF AccessTypeOK
  <2> QED BY <1>4, <2>1, <2>3, <2>4, <2>5, <2>6, <2>7
<1>8. CASE DeleteOrphan(w) /\ End(w)
  <2>1. /\ task' \in [Requester -> Task] /\ \A v \in Requester \ {w} : task'[v] = task[v]
        /\ task'[w] = NoTask
    BY <1>1, <1>8, Ended
  <2>2. UNCHANGED <<tunnels, disturbed>>
    <3>1. task[w].at = "orphan"
      BY <1>8 DEF DeleteOrphan
    <3>2. \A t : task' # [task EXCEPT ![w].seen = @ \ {t}]
      BY <1>1, <2>1, <3>1, TaskFields DEF NoTaskFields, Task
    <3> QED BY <1>8, <3>2 DEF DeleteOrphan
  <2>3. AccessTypeOK' /\ Spares(w)
    BY <1>1, <1>2, <2>1, <2>2 DEF AccessTypeOK, Spares
  <2> QED BY <1>1, <1>2, <1>3, <1>8, <2>3, Stops DEF SameNumber, AccessTypeOK
<1> QED BY <1>5, <1>6, <1>7, <1>8

LEMMA ShowAccessKeeps ==
  ASSUME AccessInv, NEW d \in Device, ShowAccess(d)
  PROVE  AccessInv'
<1>1. /\ AccessTypeOK /\ Placed /\ SameNumber /\ Apart /\ SoleRequest
      /\ SoleProvisions /\ OrphansKnown /\ ReadyServes
  BY DEF AccessInv
<1>2. /\ access[d].status = "error"
      /\ disturbed' = IF access[d].app = 0 THEN disturbed ELSE disturbed \cup {d}
      /\ UNCHANGED <<fleet, tunnels, dns, apps, guarded, cloud, task>>
  BY DEF ShowAccess
<1> DEFINE row == [access[d] EXCEPT !.status = "ready"]
<1>3. /\ row \in AccessRow /\ row.tunnel = access[d].tunnel /\ row.app = access[d].app
  BY <1>1, TaskFields DEF AccessRow
<1>4. access' = [access EXCEPT ![d] = row]
  BY <1>1, TaskFields DEF ShowAccess, AccessTypeOK
<1> HIDE DEF row
<1>5. /\ access' \in [Device -> AccessRow]
      /\ \A e \in Device : access'[e].tunnel = access[e].tunnel /\ access'[e].app = access[e].app
      /\ \A e \in Device \ {d} : access'[e] = access[e]
  BY <1>1, <1>3, <1>4 DEF AccessTypeOK
<1>6. disturbed \subseteq disturbed' /\ disturbed' \subseteq Device
      /\ (access[d].app # 0 => d \in disturbed')
  BY <1>1, <1>2 DEF AccessTypeOK
<1>7. AccessTypeOK' /\ Placed' /\ SoleRequest'
  BY <1>1, <1>2, <1>5, <1>6 DEF AccessTypeOK, Placed, SoleRequest
<1>8. SameNumber' /\ OrphansKnown'
  BY <1>1, <1>2, <1>5 DEF SameNumber, OrphansKnown
<1>9. Apart'
  <2>1. \A e \in Device, t \in Tunnel : Owns(e, t)' => Owns(e, t)
    BY <1>2, <1>5 DEF Owns
  <2> SUFFICES ASSUME NEW e \in Device, NEW f \in Device, NEW t \in Tunnel, Owns(e, t)', Owns(f, t)'
               PROVE  e = f
    BY DEF Apart, Tunnel
  <2> QED BY <1>1, <2>1 DEF Apart
<1>10. SoleProvisions'
  <2> SUFFICES ASSUME NEW v \in Requester, task'[v].dev \in Device \ disturbed'
               PROVE  Provisioned(v)'
    BY DEF SoleProvisions
  <2>1. Provisioned(v)
    BY <1>1, <1>2, <1>6 DEF SoleProvisions
  <2>2. access[task[v].dev] = NoAccess => access'[task[v].dev] = NoAccess
    BY <1>2, <1>5 DEF NoAccess
  <2> QED BY <1>2, <2>1, <2>2 DEF Provisioned
<1>11. ReadyServes'
  BY <1>1, <1>2, <1>5, <1>6 DEF ReadyServes, Serves, LooksReady, AccessTypeOK
<1> QED BY <1>7, <1>8, <1>9, <1>10, <1>11 DEF AccessInv

LEMMA AccessInitially == AccessInit => AccessInv
<1> SUFFICES ASSUME AccessInit PROVE AccessInv
  OBVIOUS
<1>1. /\ \A w \in Requester : task[w] = NoTask
      /\ \A d \in Device : access[d] = NoAccess
      /\ NoTask \in Task /\ NoTaskFields /\ NoAccess \in AccessRow
      /\ NoAccess.tunnel = 0 /\ NoAccess.app = 0 /\ NoAccess.status = "none"
      /\ "none" \notin Device
  BY NoTaskType, AccessAssumption DEF AccessInit, NoAccess
<1>2. AccessTypeOK
  BY <1>1, AccessAssumption DEF AccessInit, AccessTypeOK
<1>3. Placed /\ SameNumber /\ SoleRequest /\ SoleProvisions /\ OrphansKnown
  BY <1>1 DEF Placed, Filled, Works, Provisions, SameNumber, SoleRequest, SoleProvisions,
              OrphansKnown, NoTaskFields
<1>4. Apart
  <2>1. \A t \in Tunnel : t # 0
    BY DEF Tunnel
  <2> QED BY <1>1, <2>1 DEF Apart, Owns, NoTaskFields
<1>5. ReadyServes
  BY <1>1 DEF ReadyServes, Serves, LooksReady, AccessInit
<1> QED BY <1>2, <1>3, <1>4, <1>5 DEF AccessInv

LEMMA AccessInductive == AccessInv /\ [AccessNext]_accessVars => AccessInv'
<1> SUFFICES ASSUME AccessInv, [AccessNext]_accessVars PROVE AccessInv'
  OBVIOUS
<1>1. ASSUME NEW w \in Requester, Continue(w) \/ CallFails(w) \/ CutOff(w) PROVE Moves(w)
  BY <1>1, MovesProvision, MovesCreateTunnel, MovesCreateApp, MovesRecord, MovesRemove,
     MovesDeleteAccess, MovesCallFails, MovesCutOff, MovesOrphans DEF Continue
<1>2. CASE UNCHANGED accessVars \/ CloudSettles
  <2>1. /\ UNCHANGED <<fleet, access, tunnels, dns, apps, guarded, task, disturbed>>
        /\ cloud' \in {"flaky", "steady"}
    BY <1>2 DEF accessVars, CloudSettles, AccessInv, AccessTypeOK
  <2>2. AccessTypeOK' /\ Placed' /\ SameNumber' /\ SoleRequest' /\ OrphansKnown' /\ ReadyServes'
    BY <2>1 DEF AccessInv, AccessTypeOK, Placed, SameNumber, SoleRequest, OrphansKnown,
                   ReadyServes, Serves, LooksReady
  <2>3. Apart' /\ SoleProvisions'
    BY <2>1 DEF AccessInv, Apart, Owns, SoleProvisions, Provisioned
  <2> QED BY <2>2, <2>3 DEF AccessInv
<1>3. Operator \in Requester /\ Worker \subseteq Requester
  BY DEF Requester
<1> QED BY <1>1, <1>2, <1>3, MovesKeep, MovesStart, MovesOrphans, ShowAccessKeeps
    DEF AccessNext, Replace

LEMMA AccessInvariant == AccessSpec => []AccessInv
  BY AccessInitially, AccessInductive, PTL DEF AccessSpec

\* Remote access keeps its types.
THEOREM AccessTypeCorrect == AccessSpec => []AccessTypeOK
<1>1. AccessInv => AccessTypeOK
  BY DEF AccessInv
<1> QED BY <1>1, AccessInvariant, PTL

\* A row that promises remote access names a tunnel that is alive, that its hostname
\* leads to and that its application protects, however requests, failures and
\* clean-ups interleave over any fleet.
THEOREM ReadyServesHolds == AccessSpec => []ReadyServes
<1>1. AccessInv => ReadyServes
  BY DEF AccessInv
<1> QED BY <1>1, AccessInvariant, PTL

\* A clean-up deletes a tunnel that a row names only if it was still being
\* provisioned when the tunnels were listed.
THEOREM OrphansOnlyHolds == AccessSpec => OrphansOnly
<1> DEFINE Only == \A w \in Requester : \A t \in tunnels \ tunnels' :
                     DeleteOrphan(w) /\ t \in InUse => t \in task[w].flying
<1>1. AccessInv /\ [AccessNext]_accessVars => [Only]_accessVars
  <2> SUFFICES ASSUME AccessInv, NEW w \in Requester, NEW t \in tunnels \ tunnels',
                      DeleteOrphan(w), t \in InUse
               PROVE  t \in task[w].flying
    OBVIOUS
  <2>1. task[w].at = "orphan" /\ t \in task[w].seen
    BY DEF DeleteOrphan
  <2>2. PICK d \in Device : access[d].tunnel = t
    BY DEF InUse
  <2> QED BY <2>1, <2>2 DEF AccessInv, OrphansKnown
<1> QED BY <1>1, AccessInvariant, PTL DEF AccessSpec, OrphansOnly
=============================================================================
