------------------------------ MODULE AgentProofs ------------------------------
(***************************************************************************)
(* What holds of the agent's supervisor, settings and updater, and of the  *)
(* page it serves, for any value of their constants.                       *)
(***************************************************************************)
EXTENDS AgentSettings, AgentUpdate, BrowserSupervisor, PlayerPage,
        FiniteSetTheorems, WellFoundedInduction, TLAPS

-----------------------------------------------------------------------------
(* The browser supervisor. *)

\* Only the process launched last may run, and none does where the supervisor is
\* about to launch one.
BrowserInv ==
  /\ BrowserTypeOK
  /\ \A g \in Gen : Running(g) => g = gen
  /\ sup \in {"launch", "backoff", "done"} => ~Running(gen)

\* The back-off delay fits its timer.
LEMMA BackoffBounded ==
  ASSUME NEW n \in Nat
  PROVE  BackoffFor(n) \in 0 .. BackoffMax
BY SupervisorAssumption DEF BackoffFor

\* What Show stores is a record of the health report's type.
LEMMA ShownTyped ==
  ASSUME NEW state \in {"starting", "running", "crashed", "stopped"}, Show(state)
  PROVE  shown' \in [state : {"starting", "running", "crashed", "stopped"},
                     healthy : BOOLEAN]
<1> DEFINE h == state = "running"
<1>1. h \in BOOLEAN
  OBVIOUS
<1> HIDE DEF h
<1>2. shown' = [state |-> state, healthy |-> h]
  BY DEF Show, h
<1> QED
  BY <1>1, <1>2

LEMMA BrowserInitially ==
  ASSUME BrowserInit
  PROVE  BrowserInv
<1>1. BrowserTypeOK
  <2>1. shown \in [state : {"starting", "running", "crashed", "stopped"},
                   healthy : BOOLEAN]
    BY DEF BrowserInit
  <2>2. longRun \in BOOLEAN /\ stopAsked \in BOOLEAN
    BY DEF BrowserInit
  <2> QED
    BY <2>1, <2>2, SupervisorAssumption DEF BrowserInit, BrowserTypeOK, Gen
<1>2. \A g \in Gen : ~Running(g)
  BY DEF BrowserInit, Running
<1> QED
  BY <1>1, <1>2 DEF BrowserInv, BrowserTypeOK

\* The supervisor's own steps keep the invariant.
LEMMA SuperviseInductive ==
  ASSUME BrowserInv, Supervise
  PROVE  BrowserInv'
<1> USE SupervisorAssumption DEF BrowserInv, BrowserTypeOK, Gen, Running
<1>1. Counted(failures) \in 0 .. MaxFailures /\ Counted(failures) \in Nat
  BY DEF Counted
<1>2. BackoffFor(Counted(failures)) \in 0 .. BackoffMax
      /\ BackoffFor(1) \in 0 .. BackoffMax
  BY <1>1, BackoffBounded
<1>3. CASE LaunchFails
  BY <1>1, <1>2, <1>3, ShownTyped DEF LaunchFails, Sleep
<1>4. CASE LaunchSucceeds
  <2>1. gen' \in Gen /\ proc' = [proc EXCEPT ![gen'] = "up"]
    BY <1>4 DEF LaunchSucceeds
  <2>2. shown' \in [state : {"starting", "running", "crashed", "stopped"},
                    healthy : BOOLEAN]
    BY <1>4, ShownTyped DEF LaunchSucceeds, ShownAfterLaunch
  <2>3. sup' = "await" /\ longRun' = FALSE
        /\ UNCHANGED <<failures, wait, stopAsked, asking>>
    BY <1>4 DEF LaunchSucceeds
  <2>4. sup = "launch"
    BY <1>4 DEF LaunchSucceeds
  <2> QED
    BY <2>1, <2>2, <2>3, <2>4
<1>5. CASE Reaped
  BY <1>5 DEF Reaped
<1>6. CASE SupervisorDone
  BY <1>6 DEF SupervisorDone
<1>7. ASSUME NEW g \in Gen, ExitEvent(g) PROVE BrowserInv'
  <2> DEFINE n == IF longRun THEN 1 ELSE Counted(failures)
  <2>1. n \in 0 .. MaxFailures /\ BackoffFor(n) \in 0 .. BackoffMax
    BY <1>1, <1>2
  <2>2. CASE g = gen
    <3> HIDE DEF n
    <3>1. /\ proc' = [proc EXCEPT ![g] = "none"] /\ gen' = gen
          /\ sup' = "backoff" /\ failures' = n /\ wait' = BackoffFor(n)
          /\ shown' = [state |-> IF n >= FailCap THEN "crashed" ELSE "starting",
                       healthy |-> FALSE]
          /\ UNCHANGED <<longRun, stopAsked, asking>>
      BY <1>7, <2>2 DEF ExitEvent, Sleep, n
    <3> QED
      BY <2>1, <2>2, <3>1
  <2>3. CASE g # gen
    BY <1>7, <2>3 DEF ExitEvent
  <2> QED
    BY <2>2, <2>3
<1>8. CASE BackoffTimer
  BY <1>8 DEF BackoffTimer
<1>9. CASE SeesStop
  <2>1. shown' \in [state : {"starting", "running", "crashed", "stopped"},
                    healthy : BOOLEAN]
    BY <1>9, ShownTyped DEF SeesStop
  <2>2. /\ sup' = "stopped" /\ proc' \in {proc, [proc EXCEPT ![gen] = "killed"]}
        /\ UNCHANGED <<gen, failures, wait, longRun, stopAsked, asking>>
    BY <1>9 DEF SeesStop, Kill
  <2>3. sup \in {"reaping", "backoff"} => UNCHANGED proc
    BY <1>9 DEF SeesStop
  <2> QED
    BY <2>1, <2>2, <2>3
<1> QED
  BY <1>3, <1>4, <1>5, <1>6, <1>7, <1>8, <1>9 DEF Supervise

\* And so do the callers, the processes and time.
LEMMA BrowserInductive ==
  ASSUME BrowserInv, [BrowserNext]_browserVars
  PROVE  BrowserInv'
<1> USE SupervisorAssumption DEF BrowserInv, BrowserTypeOK, Gen, Running
<1>1. ASSUME NEW c \in Caller, AskRelaunch(c) PROVE BrowserInv'
  BY <1>1 DEF AskRelaunch
<1>2. ASSUME NEW c \in Caller, Answer(c) PROVE BrowserInv'
  BY <1>2 DEF Answer, RelaunchAccepted, Kill, DuplicateRelaunch, BackoffRelaunch,
              RelaunchGivesUp
<1>3. CASE Stop
  BY <1>3 DEF Stop
<1>4. ASSUME NEW g \in Gen, ProcessExits(g) \/ WatcherLeaves(g) PROVE BrowserInv'
  BY <1>4 DEF ProcessExits, WatcherLeaves
<1>5. CASE TimePasses
  <2>1. wait' \in 0 .. BackoffMax
    BY <1>5 DEF TimePasses
  <2>3. longRun' = longRun \/ longRun' = TRUE
    BY <1>5 DEF TimePasses
  <2>4. longRun' \in BOOLEAN
    BY <2>3
  <2>2. UNCHANGED <<sup, gen, proc, failures, shown, stopAsked, asking>>
    BY <1>5 DEF TimePasses
  <2> QED
    BY <2>1, <2>2, <2>4
<1>6. CASE UNCHANGED browserVars
  BY <1>6 DEF browserVars
<1> QED
  BY <1>1, <1>2, <1>3, <1>4, <1>5, <1>6, SuperviseInductive DEF BrowserNext

\* Two Chromium processes never run at once, for any number of callers, any
\* back-off and any failure cap: supervise() launches only what it has reaped.
THEOREM OneBrowserHolds == BrowserSpec => []OneBrowser
<1>2. BrowserInv => OneBrowser
  <2> SUFFICES ASSUME BrowserInv PROVE OneBrowser
    OBVIOUS
  <2>1. {g \in Gen : Running(g)} \subseteq {gen}
    BY DEF BrowserInv
  <2>2. IsFiniteSet({gen}) /\ Cardinality({gen}) = 1
    BY FS_Singleton
  <2>3. Cardinality({g \in Gen : Running(g)}) <= Cardinality({gen})
    BY <2>1, <2>2, FS_Subset
  <2> QED
    BY <2>2, <2>3 DEF OneBrowser
<1> QED
  BY <1>2, BrowserInitially, BrowserInductive, PTL DEF BrowserSpec

\* The supervisor's variables keep their types, the back-off timer its cap.
THEOREM BrowserTypeCorrect == BrowserSpec => []BrowserTypeOK
<1>1. BrowserInv => BrowserTypeOK
  BY DEF BrowserInv
<1> QED
  BY <1>1, BrowserInitially, BrowserInductive, PTL DEF BrowserSpec
-----------------------------------------------------------------------------
(* The cadences of the agent. *)

SettingsTyped ==
  LET Some == Setting \cup {NoSetting} IN
  /\ wanted \in Setting /\ memory \in Some /\ disk \in Setting
  /\ loops \in Some /\ beat \in Some /\ update \in Some
  /\ waiting \in Seq(Setting) /\ wire \in Seq(Setting)
  /\ Len(waiting) + Len(wire) <= MaxCommands
  /\ link \in {"down", "dead", "opening", "up"}
  /\ handling \in [at : {"idle", "save", "loops", "beat"}, s : Some]
  /\ alive \in BOOLEAN /\ lingering \in BOOLEAN /\ adrift \in BOOLEAN

\* A process that is not there holds nothing, and one that is holds a setting.
Held ==
  /\ handling.at = "idle" => handling = NotHandling
  /\ ~alive => /\ handling = NotHandling /\ update = NoSetting
               /\ link \in {"down", "dead"}
  /\ alive => memory # NoSetting
  /\ handling # NotHandling => handling.s = memory
  /\ beat # NoSetting <=> link \in {"opening", "up"}

\* The furthest place that a command under way has reached carries what is wanted.
Carried ==
  waiting = << >> /\ ~adrift =>
    IF wire # << >> THEN Last(wire) = wanted
    ELSE IF handling.at = "save" THEN handling.s = wanted ELSE disk = wanted

\* The handler's steps so far have taken effect.
Progressed ==
  /\ handling.at \in {"loops", "beat"} => disk = memory
  /\ handling.at = "beat" => loops = memory
  /\ handling.at = "idle" /\ alive /\ ~adrift =>
       /\ disk = memory /\ loops = memory
       /\ update # NoSetting => update = memory
       /\ link \in {"opening", "up"} /\ update = NoSetting => beat = memory

SettingsInv == SettingsTyped /\ Held /\ Carried /\ Progressed

\* What the commands' queues do at their two ends.
LEMMA AppendLast ==
  ASSUME NEW S, NEW q \in Seq(S), NEW x \in S
  PROVE  /\ Append(q, x) \in Seq(S) /\ Append(q, x) # << >>
         /\ Len(Append(q, x)) = Len(q) + 1 /\ Last(Append(q, x)) = x
BY DEF Last

LEMMA TailLast ==
  ASSUME NEW S, NEW q \in Seq(S), q # << >>
  PROVE  /\ Tail(q) \in Seq(S) /\ Head(q) \in S /\ Last(q) \in S
         /\ Len(Tail(q)) = Len(q) - 1 /\ Len(q) >= 1
         /\ IF Tail(q) = << >> THEN Len(q) = 1 /\ Head(q) = Last(q)
                               ELSE Last(Tail(q)) = Last(q)
<1>1. Len(q) >= 1 /\ Tail(q) \in Seq(S) /\ Len(Tail(q)) = Len(q) - 1
  OBVIOUS
<1>2. ASSUME NEW t \in Seq(S) PROVE t = << >> <=> Len(t) = 0
  OBVIOUS
<1>3. Tail(q) = << >> <=> Len(q) = 1
  <2>1. Tail(q) = << >> <=> Len(Tail(q)) = 0
    BY <1>1, <1>2, Zenon
  <2> QED
    BY <1>1, <2>1
<1> QED
  BY <1>1, <1>3 DEF Last

\* Every step keeps the invariant: the places a command passes through agree on
\* what it carries, and a lost or overtaken one leaves adrift set.
LEMMA SettingsInductive ==
  ASSUME SettingsInv, [SettingsNext]_settingsVars
  PROVE  SettingsInv'
<1> USE SettingsAssumption
    DEF SettingsInv, SettingsTyped, Held, Carried, Progressed, NotHandling
<1>1. ASSUME NEW s \in Setting, PatchSettings(s) PROVE SettingsInv'
  <2>1. CASE link = "down" /\ waiting' = Append(waiting, s)
             /\ UNCHANGED <<wire, adrift>>
    <3>1. waiting' \in Seq(Setting) /\ waiting' # << >>
          /\ Len(waiting') = Len(waiting) + 1
      BY <2>1, AppendLast
    <3> QED
      BY <1>1, <2>1, <3>1 DEF PatchSettings
  <2>2. CASE link = "dead" /\ adrift' = TRUE /\ UNCHANGED <<waiting, wire>>
    BY <1>1, <2>2 DEF PatchSettings
  <2>3. CASE link \in {"opening", "up"} /\ wire' = Append(wire, s)
             /\ UNCHANGED <<waiting, adrift>>
    <3>1. wire' \in Seq(Setting) /\ wire' # << >> /\ Last(wire') = s
          /\ Len(wire') = Len(wire) + 1
      BY <2>3, AppendLast
    <3> QED
      BY <1>1, <2>3, <3>1 DEF PatchSettings
  <2> QED
    BY <1>1, <2>1, <2>2, <2>3 DEF PatchSettings
<1>2. CASE FlushNext
  <2>1. /\ waiting' \in Seq(Setting) /\ Head(waiting) \in Setting
        /\ Len(waiting') = Len(waiting) - 1 /\ Len(waiting) >= 1
    BY <1>2, TailLast DEF FlushNext
  <2>2. /\ wire' \in Seq(Setting) /\ wire' # << >>
        /\ Last(wire') = Head(waiting) /\ Len(wire') = Len(wire) + 1
    BY <1>2, <2>1, AppendLast DEF FlushNext
  <2>3. adrift' \in BOOLEAN
    BY <1>2 DEF FlushNext
  <2>4. waiting' = << >> /\ ~adrift' => Head(waiting) = wanted
    <3>1. waiting' = << >> => Len(waiting) = 1
      BY <2>1
    <3>2. ~adrift' => ~(Len(waiting) = 1 /\ Head(waiting) # wanted)
      BY <1>2 DEF FlushNext
    <3> QED
      BY <3>1, <3>2
  <2>5. ~adrift' => ~adrift
    BY <1>2 DEF FlushNext
  <2>6. UNCHANGED <<wanted, link, alive, handling, memory, disk, loops, beat, update,
                    lingering>>
    BY <1>2 DEF FlushNext
  <2> QED
    BY <2>1, <2>2, <2>3, <2>4, <2>5, <2>6
<1>3. CASE LinkOpens
  BY <1>3 DEF LinkOpens
<1>4. CASE LinkReady
  BY <1>4 DEF LinkReady
<1>5. CASE LinkBreaks
  BY <1>5 DEF LinkBreaks
<1>6. CASE HandleSettings
  <2>1. /\ wire' \in Seq(Setting) /\ Head(wire) \in Setting /\ wire # << >>
        /\ Len(wire') = Len(wire) - 1
        /\ IF wire' = << >> THEN Head(wire) = Last(wire)
                            ELSE Last(wire') = Last(wire)
    BY <1>6, TailLast DEF HandleSettings
  <2>2. /\ alive /\ link \in {"opening", "up"} /\ memory' = Head(wire)
        /\ handling' = [at |-> "save", s |-> Head(wire)]
        /\ UNCHANGED <<wanted, waiting, link, alive, disk, loops, beat, update,
                       lingering, adrift>>
    BY <1>6 DEF HandleSettings
  <2> QED
    BY <2>1, <2>2
<1>7. CASE SaveConfig
  BY <1>7 DEF SaveConfig
<1>8. CASE SaveConfigFails
  BY <1>8 DEF SaveConfigFails
<1>9. CASE ReplaceLoops
  BY <1>9 DEF ReplaceLoops
<1>10. CASE SetHeartbeatInterval
  BY <1>10 DEF SetHeartbeatInterval
<1>11. CASE BeatUpdates
  BY <1>11 DEF BeatUpdates
<1>12. CASE LingererLeaves
  <2>1. lingering' \in BOOLEAN /\ adrift' \in BOOLEAN
    BY <1>12 DEF LingererLeaves
  <2>2. ~adrift' => ~adrift /\ (update' = update \/ beat = NoSetting)
    BY <1>12 DEF LingererLeaves
  <2>3. /\ update' \in {update, NoSetting}
        /\ UNCHANGED <<wanted, waiting, wire, link, alive, handling, memory, disk,
                       loops, beat>>
    BY <1>12 DEF LingererLeaves
  <2> QED
    BY <2>1, <2>2, <2>3
<1>13. CASE AgentExits
  <2>1. adrift' \in BOOLEAN
    BY <1>13 DEF AgentExits
  <2>2. ~adrift' => ~adrift /\ wire = << >> /\ handling.at # "save"
    BY <1>13 DEF AgentExits
  <2>3. /\ alive' = FALSE /\ lingering' = FALSE
    BY <1>13 DEF AgentExits
  <2>4. /\ link' \in {"down", "dead"} /\ wire' = << >> /\ handling' = NotHandling
        /\ memory' = NoSetting /\ loops' = NoSetting /\ beat' = NoSetting
        /\ update' = NoSetting /\ UNCHANGED <<wanted, waiting, disk>>
    BY <1>13 DEF AgentExits
  <2>5. Carried'
    BY <2>2, <2>4
  <2>6. /\ wire' \in Seq(Setting) /\ Len(wire') = 0 /\ UNCHANGED waiting
        /\ Len(waiting) \in Nat /\ Len(wire) \in Nat
    BY <2>4
  <2>7. SettingsTyped'
    <3>1. Len(waiting') + Len(wire') <= MaxCommands
      BY <2>6
    <3> QED
      BY <2>1, <2>3, <2>4, <2>6, <3>1
  <2> QED
    BY <2>3, <2>4, <2>5, <2>7
<1>14. CASE AgentReturns
  BY <1>14 DEF AgentReturns
<1>15. CASE UNCHANGED settingsVars
  BY <1>15 DEF settingsVars
<1> QED
  BY <1>1, <1>2, <1>3, <1>4, <1>5, <1>6, <1>7, <1>8, <1>9, <1>10, <1>11, <1>12, <1>13, <1>14, <1>15 DEF SettingsNext
LEMMA SettingsInitially ==
  ASSUME SettingsInit
  PROVE  SettingsInv
<1>1. waiting \in Seq(Setting) /\ Len(waiting) = 0
      /\ wire \in Seq(Setting) /\ Len(wire) = 0
  BY DEF SettingsInit
<1>2. alive \in BOOLEAN /\ lingering \in BOOLEAN /\ adrift \in BOOLEAN
  BY DEF SettingsInit
<1>3. SettingsTyped
  BY <1>1, <1>2, SettingsAssumption DEF SettingsInit, SettingsTyped, NotHandling
<1>4. Held /\ Carried /\ Progressed
  BY SettingsAssumption DEF SettingsInit, Held, Carried, Progressed, NotHandling
<1> QED
  BY <1>3, <1>4 DEF SettingsInv

\* Sequences of bounded length, as the type invariant has them.
LEMMA BoundedQueue ==
  ASSUME NEW S, NEW n \in Nat, NEW q \in Seq(S), Len(q) <= n
  PROVE  q \in BoundedSeq(S, n)
<1>1. q \in [1 .. Len(q) -> S] /\ Len(q) \in 0 .. n
  OBVIOUS
<1> QED
  BY <1>1 DEF BoundedSeq, SeqOf

\* Once nothing is under way on an open connection, row, file, loops and heartbeat
\* agree, for any settings and any number of commands under way.
THEOREM SettingsAgreeHolds == SettingsSpec => []SettingsAgree
<1>1. SettingsInv => SettingsAgree
  BY DEF SettingsInv, SettingsTyped, Held, Carried, Progressed, SettingsAgree,
         NotHandling
<1> QED
  BY <1>1, SettingsInitially, SettingsInductive, PTL DEF SettingsSpec

\* The variables keep their types, and the queues their bound.
THEOREM SettingsTypeCorrect == SettingsSpec => []SettingsTypeOK
<1>1. SettingsInv => SettingsTypeOK
  BY BoundedQueue, SettingsAssumption DEF SettingsInv, SettingsTyped, SettingsTypeOK
<1> QED
  BY <1>1, SettingsInitially, SettingsInductive, PTL DEF SettingsSpec
-----------------------------------------------------------------------------
(* Over-the-air updates. *)

JobState == [at : {"idle", "fetch", "copy", "verify", "install", "remove",
                   "cleanup", "restart"},
             offer : Package \cup {NoOffer},
             disturbed : BOOLEAN]

\* Every upload under way has its id.
UploadsCounted ==
  /\ IsFiniteSet(uploads)
  /\ nextId + Cardinality(uploads) <= MaxPackages + 1
  /\ \A p \in packages : p.id < nextId

\* An updater that has not been disturbed has the staged file for itself, and
\* once it is verified the file is what was offered.
StagedForOne ==
  \A u \in Busy : ~job[u].disturbed =>
    /\ Busy = {u}
    /\ job[u].at = "install" => staged = job[u].offer.checksum

UpdateInv == UpdateTypeOK /\ UploadsCounted /\ StagedForOne

\* A set of packages has a newest one.
LEMMA NewestExists ==
  ASSUME NEW P, P \subseteq Package, P # {}, UpdateAssumption
  PROVE  Newest(P) \in P /\ \A q \in P : q.id <= Newest(P).id
<1> DEFINE Rest(p) == MaxPackages + 1 - p.id
           T == {Rest(p) : p \in P}
           R == OpToRel(<, Nat)
<1>1. \A p \in P : p.id \in 1 .. MaxPackages + 1
  BY DEF Package
<1>2. T \subseteq Nat /\ T # {}
  BY <1>1 DEF UpdateAssumption
<1>3. PICK x \in T : \A y \in T : ~(<<y, x>> \in R)
  BY <1>2, NatLessThanWellFounded, WFMin
<1>4. ASSUME NEW y \in T PROVE x <= y
  <2>1. y \in Nat /\ x \in Nat
    BY <1>2
  <2>2. y < x => <<y, x>> \in R
    BY <2>1 DEF OpToRel
  <2> HIDE DEF R, T
  <2> QED
    BY <1>3, <2>1, <2>2
<1>5. PICK p \in P : x = Rest(p)
  BY <1>3
<1>6. ASSUME NEW q \in P PROVE q.id <= p.id
  <2>1. Rest(p) <= Rest(q)
    BY <1>4, <1>5
  <2> QED
    BY <1>1, <2>1 DEF UpdateAssumption
<1> QED
  BY <1>6 DEF Newest

\* Become changes one job and keeps its type, its offer and its history.
LEMMA BecomeTyped ==
  ASSUME NEW u \in Updater, job \in [Updater -> JobState],
         NEW s \in {"idle", "fetch", "copy", "verify", "install", "remove",
                    "cleanup", "restart"},
         Become(u, s)
  PROVE  /\ job' \in [Updater -> JobState]
         /\ \A v \in Updater \ {u} : job'[v] = job[v]
         /\ job'[u].at = s
         /\ s # "idle" => /\ job'[u].offer = job[u].offer
                          /\ job'[u].disturbed = job[u].disturbed
<1>1. CASE s = "idle"
  <2>1. job' = [job EXCEPT ![u] = Idle]
    BY <1>1 DEF Become
  <2>2. Idle \in JobState /\ Idle.at = "idle"
    BY DEF Idle, JobState
  <2> QED
    BY <1>1, <2>1, <2>2
<1>2. CASE s # "idle"
  <2>1. job' = [job EXCEPT ![u] = [job[u] EXCEPT !.at = s]]
    BY <1>2 DEF Become
  <2>2. job[u] \in JobState
    OBVIOUS
  <2>3. [job[u] EXCEPT !.at = s] \in JobState
        /\ [job[u] EXCEPT !.at = s].at = s
        /\ [job[u] EXCEPT !.at = s].offer = job[u].offer
        /\ [job[u] EXCEPT !.at = s].disturbed = job[u].disturbed
    BY <2>2 DEF JobState
  <2> QED
    BY <2>1, <2>3
<1> QED
  BY <1>1, <1>2

\* The console's steps: versions, ids and the number of uploads keep their ranges.
LEMMA ConsoleInductive ==
  ASSUME UpdateInv, Console, UpdateAssumption
  PROVE  UpdateInv'
<1>1. StagedForOne'
  BY DEF UpdateInv, StagedForOne, Console, Busy
<1>2. MaxPackages \in Nat /\ nextId \in Nat \ {0} /\ Cardinality(uploads) \in Nat
  BY FS_CardinalityType DEF UpdateAssumption, UpdateInv, UpdateTypeOK, UploadsCounted
<1>3. ASSUME NEW b \in Build, PutObject(b) PROVE UpdateTypeOK' /\ UploadsCounted'
  <2>1. /\ IsFiniteSet(uploads') /\ Cardinality(uploads') = Cardinality(uploads) + 1
        /\ uploads' \subseteq Build
    BY <1>3, FS_AddElement DEF PutObject, UpdateInv, UploadsCounted, UpdateTypeOK
  <2>2. Stamp[b] \in Version
    BY DEF Version
  <2>3. bucket' \in [Version -> Build \cup {Nothing}]
    BY <1>3, <2>2 DEF PutObject, UpdateInv, UpdateTypeOK
  <2>4. UNCHANGED <<packages, nextId, rollout, installed, running, staged, job, leaving>>
    BY <1>3 DEF PutObject, Console
  <2> QED
    BY <1>2, <1>3, <2>1, <2>3, <2>4
       DEF UpdateInv, UpdateTypeOK, UploadsCounted, PutObject
<1>4. ASSUME NEW b \in Build, InsertPackage(b) PROVE UpdateTypeOK' /\ UploadsCounted'
  <2>1. /\ IsFiniteSet(uploads') /\ Cardinality(uploads') = Cardinality(uploads) - 1
        /\ uploads' \subseteq Build /\ Cardinality(uploads') \in Nat
    BY <1>4, FS_RemoveElement, FS_CardinalityType
       DEF InsertPackage, UpdateInv, UploadsCounted, UpdateTypeOK
  <2>2. nextId \in 1 .. MaxPackages
    BY <1>2, <2>1 DEF UpdateInv, UploadsCounted
  <2> DEFINE new == [id |-> nextId, version |-> Stamp[b], checksum |-> b]
  <2>3. new \in Package /\ new.id = nextId
    BY <1>2, <2>2 DEF Package, Version
  <2>4. packages' = packages \cup {new} /\ nextId' = nextId + 1
    BY <1>4 DEF InsertPackage
  <2>5. UNCHANGED <<bucket, rollout, installed, running, staged, job, leaving>>
    BY <1>4 DEF InsertPackage, Console
  <2>6. packages' \subseteq Package /\ nextId' \in 1 .. MaxPackages + 2
    BY <1>2, <2>2, <2>3, <2>4 DEF UpdateInv, UpdateTypeOK
  <2>7. \A p \in packages' : p.id < nextId'
    <3> HIDE DEF new
    <3>1. \A p \in packages : p.id \in Int /\ p.id < nextId
      BY <1>2 DEF UpdateInv, UpdateTypeOK, UploadsCounted, Package
    <3> QED
      BY <1>2, <2>3, <2>4, <3>1
  <2> HIDE DEF new
  <2>8. UpdateTypeOK'
    BY <2>1, <2>5, <2>6 DEF UpdateInv, UpdateTypeOK
  <2> QED
    BY <1>2, <2>1, <2>4, <2>7, <2>8 DEF UpdateInv, UploadsCounted
<1>5. ASSUME NEW p \in packages, DeletePackage(p) PROVE UpdateTypeOK' /\ UploadsCounted'
  <2>1. p.version \in Version
    BY DEF UpdateInv, UpdateTypeOK, Package
  <2>2. UNCHANGED <<uploads, nextId, installed, running, staged, job, leaving>>
    BY <1>5 DEF DeletePackage, Console
  <2>3. rollout' \in [Version -> BOOLEAN]
    <3>1. rollout' = [rollout EXCEPT ![p.version] = FALSE] \/ rollout' = rollout
      BY <1>5 DEF DeletePackage
    <3> QED
      BY <2>1, <3>1 DEF UpdateInv, UpdateTypeOK
  <2>4. bucket' \in [Version -> Build \cup {Nothing}] /\ packages' \subseteq packages
    BY <1>5, <2>1 DEF DeletePackage, UpdateInv, UpdateTypeOK
  <2> QED
    BY <2>2, <2>3, <2>4 DEF UpdateInv, UpdateTypeOK, UploadsCounted
<1>6. ASSUME NEW v \in Version, Deploy(v) PROVE UpdateTypeOK' /\ UploadsCounted'
  <2>1. rollout' \in [Version -> BOOLEAN]
    BY <1>6 DEF Deploy, UpdateInv, UpdateTypeOK
  <2>2. UNCHANGED <<packages, uploads, nextId, bucket, installed, running, staged, job,
                    leaving>>
    BY <1>6 DEF Deploy, Console
  <2> QED
    BY <2>1, <2>2 DEF UpdateInv, UpdateTypeOK, UploadsCounted
<1> QED
  BY <1>1, <1>3, <1>4, <1>5, <1>6 DEF UpdateInv, Console

\* An updater alone with the staged file, before and after.
LEMMA AloneInStaging ==
  ASSUME UpdateInv, NEW u \in Busy, ~job[u].disturbed
  PROVE  Busy = {u} /\ Content = (IF job[u].at = "copy" /\ staged # Nothing
                                    THEN Broken ELSE staged)
<1>1. Busy = {u}
  BY DEF UpdateInv, StagedForOne
<1>2. u \in Updater
  BY DEF Busy
<1>3. (\E v \in Updater : job[v].at = "copy") <=> job[u].at = "copy"
  BY <1>1, <1>2 DEF Busy
<1> QED
  BY <1>1, <1>3 DEF Content

\* A step that moves one updater on, with no other effect on the jobs.
LEMMA StagedForOneKept ==
  ASSUME UpdateInv, NEW u \in Busy, u \in Updater,
         job' \in [Updater -> JobState],
         \A v \in Updater \ {u} : job'[v] = job[v],
         job'[u].at \notin {"idle", "restart"} =>
           /\ job'[u].at # "fetch"
           /\ job'[u].disturbed = job[u].disturbed
           /\ job'[u].at = "install" /\ ~job[u].disturbed =>
                staged' = job'[u].offer.checksum,
         UNCHANGED staged \/ job'[u].at # "fetch"
  PROVE  StagedForOne'
<1> SUFFICES ASSUME NEW w \in Busy', ~job'[w].disturbed
             PROVE  /\ Busy' = {w}
                    /\ job'[w].at = "install" => staged' = job'[w].offer.checksum
  BY DEF StagedForOne
<1>1. Busy' \subseteq Busy
  BY DEF Busy
<1>2. w \in Busy /\ ~job[w].disturbed
  <2>1. w \in Updater /\ job'[w].at \notin {"idle", "fetch", "restart"}
    BY DEF Busy
  <2> QED
    BY <1>1, <2>1
<1>3. Busy = {w}
  BY <1>2 DEF UpdateInv, StagedForOne
<1>4. w = u
  BY <1>3
<1>5. w \in Updater /\ job'[w].at \notin {"idle", "fetch", "restart"}
  BY DEF Busy
<1> QED
  BY <1>1, <1>2, <1>3, <1>4, <1>5

LEMMA ProgressInductive ==
  ASSUME UpdateInv, UpdateAssumption, NEW u \in Updater, Progress(u)
  PROVE  UpdateInv'
<1>1. job \in [Updater -> JobState]
  BY DEF UpdateInv, UpdateTypeOK, JobState
<1> DEFINE Same == UNCHANGED <<packages, uploads, nextId, bucket, rollout>>
<1>2. ASSUME Same, job' \in [Updater -> JobState], StagedForOne',
             installed' \in Build \cup {First, Broken}, UNCHANGED running,
             staged' \in Build \cup {Broken, Nothing}, leaving' \in BOOLEAN
      PROVE  UpdateInv'
  <2>1. UpdateTypeOK'
    BY <1>2 DEF UpdateInv, UpdateTypeOK, JobState
  <2>2. UploadsCounted'
    BY <1>2 DEF UpdateInv, UploadsCounted
  <2> QED
    BY <1>2, <2>1, <2>2 DEF UpdateInv
<1>3. /\ installed \in Build \cup {First, Broken} /\ leaving \in BOOLEAN
      /\ staged \in Build \cup {Broken, Nothing} /\ packages \subseteq Package
      /\ bucket \in [Version -> Build \cup {Nothing}] /\ Content \in {staged, Broken}
      /\ job[u].offer \in Package \cup {NoOffer}
  BY <1>1 DEF UpdateInv, UpdateTypeOK, Content, JobState
<1>4. CASE CheckUpdate(u)
  <2>1. Newest(packages) \in Package
    BY <1>3, <1>4, NewestExists DEF CheckUpdate, Offered
  <2> DEFINE new == [Idle EXCEPT !.at = "fetch", !.offer = Newest(packages)]
  <2>2. new \in JobState /\ new.at = "fetch"
    BY <2>1 DEF Idle, JobState
  <2>3. job' = [job EXCEPT ![u] = new] /\ job[u].at = "idle" /\ Same
        /\ UNCHANGED <<installed, running, staged, leaving>>
    BY <1>4 DEF CheckUpdate, Idle, server
  <2> HIDE DEF new
  <2>4. job' \in [Updater -> JobState] /\ Busy' = Busy
        /\ \A v \in Busy : v \in Updater /\ job'[v] = job[v]
    BY <1>1, <2>2, <2>3 DEF Busy
  <2>5. StagedForOne'
    BY <2>3, <2>4 DEF UpdateInv, StagedForOne
  <2> QED
    BY <1>2, <1>3, <2>3, <2>4, <2>5
<1>5. CASE Download(u)
  <2>1. job[u].at = "fetch" /\ Same /\ UNCHANGED <<installed, running, leaving>>
    BY <1>5 DEF Download, server
  <2>2. CASE Fetched(u) = Nothing
    <3>1. UNCHANGED staged /\ Become(u, "idle")
      BY <1>5, <2>2 DEF Download
    <3>2. /\ job' \in [Updater -> JobState] /\ job'[u].at = "idle"
          /\ \A v \in Updater \ {u} : job'[v] = job[v]
      BY <1>1, <3>1, BecomeTyped
    <3>3. Busy' = Busy /\ \A v \in Busy : v \in Updater /\ job'[v] = job[v]
      BY <2>1, <3>2 DEF Busy
    <3>4. StagedForOne'
      BY <3>1, <3>3 DEF UpdateInv, StagedForOne
    <3> QED
      BY <1>2, <1>3, <2>1, <3>1, <3>2, <3>4
  <2>3. CASE Fetched(u) # Nothing
    <3> DEFINE mine == [job[u] EXCEPT !.at = "copy", !.disturbed = Busy # {}]
               other(v) == [job[v] EXCEPT !.disturbed = @ \/ v \in Busy]
    <3>1. staged' = Fetched(u)
          /\ job' = [v \in Updater |-> IF v = u THEN mine ELSE other(v)]
      BY <1>5, <2>3 DEF Download
    <3>2. staged' \in Build
      <4>1. job[u].offer \in packages /\ staged' = bucket[job[u].offer.version]
        BY <2>3, <3>1 DEF Fetched
      <4>2. job[u].offer.version \in Version
        BY <1>3, <4>1 DEF Package
      <4> QED
        BY <1>3, <2>3, <3>1, <4>1, <4>2
    <3>3. mine \in JobState /\ mine.at = "copy" /\ (~mine.disturbed => Busy = {})
      <4>1. job[u] \in JobState
        BY <1>1
      <4> DEFINE d == Busy # {}
      <4>2. d \in BOOLEAN
        OBVIOUS
      <4> HIDE DEF d
      <4>3. mine = [job[u] EXCEPT !.at = "copy", !.disturbed = d]
        BY DEF d
      <4>4. mine \in JobState /\ mine.at = "copy" /\ mine.disturbed = d
        BY <4>1, <4>2, <4>3 DEF JobState
      <4> QED
        BY <4>4 DEF d
    <3>4. ASSUME NEW v \in Updater
          PROVE  /\ other(v) \in JobState /\ other(v).at = job[v].at
                 /\ v \in Busy => other(v).disturbed
      <4>1. job[v] \in JobState
        BY <1>1
      <4> DEFINE d == job[v].disturbed \/ v \in Busy
      <4>2. d \in BOOLEAN
        OBVIOUS
      <4> HIDE DEF d
      <4>3. other(v) = [job[v] EXCEPT !.disturbed = d]
        BY DEF d
      <4>4. other(v) \in JobState /\ other(v).at = job[v].at /\ other(v).disturbed = d
        BY <4>1, <4>2, <4>3 DEF JobState
      <4> QED
        BY <4>4 DEF d
    <3> HIDE DEF mine, other
    <3>5. job' \in [Updater -> JobState]
      BY <3>1, <3>3, <3>4
    <3>6. u \notin Busy /\ Busy' = Busy \cup {u}
      BY <2>1, <3>1, <3>3, <3>4 DEF Busy
    <3>7. \A w \in Busy' : ~job'[w].disturbed => w = u /\ Busy = {}
      BY <3>1, <3>3, <3>4, <3>6 DEF Busy
    <3>8. job'[u].at = "copy"
      BY <3>1, <3>3
    <3>9. StagedForOne'
      BY <3>6, <3>7, <3>8 DEF StagedForOne
    <3> QED
      BY <1>2, <1>3, <2>1, <3>2, <3>5, <3>9
  <2> QED
    BY <2>2, <2>3
<1>6. CASE CopyDone(u)
  <2>1. u \in Busy /\ Same /\ UNCHANGED <<installed, running, leaving>>
    BY <1>6 DEF CopyDone, Busy, server
  <2>2. PICK s \in {"verify", "idle"} : Become(u, s)
    BY <1>6 DEF CopyDone
  <2>3. staged' \in Build \cup {Broken, Nothing}
    BY <1>3, <1>6 DEF CopyDone
  <2>4. /\ job' \in [Updater -> JobState] /\ job'[u].at = s
        /\ \A v \in Updater \ {u} : job'[v] = job[v]
        /\ s # "idle" => job'[u].disturbed = job[u].disturbed
    BY <1>1, <2>2, BecomeTyped
  <2>5. StagedForOne'
    BY <2>1, <2>4, StagedForOneKept
  <2> QED
    BY <1>2, <1>3, <2>1, <2>3, <2>4, <2>5
<1>7. CASE Verify(u)
  <2>1. u \in Busy /\ job[u].at = "verify" /\ Same
        /\ UNCHANGED <<installed, running, staged, leaving>>
    BY <1>7 DEF Verify, Busy, server
  <2>2. PICK s \in {"install", "remove"} :
          Become(u, s) /\ (s = "install" => Content = job[u].offer.checksum)
    BY <1>7 DEF Verify
  <2>3. /\ job' \in [Updater -> JobState] /\ job'[u].at = s
        /\ \A v \in Updater \ {u} : job'[v] = job[v]
        /\ job'[u].disturbed = job[u].disturbed /\ job'[u].offer = job[u].offer
    BY <1>1, <2>2, BecomeTyped
  <2>4. ~job[u].disturbed => Content = staged
    BY <2>1, AloneInStaging
  <2>5. StagedForOne'
    BY <2>1, <2>2, <2>3, <2>4, StagedForOneKept
  <2> QED
    BY <1>2, <1>3, <2>1, <2>3, <2>5
<1>8. CASE Install(u)
  <2>1. u \in Busy /\ Same /\ UNCHANGED <<running, staged, leaving>>
    BY <1>8 DEF Install, Busy, server
  <2>2. PICK s \in {"cleanup", "remove"} : Become(u, s)
    BY <1>8 DEF Install
  <2>3. /\ job' \in [Updater -> JobState] /\ job'[u].at = s
        /\ \A v \in Updater \ {u} : job'[v] = job[v]
        /\ job'[u].disturbed = job[u].disturbed
    BY <1>1, <2>2, BecomeTyped
  <2>4. job[u].offer.checksum \in Build \cup {Broken}
    <3>1. NoOffer.checksum = Broken
      BY DEF NoOffer
    <3>2. \A p \in Package : p.checksum \in Build
      BY DEF Package
    <3> QED
      BY <1>3, <3>1, <3>2
  <2>5. installed' \in Build \cup {First, Broken}
    BY <1>3, <1>8, <2>4 DEF Install
  <2>6. StagedForOne'
    BY <2>1, <2>3, StagedForOneKept
  <2> QED
    BY <1>2, <1>3, <2>1, <2>3, <2>5, <2>6
<1>9. CASE RemoveStaged(u)
  <2>1. u \in Busy /\ staged' = Nothing /\ Same /\ UNCHANGED <<installed, running, leaving>>
    BY <1>9 DEF RemoveStaged, Busy, server
  <2>2. PICK s \in {"restart", "idle"} : Become(u, s)
    BY <1>9 DEF RemoveStaged
  <2>3. /\ job' \in [Updater -> JobState] /\ job'[u].at = s
        /\ \A v \in Updater \ {u} : job'[v] = job[v]
    BY <1>1, <2>2, BecomeTyped
  <2>4. StagedForOne'
    BY <2>1, <2>3, StagedForOneKept
  <2> QED
    BY <1>2, <1>3, <2>1, <2>3, <2>4
<1>10. CASE Restart(u)
  <2>1. job[u].at = "restart" /\ leaving' = TRUE /\ Same
    BY <1>10 DEF Restart, server
  <2>2. UNCHANGED <<installed, running, staged>> /\ Become(u, "idle")
    BY <1>10 DEF Restart
  <2>3. /\ job' \in [Updater -> JobState] /\ job'[u].at = "idle"
        /\ \A v \in Updater \ {u} : job'[v] = job[v]
    BY <1>1, <2>2, BecomeTyped
  <2>4. Busy' = Busy /\ \A v \in Busy : v \in Updater /\ job'[v] = job[v]
    BY <2>1, <2>3 DEF Busy
  <2>5. StagedForOne'
    BY <2>2, <2>4 DEF UpdateInv, StagedForOne
  <2>6. leaving' \in BOOLEAN
    BY <2>1
  <2> QED
    BY <1>2, <1>3, <2>1, <2>2, <2>3, <2>5, <2>6
<1> QED
  BY <1>4, <1>5, <1>6, <1>7, <1>8, <1>9, <1>10 DEF Progress

\* The whole next-state relation: beside the console and the updaters only the
\* process as a whole exits, dies and is started.
LEMMA UpdateInductive ==
  ASSUME UpdateInv, UpdateAssumption, [UpdateNext]_updateVars
  PROVE  UpdateInv'
<1>1. CASE Console
  BY <1>1, ConsoleInductive
<1>2. ASSUME NEW u \in Updater, Progress(u) PROVE UpdateInv'
  BY <1>2, ProgressInductive
<1>3. CASE Exit
  <2>1. UpdateTypeOK' /\ UploadsCounted'
    BY <1>3 DEF Exit, UpdateInv, UpdateTypeOK, UploadsCounted, server
  <2>2. StagedForOne'
    BY <1>3 DEF Exit, UpdateInv, StagedForOne, Busy
  <2> QED
    BY <2>1, <2>2 DEF UpdateInv
<1>4. CASE Crash
  <2>1. Idle \in JobState /\ Idle.at = "idle"
    BY DEF Idle, JobState
  <2>2. job' = [u \in Updater |-> Idle]
    BY <1>4 DEF Crash
  <2>3. Busy' = {} /\ job' \in [Updater -> JobState]
    BY <2>1, <2>2 DEF Busy
  <2>4. /\ running' = Nothing /\ leaving' = FALSE /\ staged' \in {Content, Nothing}
        /\ UNCHANGED <<packages, uploads, nextId, bucket, rollout, installed>>
    BY <1>4 DEF Crash, server
  <2>5. staged' \in Build \cup {Broken, Nothing} /\ leaving' \in BOOLEAN
    BY <2>4 DEF Content, UpdateInv, UpdateTypeOK
  <2>6. UpdateTypeOK' /\ UploadsCounted'
    BY <2>3, <2>4, <2>5 DEF UpdateInv, UpdateTypeOK, UploadsCounted, JobState
  <2> QED
    BY <2>3, <2>6 DEF UpdateInv, StagedForOne
<1>5. CASE Start
  <2>1. UpdateTypeOK' /\ UploadsCounted'
    BY <1>5 DEF Start, UpdateInv, UpdateTypeOK, UploadsCounted, server
  <2>2. StagedForOne'
    BY <1>5 DEF Start, UpdateInv, StagedForOne, Busy
  <2> QED
    BY <2>1, <2>2 DEF UpdateInv
<1>6. CASE UNCHANGED updateVars
  BY <1>6 DEF updateVars, server, UpdateInv, UpdateTypeOK, UploadsCounted, StagedForOne,
              Busy
<1> QED
  BY <1>1, <1>2, <1>3, <1>4, <1>5, <1>6 DEF UpdateNext

LEMMA UpdateInitially ==
  ASSUME UpdateInit, UpdateAssumption
  PROVE  UpdateInv
<1>1. Idle \in JobState /\ Idle.at = "idle"
  BY DEF Idle, JobState
<1>2. job \in [Updater -> JobState] /\ Busy = {}
  BY <1>1 DEF UpdateInit, Busy
<1>3. rollout \in [Version -> BOOLEAN] /\ leaving \in BOOLEAN
  BY DEF UpdateInit
<1>4. UpdateTypeOK
  BY <1>2, <1>3 DEF UpdateInit, UpdateAssumption, UpdateTypeOK, JobState
<1>5. UploadsCounted
  BY FS_EmptySet DEF UpdateInit, UpdateAssumption, UploadsCounted
<1> QED
  BY <1>2, <1>4, <1>5 DEF UpdateInv, StagedForOne

\* What is installed passed the checksum of its offer unless another update had
\* its hands on the staged file, for any number of updaters, builds and packages.
THEOREM VerifiedInstallHolds == UpdateSpec => VerifiedInstall
<1>1. ASSUME UpdateInv, [UpdateNext]_updateVars
      PROVE  [\A u \in Updater : Install(u) /\ installed' # installed =>
                installed' = job[u].offer.checksum \/ job[u].disturbed]_updateVars
  <2> SUFFICES ASSUME NEW u \in Updater, Install(u), installed' # installed,
                      ~job[u].disturbed
               PROVE  installed' = job[u].offer.checksum
    OBVIOUS
  <2>1. u \in Busy /\ job[u].at = "install"
    BY DEF Install, Busy
  <2>2. Content = staged /\ staged = job[u].offer.checksum
    BY <1>1, <2>1, AloneInStaging DEF UpdateInv, StagedForOne
  <2> QED
    BY <2>2 DEF Install
<1> QED
  BY <1>1, UpdateInitially, UpdateInductive, UpdateAssumption, PTL
     DEF UpdateSpec, VerifiedInstall

\* The updater's and the console's variables keep their types and their bounds.
THEOREM UpdateTypeCorrect == UpdateSpec => []UpdateTypeOK
<1>1. UpdateInv => UpdateTypeOK
  BY DEF UpdateInv
<1> QED
  BY <1>1, UpdateInitially, UpdateInductive, UpdateAssumption, PTL DEF UpdateSpec
-----------------------------------------------------------------------------
(* The player page. *)

Layer == [scene : Scenes, newest : BOOLEAN, mine : BOOLEAN]

\* Only a target with scenes has a dwell timer or layers of its own, and the
\* newest layer, which is one, belongs to it.
Staged ==
  /\ dwelling => applied.scenes # << >>
  /\ \A x \in layers : x.mine => applied.scenes # << >>
  /\ \A x \in layers : x.newest => x.scene \in ToSet(applied.scenes)
  /\ \A x, y \in layers : x.newest /\ y.newest => x = y

\* When no layer is loading that may still be revealed, the page shows the target
\* it applied last, whatever was superseded on the way (applyTarget, showScene).
Settled == (\A x \in layers : ~x.newest) => visible \in Showing(applied)

PageInv == PageTypeOK /\ Staged /\ Settled

\* What PageAssumption says of one target.
LEMMA TargetTyped ==
  ASSUME NEW t \in PageTarget \cup {Unset}
  PROVE  /\ t.scenes \in Seq(Scenes) /\ Len(t.scenes) \in Nat
         /\ t.scenes = << >> <=> Len(t.scenes) = 0
         /\ \A i \in 1 .. Len(t.scenes) :
              t.scenes[i] \in ToSet(t.scenes) /\ t.scenes[i] \in Scenes
<1>1. t.scenes \in Seq(Scenes)
  <2>1. CASE t \in PageTarget
    BY <2>1, PageAssumption
  <2>2. CASE t = Unset
    <3>1. t.scenes = << >>
      BY <2>2 DEF Unset
    <3> QED
      BY <3>1
  <2> QED
    BY <2>1, <2>2
<1>2. ASSUME NEW s \in Seq(Scenes) PROVE s = << >> <=> Len(s) = 0
  OBVIOUS
<1>3. \A i \in 1 .. Len(t.scenes) : t.scenes[i] \in ToSet(t.scenes)
  BY <1>1 DEF ToSet
<1>4. Len(t.scenes) \in Nat /\ \A i \in 1 .. Len(t.scenes) : t.scenes[i] \in Scenes
  BY <1>1
<1>5. t.scenes = << >> <=> Len(t.scenes) = 0
  BY <1>1, <1>2, Zenon
<1> QED
  BY <1>1, <1>3, <1>4, <1>5

\* Layers that are superseded or torn down stay layers, and none is the newest.
LEMMA LayersGiveWay ==
  ASSUME NEW L \in SUBSET Layer
  PROVE  /\ Superseded(L) \in SUBSET Layer /\ TornDown(L) \in SUBSET Layer
         /\ \A y \in Superseded(L) : ~y.newest /\ (y.mine => \E x \in L : x.mine)
         /\ \A y \in TornDown(L) : ~y.newest /\ ~y.mine
<1>1. \A x \in Layer : LET y == [x EXCEPT !.newest = FALSE]
                           z == [y EXCEPT !.mine = FALSE]
                       IN y \in Layer /\ z \in Layer
  BY Zenon DEF Layer
<1>2. \A x \in Layer : LET y == [x EXCEPT !.newest = FALSE]
                           z == [y EXCEPT !.mine = FALSE]
                       IN ~y.newest /\ (y.mine <=> x.mine) /\ ~z.newest /\ ~z.mine
  BY DEF Layer
<1>3. \A x \in L : x \in Layer
  OBVIOUS
<1>4. \A y \in Superseded(L) : \E x \in L : y = [x EXCEPT !.newest = FALSE]
  BY Zenon DEF Superseded
<1>5. \A y \in Superseded(L) :
        y \in Layer /\ ~y.newest /\ (y.mine => \E x \in L : x.mine)
  <2> TAKE y \in Superseded(L)
  <2>1. PICK x \in L : y = [x EXCEPT !.newest = FALSE]
    BY <1>4
  <2>2. y \in Layer /\ ~y.newest /\ (y.mine <=> x.mine)
    BY <1>1, <1>2, <1>3, <2>1, Zenon
  <2> QED
    BY <2>2
<1>6. \A z \in TornDown(L) : \E y \in Superseded(L) : z = [y EXCEPT !.mine = FALSE]
  BY Zenon DEF TornDown
<1>7. \A z \in TornDown(L) : z \in Layer /\ ~z.newest /\ ~z.mine
  <2> TAKE z \in TornDown(L)
  <2>1. PICK y \in Superseded(L) : z = [y EXCEPT !.mine = FALSE]
    BY <1>6
  <2>2. PICK x \in L : y = [x EXCEPT !.newest = FALSE]
    BY <1>4
  <2> QED
    BY <1>1, <1>2, <1>3, <2>1, <2>2, Zenon
<1>8. Superseded(L) \in SUBSET Layer /\ TornDown(L) \in SUBSET Layer
  BY <1>5, <1>7, Zenon
<1> QED
  BY <1>5, <1>7, <1>8, Zenon

\* The layer that showScene adds is the only newest one.
LEMMA PreloadAdds ==
  ASSUME NEW L \in SUBSET Layer, NEW s \in Scenes, Preload(L, s)
  PROVE  /\ layers' \subseteq Layer
         /\ \A x \in layers' : x.newest => x.scene = s
         /\ \A x, y \in layers' : x.newest /\ y.newest => x = y
         /\ \E x \in layers' : x.newest
<1> DEFINE m == [scene |-> s, newest |-> TRUE, mine |-> TRUE]
<1>1. m \in Layer
  BY Zenon DEF Layer
<1>2. m.scene = s /\ m.newest
  OBVIOUS
<1>3. layers' = Superseded(L) \cup {m}
  BY DEF Preload
<1> HIDE DEF m
<1>4. /\ Superseded(L) \in SUBSET Layer
      /\ \A y \in Superseded(L) : ~y.newest
  BY LayersGiveWay, Zenon
<1>5. \A x \in layers' : x.newest => x = m
  BY <1>3, <1>4, Zenon
<1> QED
  BY <1>1, <1>2, <1>3, <1>4, <1>5, Zenon

LEMMA PageInitially ==
  ASSUME PageInit
  PROVE  PageInv
<1>1. NoPoll \in [at : {"none", "target", "playlist", "apply"}, answer : PageTarget]
  BY PageAssumption DEF NoPoll
<1>2. Len(Unset.scenes) = 0 /\ Unset.scenes = << >>
  BY DEF Unset
<1>3. PageTypeOK
  <2>1. agentUp \in BOOLEAN /\ dwelling \in BOOLEAN
    BY Zenon DEF PageInit
  <2>2. layers = {} /\ index = 0 /\ applied = Unset /\ visible = Idling
    BY DEF PageInit
  <2>3. index <= Len(applied.scenes)
    BY <1>2, <2>2
  <2> QED
    BY <1>1, <2>1, <2>2, <2>3, PageAssumption DEF PageInit, PageTypeOK
<1>4. Staged /\ Settled
  BY <1>2 DEF PageInit, Staged, Settled, Showing
<1> QED
  BY <1>3, <1>4 DEF PageInv

\* The agent's steps leave the page alone.
LEMMA AgentStepKeeps ==
  ASSUME PageInv, (\E t \in PageTarget : SwapTarget(t)) \/ AgentStops \/ AgentStarts
  PROVE  PageInv'
<1>1. UNCHANGED <<poll, applied, layers, index, dwelling, visible>>
  BY Zenon DEF SwapTarget, AgentStops, AgentStarts, stage
<1>2. agentUp' \in BOOLEAN
  BY Zenon DEF SwapTarget, AgentStops, AgentStarts, PageInv, PageTypeOK
<1>3. served' \in PageTarget
  BY PageAssumption DEF SwapTarget, AgentStops, AgentStarts, PageInv, PageTypeOK
<1>4. PageTypeOK' /\ Staged' /\ Settled'
  BY <1>1, <1>2, <1>3, Zenon DEF PageInv, PageTypeOK, Staged, Settled, Showing
<1> QED
  BY <1>4 DEF PageInv

\* The page's requests leave the stage alone.
LEMMA PollingKeeps ==
  ASSUME PageInv, NEW p \in Poll, Ask(p) \/ GetTarget(p) \/ GetPlaylist(p)
  PROVE  PageInv'
<1> DEFINE Call == [at : {"none", "target", "playlist", "apply"}, answer : PageTarget]
<1>1. poll \in [Poll -> Call] /\ served \in PageTarget /\ Empty \in PageTarget
  BY PageAssumption DEF PageInv, PageTypeOK
<1>2. /\ NoPoll \in Call /\ Holding(served) \in Call /\ Holding(Empty) \in Call
      /\ [poll[p] EXCEPT !.at = "target"] \in Call
      /\ [poll[p] EXCEPT !.at = "playlist"] \in Call
  BY <1>1 DEF NoPoll, Holding
<1> HIDE DEF Call
<1>3. poll' \in [Poll -> Call]
  BY <1>1, <1>2 DEF Ask, GetTarget, GetPlaylist
<1>4. UNCHANGED <<agentUp, served, applied, layers, index, dwelling, visible>>
  BY DEF Ask, GetTarget, GetPlaylist, stage
<1>5. PageTypeOK' /\ Staged' /\ Settled'
  BY <1>3, <1>4, Zenon DEF PageInv, PageTypeOK, Staged, Settled, Showing, Call
<1> QED
  BY <1>5 DEF PageInv

\* What an applied target, a ready layer and the dwell timer have in common: the
\* agent is left alone, and what they make of the rest is checked part by part.
LEMMA StageHolds ==
  ASSUME PageInv, UNCHANGED <<agentUp, served>>,
         poll' \in [Poll -> [at : {"none", "target", "playlist", "apply"},
                             answer : PageTarget]],
         applied' \in PageTarget \cup {Unset}, layers' \subseteq Layer,
         index' \in Nat, index' <= Len(applied'.scenes),
         dwelling' \in BOOLEAN, visible' \in Scenes \cup {Idling},
         Staged', Settled'
  PROVE  PageInv'
BY Zenon DEF PageInv, PageTypeOK, Layer

\* applyTarget.
LEMMA ApplyKeeps ==
  ASSUME PageInv, NEW p \in Poll, Apply(p)
  PROVE  PageInv'
<1> DEFINE Call == [at : {"none", "target", "playlist", "apply"}, answer : PageTarget]
           t == poll[p].answer
<1>1. /\ poll \in [Poll -> Call] /\ NoPoll \in Call /\ t \in PageTarget
      /\ layers \in SUBSET Layer /\ applied \in PageTarget \cup {Unset}
      /\ visible \in Scenes \cup {Idling}
  BY PageAssumption DEF PageInv, PageTypeOK, NoPoll, Layer
<1>2. poll' \in [Poll -> Call]
  BY <1>1 DEF Apply
<1> HIDE DEF Call
<1>3. UNCHANGED <<agentUp, served>>
  BY DEF Apply
<1>4. CASE t = applied
  <2>1. UNCHANGED <<applied, layers, index, dwelling, visible>>
    BY <1>4 DEF Apply, stage
  <2>2. Staged' /\ Settled' /\ PageTypeOK'
    BY <1>2, <1>3, <2>1, Zenon DEF PageInv, PageTypeOK, Staged, Settled, Showing, Call
  <2> QED
    BY <2>2 DEF PageInv
<1>5. CASE t # applied
  <2>1. /\ applied' = t /\ dwelling' = FALSE /\ index' = 0
        /\ IF t.scenes = << >>
             THEN visible' = Idling /\ layers' = TornDown(layers)
             ELSE Preload(TornDown(layers), t.scenes[1]) /\ UNCHANGED visible
    BY <1>5 DEF Apply
  <2>2. /\ t.scenes \in Seq(Scenes) /\ Len(t.scenes) \in Nat
        /\ t.scenes = << >> <=> Len(t.scenes) = 0
        /\ \A i \in 1 .. Len(t.scenes) :
             t.scenes[i] \in ToSet(t.scenes) /\ t.scenes[i] \in Scenes
    BY <1>1, TargetTyped, Zenon
  <2>3. /\ TornDown(layers) \in SUBSET Layer
        /\ \A y \in TornDown(layers) : ~y.newest /\ ~y.mine
    BY <1>1, LayersGiveWay, Zenon
  <2> HIDE DEF t
  <2>4. CASE t.scenes = << >>
    <3>1. visible' = Idling /\ layers' = TornDown(layers)
      BY <2>1, <2>4
    <3>2. Staged' /\ Settled'
      BY <2>1, <2>3, <2>4, <3>1, Zenon DEF Staged, Settled, Showing
    <3>3. index' \in Nat /\ index' <= Len(applied'.scenes)
      BY <2>1, <2>2
    <3>4. applied' \in PageTarget \cup {Unset} /\ visible' \in Scenes \cup {Idling}
      BY <1>1, <2>1, <3>1
    <3>5. layers' \subseteq Layer /\ dwelling' \in BOOLEAN
      BY <2>1, <2>3, <3>1
    <3> QED
      BY <1>2, <1>3, <3>2, <3>3, <3>4, <3>5, StageHolds, Zenon DEF Call
  <2>5. CASE t.scenes # << >>
    <3>1. /\ t.scenes[1] \in ToSet(t.scenes) /\ t.scenes[1] \in Scenes
          /\ Preload(TornDown(layers), t.scenes[1]) /\ visible' = visible
      BY <2>1, <2>2, <2>5
    <3>2. /\ layers' \subseteq Layer
          /\ \A x \in layers' : x.newest => x.scene = t.scenes[1]
          /\ \A x, y \in layers' : x.newest /\ y.newest => x = y
          /\ \E x \in layers' : x.newest
      BY <2>3, <3>1, PreloadAdds, Zenon
    <3>3. Staged' /\ Settled'
      BY <2>1, <2>5, <3>1, <3>2, Zenon DEF Staged, Settled
    <3>4. index' \in Nat /\ index' <= Len(applied'.scenes)
      BY <2>1, <2>2
    <3>5. /\ applied' \in PageTarget \cup {Unset} /\ visible' \in Scenes \cup {Idling}
          /\ dwelling' \in BOOLEAN
      BY <1>1, <2>1, <3>1
    <3> QED
      BY <1>2, <1>3, <3>2, <3>3, <3>4, <3>5, StageHolds, Zenon DEF Call
  <2> QED
    BY <2>4, <2>5
<1> QED
  BY <1>4, <1>5

\* showScene after its await.
LEMMA ReadyKeeps ==
  ASSUME PageInv, NEW x \in layers, Ready(x)
  PROVE  PageInv'
<1>1. /\ layers \in SUBSET Layer /\ x \in Layer /\ x.scene \in Scenes
      /\ applied \in PageTarget \cup {Unset}
      /\ visible \in Scenes \cup {Idling}
      /\ dwelling \in BOOLEAN
  BY DEF PageInv, PageTypeOK, Layer
<1>2. /\ UNCHANGED <<agentUp, served, poll, applied, index>>
      /\ visible' = (IF x.newest THEN x.scene ELSE visible)
      /\ layers' = layers \ {x}
  BY DEF Ready
<1>3. dwelling' \in BOOLEAN
  BY <1>1, Zenon DEF Ready
<1>4. applied.scenes # << >> => Showing(applied) = ToSet(applied.scenes)
  BY DEF Showing
<1>5. /\ x.newest => x.scene \in ToSet(applied.scenes)
      /\ x.mine => applied.scenes # << >>
      /\ dwelling => applied.scenes # << >>
      /\ (\A z \in layers : ~z.newest) => visible \in Showing(applied)
      /\ \A z \in layers : z.newest /\ x.newest => z = x
  BY DEF PageInv, Staged, Settled
<1>6. dwelling' => dwelling \/ x.mine
  BY DEF Ready, Continues
<1>7. Staged'
  BY <1>2, <1>5, <1>6, Zenon DEF PageInv, Staged
<1>8. ToSet(<< >>) = {}
  BY DEF ToSet
<1>9. Settled'
  <2>1. CASE x.newest
    BY <1>2, <1>4, <1>5, <1>8, <2>1 DEF Settled, Showing
  <2>2. CASE ~x.newest
    BY <1>2, <1>5, <2>2 DEF Settled, Showing
  <2> QED
    BY <2>1, <2>2
<1>10. /\ index' \in Nat /\ index' <= Len(applied'.scenes)
       /\ poll' \in [Poll -> [at : {"none", "target", "playlist", "apply"},
                              answer : PageTarget]]
  BY <1>2 DEF PageInv, PageTypeOK
<1>11. visible' \in Scenes \cup {Idling} /\ layers' \subseteq Layer
  BY <1>1, <1>2
<1> QED
  BY <1>1, <1>2, <1>3, <1>7, <1>9, <1>10, <1>11, StageHolds

\* sceneTimer: it runs only for a target with scenes, so that the next position
\* is one of the list.
LEMMA AdvanceKeeps ==
  ASSUME PageInv, Advance
  PROVE  PageInv'
<1> DEFINE s == applied.scenes
<1>1. /\ layers \in SUBSET Layer /\ applied \in PageTarget \cup {Unset}
      /\ visible \in Scenes \cup {Idling} /\ index \in Nat /\ index <= Len(s)
      /\ dwelling
  BY DEF PageInv, PageTypeOK, Layer, Advance
<1>2. /\ s \in Seq(Scenes) /\ Len(s) \in Nat /\ s = << >> <=> Len(s) = 0
      /\ \A i \in 1 .. Len(s) : s[i] \in ToSet(s) /\ s[i] \in Scenes
  BY <1>1, TargetTyped, Zenon
<1>3. /\ UNCHANGED <<agentUp, served, poll, applied, visible>> /\ dwelling' = FALSE
  BY DEF Advance
<1>4. poll' \in [Poll -> [at : {"none", "target", "playlist", "apply"},
                          answer : PageTarget]]
  BY <1>3 DEF PageInv, PageTypeOK
<1>5. s # << >>
  BY <1>1 DEF PageInv, Staged
<1>6. CASE index + 1 < Len(s) \/ applied.loop
  <2>1. /\ index' = (index + 1) % Len(s)
        /\ Preload(layers, s[index' + 1])
    BY <1>6 DEF Advance
  <2> HIDE DEF s
  <2>2. index' \in 0 .. Len(s) - 1
    <3>1. \A n \in Nat \ {0}, k \in Nat : k % n \in 0 .. n - 1
      OBVIOUS
    <3>2. Len(s) \in Nat \ {0} /\ index + 1 \in Nat
      BY <1>1, <1>2, <1>5
    <3> QED
      BY <2>1, <3>1, <3>2
  <2>3. index' + 1 \in 1 .. Len(s)
    <3>1. \A n \in Nat : \A k \in 0 .. n - 1 : k + 1 \in 1 .. n
      OBVIOUS
    <3>2. Len(s) \in Nat
      BY <1>2
    <3> QED
      BY <2>2, <3>1, <3>2, Zenon
  <2>4. s[index' + 1] \in ToSet(s) /\ s[index' + 1] \in Scenes
    BY <1>2, <2>3
  <2>5. /\ layers' \subseteq Layer
        /\ \A x \in layers' : x.newest => x.scene = s[index' + 1]
        /\ \A x, y \in layers' : x.newest /\ y.newest => x = y
        /\ \E x \in layers' : x.newest
    BY <1>1, <2>1, <2>4, PreloadAdds
  <2>6. applied' = applied /\ applied'.scenes = s
    BY <1>3 DEF s
  <2>7. Staged' /\ Settled'
    BY <1>3, <1>5, <2>4, <2>5, <2>6, Zenon DEF Staged, Settled
  <2>8. index' \in Nat /\ index' <= Len(applied'.scenes)
    BY <1>2, <2>2, <2>6
  <2> QED
    BY <1>1, <1>3, <1>4, <2>5, <2>7, <2>8, StageHolds
<1>7. CASE ~(index + 1 < Len(s) \/ applied.loop)
  <2>1. UNCHANGED <<index, layers>>
    BY <1>7 DEF Advance
  <2>2. Staged' /\ Settled'
    BY <1>3, <2>1, Zenon DEF PageInv, Staged, Settled, Showing
  <2> QED
    BY <1>1, <1>3, <1>4, <2>1, <2>2, StageHolds
<1> QED
  BY <1>6, <1>7

\* The page is loaded anew.
LEMMA PageReloadKeeps ==
  ASSUME PageInv, Reload
  PROVE  PageInv'
<1>1. NoPoll \in [at : {"none", "target", "playlist", "apply"}, answer : PageTarget]
  BY PageAssumption DEF NoPoll
<1>2. poll' \in [Poll -> [at : {"none", "target", "playlist", "apply"},
                          answer : PageTarget]]
  BY <1>1 DEF Reload
<1>3. Unset.scenes = << >> /\ Len(Unset.scenes) = 0
  BY DEF Unset
<1>4. Staged' /\ Settled'
  BY <1>3 DEF Reload, Staged, Settled, Showing
<1>5. /\ index' = 0 /\ applied' = Unset /\ layers' = {} /\ dwelling' = FALSE
      /\ visible' = Idling /\ UNCHANGED <<agentUp, served>>
  BY DEF Reload
<1>6. index' \in Nat /\ index' <= Len(applied'.scenes)
  BY <1>3, <1>5
<1>7. /\ layers' \subseteq Layer /\ dwelling' \in BOOLEAN
      /\ applied' \in PageTarget \cup {Unset} /\ visible' \in Scenes \cup {Idling}
  BY <1>5
<1> QED
  BY <1>2, <1>4, <1>5, <1>6, <1>7, StageHolds, Zenon

LEMMA PageInductive ==
  ASSUME PageInv, [PageNext]_pageVars
  PROVE  PageInv'
<1>1. CASE PageNext
  BY <1>1, AgentStepKeeps, PollingKeeps, ApplyKeeps, ReadyKeeps, AdvanceKeeps,
     PageReloadKeeps, Zenon DEF PageNext
<1>2. CASE UNCHANGED pageVars
  BY <1>2, Zenon DEF pageVars, PageInv, PageTypeOK, Staged, Settled, Showing
<1> QED
  BY <1>1, <1>2

\* The rotation's position stays inside the list it rotates through, whatever
\* targets, polls, timers and reloads came in between.
THEOREM PageTypeCorrect == PageSpec => []PageTypeOK
<1>1. PageInv => PageTypeOK
  BY DEF PageInv
<1> QED
  BY <1>1, PageInitially, PageInductive, PTL DEF PageSpec

\* The page never settles on anything but the target it applied last.
THEOREM PageSettles == PageSpec => []Settled
<1>1. PageInv => Settled
  BY DEF PageInv
<1> QED
  BY <1>1, PageInitially, PageInductive, PTL DEF PageSpec
=============================================================================
