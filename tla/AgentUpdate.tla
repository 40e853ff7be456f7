------------------------------ MODULE AgentUpdate ------------------------------
(***************************************************************************)
(* Over-the-air updates, from the upload of a package to the new binary in *)
(* the running agent: apps/api/src/routes/ota.ts (packages, deployments),  *)
(* GET /api/agent/update, GET /api/content/ota/:id, agent/ota.go, the      *)
(* update loop and the check_update command of the agent, and the root     *)
(* helper that installs the staged file.                                   *)
(*                                                                         *)
(* One channel, one architecture, one device.  A package's object lives in *)
(* R2 under a key made of its version, so two uploads of one version share *)
(* it; the checksum is in the row.  Bytes stand for their own checksum.    *)
(* The statements of GET /update run as one step.  What the deployments of *)
(* a version (all, canary, group; active or paused) decide about this      *)
(* device is one value per version.                                        *)
(***************************************************************************)
EXTENDS Integers, FiniteSets

CONSTANTS
  Build,        \* binaries that may be uploaded
  First,        \* the build the device was installed with
  Stamp,        \* Stamp[b]: the version b was built and is uploaded as
  Updater,      \* callers of MaybeUpdate: "loop" and "command"
  MaxPackages,  \* bound: uploads in a behaviour
  Broken        \* content that is no build: cut short or mixed

ASSUME UpdateAssumption ==
  /\ Stamp \in [Build \cup {First} -> STRING]
  /\ MaxPackages \in Nat /\ Broken \notin Build \cup {First}

Version == {Stamp[b] : b \in Build}
Nothing == "nothing"   \* no object, no file, no process

VARIABLES
  packages,   \* rows of ota_packages: [id, version, checksum]
  uploads,    \* uploads whose object is written and whose row is not
  nextId,     \* next value of the AUTOINCREMENT key
  bucket,     \* bucket[v]: the object under the key of version v
  rollout,    \* rollout[v]: does the newest active deployment cover the device?
  installed,  \* the file /usr/local/bin/screenboard-agent
  running,    \* the build the agent process runs, or Nothing
  staged,     \* the file /tmp/screenboard-agent.new, shared by all updaters
  job,        \* job[u]: where MaybeUpdate stands for u (at), the response of
              \*   GET /update it acts on (offer), and, as history, whether
              \*   another updater has had its hands on the file (disturbed)
  leaving     \* has RequestShutdown been called?

server     == <<packages, uploads, nextId, bucket, rollout>>
updateVars == <<server, installed, running, staged, job, leaving>>

NoOffer == [id |-> 0, version |-> "", checksum |-> Broken]
Idle    == [at |-> "idle", offer |-> NoOffer, disturbed |-> FALSE]
Package == [id : 1 .. MaxPackages + 1, version : Version, checksum : Build]

UpdateTypeOK ==
  /\ packages \subseteq Package /\ uploads \subseteq Build
  /\ nextId \in 1 .. MaxPackages + 2
  /\ bucket \in [Version -> Build \cup {Nothing}]
  /\ rollout \in [Version -> BOOLEAN]
  /\ installed \in Build \cup {First, Broken}
  /\ running \in Build \cup {First, Nothing}
  /\ staged \in Build \cup {Broken, Nothing}
  /\ job \in [Updater -> [at : {"idle", "fetch", "copy", "verify", "install",
                                "remove", "cleanup", "restart"},
                          offer : Package \cup {NoOffer},
                          disturbed : BOOLEAN]]
  /\ leaving \in BOOLEAN

UpdateInit ==
  /\ packages = {} /\ uploads = {} /\ nextId = 1
  /\ bucket = [v \in Version |-> Nothing]
  /\ rollout = [v \in Version |-> FALSE]
  /\ installed = First /\ running = First /\ staged = Nothing
  /\ job = [u \in Updater |-> Idle]
  /\ leaving = FALSE

-----------------------------------------------------------------------------
(* The console: packages and deployments. *)

\* PUT /packages: the object first ...
PutObject(b) ==
  /\ b \notin uploads
  /\ nextId + Cardinality(uploads) <= MaxPackages
  /\ bucket' = [bucket EXCEPT ![Stamp[b]] = b]
  /\ uploads' = uploads \cup {b}
  /\ UNCHANGED <<packages, nextId, rollout>>

\* ... then the row.
InsertPackage(b) ==
  /\ b \in uploads
  /\ uploads' = uploads \ {b}
  /\ packages' = packages \cup
       {[id |-> nextId, version |-> Stamp[b], checksum |-> b]}
  /\ nextId' = nextId + 1
  /\ UNCHANGED <<bucket, rollout>>

\* DELETE /packages/:id and /packages/batch.  The foreign key takes the
\* deployments along: with the last package of a version, all of them.
DeletePackage(p) ==
  /\ p \in packages
  /\ bucket' = [bucket EXCEPT ![p.version] = Nothing]
  /\ packages' = packages \ {p}
  /\ \/ rollout' = [rollout EXCEPT ![p.version] = FALSE]
     \/ /\ \E q \in packages \ {p} : q.version = p.version
        /\ UNCHANGED rollout
  /\ UNCHANGED <<uploads, nextId>>

\* POST, PATCH and DELETE /deployments.  The push of check_update that POST
\* makes is the "command" updater, which may start at any time.
Deploy(v) ==
  /\ \E p \in packages : p.version = v
  /\ rollout' = [rollout EXCEPT ![v] = ~@]
  /\ UNCHANGED <<packages, uploads, nextId, bucket>>

-----------------------------------------------------------------------------
(* The agent. *)

Newest(P) == CHOOSE p \in P : \A q \in P : q.id <= p.id

\* GET /update: the newest package, unless it is the version the agent runs or
\* no deployment covers the device.
Offered ==
  /\ packages # {}
  /\ Newest(packages).version # Stamp[running]
  /\ rollout[Newest(packages).version]

Become(u, s) ==
  job' = [job EXCEPT ![u] = IF s = "idle" THEN Idle ELSE [@ EXCEPT !.at = s]]

\* GET /api/content/ota/:id: the row names the key of the object.
Fetched(u) == IF job[u].offer \in packages THEN bucket[job[u].offer.version]
                                           ELSE Nothing

CheckUpdate(u) ==
  /\ running # Nothing /\ ~leaving /\ job[u] = Idle
  /\ Offered
  /\ job' = [job EXCEPT ![u] = [Idle EXCEPT !.at = "fetch",
                                            !.offer = Newest(packages)]]
  /\ UNCHANGED <<server, installed, running, staged, leaving>>

\* Updaters that have their hands on the staged file.
Busy == {u \in Updater : job[u].at \notin {"idle", "fetch", "restart"}}

\* DownloadTo up to os.Create, which truncates whatever another updater left
\* or is writing.  Without the object there is a 404 and no file.
Download(u) ==
  /\ job[u].at = "fetch"
  /\ IF Fetched(u) = Nothing
       THEN UNCHANGED staged /\ Become(u, "idle")
       ELSE /\ staged' = Fetched(u)
            /\ job' = [v \in Updater |->
                 IF v = u THEN [job[v] EXCEPT !.at = "copy",
                                              !.disturbed = Busy # {}]
                 ELSE [job[v] EXCEPT !.disturbed = @ \/ v \in Busy]]
  /\ UNCHANGED <<server, installed, running, leaving>>

\* io.Copy ends.  Two writers in one file mix their bytes; a file the other has
\* removed stays removed; a broken connection removes nothing.
CopyDone(u) ==
  /\ job[u].at = "copy"
  /\ \/ /\ staged' \in {staged} \cup IF job[u].disturbed /\ staged # Nothing
                                      THEN {Broken} ELSE {}
        /\ Become(u, "verify")
     \/ staged' = (IF staged = Nothing THEN Nothing ELSE Broken) /\ Become(u, "idle")
  /\ UNCHANGED <<server, installed, running, leaving>>

\* What a reader of the staged file finds: a file being written is incomplete.
Content == IF staged # Nothing /\ \E v \in Updater : job[v].at = "copy"
             THEN Broken ELSE staged

\* Mutant of Verify: the checksum is not compared.
VerifyNothing(u) ==
  /\ job[u].at = "verify"
  /\ Become(u, IF Content # Nothing THEN "install" ELSE "remove")
  /\ UNCHANGED <<server, installed, running, staged, leaving>>

\* The checksum of the bytes read back from the staged file.
Verify(u) ==
  /\ job[u].at = "verify"
  /\ Become(u, IF Content = job[u].offer.checksum THEN "install" ELSE "remove")
  /\ UNCHANGED <<server, installed, running, staged, leaving>>

\* installBinary: the root helper copies the staged file as it is by now; when
\* the helper fails the verified bytes in memory are renamed into place, if the
\* agent may write there.
Install(u) ==
  /\ job[u].at = "install"
  /\ \/ Content # Nothing /\ installed' = Content /\ Become(u, "cleanup")
     \/ installed' = job[u].offer.checksum /\ Become(u, "cleanup")
     \/ UNCHANGED installed /\ Become(u, "remove")
  /\ UNCHANGED <<server, running, staged, leaving>>

\* The deferred os.Remove.
RemoveStaged(u) ==
  /\ job[u].at \in {"remove", "cleanup"}
  /\ staged' = Nothing
  /\ Become(u, IF job[u].at = "cleanup" THEN "restart" ELSE "idle")
  /\ UNCHANGED <<server, installed, running, leaving>>

\* Mutant of Restart: the caller forgets to ask for the shutdown.
RestartForgotten(u) ==
  /\ job[u].at = "restart"
  /\ Become(u, "idle")
  /\ UNCHANGED <<server, installed, running, staged, leaving>>

\* autoUpdate, or check_update 250ms after its ack: RequestShutdown.
Restart(u) ==
  /\ job[u].at = "restart"
  /\ leaving' = TRUE
  /\ Become(u, "idle")
  /\ UNCHANGED <<server, installed, running, staged>>

\* Run returns: shutdown() waits for the loops and for the command in hand.
Exit ==
  /\ leaving /\ running # Nothing
  /\ \A u \in Updater : job[u] = Idle
  /\ running' = Nothing /\ leaving' = FALSE
  /\ UNCHANGED <<server, installed, staged, job>>

\* The process is killed, or the power fails: /tmp may survive.
Crash ==
  /\ running # Nothing
  /\ running' = Nothing /\ leaving' = FALSE
  /\ job' = [u \in Updater |-> Idle]
  /\ staged' \in {Content, Nothing}
  /\ UNCHANGED <<server, installed>>

\* .xinitrc starts the installed file over and over; one that is no build does
\* not run.
Start ==
  /\ running = Nothing /\ installed # Broken
  /\ running' = installed
  /\ UNCHANGED <<server, installed, staged, job, leaving>>

Progress(u) ==
  \/ CheckUpdate(u) \/ Download(u) \/ CopyDone(u) \/ Verify(u)
  \/ Install(u) \/ RemoveStaged(u) \/ Restart(u)

Console ==
  /\ \/ \E b \in Build : PutObject(b) \/ InsertPackage(b)
     \/ \E p \in packages : DeletePackage(p)
     \/ \E v \in Version : Deploy(v)
  /\ UNCHANGED <<installed, running, staged, job, leaving>>

UpdateNext ==
  Console \/ (\E u \in Updater : Progress(u)) \/ Exit \/ Crash \/ Start

UpdateSpec == UpdateInit /\ [][UpdateNext]_updateVars

-----------------------------------------------------------------------------
(* Properties. *)

\* What is installed passed the checksum of the offer it came from ("if
\* authorized + verified, installs"), with the one exception the shared staging
\* path leaves open: a second update in flight between the check and the copy.
VerifiedInstall ==
  [][\A u \in Updater : Install(u) /\ installed' # installed =>
       installed' = job[u].offer.checksum \/ job[u].disturbed]_updateVars

\* The newest release is good when it covers the device and its object is the
\* one its row was made for.
GoodRelease ==
  /\ packages # {}
  /\ rollout[Newest(packages).version]
  /\ bucket[Newest(packages).version] = Newest(packages).checksum

\* What the operator, the network and the power supply stop doing sooner or later.
Disturb ==
  \/ Crash
  \/ \E u \in Updater :
       \/ u # "loop" /\ CheckUpdate(u)
       \/ CopyDone(u) /\ job'[u].at = "idle"
       \/ Install(u) /\ job'[u].at = "remove"

\* A device that is covered by a good release ends up running that version,
\* whatever crashes, failed downloads and overlapping updates went before,
\* unless they left a broken file where the agent is started from.
Updated ==
  <>[]GoodRelease /\ <>[][~Disturb]_updateVars =>
    []<>\/ installed = Broken
        \/ /\ running # Nothing /\ packages # {}
           /\ Stamp[running] = Newest(packages).version
=============================================================================
