------------------------------ MODULE KioskPlayer ------------------------------
(***************************************************************************)
(* What a kiosk shows and what it keeps on disk: syncTarget, the Player's  *)
(* SetTarget and the CacheManager of the agent, against a server whose     *)
(* resolved target and media files change at any time.                     *)
(*                                                                         *)
(* Two goroutines sync: the target-sync loop and the reload command.  Each *)
(* fetches before it takes updateMu.  A target stands for its (kind,       *)
(* revision) pair, a cache file for its key (scene revision, media id).    *)
(* The legacy kind "playlist" is left out: resolveTarget never returns it. *)
(* A leftover .part counts with the size of the whole file, and no two     *)
(* files are of the same age: the agent writes one at a time.              *)
(***************************************************************************)
EXTENDS Integers, Sequences, FiniteSets

CONSTANTS
  Scene,       \* published scene revisions
  Media,       \* media ids
  MediaOf,     \* MediaOf[s]: the media the scene refers to
  Target,      \* what the device may resolve to
  Syncer,      \* the goroutines that call syncTarget
  Size,        \* Size[m]: bytes of the media file
  Revised,     \* the media that are given new versions
  MaxBytes,    \* CacheMaxBytes; 0 is no cap
  MayCrash,    \* may the agent process die and restart?
  DiskFaults   \* may reading the directory or removing a file fail?

Blank == [kind |-> "none", scenes |-> << >>]

ASSUME SceneAssumption ==
  /\ MediaOf \in [Scene -> SUBSET Media]
  /\ Blank \in Target
  /\ Target \subseteq [kind : {"none", "scene", "scene_playlist"}, scenes : Seq(Scene)]
  /\ \A t \in Target : t.kind = "none" => t = Blank

ASSUME SizeAssumption ==
  /\ Size \in [Media -> Nat \ {0}]
  /\ MaxBytes \in Nat /\ MayCrash \in BOOLEAN /\ DiskFaults \in BOOLEAN
  /\ IsFiniteSet(Scene) /\ IsFiniteSet(Media) /\ Revised \subseteq Media

Key == Scene \X Media

\* sceneRefs over the scenes of a target: the first scene that names a media
\* id decides under which key the file is cached (Prepare skips known ids).
Refs(t) ==
  { k \in Key :
      \E i \in DOMAIN t.scenes :
        /\ t.scenes[i] = k[1] /\ k[2] \in MediaOf[k[1]]
        /\ \A j \in 1 .. (i - 1) : k[2] \notin MediaOf[t.scenes[j]] }

VARIABLES
  serverTarget,  \* what GET /api/agent/target resolves to
  pc,            \* pc[y]: where the syncer stands in SetTarget
  job,           \* job[y]: the target it fetched
  todo,          \* todo[y]: refs Prepare still has to look at
  target,        \* Player.target
  fileMap,       \* Player.fileMap, as the set of cached keys it serves
  curSet,        \* CacheManager.curSet
  prevSet,       \* CacheManager.prevSet
  disk,          \* the cache directory: keys with a file
  parts,         \* keys with a .part file
  stale,         \* files whose bytes the server has replaced since
  older,         \* <<j, k>>: file j was written before file k (ModTime)
  walk,          \* files the loop of enforceCapLocked has not come to yet
  total,         \* the bytes it counts as used
  stuck          \* history: files it could not remove or did not get to list

syncing  == <<pc, job, todo>>
shown    == <<target, fileMap>>
files    == <<disk, parts, stale, older>>
eviction == <<walk, total, stuck>>
cache    == <<curSet, prevSet, files, eviction>>
vars     == <<serverTarget, syncing, shown, cache>>

Dir == disk \cup parts  \* what ReadDir lists

TypeOK ==
  /\ serverTarget \in Target
  /\ pc \in [Syncer ->
              {"idle", "fetched", "prepare", "download", "commit", "evict"}]
  /\ job \in [Syncer -> Target]
  /\ todo \in [Syncer -> SUBSET Key]
  /\ target \in Target
  /\ fileMap \subseteq Key
  /\ curSet \subseteq Key /\ prevSet \subseteq Key
  /\ disk \subseteq Key /\ parts \subseteq Key /\ disk \cap parts = {}
  /\ stale \subseteq Dir /\ older \subseteq Dir \X Dir
  /\ walk \subseteq Key /\ stuck \subseteq Key
  /\ total \in Int

\* A fresh image: nothing is cached.
Init ==
  /\ serverTarget \in Target
  /\ pc = [y \in Syncer |-> "idle"]
  /\ job = [y \in Syncer |-> Blank]
  /\ todo = [y \in Syncer |-> {}]
  /\ target = Blank /\ fileMap = {}
  /\ curSet = {} /\ prevSet = {}
  /\ disk = {} /\ parts = {} /\ stale = {} /\ older = {}
  /\ walk = {} /\ total = 0 /\ stuck = {}

-----------------------------------------------------------------------------
(* The server. *)

Retarget(t) ==  \* a schedule, an assignment or a publication changes
  /\ t # serverTarget
  /\ serverTarget' = t
  /\ UNCHANGED <<syncing, shown, cache>>

ReplaceMedia(m) ==  \* PUT /api/media/:id/version: same URL, new bytes
  /\ stale' = stale \cup { k \in Dir : k[2] = m }
  /\ UNCHANGED <<serverTarget, syncing, shown, curSet, prevSet, disk, parts,
                 older, eviction>>

-----------------------------------------------------------------------------
(* The agent. *)

Critical(y) == pc[y] \in {"prepare", "download", "commit", "evict"}
NotLocked   == FALSE  \* mutant of Locked: SetTarget without updateMu
Locked      == \E y \in Syncer : Critical(y)  \* updateMu is held

Goto(y, label) == pc' = [pc EXCEPT ![y] = label]

\* syncTarget returns: what it fetched goes out of scope.
Return(y) ==
  /\ Goto(y, "idle")
  /\ job' = [job EXCEPT ![y] = Blank]
  /\ todo' = [todo EXCEPT ![y] = {}]

\* GetTarget answered; an error leaves everything as it is.
Fetch(y) ==
  /\ pc[y] = "idle"
  /\ Goto(y, "fetched")
  /\ job' = [job EXCEPT ![y] = serverTarget]
  /\ UNCHANGED <<serverTarget, todo, shown, cache>>

\* The swap under Player.mu: target and file map change together.
Show(t) ==
  /\ target' = t
  /\ fileMap' = Refs(t)

\* Mutant of SameRevision: two scenes of different revisions are the same.
SameKind(y)     == job[y].kind # "none" /\ job[y].kind = target.kind
SameRevision(y) == job[y].kind # "none" /\ job[y] = target

\* SetTarget takes updateMu: nothing to show, nothing new, or media to cache.
ClearTarget(y) ==
  /\ pc[y] = "fetched" /\ ~Locked
  /\ job[y].kind = "none"
  /\ Show(job[y])
  /\ Goto(y, "commit")
  /\ UNCHANGED <<serverTarget, job, todo, cache>>

KeepTarget(y) ==
  /\ pc[y] = "fetched" /\ ~Locked
  /\ SameRevision(y)
  /\ Return(y)
  /\ UNCHANGED <<serverTarget, shown, cache>>

Prepare(y) ==
  /\ pc[y] = "fetched" /\ ~Locked
  /\ job[y].kind # "none" /\ ~SameRevision(y)
  /\ Goto(y, "prepare")
  /\ todo' = [todo EXCEPT ![y] = Refs(job[y])]
  /\ UNCHANGED <<serverTarget, job, shown, cache>>

\* A non-empty file under the final name is taken as it is.
Reuse(y, k) ==
  /\ pc[y] = "prepare" /\ k \in todo[y]
  /\ k \in disk
  /\ todo' = [todo EXCEPT ![y] = @ \ {k}]
  /\ UNCHANGED <<serverTarget, pc, job, shown, cache>>

\* Files are removed: those in S stay.
Keep(S) ==
  /\ disk' = disk \cap S /\ parts' = parts \cap S
  /\ stale' = stale \cap S
  /\ older' = older \cap (S \X S)

\* The others are streamed into a .part file, which is then the newest ...
DownloadStarts(y, k) ==
  /\ pc[y] = "prepare" /\ k \in todo[y]
  /\ k \notin disk
  /\ Goto(y, "download")
  /\ parts' = parts \cup {k}
  /\ stale' = stale \ {k}
  /\ older' = { e \in older : k \notin {e[1], e[2]} } \cup ((Dir \ {k}) \X {k})
  /\ UNCHANGED <<serverTarget, job, todo, shown, curSet, prevSet, disk, eviction>>

\* ... that is renamed once it is whole.
DownloadEnds(y, k) ==
  /\ pc[y] = "download" /\ k \in (todo[y] \cap parts) \ disk
  /\ Goto(y, "prepare")
  /\ todo' = [todo EXCEPT ![y] = @ \ {k}]
  /\ disk' = disk \cup {k}
  /\ parts' = parts \ {k}
  /\ UNCHANGED <<serverTarget, job, shown, curSet, prevSet, stale, older, eviction>>

\* A download or rename error ends SetTarget: what was finished stays on disk,
\* and the .part file too if it cannot be removed.
DownloadFails(y, k) ==
  /\ pc[y] = "download" /\ k \in (todo[y] \cap parts) \ disk
  /\ Return(y)
  /\ Keep(Dir \ {k}) \/ (DiskFaults /\ UNCHANGED files)
  /\ UNCHANGED <<serverTarget, shown, curSet, prevSet, eviction>>

\* Mutant of Swap: the screen does not wait for the downloads.
SwapEarly(y) ==
  /\ pc[y] = "prepare"
  /\ Show(job[y])
  /\ Goto(y, "commit")
  /\ UNCHANGED <<serverTarget, job, todo, cache>>

Swap(y) ==
  /\ pc[y] = "prepare" /\ todo[y] = {}
  /\ Show(job[y])
  /\ Goto(y, "commit")
  /\ UNCHANGED <<serverTarget, job, todo, cache>>

\* The bytes of a set of files, counted one by one.
Blocks(keys) == UNION { {k} \X (1 .. Size[k[2]]) : k \in keys }
Bytes(keys)  == Cardinality(Blocks(keys))

\* enforceCapLocked lists the files that gcLocked left and sums them up; without
\* a cap, or when the directory cannot be read, it returns.
List(left) ==
  \/ /\ MaxBytes = 0
     /\ walk' = {} /\ total' = 0 /\ stuck' = {}
  \/ /\ MaxBytes # 0
     /\ walk' = left /\ total' = Bytes(left) /\ stuck' = {}
  \/ /\ MaxBytes # 0 /\ DiskFaults
     /\ walk' = {} /\ total' = 0 /\ stuck' = left

\* Commit(pathsOf(fileMap)): rotate the two sets; gcLocked removes what neither
\* needs, the .part files included, but for the files it fails to remove.
Commit(y) ==
  /\ pc[y] = "commit"
  /\ Goto(y, "evict")
  /\ curSet' = fileMap /\ prevSet' = curSet
  /\ LET needed == disk \cap (fileMap \cup curSet)
     IN  \E left \in SUBSET (Dir \ needed) :
           /\ left # {} => DiskFaults
           /\ Keep(needed \cup left)
           /\ List(needed \cup left)
  /\ UNCHANGED <<serverTarget, job, todo, shown>>

\* The loop goes from the oldest file to the newest while the rest is too big.
Comes(y, k) ==
  /\ pc[y] = "evict" /\ total > MaxBytes
  /\ k \in walk /\ \A j \in walk : <<j, k>> \notin older
  /\ walk' = walk \ {k}

\* What the current target needs is passed over ...
PassOver(y, k) ==
  /\ Comes(y, k) /\ k \in curSet
  /\ UNCHANGED <<serverTarget, syncing, shown, curSet, prevSet, files, total, stuck>>

\* ... any other file is removed ...
Evict(y, k) ==
  /\ Comes(y, k) /\ k \notin curSet
  /\ Keep(Dir \ {k})
  /\ total' = total - Size[k[2]]
  /\ prevSet' = prevSet \ {k}
  /\ UNCHANGED <<serverTarget, syncing, shown, curSet, stuck>>

\* Mutant of EvictFails: the size is taken off whether the file is gone or not.
EvictCounts(y, k) ==
  /\ Comes(y, k) /\ k \notin curSet
  /\ DiskFaults
  /\ total' = total - Size[k[2]]
  /\ stuck' = stuck \cup {k}
  /\ UNCHANGED <<serverTarget, syncing, shown, curSet, prevSet, files>>

\* ... or stays, when os.Remove fails, and still counts.
EvictFails(y, k) ==
  /\ Comes(y, k) /\ k \notin curSet
  /\ DiskFaults
  /\ stuck' = stuck \cup {k}
  /\ UNCHANGED <<serverTarget, syncing, shown, curSet, prevSet, files, total>>

\* The rest fits or there is no file left to look at: SetTarget returns.
CommitEnds(y) ==
  /\ pc[y] = "evict" /\ (total <= MaxBytes \/ walk = {})
  /\ Return(y)
  /\ walk' = {} /\ total' = 0 /\ stuck' = {}
  /\ UNCHANGED <<serverTarget, shown, curSet, prevSet, files>>

\* The process dies (OTA install, reboot, panic) and starts again with an empty
\* Player and CacheManager over the same directory.
Restart ==
  /\ MayCrash
  /\ pc' = [y \in Syncer |-> "idle"]
  /\ job' = [y \in Syncer |-> Blank] /\ todo' = [y \in Syncer |-> {}]
  /\ target' = Blank /\ fileMap' = {}
  /\ curSet' = {} /\ prevSet' = {}
  /\ walk' = {} /\ total' = 0 /\ stuck' = {}
  /\ UNCHANGED <<serverTarget, files>>

SetTarget(y) ==
  \/ ClearTarget(y) \/ KeepTarget(y) \/ Prepare(y) \/ Swap(y)
  \/ Commit(y) \/ CommitEnds(y)
  \/ \E k \in Key : \/ Reuse(y, k) \/ DownloadStarts(y, k)
                    \/ PassOver(y, k) \/ Evict(y, k) \/ EvictFails(y, k)

Next ==
  \/ \E t \in Target : Retarget(t)
  \/ \E m \in Revised : ReplaceMedia(m)
  \/ \E y \in Syncer : Fetch(y) \/ SetTarget(y)
  \/ \E y \in Syncer, k \in Key : DownloadEnds(y, k) \/ DownloadFails(y, k)
  \/ Restart

Spec == Init /\ [][Next]_vars

\* Goroutines run, the poll loop keeps polling, and a download that is retried
\* for ever succeeds in the end.
FairSpec ==
  /\ Spec
  /\ \A y \in Syncer :
       /\ WF_vars(Fetch(y)) /\ SF_vars(SetTarget(y))
       /\ SF_vars(\E k \in Key : DownloadEnds(y, k))

-----------------------------------------------------------------------------
(* Properties. *)

\* handleMedia finds every file the target on screen refers to: no failed
\* switch, concurrent sync, garbage collection, eviction or restart takes one
\* away (SetTarget: "cached to completion before the swap";
\* Prepare: "a failed switch never corrupts what is on screen").
Servable == \A k \in Refs(target) : k \in fileMap \cap disk

\* The eviction loop keeps its books: a file goes only while the directory really
\* is over the cap and every older one still there is on screen or could not be
\* removed; and when Commit is done the directory fits, or nothing is left in it
\* but what is on screen and what the disk refused to give up (enforceCapLocked:
\* "evicts previous-only files, oldest-first, until usage is within the cap").
CapAfterCommit ==
  [][\A y \in Syncer :
       /\ CommitEnds(y) => \/ MaxBytes = 0 \/ Bytes(Dir) <= MaxBytes
                           \/ Dir \subseteq fileMap \cup stuck
       /\ \A k \in Key : Evict(y, k) =>
            /\ Bytes(Dir) > MaxBytes
            /\ \A j \in Dir : <<j, k>> \in older => j \in fileMap \cup stuck]_vars

\* The whole promise at once (KioskScreen): between two targets the screen
\* switches in one step, to an answer of the server nobody has shown yet, with
\* every file of it on disk, and nothing the cache does in between takes a file of
\* what is shown away (SetTarget: "cached to completion before the swap, so a
\* failed download leaves the screen unchanged").
Pending == [y \in Syncer |-> IF pc[y] \in {"fetched", "prepare", "download"}
                               THEN {job[y]} ELSE {}]

Promise == INSTANCE KioskScreen
            WITH Nothing <- Blank, Needs <- [t \in Target |-> Refs(t)],
                 wanted <- serverTarget, answer <- Pending,
                 shown <- target, have <- disk

ImplementsScreen == Promise!ScreenSpec

\* If the server settles on a target, the kiosk ends up showing it, although a
\* reload that fetched earlier may still put an older one on screen meanwhile;
\* unless the agent keeps dying.
Converges ==
  \A t \in Target :
    <>[](serverTarget = t) => <>[](target = t) \/ []<><<Restart>>_vars

\* playlistRefs: "a content change downloads fresh files": a sync that reports
\* success leaves the current bytes of every media file on disk.
SyncBringsFresh ==
  [][\A y \in Syncer : KeepTarget(y) =>
       fileMap \cap stale = {}]_vars
=============================================================================
