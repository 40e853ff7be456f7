--------------------------- MODULE KioskPlayerProofs ---------------------------
(***************************************************************************)
(* What holds of KioskPlayer for all scenes, media, targets, caps and any  *)
(* number of concurrent syncs.                                             *)
(***************************************************************************)
EXTENDS KioskPlayer, FiniteSetTheorems, TLAPS

\* Refs returns cache keys, and the blank target needs none.
LEMMA RefsAreKeys ==
  /\ \A t : Refs(t) \subseteq Key
  /\ Blank \in Target /\ Refs(Blank) = {}
BY SceneAssumption DEF Refs, Blank

\* A set of cache files has finitely many bytes.
LEMMA BytesCount ==
  ASSUME NEW S \in SUBSET Key
  PROVE  IsFiniteSet(Blocks(S)) /\ Bytes(S) \in Nat
<1> DEFINE blocks == [k \in S |-> {k} \X (1 .. Size[k[2]])]
           all    == { {k} \X (1 .. Size[k[2]]) : k \in S }
<1>1. IsFiniteSet(S)
  BY FS_Product, FS_Subset, SizeAssumption DEF Key
<1>2. blocks \in Surjection(S, all)
  BY DEF Surjection
<1>3. IsFiniteSet(all)
  BY <1>1, <1>2, FS_Surjection
<1>4. ASSUME NEW k \in S PROVE IsFiniteSet({k} \X (1 .. Size[k[2]]))
  <2>1. Size[k[2]] \in Nat
    BY SizeAssumption DEF Key
  <2>2. 1 \in Int /\ Size[k[2]] \in Int
    BY <2>1
  <2>3. IsFiniteSet(1 .. Size[k[2]])
    BY <2>2, FS_Interval
  <2>4. IsFiniteSet({k})
    BY FS_Singleton
  <2> QED
    BY <2>3, <2>4, FS_Product
<1>5. IsFiniteSet(UNION all)
  BY <1>3, <1>4, FS_UNION
<1> QED
  BY <1>5, FS_CardinalityType DEF Blocks, Bytes

\* A file that goes takes its bytes along.
LEMMA BytesWithout ==
  ASSUME NEW S \in SUBSET Key, NEW k \in S
  PROVE  Bytes(S \ {k}) = Bytes(S) - Size[k[2]]
<1> DEFINE own  == {k} \X (1 .. Size[k[2]])
           rest == Blocks(S \ {k})
<1>1. Size[k[2]] \in Nat
  BY SizeAssumption DEF Key
<1>2. IsFiniteSet(own) /\ Cardinality(own) = Size[k[2]]
  <2> DEFINE n == Size[k[2]]
  <2> HIDE DEF n
  <2>0. 1 \in Int /\ n \in Int /\ n >= 0
    BY <1>1 DEF n
  <2>1. IsFiniteSet(1 .. n) /\ Cardinality(1 .. n) = IF 1 > n THEN 0 ELSE n - 1 + 1
    BY <2>0, FS_Interval
  <2>2. Cardinality(1 .. n) = n
    BY <2>0, <2>1
  <2>3. IsFiniteSet({k}) /\ Cardinality({k}) = 1
    BY FS_Singleton
  <2>4. /\ IsFiniteSet({k} \X (1 .. n))
        /\ Cardinality({k} \X (1 .. n)) = Cardinality({k}) * Cardinality(1 .. n)
    BY <2>1, <2>3, FS_Product
  <2> QED
    BY <2>0, <2>2, <2>3, <2>4 DEF n
<1>3. IsFiniteSet(rest) /\ Cardinality(rest) \in Nat
  BY BytesCount DEF Bytes
<1>4. Blocks(S) = rest \cup own
  BY DEF Blocks
<1>5. rest \cap own = {}
  BY DEF Blocks
<1> HIDE DEF own, rest
<1>6. Cardinality(rest \cup own)
        = Cardinality(rest) + Cardinality(own) - Cardinality(rest \cap own)
  BY <1>2, <1>3, FS_Union
<1> QED
  <2>1. Cardinality(rest \cap own) = 0
    BY <1>5, FS_EmptySet
  <2>2. Cardinality(Blocks(S)) = Cardinality(rest) + Size[k[2]]
    BY <1>1, <1>2, <1>3, <1>4, <1>6, <2>1
  <2> QED
    BY <1>1, <1>3, <2>2 DEF Bytes, rest

\* What stays of the directory when some files are removed.
LEMMA Kept ==
  ASSUME TypeOK, NEW S \in SUBSET Dir, Keep(S)
  PROVE  /\ Dir' = S
         /\ disk' \subseteq disk /\ parts' \subseteq parts
         /\ stale' \subseteq Dir' /\ older' \subseteq Dir' \X Dir'
BY DEF Keep, Dir, TypeOK

-----------------------------------------------------------------------------
\* Every reachable state is well-typed.
THEOREM TypeCorrect == Spec => []TypeOK
<1>1. Init => TypeOK
  BY RefsAreKeys DEF Init, TypeOK
<1>2. TypeOK /\ [Next]_vars => TypeOK'
  <2> SUFFICES ASSUME TypeOK, [Next]_vars PROVE TypeOK'
    OBVIOUS
  <2> USE DEF TypeOK, syncing, shown, cache, files, eviction, Goto, Return, Show
  <2>1. ASSUME NEW t \in Target, Retarget(t) PROVE TypeOK'
    BY <2>1 DEF Retarget, Dir
  <2>2. ASSUME NEW m \in Media, ReplaceMedia(m) PROVE TypeOK'
    BY <2>2 DEF ReplaceMedia, Dir
  <2>3. ASSUME NEW y \in Syncer, Fetch(y) PROVE TypeOK'
    BY <2>3 DEF Fetch, Dir
  <2>4. ASSUME NEW y \in Syncer, ClearTarget(y) PROVE TypeOK'
    BY <2>4, RefsAreKeys DEF ClearTarget, Dir
  <2>5. ASSUME NEW y \in Syncer, KeepTarget(y) PROVE TypeOK'
    BY <2>5, RefsAreKeys DEF KeepTarget, Dir
  <2>6. ASSUME NEW y \in Syncer, Prepare(y) PROVE TypeOK'
    BY <2>6, RefsAreKeys DEF Prepare, Dir
  <2>7. ASSUME NEW y \in Syncer, Swap(y) PROVE TypeOK'
    BY <2>7, RefsAreKeys DEF Swap, Dir
  <2>8. ASSUME NEW y \in Syncer, Commit(y) PROVE TypeOK'
    <3>1. PICK S \in SUBSET Dir : Keep(S) /\ List(S)
      BY <2>8 DEF Commit, Dir
    <3>2. S \subseteq Key
      BY <3>1 DEF Dir
    <3>3. walk' \subseteq Key /\ stuck' \subseteq Key /\ total' \in Int
      BY <3>1, <3>2, BytesCount DEF List
    <3> QED
      BY <2>8, <3>1, <3>3, Kept, RefsAreKeys DEF Commit
  <2>9. ASSUME NEW y \in Syncer, NEW k \in Key, Reuse(y, k) PROVE TypeOK'
    BY <2>9 DEF Reuse, Dir
  <2>10. ASSUME NEW y \in Syncer, NEW k \in Key, DownloadStarts(y, k)
         PROVE  TypeOK'
    <3>1. Dir' = Dir \cup {k} /\ older' \subseteq Dir' \X Dir' /\ stale' \subseteq Dir'
      BY <2>10 DEF DownloadStarts, Dir
    <3> QED
      BY <2>10, <3>1 DEF DownloadStarts
  <2>11. ASSUME NEW y \in Syncer, NEW k \in Key, DownloadEnds(y, k)
         PROVE  TypeOK'
    <3>1. Dir' = Dir
      BY <2>11 DEF DownloadEnds, Dir
    <3> QED
      BY <2>11, <3>1 DEF DownloadEnds
  <2>12. ASSUME NEW y \in Syncer, NEW k \in Key, DownloadFails(y, k)
         PROVE  TypeOK'
    <3>1. /\ disk' \subseteq disk /\ parts' \subseteq parts
          /\ stale' \subseteq Dir' /\ older' \subseteq Dir' \X Dir'
      <4>1. CASE Keep(Dir \ {k})
        BY <4>1, Kept
      <4>2. CASE UNCHANGED files
        BY <4>2 DEF Dir
      <4> QED
        BY <2>12, <4>1, <4>2 DEF DownloadFails
    <3> QED
      BY <2>12, <3>1, RefsAreKeys DEF DownloadFails
  <2>13. ASSUME Restart PROVE TypeOK'
    BY <2>13, RefsAreKeys DEF Restart, Dir
  <2>14. ASSUME UNCHANGED vars PROVE TypeOK'
    BY <2>14 DEF vars, Dir
  <2>15. ASSUME NEW y \in Syncer, NEW k \in Key, PassOver(y, k) \/ EvictFails(y, k)
         PROVE  TypeOK'
    BY <2>15 DEF PassOver, EvictFails, Comes, Dir
  <2>16. ASSUME NEW y \in Syncer, NEW k \in Key, Evict(y, k) PROVE TypeOK'
    <3>1. Size[k[2]] \in Int
      BY SizeAssumption DEF Key
    <3>2. Keep(Dir \ {k}) /\ k \in Key
      BY <2>16 DEF Evict
    <3> QED
      BY <2>16, <3>1, <3>2, Kept DEF Evict, Comes
  <2>17. ASSUME NEW y \in Syncer, CommitEnds(y) PROVE TypeOK'
    BY <2>17, RefsAreKeys DEF CommitEnds, Dir
  <2> QED
    BY <2>1, <2>2, <2>3, <2>4, <2>5, <2>6, <2>7, <2>8, <2>9, <2>10, <2>11,
       <2>12, <2>13, <2>14, <2>15, <2>16, <2>17, SizeAssumption DEF Next, SetTarget
<1> QED
  BY <1>1, <1>2, PTL DEF Spec

-----------------------------------------------------------------------------
(* The cache keeps what is shown because updateMu lets one SetTarget at a    *)
(* time work on it, and because that one holds on to what it has prepared.   *)

Mutex == \A y, z \in Syncer : Critical(y) /\ Critical(z) => y = z

Prepared ==
  \A y \in Syncer : pc[y] \in {"prepare", "download"} =>
    Refs(job[y]) \ todo[y] \subseteq disk

OnDisk ==
  /\ fileMap = Refs(target)
  /\ fileMap \subseteq disk

\* While Commit goes through the files: what it has passed is needed or stuck, and
\* what it counts is what there is, unless there is no cap or nothing was listed.
Books ==
  \A y \in Syncer : pc[y] = "evict" =>
    /\ curSet = fileMap
    /\ \/ MaxBytes = 0 /\ total = 0
       \/ /\ Dir \ walk \subseteq fileMap \cup stuck
          /\ walk \subseteq Dir
          /\ walk = {} \/ total = Bytes(Dir)

CacheInv == TypeOK /\ Mutex /\ Prepared /\ OnDisk /\ Books

Held == Mutex /\ Prepared /\ OnDisk

\* The lock and what it guards are preserved by every step.
LEMMA HeldStep ==
  ASSUME CacheInv, [Next]_vars, TypeOK'
  PROVE  Held'
<1> TypeOK /\ Held
  BY DEF CacheInv, Held
<1> USE DEF Held, Mutex, Critical, Locked, Prepared, OnDisk, Goto, Return,
            Show, syncing, shown, cache, files, eviction
<1>1. ASSUME NEW t \in Target, Retarget(t) PROVE Held'
  BY <1>1 DEF Retarget
<1>2. ASSUME NEW m \in Media, ReplaceMedia(m) PROVE Held'
  BY <1>2 DEF ReplaceMedia
<1>3. ASSUME NEW y \in Syncer, Fetch(y) PROVE Held'
  BY <1>3 DEF Fetch, TypeOK
<1>4. ASSUME NEW y \in Syncer, ClearTarget(y) PROVE Held'
  <2>1. job[y] = Blank
    BY <1>4, SceneAssumption DEF ClearTarget, TypeOK
  <2> QED
    BY <1>4, <2>1, RefsAreKeys DEF ClearTarget, TypeOK
<1>5. ASSUME NEW y \in Syncer, KeepTarget(y) PROVE Held'
  BY <1>5 DEF KeepTarget, TypeOK
<1>6. ASSUME NEW y \in Syncer, Prepare(y) PROVE Held'
  BY <1>6 DEF Prepare, TypeOK
<1>7. ASSUME NEW y \in Syncer, Swap(y) PROVE Held'
  BY <1>7 DEF Swap, TypeOK
<1>8. ASSUME NEW y \in Syncer, Commit(y) PROVE Held'
  <2>1. PICK left : Keep((disk \cap (fileMap \cup curSet)) \cup left)
    BY <1>8 DEF Commit
  <2>2. fileMap \subseteq disk'
    BY <2>1 DEF Keep
  <2>3. \A z \in Syncer : pc'[z] \notin {"prepare", "download"}
    BY <1>8 DEF Commit, TypeOK
  <2>4. UNCHANGED <<fileMap, target>>
    BY <1>8 DEF Commit
  <2>5. Mutex'
    BY <1>8, <2>3 DEF Commit, TypeOK
  <2> QED
    BY <2>2, <2>3, <2>4, <2>5
<1>9. ASSUME NEW y \in Syncer, NEW k \in Key, Reuse(y, k) PROVE Held'
  BY <1>9 DEF Reuse, TypeOK
<1>10. ASSUME NEW y \in Syncer, NEW k \in Key, DownloadStarts(y, k)
       PROVE  Held'
  BY <1>10 DEF DownloadStarts, TypeOK
<1>11. ASSUME NEW y \in Syncer, NEW k \in Key, DownloadEnds(y, k)
       PROVE  Held'
  <2>1. /\ disk' = disk \cup {k}
        /\ UNCHANGED <<job, shown>>
        /\ pc[y] = "download"
    BY <1>11 DEF DownloadEnds
  <2>2. Prepared'
    BY <1>11, <2>1 DEF DownloadEnds, TypeOK
  <2>3. Mutex'
    BY <1>11, <2>1 DEF DownloadEnds, TypeOK
  <2> QED
    BY <2>1, <2>2, <2>3
<1>12. ASSUME NEW y \in Syncer, NEW k \in Key, DownloadFails(y, k)
       PROVE  Held'
  <2>1. pc[y] = "download" /\ Return(y) /\ UNCHANGED shown
    BY <1>12 DEF DownloadFails
  <2>2. k \notin disk /\ (Keep(Dir \ {k}) \/ UNCHANGED files)
    BY <1>12 DEF DownloadFails
  <2>3. disk' = disk
    BY <2>2 DEF Keep, Dir
  <2> QED
    BY <2>1, <2>3 DEF TypeOK
<1>13. ASSUME Restart PROVE Held'
  BY <1>13, RefsAreKeys DEF Restart, TypeOK
<1>14. ASSUME UNCHANGED vars PROVE Held'
  BY <1>14 DEF vars
<1>15. ASSUME NEW y \in Syncer, NEW k \in Key, PassOver(y, k) \/ EvictFails(y, k)
       PROVE  Held'
  BY <1>15 DEF PassOver, EvictFails
<1>16. ASSUME NEW y \in Syncer, NEW k \in Key, Evict(y, k) PROVE Held'
  <2>1. pc[y] = "evict" /\ k \notin fileMap /\ UNCHANGED <<syncing, shown>>
    BY <1>16 DEF Evict, Comes, CacheInv, Books
  <2>2. fileMap \subseteq disk'
    BY <1>16, <2>1 DEF Evict, Keep, Dir
  <2>3. \A z \in Syncer : pc[z] \notin {"prepare", "download"}
    BY <2>1
  <2> QED
    BY <2>1, <2>2, <2>3
<1>17. ASSUME NEW y \in Syncer, CommitEnds(y) PROVE Held'
  BY <1>17 DEF CommitEnds, TypeOK
<1> QED
  BY <1>1, <1>2, <1>3, <1>4, <1>5, <1>6, <1>7, <1>8, <1>9, <1>10, <1>11, <1>12,
     <1>13, <1>14, <1>15, <1>16, <1>17, SizeAssumption DEF Next, SetTarget

\* A syncer that goes through the files is the only one that touches them.
LEMMA Alone ==
  ASSUME CacheInv, NEW y \in Syncer, Critical(y), pc[y] # "evict"
  PROVE  \A z \in Syncer : pc[z] # "evict"
BY DEF CacheInv, Mutex, Critical

\* The books of the eviction loop are preserved by every step.
LEMMA BooksStep ==
  ASSUME CacheInv, [Next]_vars
  PROVE  Books'
<1> TypeOK /\ Books
  BY DEF CacheInv
<1> USE DEF Goto, Return, Show, syncing, shown, cache, files, eviction
<1>1. ASSUME \A y \in Syncer : pc'[y] # "evict" PROVE Books'
  BY <1>1 DEF Books
<1>2. ASSUME \A y \in Syncer : pc'[y] = "evict" => pc[y] = "evict",
             UNCHANGED <<fileMap, curSet, disk, parts, walk, total, stuck>>
      PROVE  Books'
  BY <1>2 DEF Books, Dir
<1>3. CASE \/ \E t \in Target : Retarget(t)
           \/ \E m \in Revised : ReplaceMedia(m)
           \/ \E y \in Syncer : Fetch(y) \/ KeepTarget(y) \/ Prepare(y)
           \/ \E y \in Syncer, k \in Key : Reuse(y, k)
           \/ UNCHANGED vars
  BY <1>2, <1>3 DEF Retarget, ReplaceMedia, Fetch, KeepTarget, Prepare, Reuse,
                    vars, TypeOK
<1>4. ASSUME NEW y \in Syncer, ClearTarget(y) PROVE Books'
  BY <1>1, <1>4 DEF ClearTarget, Locked, Critical, TypeOK
<1>5. ASSUME NEW y \in Syncer,
             \/ Swap(y)
             \/ \E k \in Key : \/ DownloadStarts(y, k) \/ DownloadEnds(y, k)
                               \/ DownloadFails(y, k)
      PROVE  Books'
  <2>1. Critical(y) /\ pc[y] # "evict"
    BY <1>5 DEF Swap, DownloadStarts, DownloadEnds, DownloadFails, Critical
  <2>2. \A z \in Syncer : pc'[z] # "evict"
    BY <1>5, <2>1, Alone DEF Swap, DownloadStarts, DownloadEnds, DownloadFails, TypeOK
  <2> QED
    BY <1>1, <2>2
<1>6. ASSUME NEW y \in Syncer, Commit(y) PROVE Books'
  <2>1. PICK S \in SUBSET Dir : Keep(S) /\ List(S)
    BY <1>6 DEF Commit, Dir
  <2>2. Dir' = S
    BY <2>1, Kept
  <2>3. curSet' = fileMap' /\ fileMap' = fileMap
    BY <1>6 DEF Commit
  <2>4. \/ MaxBytes = 0 /\ total' = 0
        \/ /\ Dir' \ walk' \subseteq fileMap' \cup stuck'
           /\ walk' \subseteq Dir'
           /\ walk' = {} \/ total' = Bytes(Dir')
    BY <2>1, <2>2 DEF List
  <2> QED
    BY <2>3, <2>4 DEF Books
<1>7. ASSUME NEW y \in Syncer, NEW k \in Key, PassOver(y, k) PROVE Books'
  <2>1. pc[y] = "evict" /\ k \in fileMap /\ k \in walk /\ walk' = walk \ {k}
    BY <1>7 DEF PassOver, Comes, Books
  <2>2. UNCHANGED <<pc, fileMap, curSet, Dir, total, stuck>>
    BY <1>7 DEF PassOver, Dir
  <2>3. \/ MaxBytes = 0 /\ total = 0
        \/ /\ Dir \ walk' \subseteq fileMap \cup stuck
           /\ walk' \subseteq Dir
           /\ walk' = {} \/ total = Bytes(Dir)
    BY <2>1 DEF Books
  <2> QED
    BY <2>2, <2>3 DEF Books
<1>8. ASSUME NEW y \in Syncer, NEW k \in Key, EvictFails(y, k) PROVE Books'
  <2>1. /\ pc[y] = "evict" /\ k \in walk /\ walk' = walk \ {k}
        /\ stuck' = stuck \cup {k}
    BY <1>8 DEF EvictFails, Comes
  <2>2. UNCHANGED <<pc, fileMap, curSet, Dir, total>>
    BY <1>8 DEF EvictFails, Dir
  <2>3. \/ MaxBytes = 0 /\ total = 0
        \/ /\ Dir \ walk' \subseteq fileMap \cup stuck'
           /\ walk' \subseteq Dir
           /\ walk' = {} \/ total = Bytes(Dir)
    BY <2>1 DEF Books
  <2> QED
    BY <2>2, <2>3 DEF Books
<1>9. ASSUME NEW y \in Syncer, NEW k \in Key, Evict(y, k) PROVE Books'
  <2>1. /\ pc[y] = "evict" /\ k \in walk /\ walk' = walk \ {k}
        /\ total > MaxBytes /\ total' = total - Size[k[2]]
        /\ UNCHANGED <<pc, fileMap, curSet, stuck>>
    BY <1>9 DEF Evict, Comes
  <2>2. Dir' = Dir \ {k}
    BY <1>9, Kept DEF Evict
  <2>3. /\ Dir \ walk \subseteq fileMap \cup stuck
        /\ walk \subseteq Dir /\ total = Bytes(Dir)
    BY <2>1, SizeAssumption DEF Books
  <2>4. Bytes(Dir') = Bytes(Dir) - Size[k[2]]
    BY <2>1, <2>2, <2>3, BytesWithout DEF TypeOK, Dir
  <2>5. /\ Dir' \ walk' \subseteq fileMap \cup stuck
        /\ walk' \subseteq Dir' /\ total' = Bytes(Dir')
    BY <2>1, <2>2, <2>3, <2>4
  <2> QED
    BY <2>1, <2>5 DEF Books
<1>10. ASSUME NEW y \in Syncer, CommitEnds(y) PROVE Books'
  <2>1. \A z \in Syncer : pc[z] = "evict" => z = y
    BY <1>10 DEF CommitEnds, CacheInv, Mutex, Critical
  <2>2. \A z \in Syncer : pc'[z] # "evict"
    BY <1>10, <2>1 DEF CommitEnds, TypeOK
  <2> QED
    BY <1>1, <2>2
<1>11. ASSUME Restart PROVE Books'
  BY <1>1, <1>11 DEF Restart
<1> QED
  <2>1. CASE \E y \in Syncer, k \in Key : DownloadEnds(y, k) \/ DownloadFails(y, k)
    BY <1>5, <2>1
  <2>2. CASE \E y \in Syncer : SetTarget(y)
    BY <1>3, <1>4, <1>5, <1>6, <1>7, <1>8, <1>9, <1>10, <2>2 DEF SetTarget
  <2> QED
    BY <1>3, <1>11, <2>1, <2>2 DEF Next

\* CacheInv holds in every reachable state.
LEMMA CacheInvariant == Spec => []CacheInv
<1>1. Init /\ TypeOK => CacheInv
  BY RefsAreKeys
     DEF Init, CacheInv, Mutex, Critical, Prepared, OnDisk, Books
<1>2. CacheInv /\ TypeOK' /\ [Next]_vars => CacheInv'
  BY HeldStep, BooksStep DEF CacheInv, Held
<1> QED
  BY <1>1, <1>2, TypeCorrect, PTL DEF Spec

\* Whatever interleaving of syncs, failed downloads, evictions and restarts, the
\* files of the target on screen are on disk and served.
THEOREM AlwaysServable == Spec => []Servable
<1>1. CacheInv => Servable
  BY DEF CacheInv, OnDisk, Servable
<1> QED
  BY <1>1, CacheInvariant, PTL

\* Whatever the disk refuses to remove, the eviction loop takes a file only while
\* the directory is over the cap, the oldest first, and when Commit is done the
\* directory fits or holds only what is on screen and what could not be removed.
THEOREM CapRespected == Spec => CapAfterCommit
<1>1. ASSUME CacheInv, NEW y \in Syncer, CommitEnds(y)
      PROVE  \/ MaxBytes = 0 \/ Bytes(Dir) <= MaxBytes
             \/ Dir \subseteq fileMap \cup stuck
  <2>1. pc[y] = "evict" /\ (total <= MaxBytes \/ walk = {})
    BY <1>1 DEF CommitEnds
  <2> QED
    BY <1>1, <2>1 DEF CacheInv, Books
<1>2. ASSUME CacheInv, NEW y \in Syncer, NEW k \in Key, Evict(y, k)
      PROVE  /\ Bytes(Dir) > MaxBytes
             /\ \A j \in Dir : <<j, k>> \in older => j \in fileMap \cup stuck
  <2>1. /\ pc[y] = "evict" /\ total > MaxBytes /\ k \in walk
        /\ \A j \in walk : <<j, k>> \notin older
    BY <1>2 DEF Evict, Comes
  <2>2. total = Bytes(Dir) /\ Dir \ walk \subseteq fileMap \cup stuck
    BY <1>2, <2>1, SizeAssumption DEF CacheInv, Books
  <2> QED
    BY <2>1, <2>2
<1>3. CacheInv /\ [Next]_vars =>
        [\A y \in Syncer :
           /\ CommitEnds(y) => \/ MaxBytes = 0 \/ Bytes(Dir) <= MaxBytes
                               \/ Dir \subseteq fileMap \cup stuck
           /\ \A k \in Key : Evict(y, k) =>
                /\ Bytes(Dir) > MaxBytes
                /\ \A j \in Dir : <<j, k>> \in older => j \in fileMap \cup stuck]_vars
  BY <1>1, <1>2
<1> QED
  BY <1>3, CacheInvariant, PTL DEF Spec, CapAfterCommit

-----------------------------------------------------------------------------
(* KioskPlayer implements KioskScreen.                                       *)

\* What the abstract player knows of the files of a target.
LEMMA NeedsAreRefs ==
  \A t \in Target : [x \in Target |-> Refs(x)][t] = Refs(t)
OBVIOUS

Switched(y) == ClearTarget(y) \/ Swap(y)

\* Every step of the player is a step of the promise or leaves it alone: the
\* invariant says that what was prepared, and what is shown, is on disk.
LEMMA PromiseStep ==
  ASSUME CacheInv, CacheInv', TypeOK, TypeOK', [Next]_vars
  PROVE  [Promise!ScreenNext]_(Promise!screenVars)
<1> USE DEF Promise!screenVars
<1> DEFINE PN == Promise!ScreenNext
<1>1. ASSUME UNCHANGED <<serverTarget, Pending, target, disk>>
      PROVE  [Promise!ScreenNext]_(Promise!screenVars)
  BY <1>1
<1>2. ASSUME UNCHANGED <<serverTarget, Pending, target>>
      PROVE  PN
  <2>1. Refs(target) \subseteq disk'
    BY <1>2 DEF CacheInv, OnDisk
  <2>2. Promise!KeepHouse
    BY <1>2, <2>1, NeedsAreRefs DEF Promise!KeepHouse, TypeOK
  <2> QED
    BY <2>2 DEF Promise!ScreenNext
<1>3. ASSUME NEW t \in Target, Retarget(t) PROVE PN
  <2>1. UNCHANGED Pending
    BY <1>3 DEF Retarget, Pending, syncing
  <2>2. Promise!Want(t)
    BY <1>3, <2>1 DEF Retarget, shown, cache, files, Promise!Want
  <2> QED
    BY <2>2 DEF Promise!ScreenNext
<1>4. ASSUME NEW y \in Syncer, Fetch(y) PROVE PN
  <2>1. Pending[y] = {} /\ Pending' = [Pending EXCEPT ![y] = {serverTarget}]
    BY <1>4 DEF Fetch, Goto, Pending, TypeOK
  <2>2. Promise!Ask(y)
    BY <1>4, <2>1 DEF Fetch, shown, cache, files, Promise!Ask
  <2> QED
    BY <2>2 DEF Promise!ScreenNext
<1>5. ASSUME NEW y \in Syncer, Switched(y) PROVE PN
  <2>1. /\ Pending[y] = {job[y]} /\ Pending' = [Pending EXCEPT ![y] = {}]
        /\ target' = job[y] /\ UNCHANGED <<serverTarget, disk>>
    BY <1>5 DEF Switched, ClearTarget, Swap, Goto, Show, Pending, cache, files, TypeOK
  <2>2. Refs(job[y]) \subseteq disk
    <3>1. CASE ClearTarget(y)
      BY <3>1, RefsAreKeys, SceneAssumption DEF ClearTarget, TypeOK
    <3>2. CASE Swap(y)
      BY <3>2 DEF Swap, CacheInv, Prepared
    <3> QED
      BY <1>5, <3>1, <3>2 DEF Switched
  <2>3. Promise!Switch(y)
    BY <2>1, <2>2, NeedsAreRefs DEF Promise!Switch, TypeOK
  <2> QED
    BY <2>3 DEF Promise!ScreenNext
<1>6. ASSUME NEW y \in Syncer,
             KeepTarget(y) \/ \E k \in Key : DownloadFails(y, k)
      PROVE  PN
  <2>1. Return(y) /\ UNCHANGED <<serverTarget, target, disk>>
    BY <1>6 DEF KeepTarget, DownloadFails, Keep, Dir, shown, cache, files
  <2>2. Pending' = [Pending EXCEPT ![y] = {}]
    BY <2>1 DEF Return, Goto, Pending, TypeOK
  <2>3. Promise!GiveUp(y)
    BY <2>1, <2>2 DEF Promise!GiveUp
  <2> QED
    BY <2>3 DEF Promise!ScreenNext
<1>7. ASSUME NEW y \in Syncer,
             Prepare(y) \/ \E k \in Key : Reuse(y, k) \/ DownloadStarts(y, k)
      PROVE  UNCHANGED <<serverTarget, Pending, target, disk>>
  <2>1. UNCHANGED <<serverTarget, job, target, disk>>
    BY <1>7 DEF Prepare, Reuse, DownloadStarts, shown, cache, files
  <2>2. \A z \in Syncer : (pc'[z] \in {"fetched", "prepare", "download"})
                           <=> (pc[z] \in {"fetched", "prepare", "download"})
    BY <1>7 DEF Prepare, Reuse, DownloadStarts, Goto, TypeOK
  <2> QED
    BY <2>1, <2>2 DEF Pending
<1>8. ASSUME NEW y \in Syncer,
             \/ Commit(y) \/ CommitEnds(y)
             \/ \E k \in Key : \/ DownloadEnds(y, k) \/ PassOver(y, k)
                               \/ Evict(y, k) \/ EvictFails(y, k)
      PROVE  UNCHANGED <<serverTarget, Pending, target>>
  <2> USE DEF Commit, CommitEnds, DownloadEnds, PassOver, Evict, EvictFails, Comes
  <2>1. UNCHANGED <<serverTarget, target>>
    BY <1>8 DEF shown
  <2>2. UNCHANGED Pending
    BY <1>8 DEF Return, Goto, Pending, TypeOK, syncing
  <2> QED
    BY <2>1, <2>2
<1>9. ASSUME Restart PROVE PN
  <2>1. Pending' = Promise!Unasked
    BY <1>9 DEF Restart, Pending, Promise!Unasked
  <2>2. Promise!StartOver
    BY <1>9, <2>1 DEF Restart, files, Promise!StartOver
  <2> QED
    BY <2>2 DEF Promise!ScreenNext
<1>10. ASSUME (\E m \in Media : ReplaceMedia(m)) \/ UNCHANGED vars
       PROVE  UNCHANGED <<serverTarget, Pending, target, disk>>
  BY <1>10 DEF ReplaceMedia, vars, syncing, shown, cache, files, Pending
<1> QED
  BY <1>1, <1>2, <1>3, <1>4, <1>5, <1>6, <1>7, <1>8, <1>9, <1>10,
     SizeAssumption DEF Next, SetTarget, Switched

\* Whatever the syncs, failures, evictions and restarts, the player keeps the
\* promise of KioskScreen: one-step switches to complete targets, and nothing of
\* what is shown is ever taken away.
THEOREM KeepsPromise == Spec => ImplementsScreen
<1>1. Init => Promise!ScreenInit
  <2>1. ASSUME Init PROVE Pending = Promise!Unasked
    BY <2>1 DEF Init, Pending, Promise!Unasked
  <2> QED
    BY <2>1 DEF Init, Promise!ScreenInit
<1>2. CacheInv /\ CacheInv' /\ TypeOK /\ TypeOK' /\ [Next]_vars
        => [Promise!ScreenNext]_(Promise!screenVars)
  BY PromiseStep
<1> QED
  BY <1>1, <1>2, TypeCorrect, CacheInvariant, PTL
     DEF Spec, ImplementsScreen, Promise!ScreenSpec

=============================================================================
