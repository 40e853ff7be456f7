------------------------------ MODULE MediaLibrary ------------------------------
(***************************************************************************)
(* The media library (apps/api/src/routes/media.ts) and the content it     *)
(* serves (GET /api/content/media/:id): uploads of versions, rollback,     *)
(* tags and deletion of one medium, one statement or bucket call per step. *)
(*                                                                         *)
(* The object of a version lives under media/<id>/<version>/<filename>;    *)
(* the table has no constraint that keeps version numbers apart.  Bytes    *)
(* stand for their size and checksum.                                      *)
(***************************************************************************)
EXTENDS Integers, FiniteSets, FiniteSetsExt

CONSTANTS
  Filename,     \* names it is uploaded under
  Tag,          \* tags
  Upload,       \* upload requests under way; also the bytes each one sends
  NoBytes,      \* no object
  MaxVersions   \* bound: version rows

ASSUME MediaAssumption == MaxVersions \in Nat /\ NoBytes \notin Upload

VARIABLES
  medium,      \* the row of media: "none", "row" or "gone"
  versions,    \* its rows of media_versions
  current,     \* media.current_version_id, 0 for NULL
  objects,     \* objects[k]: what the bucket holds under key k
  upload,      \* upload[u]: the step u is at, its version, file and row id
  deletion,    \* DELETE /:id: "none", "objects" or "row" to be deleted next
  doomed,      \* keys the deletion has read
  tags,        \* rows of media_tags
  tagging,     \* PUT /:id/tags: the tags still to insert
  raced        \* have two uploads had a number at the same time? (history)

mediaVars == <<medium, versions, current, objects, upload, deletion, doomed,
               tags, tagging, raced>>

Key     == (1 .. MaxVersions + 1) \X Filename
Row     == [id : 1 .. MaxVersions, key : Key, bytes : Upload]
NoFile  == [at |-> "none", key |-> <<0, "">>, bytes |-> NoBytes, id |-> 0]

MediaTypeOK ==
  /\ medium \in {"none", "row", "gone"} /\ versions \subseteq Row
  /\ current \in 0 .. MaxVersions
  /\ objects \in [Key -> Upload \cup {NoBytes}]
  /\ upload \in [Upload -> {NoFile} \cup
       [at : {"put", "insert", "point"}, key : Key, bytes : Upload,
        id : 0 .. MaxVersions]]
  /\ deletion \in {"none", "objects", "row"} /\ doomed \subseteq Key
  /\ tags \subseteq Tag /\ tagging \subseteq Tag /\ raced \in BOOLEAN

MediaInit ==
  /\ medium = "none" /\ versions = {} /\ current = 0
  /\ objects = [k \in Key |-> NoBytes]
  /\ upload = [u \in Upload |-> NoFile]
  /\ deletion = "none" /\ doomed = {}
  /\ tags = {} /\ tagging = {} /\ raced = FALSE

-----------------------------------------------------------------------------

Number(k)   == k[1]
NextVersion == Max({0} \cup {Number(r.key) : r \in versions}) + 1

Begin(u, f, n) ==
  /\ upload' = [upload EXCEPT ![u] =
       [at |-> "put", key |-> <<n, f>>, bytes |-> u, id |-> 0]]
  /\ raced' = (raced \/ \E v \in Upload : upload[v] # NoFile)

\* PUT /: the row of the medium; the rest is a version 1.
CreateMedium(u, f) ==
  /\ medium = "none"
  /\ medium' = "row"
  /\ Begin(u, f, 1)
  /\ UNCHANGED <<versions, current, objects, deletion, doomed, tags, tagging>>

\* Mutant of ReadVersion: the number of the last version is taken again.
ReadVersionAgain(u, f) ==
  /\ upload[u] = NoFile /\ medium # "none" /\ Cardinality(versions) < MaxVersions
  /\ Begin(u, f, Max({1, NextVersion - 1}))
  /\ UNCHANGED <<medium, versions, current, objects, deletion, doomed, tags, tagging>>

\* PUT /:id/version: SELECT MAX(version).  Nothing asks whether the medium is
\* there.
ReadVersion(u, f) ==
  /\ upload[u] = NoFile /\ medium # "none" /\ Cardinality(versions) < MaxVersions
  /\ Begin(u, f, NextVersion)
  /\ UNCHANGED <<medium, versions, current, objects, deletion, doomed, tags, tagging>>

PutMedia(u) ==
  /\ upload[u].at = "put"
  /\ objects' = [objects EXCEPT ![upload[u].key] = upload[u].bytes]
  /\ upload' = [upload EXCEPT ![u].at = "insert"]
  /\ UNCHANGED <<medium, versions, current, deletion, doomed, tags, tagging, raced>>

\* INSERT INTO media_versions; the foreign key refuses it once the medium is gone.
InsertVersionRow(u) ==
  /\ upload[u].at = "insert" /\ Cardinality(versions) < MaxVersions
  /\ LET id == Max({0} \cup {r.id : r \in versions}) + 1 IN
     IF medium = "row"
       THEN /\ versions' = versions \cup
                 {[id |-> id, key |-> upload[u].key, bytes |-> upload[u].bytes]}
            /\ upload' = [upload EXCEPT ![u].at = "point", ![u].id = id]
       ELSE UNCHANGED versions /\ upload' = [upload EXCEPT ![u] = NoFile]
  /\ UNCHANGED <<medium, current, objects, deletion, doomed, tags, tagging, raced>>

\* UPDATE media SET current_version_id.
PointCurrent(u) ==
  /\ upload[u].at = "point"
  /\ current' = IF medium = "row" THEN upload[u].id ELSE current
  /\ upload' = [upload EXCEPT ![u] = NoFile]
  /\ UNCHANGED <<medium, versions, objects, deletion, doomed, tags, tagging, raced>>

\* The request dies between two calls.
UploadFails(u) ==
  /\ upload[u] # NoFile
  /\ upload' = [upload EXCEPT ![u] = NoFile]
  /\ UNCHANGED <<medium, versions, current, objects, deletion, doomed, tags, tagging, raced>>

\* POST /:id/rollback/:versionId.
RollBackMedium(r) ==
  /\ medium = "row" /\ r \in versions
  /\ current' = r.id
  /\ UNCHANGED <<medium, versions, objects, upload, deletion, doomed, tags, tagging, raced>>

\* PUT /:id/tags: DELETE, then a row per tag, or an error between two rows.
ClearTags(T) ==
  /\ medium = "row" /\ tagging = {}
  /\ tags' = {} /\ tagging' = T
  /\ UNCHANGED <<medium, versions, current, objects, upload, deletion, doomed, raced>>

InsertTag(t) ==
  /\ t \in tagging
  /\ \/ medium = "row" /\ tags' = tags \cup {t} /\ tagging' = tagging \ {t}
     \/ UNCHANGED tags /\ tagging' = {}
  /\ UNCHANGED <<medium, versions, current, objects, upload, deletion, doomed, raced>>

\* DELETE /:id: the keys, then their objects, then the row and its cascade.
ReadKeys ==
  /\ medium = "row" /\ deletion = "none"
  /\ deletion' = "objects" /\ doomed' = {r.key : r \in versions}
  /\ UNCHANGED <<medium, versions, current, objects, upload, tags, tagging, raced>>

DeleteObjects ==
  /\ deletion = "objects"
  /\ objects' = [k \in Key |-> IF k \in doomed THEN NoBytes ELSE objects[k]]
  /\ deletion' = "row"
  /\ UNCHANGED <<medium, versions, current, upload, doomed, tags, tagging, raced>>

DeleteMedium ==
  /\ deletion = "row"
  /\ deletion' = "none" /\ doomed' = {}
  /\ medium' = "gone" /\ versions' = {} /\ current' = 0 /\ tags' = {}
  /\ UNCHANGED <<objects, upload, tagging, raced>>

\* It dies in between: the medium stays listed, with fewer objects or none.
DeletionFails ==
  /\ deletion # "none" /\ deletion' = "none"
  /\ \E lost \in IF deletion = "objects" THEN SUBSET doomed ELSE {{}} :
       objects' = [k \in Key |-> IF k \in lost THEN NoBytes ELSE objects[k]]
  /\ UNCHANGED <<medium, versions, current, upload, doomed, tags, tagging, raced>>

MediaNext ==
  \/ \E u \in Upload :
       \/ \E f \in Filename : CreateMedium(u, f) \/ ReadVersion(u, f)
       \/ PutMedia(u) \/ InsertVersionRow(u) \/ PointCurrent(u) \/ UploadFails(u)
  \/ \E r \in versions : RollBackMedium(r)
  \/ \E T \in SUBSET Tag : ClearTags(T)
  \/ \E t \in Tag : InsertTag(t)
  \/ ReadKeys \/ DeleteObjects \/ DeleteMedium \/ DeletionFails

MediaSpec == MediaInit /\ [][MediaNext]_mediaVars

-----------------------------------------------------------------------------
(* Properties. *)

\* Every version a rollback can choose still has the bytes its row describes,
\* whatever uploads died half-way before, as long as no two uploads had a number
\* at once (they take the same one, and under one filename the same object) and
\* no deletion has touched its key.
VersionsIntact ==
  ~raced =>
    \A r \in versions : r.key \notin doomed => objects[r.key] = r.bytes
=============================================================================
