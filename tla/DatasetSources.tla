-------------------------- MODULE DatasetSources --------------------------
(***************************************************************************)
(* How the dataviewer reads the objects of a Blob dataset                 *)
(* (services/dataset_service/service.py) for requests that interleave at   *)
(* every await: materialize_blob_video keeps a copy of each version of a   *)
(* video within a byte budget, and _get_edit_episode reads an episode out  *)
(* of one synchronised directory and says of which revision it is.         *)
(*                                                                         *)
(* `version` is what an etag or a revision tells apart: the video, or the  *)
(* metadata of a LeRobot dataset (its listing, which names info.json too,  *)
(* ends the lookup), or the file of an HDF5 episode.  `shard` is what an   *)
(* edit context is read from besides and no revision covers: the Parquet   *)
(* file of the episode's data, or the JSON files beside an HDF5 one.       *)
(***************************************************************************)
EXTENDS Naturals, FiniteSets

CONSTANTS
    Requests,        \* requests, each made once
    Editors,         \* those that read an edit context; the others a video
    Versions,        \* bound: versions the object ever has, 1 .. Versions
    MaxShards,       \* bound: versions of the shard
    SizeOf,          \* size of each version
    ScratchBytes     \* video_cache_max_bytes

ASSUME SourcesAssumption ==
    /\ Editors \subseteq Requests /\ Versions \in Nat \ {0} /\ ScratchBytes \in Nat
    /\ SizeOf \in [1..Versions -> Nat \ {0}]

VARIABLES
    version,         \* the version (etag) the object has now
    shard,           \* the version the shard has now
    beside,          \* history: versions the shard had beside each version
    task,            \* where each request is
    etag,            \* the version it found first, 0 before
    content,         \* versions its bytes are of
    data,            \* version of the shard its data is of, 0 if none
    videos,          \* versions with a published file
    fileOf,          \* versions the bytes of that file are of
    scratch,         \* _blob_video_cache_bytes
    videoLock,       \* versions whose lock is held
    synced,          \* _edit_blob_synced: the directory, labelled
    editLock,        \* _edit_blob_sync_lock is held
    contexts         \* _edit_context_cache: contexts, one for each label

storeVars == <<version, shard, beside>>
sourceVars == <<storeVars, task, etag, content, data, videos, fileOf, scratch, videoLock,
                synced, editLock, contexts>>
videoVars == <<videos, fileOf, scratch, videoLock>>
editVars == <<synced, editLock, contexts>>

NoContext == [label |-> 0, content |-> {}, data |-> 0]

SourcesInit ==
    /\ version = 1 /\ shard = 1 /\ beside = [v \in 1..Versions |-> IF v = 1 THEN {1} ELSE {}]
    /\ task = [r \in Requests |-> "idle"] /\ etag = [r \in Requests |-> 0]
    /\ content = [r \in Requests |-> {}] /\ data = [r \in Requests |-> 0]
    /\ videos = {} /\ fileOf = [v \in 1..Versions |-> {}]
    /\ scratch = 0 /\ videoLock = {}
    /\ synced = NoContext /\ editLock = FALSE /\ contexts = {}

(* Somebody writes the object or the shard anew (external); an etag never  *)
(* comes back.                                                             *)
Rewrite ==
    /\ version < Versions /\ version' = version + 1
    /\ beside' = [beside EXCEPT ![version + 1] = @ \cup {shard}]
    /\ UNCHANGED <<shard, task, etag, content, data, videoVars, editVars>>

RewriteShard ==
    /\ shard < MaxShards /\ shard' = shard + 1
    /\ beside' = [beside EXCEPT ![version] = @ \cup {shard + 1}]
    /\ UNCHANGED <<version, task, etag, content, data, videoVars, editVars>>

To(r, t) == task' = [task EXCEPT ![r] = t]

-----------------------------------------------------------------------------
(* materialize_blob_video *)

(* get_blob_properties, then the published file or the lock of the version *)
OpenVideo(r) ==
    /\ r \notin Editors /\ task[r] = "idle"
    /\ etag' = [etag EXCEPT ![r] = version]
    /\ IF SizeOf[version] > ScratchBytes THEN To(r, "failed")
       ELSE IF version \in videos THEN To(r, "served") ELSE To(r, "waiting")
    /\ UNCHANGED <<storeVars, content, data, videoVars, editVars>>

(* Bytes of the published files, and those that transfers have reserved.   *)
PublishedBytes == UNION {{v} \X (1..SizeOf[v]) : v \in videos}
ReservedBytes ==
    UNION {{r} \X (1..SizeOf[etag[r]]) : r \in {q \in Requests : task[q] = "transferring"}}

(* The bytes are reserved before any of them is transferred.               *)
FitsPublished(v) == Cardinality(PublishedBytes) + SizeOf[v] <= ScratchBytes
Fits(v) == scratch + SizeOf[v] <= ScratchBytes
LockVideo(r) ==
    /\ task[r] = "waiting" /\ etag[r] \notin videoLock
    /\ IF etag[r] \in videos THEN To(r, "served") /\ UNCHANGED <<scratch, videoLock>>
       ELSE IF Fits(etag[r])
       THEN /\ To(r, "transferring")
            /\ scratch' = scratch + SizeOf[etag[r]]
            /\ videoLock' = videoLock \cup {etag[r]}
       ELSE To(r, "failed") /\ UNCHANGED <<scratch, videoLock>>
    /\ UNCHANGED <<storeVars, etag, content, data, videos, fileOf, editVars>>

(* The download may go on while the object is written anew (external).     *)
Transfer(r) ==
    /\ task[r] = "transferring" /\ version \notin content[r]
    /\ content' = [content EXCEPT ![r] = @ \cup {version}]
    /\ UNCHANGED <<storeVars, task, etag, data, videoVars, editVars>>

GiveUp(r) ==
    /\ To(r, "failed") /\ content' = [content EXCEPT ![r] = {}]
    /\ scratch' = scratch - SizeOf[etag[r]] /\ videoLock' = videoLock \ {etag[r]}
    /\ UNCHANGED <<videos, fileOf>>

(* The object still is what it was, or the transfer does not count.        *)
PublishUnchecked(r) ==
    /\ task[r] = "transferring" /\ content[r] # {}
    /\ To(r, "served")
    /\ videos' = videos \cup {etag[r]}
    /\ fileOf' = [fileOf EXCEPT ![etag[r]] = content[r]]
    /\ videoLock' = videoLock \ {etag[r]}
    /\ content' = [content EXCEPT ![r] = {}] /\ UNCHANGED scratch
    /\ UNCHANGED <<storeVars, etag, data, editVars>>
PublishVideo(r) ==
    /\ task[r] = "transferring" /\ content[r] # {}
    /\ IF version # etag[r] THEN GiveUp(r)
       ELSE /\ To(r, "served")
            /\ videos' = videos \cup {etag[r]}
            /\ fileOf' = [fileOf EXCEPT ![etag[r]] = content[r]]
            /\ videoLock' = videoLock \ {etag[r]}
            /\ content' = [content EXCEPT ![r] = {}] /\ UNCHANGED scratch
    /\ UNCHANGED <<storeVars, etag, data, editVars>>

(* An error of the storage, or the request is cancelled.                   *)
AbortVideo(r) ==
    /\ task[r] = "transferring" /\ GiveUp(r)
    /\ UNCHANGED <<storeVars, etag, data, editVars>>

-----------------------------------------------------------------------------
(* _get_edit_episode *)

OpenContext(r) ==
    /\ r \in Editors /\ task[r] = "idle"
    /\ etag' = [etag EXCEPT ![r] = version]
    /\ \/ \E c \in contexts :
             /\ c.label = version /\ To(r, "served")
             /\ content' = [content EXCEPT ![r] = c.content] /\ data' = [data EXCEPT ![r] = c.data]
       \/ /\ \A c \in contexts : c.label # version
          /\ To(r, "locking") /\ UNCHANGED <<content, data>>
    /\ UNCHANGED <<storeVars, videoVars, editVars>>

(* The directory is used again if it was synchronised for this revision,   *)
(* and removed otherwise.                                                  *)
AnyDirectory(r) == synced.label # 0
SameRevision(r) == synced.label = etag[r]
LockContext(r) ==
    /\ task[r] = "locking" /\ ~editLock /\ editLock' = TRUE
    /\ IF SameRevision(r) THEN To(r, "loading") /\ UNCHANGED synced
       ELSE To(r, "syncing") /\ synced' = NoContext
    /\ UNCHANGED <<storeVars, etag, content, data, videoVars, contexts>>

(* sync_episode_to_local: the metadata, object by object, and then the     *)
(* shard of the episode, which is one object and read in one call.  Where  *)
(* that finds no LeRobot dataset, sync_hdf5_dataset_to_local and           *)
(* sync_hdf5_episode_to_local.                                             *)
CopyMetadata(r) ==
    /\ task[r] = "syncing" /\ version \notin content[r]
    /\ content' = [content EXCEPT ![r] = @ \cup {version}]
    /\ UNCHANGED <<storeVars, task, etag, data, videoVars, editVars>>

CopyShard(r) ==
    /\ task[r] = "syncing" /\ content[r] # {} /\ To(r, "loading")
    /\ synced' = [label |-> etag[r], content |-> content[r], data |-> shard]
    /\ UNCHANGED <<storeVars, etag, content, data, videoVars, editLock, contexts>>

(* The copy fails; or the request is cancelled, or the episode is missing  *)
(* or cannot be read, which leaves the directory as it is.                 *)
SyncFails(r) ==
    /\ task[r] = "syncing" /\ To(r, "failed") /\ editLock' = FALSE
    /\ content' = [content EXCEPT ![r] = {}]
    /\ UNCHANGED <<storeVars, etag, data, videoVars, synced, contexts>>
AbortContext(r) ==
    /\ task[r] \in {"locking", "loading", "loaded"} /\ To(r, "failed")
    /\ editLock' = (editLock /\ task[r] # "loading")
    /\ UNCHANGED <<storeVars, etag, content, data, videoVars, synced, contexts>>

Load(r) ==
    /\ task[r] = "loading" /\ To(r, "loaded") /\ editLock' = FALSE
    /\ content' = [content EXCEPT ![r] = synced.content]
    /\ data' = [data EXCEPT ![r] = synced.data]
    /\ UNCHANGED <<storeVars, etag, videoVars, synced, contexts>>

(* The revision is looked up again before the episode is given out.        *)
Unchecked(r) == TRUE
StillCurrent(r) == version = etag[r]
GiveOut(r) ==
    /\ task[r] = "loaded"
    /\ IF StillCurrent(r)
       THEN /\ To(r, "served")
            /\ contexts' = {c \in contexts : c.label # etag[r]} \cup
                             {[label |-> etag[r], content |-> content[r], data |-> data[r]]}
       ELSE To(r, "failed") /\ UNCHANGED contexts
    /\ UNCHANGED <<storeVars, etag, content, data, videoVars, synced, editLock>>

(* Requests for other episodes take the one directory, and their contexts  *)
(* drive this episode's out of the cache.                                  *)
OtherEpisodes ==
    /\ \/ ~editLock /\ synced # NoContext /\ synced' = NoContext /\ UNCHANGED contexts
       \/ \E c \in contexts : contexts' = contexts \ {c} /\ UNCHANGED synced
    /\ UNCHANGED <<storeVars, task, etag, content, data, videoVars, editLock>>

SourcesNext ==
    \/ Rewrite \/ RewriteShard \/ OtherEpisodes
    \/ \E r \in Requests :
          \/ OpenVideo(r) \/ LockVideo(r) \/ Transfer(r) \/ PublishVideo(r) \/ AbortVideo(r)
          \/ OpenContext(r) \/ LockContext(r) \/ CopyMetadata(r) \/ CopyShard(r)
          \/ SyncFails(r) \/ AbortContext(r) \/ Load(r) \/ GiveOut(r)

SourcesSpec == SourcesInit /\ [][SourcesNext]_sourceVars

-----------------------------------------------------------------------------
(* Properties *)

(* The scratch space is never overbooked and never leaks: what is counted  *)
(* is what lies there or is on its way, however transfers of different     *)
(* versions overlap, fail and are cancelled.                               *)
ScratchAccounted ==
    /\ scratch <= ScratchBytes
    /\ scratch = Cardinality(PublishedBytes) + Cardinality(ReservedBytes)

(* A published video holds the bytes of the version it is named for.  An  *)
(* edit context is all of the revision that it names, and its data is of a *)
(* time when that revision was the one, although the objects are written   *)
(* anew during transfers and one directory serves all requests.            *)
NamedVersionServed ==
    /\ \A v \in videos : fileOf[v] = {v}
    /\ \A r \in Editors : task[r] = "served" =>
          content[r] = {etag[r]} /\ data[r] \in beside[etag[r]]
=============================================================================
