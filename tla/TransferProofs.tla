---------------------------- MODULE TransferProofs ----------------------------
(***************************************************************************)
(* Proofs about what is fetched, uploaded and received in pieces.          *)
(*   DatasetSources, for any requests, versions and sizes: what is served  *)
(*   under the name of a version holds that version's bytes, and data of a *)
(*   shard that was there beside it; and the scratch budget counts exactly *)
(*   the bytes that lie or come there.                                     *)
(*   CheckpointUpload, for any checkpoints, signals and errors: each       *)
(*   checkpoint becomes one model version but for the excuses it has, and  *)
(*   a run that reports success has registered the newest one.             *)
(*   MessengerUDP, for any peers, messages and arrivals: a message that    *)
(*   was read whole is handled once, and an owner is told of each close.   *)
(***************************************************************************)
EXTENDS DatasetSources, CheckpointUpload, MessengerUDP,
        FiniteSetTheorems, WellFoundedInduction, TLAPS

-----------------------------------------------------------------------------
(* DatasetSources *)

Tasks == {"idle", "waiting", "transferring", "locking", "syncing", "loading", "loaded",
          "served", "failed"}
LabelledContent == [label : Nat, content : SUBSET Nat, data : Nat]

\* Bytes that were read after the version v was found, and data so read.
Since(S, v) == S \subseteq v..version
Beside(d, v) == \E w \in v..version : d \in beside[w]

InDirectory(r) == task[r] \in {"syncing", "loading"}

\* What is so of each request.
RequestOK(r) ==
    /\ etag[r] <= version /\ (task[r] # "idle" => etag[r] # 0)
    /\ r \in Editors => task[r] \notin {"waiting", "transferring"}
    /\ r \notin Editors => task[r] \notin {"locking", "syncing", "loading", "loaded"}
    /\ task[r] \in {"idle", "waiting", "locking"} => content[r] = {}
    /\ task[r] \in {"transferring", "syncing"} => Since(content[r], etag[r])
    /\ InDirectory(r) => editLock
    /\ task[r] = "loading" => synced.label = etag[r]
    /\ task[r] = "loaded" =>
          content[r] # {} /\ Since(content[r], etag[r]) /\ Beside(data[r], etag[r])
    /\ r \in Editors /\ task[r] = "served" =>
          content[r] = {etag[r]} /\ data[r] \in beside[etag[r]]

\* What is so of the objects, the requests, the files, the directory and the cache.
ObjectsInv ==
    /\ version \in 1..Versions /\ shard \in Nat
    /\ beside \in [1..Versions -> SUBSET Nat] /\ shard \in beside[version]
RequestsInv ==
    /\ task \in [Requests -> Tasks] /\ etag \in [Requests -> Nat]
    /\ content \in [Requests -> SUBSET Nat] /\ data \in [Requests -> Nat]
    /\ \A r \in Requests : RequestOK(r)
    /\ \A q, r \in Requests : InDirectory(q) /\ InDirectory(r) => q = r
FilesInv ==
    /\ videos \subseteq 1..Versions /\ fileOf \in [1..Versions -> SUBSET Nat]
    /\ \A v \in videos : fileOf[v] = {v}
DirectoryInv ==
    /\ synced \in LabelledContent /\ editLock \in BOOLEAN
    /\ synced.label # 0 =>
          /\ synced.content # {} /\ Since(synced.content, synced.label)
          /\ Beside(synced.data, synced.label)
ContextsInv ==
    \A c \in contexts :
        c.label \in 1..Versions /\ c.content = {c.label} /\ c.data \in beside[c.label]

SourcesInv == ObjectsInv /\ RequestsInv /\ FilesInv /\ DirectoryInv /\ ContextsInv

LEMMA OnlyVersion ==
    ASSUME SourcesInv, NEW S, S # {}, Since(S, version)
    PROVE  S = {version}
<1>1. \A w \in version..version : w = version
    BY SourcesAssumption DEF SourcesInv, ObjectsInv
<1> QED BY <1>1 DEF Since

LEMMA BesideVersion ==
    ASSUME SourcesInv, NEW d, Beside(d, version)
    PROVE  d \in beside[version]
<1>1. \A w \in version..version : w = version
    BY SourcesAssumption DEF SourcesInv, ObjectsInv
<1> QED BY <1>1 DEF Beside

LEMMA SourcesInitially == SourcesInit => SourcesInv
<1> SUFFICES ASSUME SourcesInit PROVE SourcesInv
    OBVIOUS
<1> USE SourcesAssumption DEF SourcesInit
<1>1. 0 \in Nat /\ 1 \in Nat /\ 1 \in 1..Versions
    OBVIOUS
<1>2. RequestsInv
    <2>1. /\ task \in [Requests -> Tasks] /\ etag \in [Requests -> Nat]
          /\ content \in [Requests -> SUBSET Nat] /\ data \in [Requests -> Nat]
        BY <1>1 DEF Tasks
    <2>2. \A r \in Requests : task[r] = "idle" /\ etag[r] = 0 /\ content[r] = {}
        OBVIOUS
    <2> QED BY <1>1, <2>1, <2>2 DEF RequestsInv, RequestOK, InDirectory
<1>3. FilesInv /\ ObjectsInv
    BY <1>1 DEF FilesInv, ObjectsInv
<1>4. DirectoryInv /\ ContextsInv
    BY <1>1 DEF DirectoryInv, ContextsInv, LabelledContent, NoContext
<1> QED BY <1>2, <1>3, <1>4 DEF SourcesInv

\* The objects have newer versions, and a history that goes on.
LEMMA ObjectsMove ==
    ASSUME SourcesInv, version' \in version..Versions, ObjectsInv',
           \A v \in 1..Versions : beside[v] \subseteq beside'[v],
           UNCHANGED <<task, etag, content, data, videoVars, editVars>>
    PROVE  SourcesInv'
<1> USE DEF videoVars, editVars
<1>1. version \in Nat /\ version \in 1..Versions /\ Versions \in Nat /\ version' \in Nat
    BY SourcesAssumption DEF SourcesInv, ObjectsInv
<1>2. \A S : \A v \in Nat : Since(S, v) => Since(S, v)'
    BY <1>1 DEF Since
<1>3. \A d : \A v \in Nat \ {0} : Beside(d, v) => Beside(d, v)'
    BY <1>1 DEF Beside
<1>4. \A r \in Requests : etag[r] \in Nat
    BY DEF SourcesInv, RequestsInv
<1>5. RequestsInv'
    <2>1. ASSUME NEW r \in Requests PROVE RequestOK(r)'
        <3>1. RequestOK(r) /\ etag[r] \in Nat
            BY <1>4 DEF SourcesInv, RequestsInv
        <3>2. task[r] = "served" => etag[r] \in 1..Versions
            BY <1>1, <3>1 DEF RequestOK
        <3> QED BY <1>1, <1>2, <1>3, <3>1, <3>2 DEF RequestOK, InDirectory
    <2> QED BY <2>1 DEF SourcesInv, RequestsInv, InDirectory
<1>6. DirectoryInv'
    BY <1>2, <1>3 DEF SourcesInv, DirectoryInv, LabelledContent
<1>7. FilesInv' /\ ContextsInv'
    BY DEF SourcesInv, FilesInv, ContextsInv
<1> QED BY <1>5, <1>6, <1>7 DEF SourcesInv

LEMMA RewriteKeeps ==
    ASSUME SourcesInv, Rewrite \/ RewriteShard
    PROVE  SourcesInv'
<1>1. /\ version \in Nat /\ Versions \in Nat /\ version \in 1..Versions /\ shard \in Nat
      /\ beside \in [1..Versions -> SUBSET Nat] /\ shard \in beside[version]
    BY SourcesAssumption DEF SourcesInv, ObjectsInv
<1>2. CASE Rewrite
    <2>1. /\ version' = version + 1 /\ version' \in 1..Versions /\ shard' = shard
          /\ beside' = [beside EXCEPT ![version + 1] = @ \cup {shard}]
          /\ UNCHANGED <<task, etag, content, data, videoVars, editVars>>
        BY <1>1, <1>2 DEF Rewrite
    <2>2. ObjectsInv' /\ version' \in version..Versions
        BY <1>1, <2>1 DEF ObjectsInv
    <2>3. \A v \in 1..Versions : beside[v] \subseteq beside'[v]
        BY <1>1, <2>1
    <2> QED BY <2>1, <2>2, <2>3, ObjectsMove
<1>3. CASE RewriteShard
    <2>1. /\ version' = version /\ shard' = shard + 1
          /\ beside' = [beside EXCEPT ![version] = @ \cup {shard + 1}]
          /\ UNCHANGED <<task, etag, content, data, videoVars, editVars>>
        BY <1>3 DEF RewriteShard
    <2>2. ObjectsInv' /\ version' \in version..Versions
        BY <1>1, <2>1 DEF ObjectsInv
    <2>3. \A v \in 1..Versions : beside[v] \subseteq beside'[v]
        BY <1>1, <2>1
    <2> QED BY <2>1, <2>2, <2>3, ObjectsMove
<1> QED BY <1>2, <1>3

\* One request goes on, and leaves the others what they rely on.
LEMMA OneMoves ==
    ASSUME SourcesInv, NEW r \in Requests, NEW t \in Tasks, To(r, t), UNCHANGED storeVars,
           etag' = etag \/ \E e \in Nat : etag' = [etag EXCEPT ![r] = e],
           content' = content \/ \E S \in SUBSET Nat : content' = [content EXCEPT ![r] = S],
           data' = data \/ \E d \in Nat : data' = [data EXCEPT ![r] = d],
           t \in {"syncing", "loading"} => InDirectory(r) \/ ~editLock,
           UNCHANGED <<editLock, synced>> \/ InDirectory(r) \/ ~editLock,
           RequestOK(r)'
    PROVE  RequestsInv' /\ ObjectsInv'
<1> USE DEF SourcesInv, RequestsInv, storeVars
<1>1. /\ task' \in [Requests -> Tasks] /\ etag' \in [Requests -> Nat]
      /\ content' \in [Requests -> SUBSET Nat] /\ data' \in [Requests -> Nat]
      /\ task'[r] = t
      /\ \A q \in Requests \ {r} :
            task'[q] = task[q] /\ etag'[q] = etag[q] /\ content'[q] = content[q] /\ data'[q] = data[q]
    BY DEF To
<1>2. ASSUME NEW q \in Requests \ {r}, InDirectory(q) PROVE UNCHANGED <<editLock, synced>> /\ editLock
    BY <1>2 DEF RequestOK
<1>3. ASSUME NEW q \in Requests \ {r} PROVE RequestOK(q)'
    BY <1>1, <1>2, <1>3 DEF RequestOK, InDirectory, Since, Beside
<1>4. ASSUME NEW q \in Requests \ {r}, InDirectory(q) PROVE t \notin {"syncing", "loading"}
    BY <1>2, <1>4
<1>5. \A p, q \in Requests : InDirectory(p)' /\ InDirectory(q)' => p = q
    BY <1>1, <1>4 DEF InDirectory
<1>6. RequestOK(r)'
    OBVIOUS
<1>7. RequestsInv'
    BY <1>1, <1>3, <1>5, <1>6
<1>8. ObjectsInv'
    BY DEF ObjectsInv
<1> QED BY <1>7, <1>8

LEMMA RequestType ==
    ASSUME SourcesInv, NEW r \in Requests
    PROVE  /\ version \in Nat /\ version # 0 /\ etag[r] \in Nat /\ content[r] \in SUBSET Nat
           /\ task \in [Requests -> Tasks] /\ RequestOK(r)
           /\ etag \in [Requests -> Nat] /\ content \in [Requests -> SUBSET Nat]
           /\ data \in [Requests -> Nat] /\ data[r] \in Nat
           /\ version \in 1..Versions /\ shard \in Nat /\ shard \in beside[version]
           /\ beside \in [1..Versions -> SUBSET Nat]
BY SourcesAssumption DEF SourcesInv, ObjectsInv, RequestsInv

-----------------------------------------------------------------------------
(* Videos *)

LEMMA OpenVideoKeeps ==
    ASSUME SourcesInv, NEW r \in Requests, OpenVideo(r)
    PROVE  SourcesInv'
<1> USE DEF OpenVideo, videoVars, editVars
<1>1. PICK t \in {"failed", "served", "waiting"} : To(r, t)
    OBVIOUS
<1>2. t \in Tasks /\ task'[r] = t /\ etag'[r] = version
    BY <1>1, RequestType DEF To, Tasks
<1>3. RequestOK(r)'
    BY <1>2, RequestType DEF RequestOK, InDirectory, storeVars
<1>4. RequestsInv' /\ ObjectsInv'
    BY <1>1, <1>2, <1>3, RequestType, OneMoves
<1> QED BY <1>4 DEF SourcesInv, FilesInv, DirectoryInv, ContextsInv, Since, Beside, storeVars

LEMMA LockVideoKeeps ==
    ASSUME SourcesInv, NEW r \in Requests, LockVideo(r)
    PROVE  SourcesInv'
<1> USE DEF LockVideo, editVars
<1>1. PICK t \in {"failed", "served", "transferring"} : To(r, t) /\ task[r] = "waiting"
    OBVIOUS
<1>2. t \in Tasks /\ task'[r] = t /\ r \notin Editors
    BY <1>1, RequestType DEF To, Tasks, RequestOK
<1>3. RequestOK(r)'
    BY <1>1, <1>2, RequestType DEF RequestOK, InDirectory, Since, Beside, storeVars
<1>4. RequestsInv' /\ ObjectsInv'
    BY <1>1, <1>2, <1>3, RequestType, OneMoves
<1> QED BY <1>4 DEF SourcesInv, FilesInv, DirectoryInv, ContextsInv, Since, Beside, storeVars

LEMMA TransferKeeps ==
    ASSUME SourcesInv, NEW r \in Requests, Transfer(r)
    PROVE  SourcesInv'
<1> USE DEF Transfer, editVars, videoVars
<1>1. task' = [task EXCEPT ![r] = "transferring"] /\ task[r] = "transferring"
    BY RequestType
<1>2. content' = [content EXCEPT ![r] = content[r] \cup {version}]
    OBVIOUS
<1>3. version \in etag[r]..version
    BY RequestType DEF RequestOK
<1>4. RequestOK(r)'
    BY <1>1, <1>2, <1>3, RequestType DEF RequestOK, InDirectory, Since, Beside, storeVars
<1>5. RequestsInv' /\ ObjectsInv'
    <2>1. To(r, "transferring") /\ "transferring" \in Tasks
        BY <1>1 DEF To, Tasks
    <2>2. content[r] \cup {version} \in SUBSET Nat
        BY RequestType
    <2> QED BY <1>2, <1>4, <2>1, <2>2, OneMoves
<1> QED BY <1>5 DEF SourcesInv, FilesInv, DirectoryInv, ContextsInv, Since, Beside, storeVars

\* A transfer ends and leaves nothing.
LEMMA GiveUpKeeps ==
    ASSUME SourcesInv, NEW r \in Requests, task[r] = "transferring", GiveUp(r),
           UNCHANGED <<storeVars, etag, data, editVars>>
    PROVE  SourcesInv'
<1> USE DEF GiveUp, editVars
<1>1. "failed" \in Tasks /\ To(r, "failed") /\ task'[r] = "failed" /\ r \notin Editors
    BY RequestType DEF To, Tasks, RequestOK
<1>2. RequestOK(r)'
    BY <1>1, RequestType DEF RequestOK, InDirectory, storeVars
<1>3. RequestsInv' /\ ObjectsInv'
    BY <1>1, <1>2, RequestType, OneMoves
<1> QED BY <1>3 DEF SourcesInv, FilesInv, DirectoryInv, ContextsInv, Since, Beside, storeVars

LEMMA PublishVideoKeeps ==
    ASSUME SourcesInv, NEW r \in Requests, PublishVideo(r)
    PROVE  SourcesInv'
<1>1. CASE version # etag[r]
    BY <1>1, GiveUpKeeps DEF PublishVideo
<1>2. CASE version = etag[r]
    <2> USE <1>2 DEF PublishVideo, editVars
    <2>1. "served" \in Tasks /\ To(r, "served") /\ task'[r] = "served" /\ r \notin Editors
        BY RequestType DEF To, Tasks, RequestOK
    <2>2. RequestOK(r)'
        BY <2>1, RequestType DEF RequestOK, InDirectory, storeVars
    <2>3. RequestsInv' /\ ObjectsInv'
        BY <2>1, <2>2, RequestType, OneMoves
    <2>4. content[r] = {version}
        BY RequestType, OnlyVersion DEF RequestOK
    <2>5. FilesInv'
        <3>1. videos' = videos \cup {version} /\ fileOf' = [fileOf EXCEPT ![version] = {version}]
            BY <2>4
        <3>2. FilesInv /\ version \in 1..Versions /\ {version} \in SUBSET Nat
            BY RequestType DEF SourcesInv
        <3> HIDE DEF PublishVideo
        <3> QED BY <3>1, <3>2 DEF FilesInv
    <2> QED BY <2>3, <2>5 DEF SourcesInv, DirectoryInv, ContextsInv, Since, Beside, storeVars
<1> QED BY <1>1, <1>2

-----------------------------------------------------------------------------
(* Edit contexts *)

LEMMA OpenContextKeeps ==
    ASSUME SourcesInv, NEW r \in Requests, OpenContext(r)
    PROVE  SourcesInv'
<1> USE DEF OpenContext, videoVars, editVars, storeVars
<1>1. ASSUME NEW c \in contexts, c.label = version, To(r, "served"),
             content' = [content EXCEPT ![r] = c.content], data' = [data EXCEPT ![r] = c.data]
      PROVE  SourcesInv'
    <2>1. c.content = {version} /\ c.data \in beside[version] /\ c.data \in Nat
        BY <1>1, RequestType DEF SourcesInv, ContextsInv
    <2>2. "served" \in Tasks /\ task'[r] = "served" /\ etag'[r] = version
        BY <1>1, RequestType DEF To, Tasks
    <2>3. content'[r] = {version} /\ data'[r] = c.data /\ {version} \in SUBSET Nat
        BY <1>1, <2>1, RequestType
    <2>4. RequestOK(r)'
        BY <2>1, <2>2, <2>3, RequestType DEF RequestOK, InDirectory
    <2>5. RequestsInv' /\ ObjectsInv'
        BY <1>1, <2>1, <2>2, <2>3, <2>4, RequestType, OneMoves
    <2> QED BY <2>5 DEF SourcesInv, FilesInv, DirectoryInv, ContextsInv, Since, Beside
<1>2. CASE To(r, "locking") /\ UNCHANGED <<content, data>>
    <2>1. "locking" \in Tasks /\ task'[r] = "locking" /\ etag'[r] = version
        BY <1>2, RequestType DEF To, Tasks
    <2>2. RequestOK(r)'
        BY <1>2, <2>1, RequestType DEF RequestOK, InDirectory
    <2>3. RequestsInv' /\ ObjectsInv'
        BY <1>2, <2>1, <2>2, RequestType, OneMoves
    <2> QED BY <2>3 DEF SourcesInv, FilesInv, DirectoryInv, ContextsInv, Since, Beside
<1> QED BY <1>1, <1>2

LEMMA LockContextKeeps ==
    ASSUME SourcesInv, NEW r \in Requests, LockContext(r)
    PROVE  SourcesInv'
<1> USE DEF LockContext, videoVars, storeVars
<1>1. PICK t \in {"loading", "syncing"} :
          To(r, t) /\ (t = "loading" => synced.label = etag[r] /\ UNCHANGED synced)
    BY DEF SameRevision
<1>2. t \in Tasks /\ task'[r] = t /\ r \in Editors /\ content[r] = {}
    BY <1>1, RequestType DEF To, Tasks, RequestOK
<1>3. RequestOK(r)'
    BY <1>1, <1>2, RequestType DEF RequestOK, InDirectory, Since
<1>4. RequestsInv' /\ ObjectsInv'
    BY <1>1, <1>2, <1>3, RequestType, OneMoves
<1>5. DirectoryInv'
    <2>1. NoContext \in LabelledContent /\ NoContext.label = 0
        BY DEF NoContext, LabelledContent
    <2> QED BY <2>1 DEF SourcesInv, DirectoryInv, Since, Beside
<1> QED BY <1>4, <1>5 DEF SourcesInv, FilesInv, ContextsInv

LEMMA CopyMetadataKeeps ==
    ASSUME SourcesInv, NEW r \in Requests, CopyMetadata(r)
    PROVE  SourcesInv'
<1> USE DEF CopyMetadata, editVars, videoVars, storeVars
<1>1. task' = [task EXCEPT ![r] = "syncing"] /\ task[r] = "syncing"
    BY RequestType
<1>2. content' = [content EXCEPT ![r] = content[r] \cup {version}]
    OBVIOUS
<1>3. version \in etag[r]..version
    BY RequestType DEF RequestOK
<1>4. RequestOK(r)'
    BY <1>1, <1>2, <1>3, RequestType DEF RequestOK, InDirectory, Since
<1>5. RequestsInv' /\ ObjectsInv'
    <2>1. To(r, "syncing") /\ "syncing" \in Tasks /\ InDirectory(r)
        BY <1>1 DEF To, Tasks, InDirectory
    <2>2. content[r] \cup {version} \in SUBSET Nat
        BY RequestType
    <2> QED BY <1>2, <1>4, <2>1, <2>2, OneMoves
<1> QED BY <1>5 DEF SourcesInv, FilesInv, DirectoryInv, ContextsInv, Since, Beside

LEMMA CopyShardKeeps ==
    ASSUME SourcesInv, NEW r \in Requests, CopyShard(r)
    PROVE  SourcesInv'
<1> USE DEF CopyShard, videoVars, storeVars
<1>1. "loading" \in Tasks /\ To(r, "loading") /\ task'[r] = "loading" /\ InDirectory(r)
    BY RequestType DEF To, Tasks, InDirectory
<1>2. RequestOK(r)'
    BY <1>1, RequestType DEF RequestOK, InDirectory
<1>3. RequestsInv' /\ ObjectsInv'
    BY <1>1, <1>2, RequestType, OneMoves
<1>4. DirectoryInv'
    <2>1. version \in etag[r]..version /\ Since(content[r], etag[r]) /\ editLock
        BY <1>1, RequestType DEF RequestOK, InDirectory
    <2>2. Beside(shard, etag[r])
        BY <2>1, RequestType DEF Beside
    <2>3. synced' \in LabelledContent
        BY RequestType DEF LabelledContent
    <2> QED BY <2>1, <2>2, <2>3 DEF SourcesInv, DirectoryInv, Since, Beside
<1> QED BY <1>3, <1>4 DEF SourcesInv, FilesInv, ContextsInv

\* A request for a context ends with nothing.
LEMMA NoContextKeeps ==
    ASSUME SourcesInv, NEW r \in Requests, SyncFails(r) \/ AbortContext(r)
    PROVE  SourcesInv'
<1> USE DEF SyncFails, AbortContext, videoVars, storeVars
<1>1. "failed" \in Tasks /\ To(r, "failed") /\ task'[r] = "failed" /\ r \in Editors
    BY RequestType DEF To, Tasks, RequestOK
<1>2. RequestOK(r)'
    BY <1>1, RequestType DEF RequestOK, InDirectory
<1>3. editLock \in BOOLEAN /\ editLock' \in BOOLEAN /\ (UNCHANGED editLock \/ InDirectory(r))
    BY DEF SourcesInv, DirectoryInv, InDirectory
<1>4. RequestsInv' /\ ObjectsInv'
    BY <1>1, <1>2, <1>3, RequestType, OneMoves
<1>5. DirectoryInv'
    BY <1>3 DEF SourcesInv, DirectoryInv, Since, Beside
<1> QED BY <1>4, <1>5 DEF SourcesInv, FilesInv, ContextsInv

LEMMA LoadKeeps ==
    ASSUME SourcesInv, NEW r \in Requests, Load(r)
    PROVE  SourcesInv'
<1> USE DEF Load, videoVars, storeVars
<1>1. "loaded" \in Tasks /\ To(r, "loaded") /\ task'[r] = "loaded" /\ InDirectory(r) /\ r \in Editors
    BY RequestType DEF To, Tasks, InDirectory, RequestOK
<1>2. synced.label = etag[r] /\ etag[r] # 0
    BY RequestType DEF RequestOK
<1>3. /\ synced.content \in SUBSET Nat /\ synced.content # {} /\ Since(synced.content, etag[r])
      /\ synced.data \in Nat /\ Beside(synced.data, etag[r])
    BY <1>2 DEF SourcesInv, DirectoryInv, LabelledContent
<1>4. content'[r] = synced.content /\ data'[r] = synced.data
    BY RequestType
<1>5. RequestOK(r)'
    BY <1>1, <1>3, <1>4, RequestType DEF RequestOK, InDirectory, Since, Beside
<1>6. RequestsInv' /\ ObjectsInv'
    BY <1>1, <1>3, <1>5, RequestType, OneMoves
<1> QED BY <1>6 DEF SourcesInv, FilesInv, DirectoryInv, ContextsInv, Since, Beside

LEMMA GiveOutKeeps ==
    ASSUME SourcesInv, NEW r \in Requests, GiveOut(r)
    PROVE  SourcesInv'
<1> USE DEF GiveOut, videoVars, StillCurrent, storeVars
<1>1. /\ r \in Editors /\ content[r] # {} /\ Since(content[r], etag[r])
      /\ Beside(data[r], etag[r]) /\ etag[r] # 0
    BY RequestType DEF RequestOK
<1>2. CASE version = etag[r]
    <2>1. "served" \in Tasks /\ To(r, "served") /\ task'[r] = "served"
        BY <1>2, RequestType DEF To, Tasks
    <2>2. content[r] = {etag[r]} /\ data[r] \in beside[etag[r]]
        BY <1>1, <1>2, OnlyVersion, BesideVersion
    <2>3. RequestOK(r)'
        BY <1>1, <2>1, <2>2, RequestType DEF RequestOK, InDirectory
    <2>4. RequestsInv' /\ ObjectsInv'
        BY <2>1, <2>3, RequestType, OneMoves
    <2>5. ContextsInv'
        <3>1. etag[r] \in 1..Versions
            BY <1>2, RequestType
        <3> QED BY <1>2, <2>2, <3>1 DEF SourcesInv, ContextsInv
    <2> QED BY <2>4, <2>5 DEF SourcesInv, FilesInv, DirectoryInv, Since, Beside
<1>3. CASE version # etag[r]
    <2>1. "failed" \in Tasks /\ To(r, "failed") /\ task'[r] = "failed"
        BY <1>3, RequestType DEF To, Tasks
    <2>2. RequestOK(r)'
        BY <1>1, <2>1, RequestType DEF RequestOK, InDirectory
    <2>3. RequestsInv' /\ ObjectsInv'
        BY <2>1, <2>2, RequestType, OneMoves
    <2> QED BY <1>3, <2>3 DEF SourcesInv, FilesInv, DirectoryInv, ContextsInv, Since, Beside
<1> QED BY <1>2, <1>3

LEMMA OtherEpisodesKeep ==
    ASSUME SourcesInv, OtherEpisodes
    PROVE  SourcesInv'
<1> USE DEF OtherEpisodes, videoVars, storeVars
<1>1. NoContext \in LabelledContent /\ NoContext.label = 0
    BY DEF NoContext, LabelledContent
<1>2. contexts' \subseteq contexts /\ (UNCHANGED synced \/ (~editLock /\ synced' = NoContext))
    OBVIOUS
<1>3. DirectoryInv'
    BY <1>1, <1>2 DEF SourcesInv, DirectoryInv, Since, Beside
<1>4. RequestsInv'
    <2>1. ASSUME NEW r \in Requests PROVE RequestOK(r)'
        BY <1>2, RequestType DEF RequestOK, InDirectory, Since, Beside
    <2> QED BY <2>1 DEF SourcesInv, RequestsInv, InDirectory
<1>5. ObjectsInv' /\ FilesInv' /\ ContextsInv'
    BY <1>2 DEF SourcesInv, ObjectsInv, FilesInv, ContextsInv
<1> QED BY <1>3, <1>4, <1>5 DEF SourcesInv

-----------------------------------------------------------------------------
LEMMA SourcesStep ==
    ASSUME SourcesInv, [SourcesNext]_sourceVars
    PROVE  SourcesInv'
<1>1. CASE UNCHANGED sourceVars
    <2> USE <1>1 DEF sourceVars, videoVars, editVars, storeVars
    <2>1. RequestsInv' /\ ObjectsInv'
        BY DEF SourcesInv, ObjectsInv, RequestsInv, RequestOK, InDirectory, Since, Beside
    <2>2. FilesInv' /\ DirectoryInv' /\ ContextsInv'
        BY DEF SourcesInv, FilesInv, DirectoryInv, ContextsInv, Since, Beside
    <2> QED BY <2>1, <2>2 DEF SourcesInv
<1>2. CASE Rewrite \/ RewriteShard \/ OtherEpisodes
    BY <1>2, RewriteKeeps, OtherEpisodesKeep
<1>3. ASSUME NEW r \in Requests,
             OpenVideo(r) \/ LockVideo(r) \/ Transfer(r) \/ PublishVideo(r) \/ AbortVideo(r)
      PROVE  SourcesInv'
    <2>1. AbortVideo(r) => SourcesInv'
        BY GiveUpKeeps DEF AbortVideo
    <2> QED BY <1>3, <2>1, OpenVideoKeeps, LockVideoKeeps, TransferKeeps, PublishVideoKeeps
<1>4. ASSUME NEW r \in Requests,
             \/ OpenContext(r) \/ LockContext(r) \/ CopyMetadata(r) \/ CopyShard(r)
             \/ SyncFails(r) \/ AbortContext(r) \/ Load(r) \/ GiveOut(r)
      PROVE  SourcesInv'
    BY <1>4, OpenContextKeeps, LockContextKeeps, CopyMetadataKeeps, CopyShardKeeps, NoContextKeeps,
       LoadKeeps, GiveOutKeeps
<1> QED BY <1>1, <1>2, <1>3, <1>4 DEF SourcesNext

\* However the objects are written anew while requests read them, a published
\* video and an edit context are all of the version they are named for, and a
\* context's data is of a time when that version was the one
\* (materialize_blob_video, _get_edit_episode).
THEOREM NamedVersionServedTheorem == SourcesSpec => []NamedVersionServed
<1>1. SourcesInv => NamedVersionServed
    <2>1. ASSUME SourcesInv, NEW r \in Editors, task[r] = "served"
          PROVE  content[r] = {etag[r]} /\ data[r] \in beside[etag[r]]
        BY <2>1, SourcesAssumption DEF SourcesInv, RequestsInv, RequestOK
    <2> QED BY <2>1 DEF SourcesInv, FilesInv, NamedVersionServed
<1> QED BY <1>1, SourcesInitially, SourcesStep, PTL DEF SourcesSpec

-----------------------------------------------------------------------------
(* The scratch budget *)

Transferring == {r \in Requests : task[r] = "transferring"}

\* A transfer holds the lock of a version that is not published, so no two
\* are of one version, and its bytes are counted.
TransfersOK ==
    /\ \A r \in Transferring : etag[r] \in videoLock /\ etag[r] \notin videos
    /\ \A q, r \in Transferring : etag[q] = etag[r] => q = r
FoundOK == \A r \in Requests : etag[r] \in 0..Versions
CountedOK ==
    /\ IsFiniteSet(PublishedBytes) /\ IsFiniteSet(ReservedBytes)
    /\ scratch \in Nat /\ ScratchAccounted
ScratchInv == SourcesInv /\ TransfersOK /\ FoundOK /\ CountedOK

\* A holder x of n bytes has n of them.
LEMMA HolderBytes ==
    ASSUME NEW x, NEW n \in Nat
    PROVE  IsFiniteSet({x} \X (1..n)) /\ Cardinality({x} \X (1..n)) = n
<1> DEFINE f == [i \in 1..n |-> <<x, i>>]
           B == {x} \X (1..n)
<1>1. f \in [1..n -> B]
    OBVIOUS
<1>2. \A i, j \in 1..n : f[i] = f[j] => i = j
    OBVIOUS
<1>3. \A b \in B : \E i \in 1..n : f[i] = b
    <2> TAKE b \in B
    <2>1. PICK i \in 1..n : b = <<x, i>>
        OBVIOUS
    <2> QED BY <2>1
<1> HIDE DEF f, B
<1>4. ExistsBijection(1..n, B)
    BY <1>1, <1>2, <1>3 DEF ExistsBijection, Bijection, Injection, Surjection, IsInjective
<1>5. IsFiniteSet(1..n) /\ Cardinality(1..n) = n
    BY FS_Interval
<1>6. IsFiniteSet(B) /\ Cardinality(1..n) = Cardinality(B)
    BY <1>4, <1>5, FS_Bijection
<1> QED BY <1>5, <1>6 DEF B

\* The bytes T are the bytes S and n others.
LEMMA BytesAdd ==
    ASSUME NEW S, IsFiniteSet(S), NEW B, NEW n \in Nat, IsFiniteSet(B), Cardinality(B) = n,
           S \cap B = {}, NEW T, T = S \cup B
    PROVE  IsFiniteSet(T) /\ Cardinality(T) = Cardinality(S) + n /\ Cardinality(S) = Cardinality(T) - n
<1>1. Cardinality(S \cap B) = 0 /\ Cardinality(S) \in Nat
    BY FS_EmptySet, FS_CardinalityType
<1>2. IsFiniteSet(S \cup B) /\ Cardinality(S \cup B) = Cardinality(S) + Cardinality(B) - Cardinality(S \cap B)
    BY FS_Union
<1> QED BY <1>1, <1>2

\* Each byte is of a published version or of a request that transfers.
LEMMA WhoseBytes ==
    /\ \A x : x \in ReservedBytes <=> \E q \in Transferring : x \in {q} \X (1..SizeOf[etag[q]])
    /\ \A x : x \in PublishedBytes <=> \E v \in videos : x \in {v} \X (1..SizeOf[v])
    /\ \A x \in ReservedBytes : x[1] \in Transferring
    /\ \A x \in PublishedBytes : x[1] \in videos
<1>1. /\ \A x : x \in ReservedBytes <=> \E q \in Transferring : x \in {q} \X (1..SizeOf[etag[q]])
      /\ \A x : x \in PublishedBytes <=> \E v \in videos : x \in {v} \X (1..SizeOf[v])
    BY DEF ReservedBytes, PublishedBytes, Transferring
<1> QED BY <1>1

\* Requests that neither begin nor end a transfer leave the budget alone.
LEMMA StillTransferring ==
    ASSUME TransfersOK, CountedOK, UNCHANGED videoVars, Transferring' = Transferring,
           \A r \in Transferring : etag'[r] = etag[r]
    PROVE  TransfersOK' /\ CountedOK'
<1>1. UNCHANGED <<videos, scratch, videoLock>>
    BY DEF videoVars
<1>2. PublishedBytes' = PublishedBytes
    BY <1>1 DEF PublishedBytes
<1>3. ReservedBytes' = ReservedBytes
    <2>1. \A x : x \in ReservedBytes' <=> \E q \in Transferring' : x \in {q} \X (1..SizeOf[etag'[q]])
        BY DEF ReservedBytes, Transferring
    <2>2. \A x : x \in ReservedBytes' <=> x \in ReservedBytes
        BY <2>1, WhoseBytes
    <2> QED BY <2>2 DEF ReservedBytes
<1>4. TransfersOK'
    BY <1>1 DEF TransfersOK
<1>5. CountedOK'
    BY <1>1, <1>2, <1>3 DEF CountedOK, ScratchAccounted
<1> QED BY <1>4, <1>5

\* One transfer begins, or ends.
LEMMA MoreReserved ==
    ASSUME NEW r \in Requests, r \notin Transferring, Transferring' = Transferring \cup {r},
           UNCHANGED etag, IsFiniteSet(ReservedBytes), SizeOf[etag[r]] \in Nat
    PROVE  /\ IsFiniteSet(ReservedBytes')
           /\ Cardinality(ReservedBytes') = Cardinality(ReservedBytes) + SizeOf[etag[r]]
<1>1. \A x : x \in ReservedBytes' <=> \E q \in Transferring' : x \in {q} \X (1..SizeOf[etag[q]])
    BY DEF ReservedBytes, Transferring
<1>2. \A x : x \in ReservedBytes' <=> x \in ReservedBytes \cup ({r} \X (1..SizeOf[etag[r]]))
    BY <1>1, WhoseBytes
<1>3. ReservedBytes' = ReservedBytes \cup ({r} \X (1..SizeOf[etag[r]]))
    BY <1>2 DEF ReservedBytes
<1> DEFINE B == {r} \X (1..SizeOf[etag[r]])
<1>4. ReservedBytes \cap B = {}
    BY WhoseBytes
<1>5. IsFiniteSet(B) /\ Cardinality(B) = SizeOf[etag[r]] /\ ReservedBytes' = ReservedBytes \cup B
    BY <1>3, HolderBytes
<1> HIDE DEF B
<1> QED BY <1>4, <1>5, BytesAdd

LEMMA LessReserved ==
    ASSUME NEW r \in Transferring, Transferring' = Transferring \ {r},
           UNCHANGED etag, IsFiniteSet(ReservedBytes), SizeOf[etag[r]] \in Nat
    PROVE  /\ IsFiniteSet(ReservedBytes')
           /\ Cardinality(ReservedBytes') = Cardinality(ReservedBytes) - SizeOf[etag[r]]
<1>1. \A x : x \in ReservedBytes' <=> \E q \in Transferring' : x \in {q} \X (1..SizeOf[etag[q]])
    BY DEF ReservedBytes, Transferring
<1>2. \A x : x \in ReservedBytes <=> x \in ReservedBytes' \cup ({r} \X (1..SizeOf[etag[r]]))
    BY <1>1, WhoseBytes
<1>3. ReservedBytes = ReservedBytes' \cup ({r} \X (1..SizeOf[etag[r]]))
    BY <1>2 DEF ReservedBytes
<1> DEFINE B == {r} \X (1..SizeOf[etag[r]])
<1>4. ReservedBytes' \cap B = {}
    <2>1. ASSUME NEW x \in ReservedBytes' PROVE x[1] # r
        <3>1. PICK q \in Transferring' : x \in {q} \X (1..SizeOf[etag[q]])
            BY <1>1, <2>1
        <3> QED BY <3>1
    <2> QED BY <2>1
<1>5. IsFiniteSet(ReservedBytes')
    BY <1>3, FS_Subset
<1>6. IsFiniteSet(B) /\ Cardinality(B) = SizeOf[etag[r]] /\ ReservedBytes = ReservedBytes' \cup B
    BY <1>3, HolderBytes
<1> HIDE DEF B
<1> QED BY <1>4, <1>5, <1>6, BytesAdd

LEMMA MorePublished ==
    ASSUME NEW v, v \notin videos, videos' = videos \cup {v},
           IsFiniteSet(PublishedBytes), SizeOf[v] \in Nat
    PROVE  /\ IsFiniteSet(PublishedBytes')
           /\ Cardinality(PublishedBytes') = Cardinality(PublishedBytes) + SizeOf[v]
<1>1. \A x : x \in PublishedBytes' <=> x \in PublishedBytes \cup ({v} \X (1..SizeOf[v]))
    BY DEF PublishedBytes
<1>2. PublishedBytes' = PublishedBytes \cup ({v} \X (1..SizeOf[v]))
    BY <1>1 DEF PublishedBytes
<1> DEFINE B == {v} \X (1..SizeOf[v])
<1>3. PublishedBytes \cap B = {}
    BY WhoseBytes
<1>4. IsFiniteSet(B) /\ Cardinality(B) = SizeOf[v] /\ PublishedBytes' = PublishedBytes \cup B
    BY <1>2, HolderBytes
<1> HIDE DEF B
<1> QED BY <1>3, <1>4, BytesAdd

LEMMA ScratchStep ==
    ASSUME ScratchInv, [SourcesNext]_sourceVars
    PROVE  TransfersOK' /\ FoundOK' /\ CountedOK'
<1>0. /\ TransfersOK /\ FoundOK /\ CountedOK
      /\ task \in [Requests -> Tasks] /\ etag \in [Requests -> Nat] /\ version \in 1..Versions
      /\ \A r \in Transferring : etag[r] # 0 /\ r \in Requests
    BY DEF ScratchInv, SourcesInv, ObjectsInv, RequestsInv, RequestOK, Transferring
<1>1. FoundOK'
    <2>1. \/ etag' = etag \/ \E r \in Requests : etag' = [etag EXCEPT ![r] = version]
        BY DEF SourcesNext, sourceVars, Rewrite, OpenVideo, LockVideo, Transfer, PublishVideo,
               AbortVideo, OpenContext, LockContext, CopyMetadata, CopyShard, SyncFails,
               AbortContext, Load, GiveOut, RewriteShard, OtherEpisodes
    <2> QED BY <1>0, <2>1 DEF FoundOK
<1>2. \A r \in Transferring : etag[r] \in 1..Versions /\ SizeOf[etag[r]] \in Nat
    BY <1>0, SourcesAssumption DEF FoundOK
<1>3. ASSUME UNCHANGED <<task, etag, videoVars>> PROVE TransfersOK' /\ CountedOK'
    BY <1>0, <1>3, StillTransferring DEF Transferring
<1>4. ASSUME NEW r \in Requests, NEW t \in Tasks, To(r, t), task[r] # "transferring",
             t # "transferring", UNCHANGED videoVars, \A q \in Requests \ {r} : etag'[q] = etag[q]
      PROVE  TransfersOK' /\ CountedOK'
    <2>1. Transferring' = Transferring /\ \A q \in Transferring : etag'[q] = etag[q]
        BY <1>0, <1>4 DEF To, Transferring
    <2> QED BY <1>0, <1>4, <2>1, StillTransferring
<1>5. ASSUME NEW r \in Requests, LockVideo(r) PROVE TransfersOK' /\ CountedOK'
    <2>1. CASE UNCHANGED videoVars
        <3>1. \E t \in {"served", "failed"} : To(r, t)
            BY <1>0, <1>5, <2>1, SourcesAssumption DEF LockVideo, videoVars
        <3> QED BY <1>4, <1>5, <2>1, <3>1 DEF LockVideo, Tasks
    <2>2. CASE etag[r] \notin videos /\ Fits(etag[r])
        <3>1. /\ task[r] = "waiting" /\ etag[r] \notin videoLock /\ To(r, "transferring")
              /\ scratch' = scratch + SizeOf[etag[r]] /\ videoLock' = videoLock \cup {etag[r]}
              /\ UNCHANGED <<etag, videos>>
            BY <1>5, <2>2 DEF LockVideo
        <3>2. r \notin Transferring /\ Transferring' = Transferring \cup {r}
            BY <1>0, <3>1 DEF To, Transferring
        <3>3. SizeOf[etag[r]] \in Nat
            BY <1>0, <3>1, SourcesAssumption DEF ScratchInv, SourcesInv, RequestsInv, RequestOK, FoundOK
        <3>4. TransfersOK'
            BY <1>0, <2>2, <3>1, <3>2 DEF TransfersOK
        <3>5. /\ IsFiniteSet(ReservedBytes')
              /\ Cardinality(ReservedBytes') = Cardinality(ReservedBytes) + SizeOf[etag[r]]
            BY <1>0, <3>1, <3>2, <3>3, MoreReserved DEF CountedOK
        <3>6. PublishedBytes' = PublishedBytes
            BY <3>1 DEF PublishedBytes
        <3>7. Cardinality(ReservedBytes) \in Nat /\ Cardinality(PublishedBytes) \in Nat
            BY <1>0, FS_CardinalityType DEF CountedOK
        <3>8. CountedOK'
            BY SMTT(30), <1>0, <2>2, <3>1, <3>3, <3>5, <3>6, <3>7, SourcesAssumption
               DEF CountedOK, ScratchAccounted, Fits
        <3> QED BY <3>4, <3>8
    <2> QED BY <1>5, <2>1, <2>2 DEF LockVideo, videoVars
\* A transfer that ends unlocks its version; no other transfer is of it.
<1>6. ASSUME NEW r \in Transferring, NEW t \in {"failed", "served"}, To(r, t), UNCHANGED etag,
             videoLock' = videoLock \ {etag[r]},
             \/ videos' = videos /\ scratch' = scratch - SizeOf[etag[r]]
             \/ videos' = videos \cup {etag[r]} /\ scratch' = scratch
      PROVE  TransfersOK' /\ CountedOK'
    <2>1. Transferring' = Transferring \ {r}
        BY <1>0, <1>6 DEF To, Transferring
    <2>2. TransfersOK'
        BY <1>0, <1>6, <2>1 DEF TransfersOK
    <2>3. /\ IsFiniteSet(ReservedBytes')
          /\ Cardinality(ReservedBytes') = Cardinality(ReservedBytes) - SizeOf[etag[r]]
        BY <1>0, <1>2, <1>6, <2>1, LessReserved DEF CountedOK
    <2>4. /\ Cardinality(ReservedBytes) \in Nat /\ Cardinality(PublishedBytes) \in Nat
          /\ Cardinality(ReservedBytes') \in Nat /\ SizeOf[etag[r]] \in Nat
        BY <1>0, <1>2, <2>3, FS_CardinalityType DEF CountedOK
    <2>5. CASE videos' = videos /\ scratch' = scratch - SizeOf[etag[r]]
        <3>1. PublishedBytes' = PublishedBytes
            BY <2>5 DEF PublishedBytes
        <3>2. scratch = Cardinality(PublishedBytes) + Cardinality(ReservedBytes) /\ scratch <= ScratchBytes
            BY <1>0 DEF CountedOK, ScratchAccounted
        <3>3. /\ scratch' = Cardinality(PublishedBytes) + Cardinality(ReservedBytes')
              /\ scratch' \in Nat /\ scratch' <= ScratchBytes
            <4> DEFINE p == Cardinality(PublishedBytes)
                       q == Cardinality(ReservedBytes')
                       n == SizeOf[etag[r]]
            <4>1. p \in Nat /\ q \in Nat /\ n \in Nat /\ scratch = p + (q + n) /\ scratch' = scratch - n
                BY <2>3, <2>4, <2>5, <3>2
            <4> HIDE DEF p, q, n
            <4>2. scratch' = p + q /\ scratch' <= ScratchBytes /\ scratch' \in Nat
                BY <3>2, <4>1, SourcesAssumption
            <4> QED BY <4>2 DEF p, q
        <3> QED BY <1>0, <2>2, <2>3, <3>1, <3>3 DEF CountedOK, ScratchAccounted
    <2>6. CASE videos' = videos \cup {etag[r]} /\ scratch' = scratch
        <3>1. /\ IsFiniteSet(PublishedBytes')
              /\ Cardinality(PublishedBytes') = Cardinality(PublishedBytes) + SizeOf[etag[r]]
            BY <1>0, <1>2, <2>6, MorePublished DEF TransfersOK, CountedOK
        <3> QED BY <1>0, <2>2, <2>3, <2>4, <2>6, <3>1, SourcesAssumption DEF CountedOK, ScratchAccounted
    <2> QED BY <1>6, <2>5, <2>6
<1>7. ASSUME NEW r \in Requests, PublishVideo(r) \/ AbortVideo(r) PROVE TransfersOK' /\ CountedOK'
    <2>1. r \in Transferring
        BY <1>7 DEF PublishVideo, AbortVideo, Transferring
    <2> QED BY <1>6, <1>7, <2>1 DEF PublishVideo, AbortVideo, GiveUp
<1>8. ASSUME NEW r \in Requests, OpenVideo(r) \/ OpenContext(r) PROVE TransfersOK' /\ CountedOK'
    <2>1. /\ task[r] = "idle" /\ UNCHANGED videoVars /\ etag' = [etag EXCEPT ![r] = version]
          /\ \E t \in {"failed", "served", "waiting", "locking"} : To(r, t)
        BY <1>8 DEF OpenVideo, OpenContext
    <2>2. \A q \in Requests \ {r} : etag'[q] = etag[q]
        BY <1>0, <2>1
    <2> QED BY <1>4, <2>1, <2>2 DEF Tasks
<1>9. ASSUME NEW r \in Requests,
             LockContext(r) \/ CopyShard(r) \/ SyncFails(r) \/ AbortContext(r) \/ Load(r) \/ GiveOut(r)
      PROVE  TransfersOK' /\ CountedOK'
    <2>1. /\ task[r] # "transferring" /\ UNCHANGED <<videoVars, etag>>
          /\ \E t \in {"loading", "syncing", "failed", "loaded", "served"} : To(r, t)
        BY <1>9 DEF LockContext, CopyShard, SyncFails, AbortContext, Load, GiveOut
    <2> QED BY <1>4, <2>1 DEF Tasks
<1>10. CASE \/ Rewrite \/ RewriteShard \/ OtherEpisodes \/ UNCHANGED sourceVars
            \/ \E r \in Requests : Transfer(r) \/ CopyMetadata(r)
    <2>1. UNCHANGED <<task, etag, videoVars>>
        BY <1>10 DEF Rewrite, RewriteShard, OtherEpisodes, Transfer, CopyMetadata, sourceVars, videoVars
    <2> QED BY <1>1, <1>3, <2>1
<1> QED BY <1>1, <1>5, <1>7, <1>8, <1>9, <1>10 DEF SourcesNext

\* For any requests, versions and sizes: what is counted against the budget is
\* what lies on disk or is on its way, and it stays within the budget
\* (materialize_blob_video).
THEOREM ScratchAccountedTheorem == SourcesSpec => []ScratchAccounted
<1>1. SourcesInit => TransfersOK /\ FoundOK /\ CountedOK
    <2> SUFFICES ASSUME SourcesInit PROVE TransfersOK /\ FoundOK /\ CountedOK
        OBVIOUS
    <2>1. Transferring = {} /\ videos = {} /\ scratch = 0 /\ \A r \in Requests : etag[r] = 0
        BY DEF SourcesInit, Transferring
    <2>2. ReservedBytes = {} /\ PublishedBytes = {}
        BY <2>1 DEF ReservedBytes, PublishedBytes, Transferring
    <2>3. TransfersOK /\ FoundOK
        BY <2>1, SourcesAssumption DEF TransfersOK, FoundOK
    <2>4. Cardinality(ReservedBytes) = 0 /\ Cardinality(PublishedBytes) = 0
        BY <2>2, FS_EmptySet
    <2>5. CountedOK
        BY <2>1, <2>2, <2>4, FS_EmptySet, SourcesAssumption DEF CountedOK, ScratchAccounted
    <2> QED BY <2>3, <2>5
<1>2. ScratchInv /\ [SourcesNext]_sourceVars => ScratchInv'
    BY ScratchStep, SourcesStep DEF ScratchInv
<1>3. SourcesInit => ScratchInv
    BY <1>1, SourcesInitially DEF ScratchInv
<1>4. ScratchInv => ScratchAccounted
    BY DEF ScratchInv, CountedOK
<1> QED BY <1>2, <1>3, <1>4, PTL DEF SourcesSpec

-----------------------------------------------------------------------------
(* CheckpointUpload *)

Wrappers == {"scanning", "ending", "final", "ended"}
FrameSet == [left : SUBSET Checkpoints, at : {"next", "register", "tag", "add"},
             cur : Checkpoints \cup {0}, tries : Nat]

\* A frame that works on a checkpoint has one; an ended wrapper has no frame.
UploadType ==
    /\ disk \in [Checkpoints -> {"absent", "empty", "partial", "complete"}]
    /\ trainer \in {"running", "done", "failed", "killed"} /\ wrapper \in Wrappers
    /\ frames \in Seq(FrameSet)
    /\ \A i \in 1..Len(frames) : frames[i].at = "next" <=> frames[i].cur = 0
    /\ wrapper = "ended" => frames = <<>>
    /\ uploaded \subseteq Checkpoints /\ registered \subseteq Checkpoints
    /\ versions \in [Checkpoints -> Nat] /\ excuses \in [Checkpoints -> Nat]
    /\ result \in {"none", "success", "failure"} /\ (result # "none" => wrapper = "ended")

\* The versions of a checkpoint, with those that its frames may still make.
Upcoming(c) == {i \in 1..Len(frames) : frames[i].at = "register" /\ frames[i].cur = c}
Owed(c) == versions[c] + Cardinality(Upcoming(c))
AtTop(c) == frames # <<>> /\ Top.cur = c

\* There is room for one more whenever an upload of it can begin: by a scan
\* that has not marked it, and at the end while it has no tag.
Accounted(c) ==
    /\ Owed(c) <= 1 + excuses[c]
    /\ c \notin uploaded /\ ~AtTop(c) /\ wrapper # "ended" => Owed(c) <= excuses[c]
    /\ c \notin registered /\ wrapper \in {"scanning", "ending"}
          /\ (c \in uploaded \/ (AtTop(c) /\ Top.at = "add")) => Owed(c) <= excuses[c]

\* A tag is set on what is a model; the final registration is about the newest.
NewestOK ==
    /\ \A c \in registered : versions[c] > 0
    /\ \A i \in 1..Len(frames) : frames[i].at = "tag" => versions[frames[i].cur] > 0
    /\ wrapper = "final" => /\ trainer = "done" /\ frames # <<>>
                            /\ frames[1].at = "register" /\ frames[1].cur = Max(Listed)
    /\ result = "success" => trainer = "done" /\ NewestRegistered

UploadInv == UploadType /\ NewestOK /\ \A c \in Checkpoints : Accounted(c)

LEMMA LeastIn ==
    ASSUME NEW S \in SUBSET Nat, S # {}
    PROVE  Min(S) \in S
<1>1. IsWellFoundedOn(OpToRel(<, Nat), Nat)
    BY NatLessThanWellFounded
<1>2. PICK x \in S : \A y \in S : ~ (<<y, x>> \in OpToRel(<, Nat))
    BY <1>1, WFMin
<1>3. x \in Nat /\ \A y \in S : y \in Nat /\ ~(y < x)
    BY <1>2 DEF OpToRel
<1>4. \A y \in S : x =< y
    BY <1>3
<1> QED BY <1>4 DEF Min

LEMMA UploadInitially == UploadInit => UploadInv
<1> SUFFICES ASSUME UploadInit PROVE UploadInv
    OBVIOUS
<1> USE UploadAssumption DEF UploadInit
<1>1. UploadType /\ frames = <<>>
    BY DEF UploadType, Wrappers
<1>2. NewestOK
    BY <1>1 DEF NewestOK
<1>3. ASSUME NEW c \in Checkpoints PROVE Accounted(c)
    <2>1. Upcoming(c) = {}
        BY <1>1 DEF Upcoming
    <2>2. Owed(c) = 0
        BY <2>1, FS_EmptySet DEF Owed
    <2> QED BY <2>2 DEF Accounted
<1> QED BY <1>1, <1>2, <1>3 DEF UploadInv

-----------------------------------------------------------------------------
(* The frames and what they may still make *)

Makes(f, c) == IF f.at = "register" /\ f.cur = c THEN 1 ELSE 0

LEMMA TopType ==
    ASSUME UploadType, frames # <<>>
    PROVE  /\ Len(frames) \in Nat \ {0} /\ Top \in FrameSet /\ Top = frames[Len(frames)]
           /\ Top.at = "next" <=> Top.cur = 0
           /\ Top.at # "next" => Top.cur \in Checkpoints
           /\ wrapper # "ended" /\ result = "none"
<1>1. Len(frames) \in Nat \ {0} /\ frames[Len(frames)] \in FrameSet
    BY DEF UploadType
<1> QED BY <1>1 DEF UploadType, Top, FrameSet

\* The frames of a sequence that may still make a version.
At(fs, c) == {i \in 1..Len(fs) : fs[i].at = "register" /\ fs[i].cur = c}

LEMMA AtFinite ==
    ASSUME NEW fs \in Seq(FrameSet), NEW c
    PROVE  IsFiniteSet(At(fs, c)) /\ Cardinality(At(fs, c)) \in Nat
<1>1. At(fs, c) \subseteq 1..Len(fs) /\ Len(fs) \in Nat
    BY DEF At
<1>2. IsFiniteSet(1..Len(fs))
    BY <1>1, FS_Interval
<1>3. IsFiniteSet(At(fs, c))
    BY <1>1, <1>2, FS_Subset
<1> QED BY <1>3, FS_CardinalityType

LEMMA AtLast ==
    ASSUME NEW fs \in Seq(FrameSet), NEW gs \in Seq(FrameSet), NEW c,
           Len(gs) = Len(fs) + 1, \A i \in 1..Len(fs) : gs[i] = fs[i]
    PROVE  Cardinality(At(gs, c)) = Cardinality(At(fs, c)) + Makes(gs[Len(gs)], c)
<1> DEFINE n == Len(gs)
<1>0. Len(fs) \in Nat /\ n = Len(fs) + 1 /\ Cardinality(At(fs, c)) \in Nat
    BY AtFinite
<1>1. n \in Nat \ {0} /\ n = Len(fs) + 1 /\ n \notin At(fs, c) /\ Cardinality(At(fs, c)) \in Nat
    BY <1>0 DEF At
<1>2. CASE gs[n].at = "register" /\ gs[n].cur = c
    <2>1. At(gs, c) = At(fs, c) \cup {n}
        BY <1>1, <1>2 DEF At
    <2>2. Cardinality(At(fs, c) \cup {n}) = Cardinality(At(fs, c)) + 1
        BY <1>1, AtFinite, FS_AddElement
    <2> QED BY <1>2, <2>1, <2>2 DEF Makes
<1>3. CASE ~(gs[n].at = "register" /\ gs[n].cur = c)
    <2>1. At(gs, c) = At(fs, c)
        BY <1>1, <1>3 DEF At
    <2> QED BY <1>1, <1>3, <2>1 DEF Makes
<1> QED BY <1>2, <1>3

LEMMA FrontFacts ==
    ASSUME NEW fs \in Seq(FrameSet), Len(fs) \in Nat \ {0}
    PROVE  LET gs == SubSeq(fs, 1, Len(fs) - 1)
           IN  gs \in Seq(FrameSet) /\ Len(gs) + 1 = Len(fs) /\ \A i \in 1..Len(gs) : gs[i] = fs[i]
<1> DEFINE n == Len(fs) - 1
<1>1. n \in Nat /\ n <= Len(fs)
    OBVIOUS
<1> HIDE DEF n
<1>2. Len(SubSeq(fs, 1, n)) = n
    BY <1>1
<1>3. \A i \in 1..n : SubSeq(fs, 1, n)[i] = fs[i]
    BY <1>1
<1>4. SubSeq(fs, 1, n) \in Seq(FrameSet)
    BY <1>1, <1>2, <1>3
<1> QED BY <1>1, <1>2, <1>3, <1>4 DEF n

LEMMA PopFacts ==
    ASSUME UploadType, frames # <<>>, Pop
    PROVE  /\ frames' \in Seq(FrameSet) /\ Len(frames') = Len(frames) - 1
           /\ \A i \in 1..Len(frames') : frames'[i] = frames[i]
           /\ \A c : Cardinality(Upcoming(c)) = Cardinality(Upcoming(c)') + Makes(Top, c)
           /\ \A c : Cardinality(Upcoming(c)') \in Nat
<1>1. /\ frames' \in Seq(FrameSet) /\ Len(frames') = Len(frames) - 1
      /\ \A i \in 1..Len(frames') : frames'[i] = frames[i]
    <2>1. frames \in Seq(FrameSet) /\ Len(frames) \in Nat \ {0}
        BY TopType DEF UploadType
    <2>2. frames' = SubSeq(frames, 1, Len(frames) - 1)
        BY DEF Pop
    <2> DEFINE gs == SubSeq(frames, 1, Len(frames) - 1)
    <2>3. gs \in Seq(FrameSet) /\ Len(gs) + 1 = Len(frames) /\ \A i \in 1..Len(gs) : gs[i] = frames[i]
        BY <2>1, FrontFacts
    <2> HIDE DEF gs
    <2>4. frames' = gs
        BY <2>2 DEF gs
    <2> QED BY <2>1, <2>3, <2>4
<1>2. \A c : Cardinality(At(frames, c)) = Cardinality(At(frames', c)) + Makes(frames[Len(frames)], c)
    <2>1. /\ frames \in Seq(FrameSet) /\ Len(frames) = Len(frames') + 1
          /\ \A i \in 1..Len(frames') : frames[i] = frames'[i]
        BY <1>1, TopType DEF UploadType
    <2> QED BY <1>1, <2>1, AtLast
<1>3. \A c : Cardinality(At(frames', c)) \in Nat
    BY <1>1, AtFinite
<1> QED BY <1>1, <1>2, <1>3 DEF At, Upcoming, Top

LEMMA SetTopFacts ==
    ASSUME UploadType, frames # <<>>, NEW f \in FrameSet, SetTop(f)
    PROVE  /\ frames' \in Seq(FrameSet) /\ frames' # <<>> /\ Len(frames') = Len(frames)
           /\ Top' = f /\ \A i \in 1..(Len(frames) - 1) : frames'[i] = frames[i]
           /\ \A c : Cardinality(Upcoming(c)') + Makes(Top, c) = Cardinality(Upcoming(c)) + Makes(f, c)
           /\ \A c : Cardinality(Upcoming(c)') \in Nat
<1> DEFINE gs == SubSeq(frames, 1, Len(frames) - 1)
<1>1. frames \in Seq(FrameSet) /\ Len(frames) \in Nat \ {0}
    BY TopType DEF UploadType
<1>2. frames' = [frames EXCEPT ![Len(frames)] = f]
    BY DEF SetTop
<1>3. frames' \in Seq(FrameSet) /\ Len(frames') = Len(frames)
    BY <1>1, <1>2
<1>4. frames'[Len(frames)] = f /\ \A i \in 1..(Len(frames) - 1) : frames'[i] = frames[i]
    BY <1>1, <1>2
<1>5. gs \in Seq(FrameSet) /\ Len(gs) + 1 = Len(frames) /\ \A i \in 1..Len(gs) : gs[i] = frames[i]
    BY <1>1, FrontFacts
<1>6. ASSUME NEW c PROVE Cardinality(Upcoming(c)') + Makes(Top, c) = Cardinality(Upcoming(c)) + Makes(f, c)
    <2>1. Cardinality(At(frames, c)) = Cardinality(At(gs, c)) + Makes(frames[Len(frames)], c)
        BY <1>1, <1>5, AtLast
    <2>2. Cardinality(At(frames', c)) = Cardinality(At(gs, c)) + Makes(frames'[Len(frames')], c)
        <3>1. Len(frames') = Len(gs) + 1 /\ \A i \in 1..Len(gs) : frames'[i] = gs[i]
            BY <1>1, <1>3, <1>4, <1>5
        <3> QED BY <1>3, <1>5, <3>1, AtLast
    <2>3. Cardinality(At(gs, c)) \in Nat
        BY <1>5, AtFinite
    <2>4. At(frames, c) = Upcoming(c) /\ At(frames', c) = Upcoming(c)'
        BY DEF At, Upcoming
    <2> QED BY <1>3, <1>4, <2>1, <2>2, <2>3, <2>4 DEF Makes, Top
<1>7. \A c : Cardinality(At(frames', c)) \in Nat
    BY <1>3, AtFinite
<1> QED BY <1>1, <1>3, <1>4, <1>6, <1>7 DEF Top, At, Upcoming

LEMMA PushFacts ==
    ASSUME UploadType, NEW f \in FrameSet, frames' = Append(frames, f)
    PROVE  /\ frames' \in Seq(FrameSet) /\ frames' # <<>> /\ Len(frames') = Len(frames) + 1
           /\ Top' = f /\ \A i \in 1..Len(frames) : frames'[i] = frames[i]
           /\ \A c : Cardinality(Upcoming(c)') = Cardinality(Upcoming(c)) + Makes(f, c)
           /\ \A c : Cardinality(Upcoming(c)') \in Nat
<1>1. frames \in Seq(FrameSet) /\ Len(frames) \in Nat
    BY DEF UploadType
<1>2. /\ frames' \in Seq(FrameSet) /\ Len(frames') = Len(frames) + 1
      /\ \A i \in 1..Len(frames) : frames'[i] = frames[i]
      /\ frames'[Len(frames')] = f
    BY <1>1
<1>3. \A c : Cardinality(At(frames', c)) = Cardinality(At(frames, c)) + Makes(f, c)
    BY ZenonT(60), <1>1, <1>2, AtLast
<1>4. \A c : Cardinality(At(frames', c)) \in Nat
    BY <1>2, AtFinite
<1>5. \A c : At(frames, c) = Upcoming(c) /\ At(frames', c) = Upcoming(c)'
    BY DEF At, Upcoming
<1> QED BY <1>1, <1>2, <1>3, <1>4, <1>5 DEF Top

LEMMA OwedType ==
    ASSUME UploadType, NEW c \in Checkpoints
    PROVE  /\ versions[c] \in Nat /\ Cardinality(Upcoming(c)) \in Nat /\ excuses[c] \in Nat
           /\ Owed(c) = versions[c] + Cardinality(Upcoming(c)) /\ Owed(c) \in Nat
<1>1. Cardinality(Upcoming(c)) \in Nat
    BY AtFinite DEF At, Upcoming, UploadType
<1> QED BY <1>1 DEF UploadType, Owed

-----------------------------------------------------------------------------
(* Every step keeps the account *)

LEMMA QuietKeeps ==
    ASSUME UploadInv,
           UNCHANGED <<wrapper, frames, uploaded, registered, versions, excuses>>
    PROVE  \A c \in Checkpoints : Accounted(c)'
BY DEF UploadInv, Accounted, AtTop, Owed, Upcoming, Top

LEMMA WriteKeeps == ASSUME UploadInv, Write PROVE UploadInv'
<1>1. /\ UNCHANGED <<trainer, wrapper, frames, uploaded, registered, versions, excuses, result>>
      /\ trainer = "running"
    BY DEF Write
<1>2. disk' \in [Checkpoints -> {"absent", "empty", "partial", "complete"}]
    <2>1. PICK c \in Checkpoints : disk[c] # "complete" /\ disk' = [disk EXCEPT ![c] = Grown[@]]
        BY DEF Write
    <2>2. disk[c] \in {"absent", "empty", "partial"}
        BY <2>1 DEF UploadInv, UploadType
    <2>3. Grown[disk[c]] \in {"empty", "partial", "complete"}
        BY <2>2 DEF Grown
    <2> QED BY <2>1, <2>3 DEF UploadInv, UploadType
<1>3. UploadType'
    BY <1>1, <1>2 DEF UploadInv, UploadType
<1>4. NewestOK'
    BY <1>1 DEF UploadInv, NewestOK
<1> QED BY <1>1, <1>3, <1>4, QuietKeeps DEF UploadInv

LEMMA ExitKeeps == ASSUME UploadInv, Exit PROVE UploadInv'
<1>1. /\ UNCHANGED <<disk, wrapper, frames, uploaded, registered, versions, excuses, result>>
      /\ trainer = "running" /\ trainer' \in {"done", "failed"}
    BY DEF Exit
<1>2. UploadType'
    BY <1>1 DEF UploadInv, UploadType
<1>3. NewestOK'
    BY <1>1 DEF UploadInv, NewestOK
<1> QED BY <1>1, <1>2, <1>3, QuietKeeps DEF UploadInv

\* What a step does to one checkpoint says what becomes of its account.
LEMMA AccountKept ==
    ASSUME UploadInv, UploadType', NEW c \in Checkpoints,
           Owed(c)' - excuses'[c] <= Owed(c) - excuses[c],
           c \in uploaded => c \in uploaded', c \in registered => c \in registered',
           wrapper' # "ended" => wrapper # "ended" /\ (c \in uploaded' \/ AtTop(c)' \/ ~AtTop(c)),
           wrapper' \in {"scanning", "ending"} =>
               /\ wrapper \in {"scanning", "ending"}
               /\ c \in uploaded' \/ (AtTop(c) /\ Top.at = "add")' =>
                     c \in uploaded \/ c \in registered' \/ ~AtTop(c) \/ Top.at = "add"
    PROVE  Accounted(c)'
<1>1. Owed(c) \in Nat /\ excuses[c] \in Nat
    BY OwedType DEF UploadInv
<1>2. excuses'[c] \in Nat /\ Owed(c)' \in Nat
    <2>1. Cardinality(Upcoming(c)') \in Nat
        BY AtFinite DEF At, Upcoming, UploadType
    <2> QED BY <2>1 DEF UploadType, Owed
<1>3. Accounted(c)
    BY DEF UploadInv
<1>4. Owed(c)' <= 1 + excuses'[c]
    BY <1>1, <1>2, <1>3 DEF Accounted
<1>5. Owed(c) <= excuses[c] => Owed(c)' <= excuses'[c]
    BY <1>1, <1>2
<1> QED BY <1>3, <1>4, <1>5 DEF Accounted

LEMMA AccountClear ==
    ASSUME UploadType', NEW c \in Checkpoints, Owed(c)' <= excuses'[c]
    PROVE  Accounted(c)'
<1>1. excuses'[c] \in Nat /\ Owed(c)' \in Nat
    <2>1. Cardinality(Upcoming(c)') \in Nat
        BY AtFinite DEF At, Upcoming, UploadType
    <2> QED BY <2>1 DEF UploadType, Owed
<1> QED BY <1>1 DEF Accounted

LEMMA FinalBelow ==
    ASSUME UploadInv, wrapper = "final", frames # <<>>, Top.at # "register"
    PROVE  Len(frames) - 1 \in Nat \ {0}
BY TopType DEF UploadInv, NewestOK

LEMMA FrameType ==
    ASSUME NEW S \in SUBSET Checkpoints, NEW c \in Checkpoints \cup {0},
           NEW at \in {"next", "register", "tag", "add"}
    PROVE  /\ Frame(S, c, at) \in FrameSet /\ Frame(S, c, at).cur = c /\ Frame(S, c, at).at = at
BY DEF Frame, FrameSet

LEMMA SelectKeeps == ASSUME UploadInv, Select PROVE UploadInv'
<1>1. /\ frames # <<>> /\ Top.at = "next" /\ Top.cur = 0 /\ Top.left \subseteq Checkpoints
      /\ wrapper # "ended" /\ \A c \in Checkpoints : ~AtTop(c) /\ Makes(Top, c) = 0
      /\ UNCHANGED <<disk, trainer, wrapper, uploaded, registered, versions, excuses, result>>
    <2>1. frames # <<>> /\ Top.at = "next"
        BY DEF Select, Running
    <2>2. Top.cur = 0 /\ Top \in FrameSet /\ wrapper # "ended"
        BY <2>1, TopType DEF UploadInv
    <2> QED BY <2>1, <2>2 DEF Select, AtTop, Makes, FrameSet, Checkpoints
<1>2. \A c \in Checkpoints : Owed(c) \in Nat /\ versions[c] \in Nat /\ Cardinality(Upcoming(c)) \in Nat
    BY OwedType DEF UploadInv
<1>3. CASE Pop
    <2>1. /\ frames' \in Seq(FrameSet) /\ Len(frames') = Len(frames) - 1
          /\ \A i \in 1..Len(frames') : frames'[i] = frames[i]
          /\ \A c : Cardinality(Upcoming(c)) = Cardinality(Upcoming(c)') + Makes(Top, c)
          /\ \A c : Cardinality(Upcoming(c)') \in Nat
        BY <1>1, <1>3, PopFacts DEF UploadInv
    <2>2. UploadType'
        BY <1>1, <2>1, TopType DEF UploadInv, UploadType
    <2>3. NewestOK'
        <3>1. \A i \in 1..Len(frames') : i \in 1..Len(frames)
            BY <1>1, <2>1, TopType DEF UploadInv
        <3>2. wrapper = "final" => frames' # <<>> /\ frames'[1] = frames[1]
            BY <1>1, <2>1, FinalBelow
        <3> QED BY <1>1, <2>1, <3>1, <3>2 DEF UploadInv, NewestOK, NewestRegistered, Listed
    <2>4. ASSUME NEW c \in Checkpoints PROVE Accounted(c)'
        <3>1. Cardinality(Upcoming(c)') = Cardinality(Upcoming(c)) /\ excuses[c] \in Nat
            BY <1>1, <1>2, <2>1 DEF UploadInv, UploadType
        <3>2. Owed(c)' = Owed(c)
            BY <1>1, <3>1 DEF Owed
        <3>3. Owed(c)' - excuses'[c] <= Owed(c) - excuses[c]
            BY <1>1, <1>2, <3>1, <3>2
        <3> QED BY <1>1, <2>2, <3>3, AccountKept DEF UploadInv
    <2> QED BY <2>2, <2>3, <2>4 DEF UploadInv
<1>4. ASSUME Top.left # {}, NEW f, SetTop(f),
             f = IF New(Min(Top.left)) THEN Frame(Top.left \ {Min(Top.left)}, Min(Top.left), "register")
                                       ELSE Frame(Top.left \ {Min(Top.left)}, 0, "next")
      PROVE  UploadInv'
    <2> DEFINE b == Min(Top.left)
    <2>1. b \in Checkpoints
        <3>1. Top.left \in SUBSET Nat
            BY <1>1 DEF Checkpoints
        <3> QED BY <1>1, <1>4, <3>1, LeastIn
    <2> HIDE DEF b
    <2>2. /\ f \in FrameSet
          /\ \/ f.at = "register" /\ f.cur = b /\ New(b)
             \/ f.at = "next" /\ f.cur = 0
        <3>1. Top.left \ {b} \in SUBSET Checkpoints
            BY <1>1
        <3>2. CASE New(b)
            <4>1. f = Frame(Top.left \ {b}, b, "register")
                BY <1>4, <3>2 DEF b
            <4>2. b \in Checkpoints \cup {0}
                BY <2>1
            <4>3. f \in FrameSet /\ f.cur = b /\ f.at = "register"
                BY <3>1, <4>1, <4>2, FrameType
            <4> QED BY <3>2, <4>3
        <3>3. CASE ~New(b)
            <4>1. f = Frame(Top.left \ {b}, 0, "next")
                BY <1>4, <3>3 DEF b
            <4> QED BY <3>1, <4>1, FrameType
        <3> QED BY <3>2, <3>3
    <2>3. /\ frames' \in Seq(FrameSet) /\ frames' # <<>> /\ Len(frames') = Len(frames)
          /\ Top' = f /\ \A i \in 1..(Len(frames) - 1) : frames'[i] = frames[i]
          /\ \A c : Cardinality(Upcoming(c)') + Makes(Top, c) = Cardinality(Upcoming(c)) + Makes(f, c)
          /\ \A c : Cardinality(Upcoming(c)') \in Nat
        BY <1>1, <1>4, <2>2, SetTopFacts DEF UploadInv
    <2>4. \A i \in 1..Len(frames) : i \in 1..(Len(frames) - 1) \/ frames'[i] = f
        BY <1>1, <2>3, TopType DEF UploadInv, Top
    <2>5. UploadType'
        <3>1. \A i \in 1..Len(frames') : frames'[i].at = "next" <=> frames'[i].cur = 0
            BY <2>1, <2>2, <2>3, <2>4 DEF UploadInv, UploadType, Checkpoints
        <3> QED BY <1>1, <2>3, <3>1 DEF UploadInv, UploadType
    <2>6. NewestOK'
        <3>1. wrapper = "final" => frames'[1] = frames[1]
            BY <1>1, <2>3, FinalBelow
        <3> QED BY <1>1, <2>2, <2>3, <2>4, <3>1 DEF UploadInv, NewestOK, NewestRegistered, Listed
    <2>7. ASSUME NEW c \in Checkpoints PROVE Accounted(c)'
        <3>1. /\ Cardinality(Upcoming(c)') = Cardinality(Upcoming(c)) + Makes(f, c)
              /\ Makes(f, c) \in {0, 1} /\ excuses[c] \in Nat /\ Owed(c) \in Nat
            <4>1. Makes(f, c) \in {0, 1} /\ excuses[c] \in Nat
                BY DEF Makes, UploadInv, UploadType
            <4> QED BY <1>1, <1>2, <2>3, <4>1
        <3>2. Owed(c)' = Owed(c) + Makes(f, c)
            BY <1>1, <1>2, <3>1 DEF Owed
        <3>3. CASE Makes(f, c) = 0
            <4>1. Owed(c)' - excuses'[c] <= Owed(c) - excuses[c]
                BY <1>1, <3>1, <3>2, <3>3
            <4> QED BY <1>1, <2>5, <4>1, AccountKept DEF UploadInv
        <3>4. CASE Makes(f, c) = 1
            <4>1. f.at = "register" /\ f.cur = c /\ c \notin uploaded /\ AtTop(c)'
                BY <2>2, <2>3, <3>4 DEF Makes, New, AtTop
            <4>2. Owed(c) <= excuses[c]
                BY <1>1, <4>1 DEF UploadInv, Accounted
            <4>3. Owed(c)' <= 1 + excuses'[c]
                BY <1>1, <3>1, <3>2, <3>4, <4>2
            <4> QED BY <1>1, <2>3, <4>1, <4>3 DEF Accounted
        <3> QED BY <3>1, <3>3, <3>4
    <2> QED BY <2>5, <2>6, <2>7 DEF UploadInv
<1> QED BY <1>3, <1>4 DEF Select

LEMMA TopKept ==
    ASSUME UploadInv, frames # <<>>, NEW f \in FrameSet, SetTop(f),
           f.at = "next" <=> f.cur = 0
    PROVE  /\ frames' \in Seq(FrameSet)
           /\ \A i \in 1..Len(frames') : frames'[i].at = "next" <=> frames'[i].cur = 0
           /\ frames' # <<>> /\ Len(frames') = Len(frames) /\ Top' = f
           /\ \A i \in 1..Len(frames') : (i \in 1..Len(frames) /\ frames'[i] = frames[i]) \/ frames'[i] = f
           /\ wrapper = "final" /\ Top.at # "register" => frames'[1] = frames[1]
           /\ wrapper = "final" /\ Top.at = "register" =>
                 frames'[1] = frames[1] \/ (frames'[1] = f /\ Top = frames[1] /\ Len(frames) = 1)
           /\ \A c : Cardinality(Upcoming(c)') + Makes(Top, c) = Cardinality(Upcoming(c)) + Makes(f, c)
           /\ \A c : Cardinality(Upcoming(c)') \in Nat
           /\ \A c : AtTop(c)' <=> f.cur = c
<1>1. /\ frames' \in Seq(FrameSet) /\ frames' # <<>> /\ Len(frames') = Len(frames)
      /\ Top' = f /\ \A i \in 1..(Len(frames) - 1) : frames'[i] = frames[i]
      /\ \A c : Cardinality(Upcoming(c)') + Makes(Top, c) = Cardinality(Upcoming(c)) + Makes(f, c)
      /\ \A c : Cardinality(Upcoming(c)') \in Nat
    BY SetTopFacts DEF UploadInv
<1>2. Len(frames) \in Nat \ {0} /\ Top = frames[Len(frames)]
    BY TopType DEF UploadInv
<1>3. \A i \in 1..Len(frames) : i \in 1..(Len(frames) - 1) \/ i = Len(frames)
    BY <1>2
<1>4. frames'[Len(frames)] = f
    BY <1>1, <1>2 DEF Top
<1>5. \A i \in 1..Len(frames') : (i \in 1..Len(frames) /\ frames'[i] = frames[i]) \/ frames'[i] = f
    BY <1>1, <1>3, <1>4
<1>6. \A i \in 1..Len(frames') : frames'[i].at = "next" <=> frames'[i].cur = 0
    BY <1>5 DEF UploadInv, UploadType
<1>7. wrapper = "final" /\ Top.at # "register" => frames'[1] = frames[1]
    BY <1>1, FinalBelow
<1>8. 1 \in 1..(Len(frames) - 1) \/ Len(frames) = 1
    <2>1. \A n \in Nat \ {0} : 1 \in 1..(n - 1) \/ n = 1
        OBVIOUS
    <2> QED BY <1>2, <2>1
<1>9. frames'[1] = frames[1] \/ (frames'[1] = f /\ Top = frames[1] /\ Len(frames) = 1)
    BY <1>1, <1>2, <1>4, <1>8
<1>10. \A c : AtTop(c)' <=> f.cur = c
    BY <1>1 DEF AtTop
<1> QED BY <1>1, <1>5, <1>6, <1>7, <1>9, <1>10

LEMMA TopWith ==
    ASSUME UploadInv, frames # <<>>, NEW f, Top.at # "next",
           \/ f = [Top EXCEPT !.tries = @ + 1]
           \/ f = [Top EXCEPT !.at = "tag"]
           \/ f = [Top EXCEPT !.at = "add"]
    PROVE  f \in FrameSet /\ f.cur = Top.cur /\ f.cur # 0 /\ f.at # "next"
<1>1. Top \in FrameSet /\ Top.cur \in Checkpoints /\ 0 \notin Checkpoints
    BY TopType DEF UploadInv, Checkpoints
<1> QED BY <1>1 DEF FrameSet

LEMMA TagKeeps == ASSUME UploadInv, Tag PROVE UploadInv'
<1> DEFINE f == [Top EXCEPT !.at = "add"]
<1>1. /\ frames # <<>> /\ Top.at = "tag" /\ SetTop(f)
      /\ UNCHANGED <<disk, trainer, wrapper, uploaded, versions, result>>
    BY DEF Tag, Running
<1>2. Top \in FrameSet /\ Top.cur \in Checkpoints /\ wrapper # "ended" /\ result = "none" /\ Top.cur # 0
    BY <1>1, TopType DEF UploadInv, Checkpoints
<1>3. f \in FrameSet /\ f.cur = Top.cur /\ f.at = "add" /\ (f.at = "next" <=> f.cur = 0)
    BY <1>2 DEF FrameSet
<1> HIDE DEF f
<1>4. /\ frames' \in Seq(FrameSet)
      /\ \A i \in 1..Len(frames') : frames'[i].at = "next" <=> frames'[i].cur = 0
      /\ frames' # <<>> /\ Top' = f
      /\ \A i \in 1..Len(frames') : (i \in 1..Len(frames) /\ frames'[i] = frames[i]) \/ frames'[i] = f
      /\ wrapper = "final" => frames'[1] = frames[1]
      /\ \A c : Cardinality(Upcoming(c)') + Makes(Top, c) = Cardinality(Upcoming(c)) + Makes(f, c)
      /\ \A c : Cardinality(Upcoming(c)') \in Nat
      /\ \A c : AtTop(c)' <=> f.cur = c
    BY <1>1, <1>3, TopKept
<1>5. /\ registered' \subseteq registered \cup {Top.cur} /\ registered \subseteq registered'
      /\ excuses' \in [Checkpoints -> Nat] /\ \A c \in Checkpoints : excuses'[c] >= excuses[c]
      /\ Top.cur \in registered' \/ excuses'[Top.cur] = excuses[Top.cur] + 1
    <2>1. excuses \in [Checkpoints -> Nat]
        BY DEF UploadInv, UploadType
    <2>2. CASE registered' = registered \cup {Top.cur} /\ UNCHANGED excuses
        BY <2>1, <2>2
    <2>3. CASE Excuse(Top.cur) /\ UNCHANGED registered
        BY <1>2, <2>1, <2>3 DEF Excuse
    <2> QED BY <2>2, <2>3 DEF Tag
<1>6. UploadType'
    BY <1>1, <1>2, <1>4, <1>5 DEF UploadInv, UploadType
<1>7. NewestOK'
    <2>1. versions[Top.cur] > 0
        BY <1>1, TopType DEF UploadInv, NewestOK
    <2> QED BY <1>1, <1>2, <1>3, <1>4, <1>5, <2>1 DEF UploadInv, NewestOK, Listed
<1>8. ASSUME NEW c \in Checkpoints PROVE Accounted(c)'
    <2>1. Cardinality(Upcoming(c)) \in Nat /\ versions[c] \in Nat /\ Owed(c) \in Nat /\ excuses[c] \in Nat
        BY OwedType DEF UploadInv
    <2>2. Cardinality(Upcoming(c)') = Cardinality(Upcoming(c))
        BY <1>1, <1>3, <1>4, <2>1 DEF Makes
    <2>3. Owed(c)' = Owed(c)
        BY <1>1, <2>2 DEF Owed
    <2>4. excuses'[c] \in Nat /\ Owed(c)' - excuses'[c] <= Owed(c) - excuses[c]
        BY <1>5, <2>1, <2>3
    <2>5. CASE c # Top.cur \/ c \in registered'
        <3>1. c # Top.cur => ~AtTop(c)
            BY DEF AtTop
        <3> QED BY <1>1, <1>2, <1>3, <1>4, <1>5, <1>6, <2>4, <2>5, <3>1, AccountKept DEF AtTop
    <2>6. CASE c = Top.cur /\ c \notin registered'
        <3>1. Owed(c) <= 1 + excuses[c] /\ excuses'[c] = excuses[c] + 1
            BY <1>5, <2>6 DEF UploadInv, Accounted
        <3>2. Owed(c)' <= excuses'[c]
            BY <2>1, <2>3, <3>1
        <3> QED BY <1>6, <3>2, AccountClear
    <2> QED BY <2>5, <2>6
<1> QED BY <1>6, <1>7, <1>8 DEF UploadInv

LEMMA MarkUploadedKeeps == ASSUME UploadInv, MarkUploaded PROVE UploadInv'
<1> DEFINE f == Frame(Top.left, 0, "next")
<1>1. /\ frames # <<>> /\ Top.at = "add" /\ SetTop(f) /\ uploaded' = uploaded \cup {Top.cur}
      /\ UNCHANGED <<disk, trainer, wrapper, registered, versions, excuses, result>>
    BY DEF MarkUploaded, Running
<1>2. Top \in FrameSet /\ Top.cur \in Checkpoints /\ wrapper # "ended" /\ result = "none" /\ 0 \notin Checkpoints
    BY <1>1, TopType DEF UploadInv, Checkpoints
<1>3. f \in FrameSet /\ f.cur = 0 /\ f.at = "next"
    BY <1>2 DEF FrameSet, Frame
<1> HIDE DEF f
<1>4. /\ frames' \in Seq(FrameSet)
      /\ \A i \in 1..Len(frames') : frames'[i].at = "next" <=> frames'[i].cur = 0
      /\ frames' # <<>> /\ Top' = f
      /\ \A i \in 1..Len(frames') : (i \in 1..Len(frames) /\ frames'[i] = frames[i]) \/ frames'[i] = f
      /\ wrapper = "final" => frames'[1] = frames[1]
      /\ \A c : Cardinality(Upcoming(c)') + Makes(Top, c) = Cardinality(Upcoming(c)) + Makes(f, c)
      /\ \A c : Cardinality(Upcoming(c)') \in Nat
      /\ \A c : AtTop(c)' <=> f.cur = c
    BY <1>1, <1>3, TopKept
<1>5. UploadType'
    BY <1>1, <1>2, <1>4 DEF UploadInv, UploadType
<1>6. NewestOK'
    BY <1>1, <1>2, <1>3, <1>4 DEF UploadInv, NewestOK, Listed
<1>7. ASSUME NEW c \in Checkpoints PROVE Accounted(c)'
    <2>1. Cardinality(Upcoming(c)) \in Nat /\ versions[c] \in Nat /\ Owed(c) \in Nat /\ excuses[c] \in Nat
        BY OwedType DEF UploadInv
    <2>2. Cardinality(Upcoming(c)') = Cardinality(Upcoming(c))
        BY <1>1, <1>3, <1>4, <2>1 DEF Makes
    <2>3. Owed(c)' = Owed(c) /\ Owed(c)' - excuses'[c] <= Owed(c) - excuses[c]
        BY <1>1, <2>1, <2>2 DEF Owed
    <2>4. ~AtTop(c)' /\ (c = Top.cur => c \in uploaded') /\ (c # Top.cur => ~AtTop(c))
        BY <1>1, <1>2, <1>3, <1>4 DEF AtTop
    <2> QED BY <1>1, <1>2, <1>5, <2>3, <2>4, AccountKept
<1> QED BY <1>5, <1>6, <1>7 DEF UploadInv

LEMMA BeginsKeeps ==
    ASSUME UploadInv, ScanNow \/ ScanLast
    PROVE  UploadInv'
<1>1. /\ wrapper = "scanning" /\ wrapper' \in {"scanning", "ending"} /\ frames = <<>> /\ frames' = <<Scan>>
      /\ UNCHANGED <<disk, trainer, uploaded, registered, versions, excuses, result>>
    BY DEF ScanNow, ScanLast
<1>2. Scan \in FrameSet /\ Scan.cur = 0 /\ Scan.at = "next" /\ 0 \notin Checkpoints
    BY FrameType DEF Scan, Listed, Checkpoints
<1>3. frames' = Append(frames, Scan)
    BY <1>1
<1>4. /\ frames' \in Seq(FrameSet) /\ frames' # <<>> /\ Len(frames') = Len(frames) + 1
      /\ Top' = Scan /\ \A c : Cardinality(Upcoming(c)') = Cardinality(Upcoming(c)) + Makes(Scan, c)
    BY <1>2, <1>3, PushFacts DEF UploadInv
<1>5. \A i \in 1..Len(frames') : frames'[i] = Scan
    BY <1>1
<1>6. UploadType'
    BY <1>1, <1>2, <1>4, <1>5 DEF UploadInv, UploadType, Wrappers
<1>7. NewestOK'
    BY <1>1, <1>2, <1>5 DEF UploadInv, NewestOK, UploadType
<1>8. ASSUME NEW c \in Checkpoints PROVE Accounted(c)'
    <2>1. Cardinality(Upcoming(c)) \in Nat /\ versions[c] \in Nat /\ Owed(c) \in Nat /\ excuses[c] \in Nat
        BY OwedType DEF UploadInv
    <2>2. Cardinality(Upcoming(c)') = Cardinality(Upcoming(c))
        BY <1>2, <1>4, <2>1 DEF Makes
    <2>3. Owed(c)' - excuses'[c] <= Owed(c) - excuses[c]
        BY <1>1, <2>1, <2>2 DEF Owed
    <2>4. ~AtTop(c)
        BY <1>1 DEF AtTop
    <2> QED BY <1>1, <1>6, <2>3, <2>4, AccountKept
<1> QED BY <1>6, <1>7, <1>8 DEF UploadInv

LEMMA SignalKeeps == ASSUME UploadInv, Signal PROVE UploadInv'
<1>1. /\ wrapper # "ended" /\ trainer' = (IF trainer = "running" THEN "killed" ELSE trainer)
      /\ frames' = Append(frames, Scan)
      /\ excuses' = [c \in Checkpoints |-> excuses[c] + IF c \in Interrupted THEN 1 ELSE 0]
      /\ UNCHANGED <<disk, wrapper, uploaded, registered, versions, result>>
    BY DEF Signal
<1>2. Scan \in FrameSet /\ Scan.cur = 0 /\ Scan.at = "next" /\ 0 \notin Checkpoints
    BY FrameType DEF Scan, Listed, Checkpoints
<1>3. /\ frames' \in Seq(FrameSet) /\ frames' # <<>> /\ Len(frames') = Len(frames) + 1
      /\ Top' = Scan /\ \A i \in 1..Len(frames) : frames'[i] = frames[i]
      /\ \A c : Cardinality(Upcoming(c)') = Cardinality(Upcoming(c)) + Makes(Scan, c)
    BY <1>1, <1>2, PushFacts DEF UploadInv
<1>4. Len(frames) \in Nat /\ frames'[Len(frames')] = Scan
    BY <1>3 DEF UploadInv, UploadType, Top
<1>5. \A i \in 1..Len(frames') : (i \in 1..Len(frames) /\ frames'[i] = frames[i]) \/ frames'[i] = Scan
    BY <1>3, <1>4
<1>6. \A i \in 1..Len(frames') : frames'[i].at = "next" <=> frames'[i].cur = 0
    BY <1>2, <1>5 DEF UploadInv, UploadType
<1>7. excuses' \in [Checkpoints -> Nat]
    BY <1>1 DEF UploadInv, UploadType
<1>8. UploadType'
    BY <1>1, <1>3, <1>6, <1>7 DEF UploadInv, UploadType
<1>9. NewestOK'
    <2>1. wrapper = "final" => frames'[1] = frames[1]
        BY <1>3, TopType DEF UploadInv, NewestOK
    <2> QED BY <1>1, <1>2, <1>3, <1>5, <2>1 DEF UploadInv, NewestOK, NewestRegistered, Listed
<1>10. ASSUME NEW c \in Checkpoints PROVE Accounted(c)'
    <2>1. Cardinality(Upcoming(c)) \in Nat /\ versions[c] \in Nat /\ Owed(c) \in Nat /\ excuses[c] \in Nat
        BY OwedType DEF UploadInv
    <2>2. Cardinality(Upcoming(c)') = Cardinality(Upcoming(c))
        BY <1>2, <1>3, <2>1 DEF Makes
    <2>3. Owed(c)' = Owed(c)
        BY <1>1, <2>2 DEF Owed
    <2>4. excuses'[c] = excuses[c] + (IF c \in Interrupted THEN 1 ELSE 0)
        BY <1>1
    <2>5. CASE AtTop(c) /\ c \notin uploaded
        <3>1. c \in Interrupted
            <4>1. Len(frames) \in DOMAIN frames /\ frames[Len(frames)].cur = c
                BY <1>4, <2>5, TopType DEF AtTop, UploadInv, UploadType
            <4> QED BY <1>2, <2>5, <4>1 DEF Interrupted
        <3>2. Owed(c) <= 1 + excuses[c]
            BY DEF UploadInv, Accounted
        <3>3. Owed(c)' <= excuses'[c]
            BY <2>1, <2>3, <2>4, <3>1, <3>2
        <3> QED BY <1>8, <3>3, AccountClear
    <2>6. CASE ~(AtTop(c) /\ c \notin uploaded)
        <3>1. Owed(c)' - excuses'[c] <= Owed(c) - excuses[c]
            BY <2>1, <2>3, <2>4
        <3> QED BY <1>1, <1>8, <2>6, <3>1, AccountKept
    <2> QED BY <2>5, <2>6
<1> QED BY <1>8, <1>9, <1>10 DEF UploadInv

-----------------------------------------------------------------------------
(* An attempt to register *)

\* The frame goes on, or with it the final registration and the wrapper end.
GoesOnWith(f) == SetTop(f) /\ UNCHANGED <<wrapper, result>>
EndsWith(r) == IsFinal /\ Pop /\ wrapper' = "ended" /\ result' = r

\* An attempt makes a version, or none, or one whose answer is lost.
Made == versions'[Top.cur] = versions[Top.cur] + 1 /\ excuses'[Top.cur] = excuses[Top.cur]
Excused ==
    /\ versions'[Top.cur] >= versions[Top.cur]
    /\ versions'[Top.cur] - versions[Top.cur] = excuses'[Top.cur] - excuses[Top.cur]

LEMMA Attempted ==
    ASSUME UploadInv, RegisterModel
    PROVE  /\ frames # <<>> /\ Top.at = "register" /\ Top.cur \in Checkpoints
           /\ UNCHANGED <<disk, trainer, uploaded, registered>>
           /\ versions' \in [Checkpoints -> Nat] /\ excuses' \in [Checkpoints -> Nat]
           /\ \A c \in Checkpoints \ {Top.cur} : versions'[c] = versions[c] /\ excuses'[c] = excuses[c]
           /\ \/ Made /\ ~IsFinal /\ GoesOnWith([Top EXCEPT !.at = "tag"])
              \/ Made /\ EndsWith("success")
              \/ Excused /\ ~IsFinal /\ GoesOnWith([Top EXCEPT !.at = "add"])
              \/ Excused /\ GoesOnWith([Top EXCEPT !.tries = @ + 1])
              \/ Excused /\ EndsWith("failure")
<1>1. frames # <<>> /\ Top.at = "register" /\ UNCHANGED <<disk, trainer, uploaded, registered>>
    BY DEF RegisterModel, Running
<1>2. Top.cur \in Checkpoints /\ versions \in [Checkpoints -> Nat] /\ excuses \in [Checkpoints -> Nat]
    BY <1>1, TopType DEF UploadInv, UploadType
<1>3. ASSUME AddVersion PROVE /\ versions' \in [Checkpoints -> Nat] /\ versions'[Top.cur] = versions[Top.cur] + 1
                              /\ \A c \in Checkpoints \ {Top.cur} : versions'[c] = versions[c]
    BY <1>2, <1>3 DEF AddVersion
<1>4. ASSUME Excuse(Top.cur) PROVE /\ excuses' \in [Checkpoints -> Nat]
                                   /\ excuses'[Top.cur] = excuses[Top.cur] + 1
                                   /\ \A c \in Checkpoints \ {Top.cur} : excuses'[c] = excuses[c]
    BY <1>2, <1>4 DEF Excuse
<1>5. /\ Succeed => (~IsFinal /\ GoesOnWith([Top EXCEPT !.at = "tag"])) \/ EndsWith("success")
      /\ Fail => (~IsFinal /\ GoesOnWith([Top EXCEPT !.at = "add"])) \/ EndsWith("failure")
      /\ TryAgain => Fail \/ GoesOnWith([Top EXCEPT !.tries = @ + 1])
    BY DEF Succeed, Fail, TryAgain, Again, GoesOnWith, EndsWith
<1>6. CASE Succeed /\ AddVersion /\ UNCHANGED <<excuses, errors>>
    BY <1>1, <1>2, <1>3, <1>5, <1>6 DEF Made
<1>7. CASE (TryAgain \/ Fail) /\ UNCHANGED <<versions, excuses>>
    BY <1>1, <1>2, <1>5, <1>7 DEF Excused
<1>8. CASE TryAgain /\ AddVersion /\ Excuse(Top.cur)
    BY <1>1, <1>2, <1>3, <1>4, <1>5, <1>8 DEF Excused
<1> QED BY <1>6, <1>7, <1>8 DEF RegisterModel

LEMMA AttemptGoesOn ==
    ASSUME UploadInv, RegisterModel, NEW f, GoesOnWith(f),
           \/ Made /\ ~IsFinal /\ f = [Top EXCEPT !.at = "tag"]
           \/ Excused /\ ~IsFinal /\ f = [Top EXCEPT !.at = "add"]
           \/ Excused /\ f = [Top EXCEPT !.tries = @ + 1]
    PROVE  UploadInv'
<1>1. /\ frames # <<>> /\ Top.at = "register" /\ Top.cur \in Checkpoints /\ SetTop(f)
      /\ UNCHANGED <<disk, trainer, wrapper, uploaded, registered, result>>
      /\ versions' \in [Checkpoints -> Nat] /\ excuses' \in [Checkpoints -> Nat]
      /\ \A c \in Checkpoints \ {Top.cur} : versions'[c] = versions[c] /\ excuses'[c] = excuses[c]
    BY Attempted DEF GoesOnWith
<1>2. wrapper # "ended" /\ result = "none" /\ Top \in FrameSet
    BY <1>1, TopType DEF UploadInv
<1>3. /\ f \in FrameSet /\ f.cur = Top.cur /\ f.cur # 0 /\ f.at # "next"
      /\ f.at \in {"register", "tag", "add"}
    BY <1>1, <1>2, TopWith DEF FrameSet
<1>4. \/ f.at = "tag" /\ Made /\ ~IsFinal
      \/ f.at = "add" /\ Excused /\ ~IsFinal
      \/ f.at = "register" /\ Excused
    <2>1. Top \in [left : SUBSET Checkpoints, at : {"next", "register", "tag", "add"},
                   cur : Checkpoints \cup {0}, tries : Nat]
        BY <1>2 DEF FrameSet
    <2> QED BY <1>1, <2>1
<1>5. /\ frames' \in Seq(FrameSet)
      /\ \A i \in 1..Len(frames') : frames'[i].at = "next" <=> frames'[i].cur = 0
      /\ frames' # <<>> /\ Top' = f
      /\ \A i \in 1..Len(frames') : (i \in 1..Len(frames) /\ frames'[i] = frames[i]) \/ frames'[i] = f
      /\ wrapper = "final" =>
            frames'[1] = frames[1] \/ (frames'[1] = f /\ Top = frames[1] /\ Len(frames) = 1)
      /\ \A c : Cardinality(Upcoming(c)') + Makes(Top, c) = Cardinality(Upcoming(c)) + Makes(f, c)
      /\ \A c : Cardinality(Upcoming(c)') \in Nat
      /\ \A c : AtTop(c)' <=> f.cur = c
    BY <1>1, <1>3, TopKept
<1>6. UploadType'
    BY <1>1, <1>2, <1>5 DEF UploadInv, UploadType
<1>7. \A c \in Checkpoints : versions'[c] >= versions[c] /\ versions[c] \in Nat /\ versions'[c] \in Nat
    <2>1. versions \in [Checkpoints -> Nat]
        BY DEF UploadInv, UploadType
    <2>2. versions'[Top.cur] >= versions[Top.cur]
        BY <1>1, <1>4, <2>1 DEF Made, Excused
    <2> QED BY <1>1, <2>1, <2>2
<1>8. NewestOK'
    <2>1. \A i \in 1..Len(frames') : frames'[i].at = "tag" => versions'[frames'[i].cur] > 0
        <3>1. f.at = "tag" => versions'[f.cur] > 0
            BY <1>1, <1>3, <1>4, <1>7 DEF Made, Excused
        <3>2. \A i \in 1..Len(frames) : frames[i].at = "tag" =>
                  versions[frames[i].cur] > 0 /\ frames[i].cur \in Checkpoints
            <4>1. \A i \in 1..Len(frames) : frames[i] \in FrameSet
                BY DEF UploadInv, UploadType
            <4>2. \A i \in 1..Len(frames) : frames[i].cur \in Checkpoints \cup {0}
                BY <4>1 DEF FrameSet
            <4>3. \A i \in 1..Len(frames) : frames[i].at = "tag" => frames[i].cur # 0
                BY DEF UploadInv, UploadType
            <4> QED BY <4>2, <4>3 DEF UploadInv, NewestOK
        <3> QED BY <1>5, <1>7, <3>1, <3>2
    <2>2. wrapper = "final" => frames'[1].at = "register" /\ frames'[1].cur = Max(Listed)
        BY <1>1, <1>3, <1>4, <1>5 DEF UploadInv, NewestOK, IsFinal
    <2>3. \A c \in registered : versions'[c] > 0
        BY <1>7 DEF UploadInv, UploadType, NewestOK
    <2> QED BY <1>1, <1>2, <1>5, <2>1, <2>2, <2>3 DEF UploadInv, NewestOK, Listed
<1>9. ASSUME NEW c \in Checkpoints PROVE Accounted(c)'
    <2>1. /\ Cardinality(Upcoming(c)) \in Nat /\ versions[c] \in Nat /\ excuses[c] \in Nat
          /\ Owed(c) = versions[c] + Cardinality(Upcoming(c)) /\ excuses'[c] \in Nat /\ versions'[c] \in Nat
          /\ Owed(c)' = versions'[c] + Cardinality(Upcoming(c)')
        BY <1>1, OwedType DEF UploadInv, Owed
    <2>2. CASE c # Top.cur
        <3>1. Cardinality(Upcoming(c)') = Cardinality(Upcoming(c)) /\ ~AtTop(c) /\ ~AtTop(c)'
            BY <1>3, <1>5, <2>1, <2>2 DEF Makes, AtTop
        <3>2. Owed(c)' - excuses'[c] <= Owed(c) - excuses[c]
            BY <1>1, <2>1, <2>2, <3>1
        <3> QED BY <1>1, <1>6, <3>1, <3>2, AccountKept
    <2>3. CASE c = Top.cur /\ f.at = "add"
        <3>1. Cardinality(Upcoming(c)') + 1 = Cardinality(Upcoming(c))
            BY <1>1, <1>3, <1>5, <2>1, <2>3 DEF Makes
        <3>2. versions'[c] - versions[c] = excuses'[c] - excuses[c]
            BY <1>4, <2>3 DEF Excused
        <3>3. Owed(c) <= 1 + excuses[c]
            BY DEF UploadInv, Accounted
        <3>4. Owed(c)' <= excuses'[c]
            BY SMTT(30), <1>5, <2>1, <3>1, <3>2, <3>3
        <3> QED BY <1>6, <3>4, AccountClear
    <2>4. CASE c = Top.cur /\ f.at # "add"
        <3>1. ASSUME f.at = "tag" PROVE Owed(c)' - excuses'[c] <= Owed(c) - excuses[c]
            <4>1. Cardinality(Upcoming(c)') + 1 = Cardinality(Upcoming(c))
                BY <1>1, <1>3, <1>5, <2>1, <2>4, <3>1 DEF Makes
            <4>2. versions'[c] = versions[c] + 1 /\ excuses'[c] = excuses[c]
                BY <1>4, <2>4, <3>1 DEF Made
            <4> QED BY <1>5, <2>1, <4>1, <4>2
        <3>2. ASSUME f.at = "register" PROVE Owed(c)' - excuses'[c] <= Owed(c) - excuses[c]
            <4>1. Cardinality(Upcoming(c)') = Cardinality(Upcoming(c))
                BY <1>1, <1>3, <1>5, <2>1, <2>4, <3>2 DEF Makes
            <4>2. versions'[c] - versions[c] = excuses'[c] - excuses[c]
                BY <1>4, <2>4, <3>2 DEF Excused
            <4> QED BY <1>5, <2>1, <4>1, <4>2
        <3>3. Owed(c)' - excuses'[c] <= Owed(c) - excuses[c]
            BY <1>3, <2>4, <3>1, <3>2
        <3>4. AtTop(c)' /\ Top'.at # "add"
            BY <1>3, <1>5, <2>4
        <3> QED BY <1>1, <1>6, <3>3, <3>4, AccountKept
    <2> QED BY <2>2, <2>3, <2>4
<1> QED BY <1>6, <1>8, <1>9 DEF UploadInv

LEMMA AttemptEnds ==
    ASSUME UploadInv, RegisterModel, NEW r, EndsWith(r),
           \/ Made /\ r = "success"
           \/ Excused /\ r = "failure"
    PROVE  UploadInv'
<1>1. /\ frames # <<>> /\ Top.at = "register" /\ Top.cur \in Checkpoints /\ IsFinal /\ Pop
      /\ wrapper' = "ended" /\ result' = r
      /\ UNCHANGED <<disk, trainer, uploaded, registered>>
      /\ versions' \in [Checkpoints -> Nat] /\ excuses' \in [Checkpoints -> Nat]
      /\ \A c \in Checkpoints \ {Top.cur} : versions'[c] = versions[c] /\ excuses'[c] = excuses[c]
    BY Attempted DEF EndsWith
<1>2. wrapper = "final" /\ Len(frames) = 1 /\ Top = frames[1]
    BY <1>1 DEF IsFinal, Top
<1>3. /\ frames' \in Seq(FrameSet) /\ Len(frames') = Len(frames) - 1
      /\ \A c : Cardinality(Upcoming(c)) = Cardinality(Upcoming(c)') + Makes(Top, c)
      /\ \A c : Cardinality(Upcoming(c)') \in Nat
    BY <1>1, PopFacts DEF UploadInv
<1>4. frames' = <<>> /\ r \in {"success", "failure"}
    BY <1>2, <1>3
<1>5. UploadType'
    <2>1. \A i \in 1..Len(frames') : frames'[i].at = "next" <=> frames'[i].cur = 0
        BY <1>2, <1>3
    <2>2. wrapper' \in Wrappers /\ result' \in {"none", "success", "failure"}
        BY <1>1, <1>4 DEF Wrappers
    <2> QED BY <1>1, <1>3, <1>4, <2>1, <2>2 DEF UploadInv, UploadType
<1>6. \A c \in Checkpoints : versions'[c] >= versions[c] /\ versions[c] \in Nat /\ versions'[c] \in Nat
    <2>1. versions \in [Checkpoints -> Nat]
        BY DEF UploadInv, UploadType
    <2>2. versions'[Top.cur] >= versions[Top.cur]
        BY <1>1, <2>1 DEF Made, Excused
    <2> QED BY <1>1, <2>1, <2>2
<1>7. NewestOK'
    <2>1. trainer = "done" /\ Top.cur = Max(Listed)
        BY <1>2 DEF UploadInv, NewestOK
    <2>2. Made => versions'[Top.cur] > 0
        BY <1>1, <1>6 DEF Made
    <2>3. \A c \in registered : versions'[c] > 0
        BY <1>6 DEF UploadInv, UploadType, NewestOK
    <2>4. result' = "success" => NewestRegistered'
        BY <1>1, <2>1, <2>2 DEF NewestRegistered, Listed
    <2> QED BY <1>1, <1>4, <2>1, <2>3, <2>4 DEF NewestOK
<1>8. ASSUME NEW c \in Checkpoints PROVE Accounted(c)'
    <2>1. /\ Cardinality(Upcoming(c)) \in Nat /\ versions[c] \in Nat /\ excuses[c] \in Nat
          /\ Owed(c) = versions[c] + Cardinality(Upcoming(c)) /\ excuses'[c] \in Nat /\ versions'[c] \in Nat
          /\ Owed(c)' = versions'[c] + Cardinality(Upcoming(c)')
        BY <1>1, OwedType DEF UploadInv, Owed
    <2>2. Owed(c)' - excuses'[c] <= Owed(c) - excuses[c]
        <3>1. CASE c # Top.cur
            <4>1. Cardinality(Upcoming(c)') = Cardinality(Upcoming(c))
                BY <1>3, <2>1, <3>1 DEF Makes
            <4> QED BY <1>1, <2>1, <3>1, <4>1
        <3>2. CASE c = Top.cur
            <4>1. Cardinality(Upcoming(c)') + 1 = Cardinality(Upcoming(c))
                BY <1>1, <1>3, <2>1, <3>2 DEF Makes
            <4>2. versions'[c] - excuses'[c] <= versions[c] + 1 - excuses[c]
                BY <2>1, <3>2 DEF Made, Excused
            <4>3. Cardinality(Upcoming(c)') \in Nat
                BY <1>3
            <4> QED BY <2>1, <4>1, <4>2, <4>3
        <3> QED BY <3>1, <3>2
    <2> QED BY <1>1, <1>5, <2>2, AccountKept
<1> QED BY <1>5, <1>7, <1>8 DEF UploadInv

LEMMA RegisterModelKeeps == ASSUME UploadInv, RegisterModel PROVE UploadInv'
<1>1. \/ Made /\ ~IsFinal /\ GoesOnWith([Top EXCEPT !.at = "tag"])
      \/ Made /\ EndsWith("success")
      \/ Excused /\ ~IsFinal /\ GoesOnWith([Top EXCEPT !.at = "add"])
      \/ Excused /\ GoesOnWith([Top EXCEPT !.tries = @ + 1])
      \/ Excused /\ EndsWith("failure")
    BY Attempted
<1>2. CASE Made /\ ~IsFinal /\ GoesOnWith([Top EXCEPT !.at = "tag"])
    BY <1>2, AttemptGoesOn
<1>3. CASE Excused /\ ~IsFinal /\ GoesOnWith([Top EXCEPT !.at = "add"])
    BY <1>3, AttemptGoesOn
<1>4. CASE Excused /\ GoesOnWith([Top EXCEPT !.tries = @ + 1])
    BY <1>4, AttemptGoesOn
<1> QED BY <1>1, <1>2, <1>3, <1>4, AttemptEnds

-----------------------------------------------------------------------------
(* The end of the run *)

LEMMA EndKeeps ==
    ASSUME UploadInv, frames = <<>>, wrapper' = "ended", result' \in {"success", "failure"},
           result' = "success" => trainer = "done" /\ NewestLeft = {},
           UNCHANGED <<disk, trainer, frames, uploaded, registered, versions, excuses>>
    PROVE  UploadInv'
<1>1. UploadType'
    BY DEF UploadInv, UploadType, Wrappers
<1>2. NewestOK'
    <2>1. result' = "success" => NewestRegistered'
        BY DEF NewestRegistered, NewestLeft, Listed, UploadInv, NewestOK
    <2> QED BY <2>1 DEF UploadInv, NewestOK
<1>3. ASSUME NEW c \in Checkpoints PROVE Accounted(c)'
    BY DEF UploadInv, Accounted, Owed, Upcoming
<1> QED BY <1>1, <1>2, <1>3 DEF UploadInv

LEMMA FinalKeeps ==
    ASSUME UploadInv, wrapper = "ending", frames = <<>>, trainer = "done", wrapper' = "final",
           NEW b \in NewestLeft, frames' = <<Frame({}, b, "register")>>,
           UNCHANGED <<disk, trainer, uploaded, registered, versions, excuses, result>>
    PROVE  UploadInv'
<1> DEFINE f == Frame({}, b, "register")
<1>1. b \in Checkpoints /\ b # 0 /\ b = Max(Listed) /\ b \notin registered
    BY DEF NewestLeft, Listed, Checkpoints
<1>2. f \in FrameSet /\ f.cur = b /\ f.at = "register"
    BY <1>1, FrameType
<1> HIDE DEF f
<1>3. frames' = Append(frames, f)
    BY DEF f
<1>4. /\ frames' \in Seq(FrameSet) /\ frames' # <<>> /\ Len(frames') = Len(frames) + 1
      /\ Top' = f /\ \A c : Cardinality(Upcoming(c)') = Cardinality(Upcoming(c)) + Makes(f, c)
      /\ \A c : Cardinality(Upcoming(c)') \in Nat
    BY <1>2, <1>3, PushFacts DEF UploadInv
<1>5. frames'[1] = f /\ \A i \in 1..Len(frames') : frames'[i] = f
    BY <1>4 DEF f
<1>6. UploadType'
    BY <1>1, <1>2, <1>4, <1>5 DEF UploadInv, UploadType, Wrappers
<1>7. NewestOK'
    BY <1>1, <1>2, <1>4, <1>5 DEF UploadInv, UploadType, NewestOK, Listed
<1>8. ASSUME NEW c \in Checkpoints PROVE Accounted(c)'
    <2>1. /\ Cardinality(Upcoming(c)) \in Nat /\ versions[c] \in Nat /\ excuses[c] \in Nat
          /\ Owed(c) = versions[c] + Cardinality(Upcoming(c))
        BY OwedType DEF UploadInv
    <2>2. ~AtTop(c) /\ (AtTop(c)' <=> c = b)
        BY <1>2, <1>4 DEF AtTop
    <2>3. CASE c # b
        <3>1. Cardinality(Upcoming(c)') = Cardinality(Upcoming(c))
            BY <1>2, <1>4, <2>1, <2>3 DEF Makes
        <3>2. Owed(c)' - excuses'[c] <= Owed(c) - excuses[c]
            BY <2>1, <3>1 DEF Owed
        <3> QED BY <1>6, <2>2, <3>2, AccountKept
    <2>4. CASE c = b
        <3>1. Cardinality(Upcoming(c)') = Cardinality(Upcoming(c)) + 1
            BY <1>2, <1>4, <2>4 DEF Makes
        <3>2. Owed(c) <= excuses[c]
            BY <1>1, <2>2, <2>4 DEF UploadInv, Accounted
        <3>3. Owed(c)' <= 1 + excuses'[c]
            BY <2>1, <3>1, <3>2 DEF Owed
        <3> QED BY <2>2, <2>4, <3>3 DEF Accounted
    <2> QED BY <2>3, <2>4
<1> QED BY <1>6, <1>7, <1>8 DEF UploadInv

LEMMA StartFinalKeeps == ASSUME UploadInv, StartFinal PROVE UploadInv'
<1>1. /\ wrapper = "ending" /\ frames = <<>>
      /\ UNCHANGED <<disk, trainer, uploaded, registered, versions, excuses>>
    BY DEF StartFinal
<1>2. CASE wrapper' = "final"
    <2>1. trainer = "done" /\ UNCHANGED result
          /\ \E b \in NewestLeft : frames' = <<Frame({}, b, "register")>>
        BY <1>2 DEF StartFinal, Ends
    <2> QED BY <1>1, <1>2, <2>1, FinalKeeps
<1>3. CASE wrapper' # "final"
    <2>1. /\ wrapper' = "ended" /\ result' \in {"success", "failure"} /\ UNCHANGED frames
          /\ result' = "success" => trainer = "done" /\ NewestLeft = {}
        BY <1>3 DEF StartFinal, Ends
    <2> QED BY <1>1, <2>1, EndKeeps
<1> QED BY <1>2, <1>3

LEMMA LogFailsKeeps == ASSUME UploadInv, LogFails PROVE UploadInv'
BY EndKeeps DEF LogFails

LEMMA UploadSteps == UploadInv /\ [UploadNext]_uploadVars => UploadInv'
<1> SUFFICES ASSUME UploadInv, [UploadNext]_uploadVars PROVE UploadInv'
    OBVIOUS
<1>1. CASE UNCHANGED uploadVars
    <2>1. UploadType' /\ NewestOK'
        BY <1>1 DEF UploadInv, UploadType, NewestOK, NewestRegistered, Listed, uploadVars
    <2>2. UNCHANGED <<wrapper, frames, uploaded, registered, versions, excuses>>
        BY <1>1 DEF uploadVars
    <2> QED BY <2>1, <2>2, QuietKeeps DEF UploadInv
<1> QED BY <1>1, WriteKeeps, ExitKeeps, SelectKeeps, RegisterModelKeeps, TagKeeps, MarkUploadedKeeps,
        BeginsKeeps, LogFailsKeeps, SignalKeeps, StartFinalKeeps DEF UploadNext

LEMMA UploadInvariant == UploadSpec => []UploadInv
BY UploadInitially, UploadSteps, PTL DEF UploadSpec

(* Each checkpoint becomes one model version, but for the answers and the  *)
(* tags that are lost and the signals that interrupt its upload            *)
(* (upload_new_checkpoints, register_final_checkpoint).                    *)
THEOREM CheckpointsRegisteredOnce == UploadSpec => []OneVersionEach
<1>1. UploadInv => OneVersionEach
    <2> SUFFICES ASSUME UploadInv, NEW c \in Checkpoints PROVE versions[c] <= 1 + excuses[c]
        BY DEF OneVersionEach
    <2>1. Owed(c) <= 1 + excuses[c]
        BY DEF UploadInv, Accounted
    <2> QED BY <2>1, OwedType DEF UploadInv
<1> QED BY <1>1, UploadInvariant, PTL

(* A run that reports success has registered its newest checkpoint         *)
(* (register_final_checkpoint), whatever was interrupted on the way.       *)
THEOREM SuccessRegistersNewest == UploadSpec => []NewestRegistered
<1>1. UploadInv => NewestRegistered
    BY DEF UploadInv, NewestOK, NewestRegistered
<1> QED BY <1>1, UploadInvariant, PTL

-----------------------------------------------------------------------------
(* MessengerUDP *)

Msg == [peer : Peers, by : Nat, index : Nat \ {0}, total : Nat \ {0}]
Chunk == [msg : Msg, chunk : Nat]
Threads == {"runs", "leaves", "told", "ended", "died"}
Messenger == [peer : Peers, thread : Threads, reading : Nat, maxindex : Nat,
              chunks : SUBSET Chunk, closed : BOOLEAN, woken : BOOLEAN, told : BOOLEAN]

MessengerType ==
    /\ incarnation \in [Peers -> Nat] /\ lastindex \in [Peers -> Nat] /\ sent \subseteq Msg
    /\ owned \in [Peers -> Nat] /\ udpmsgrs \in [Peers -> Nat]
    /\ messengers \in Seq(Messenger) /\ made = Len(messengers) /\ made <= MaxMessengers
    /\ nonces \subseteq Msg
    /\ got \in [Ids -> SUBSET Chunk] /\ dropped \in [Ids -> SUBSET Nat]

\* What is given to handlefn once is remembered for good.
HandledOK == handled = SetToBag(nonces)

\* A thread holds every chunk it has read of a message that nothing else came
\* between, until the message is handled; between messages none is whole.
Unmixed(i, m) == m.index \notin dropped[i] /\ ~Mixed(i, m)
HasAll(i, m) == \A k \in got[i] : k.msg = m => k \in messengers[i].chunks
ReaderOK(i) ==
    messengers[i].thread = "runs" =>
        \A m \in Msg : Unmixed(i, m) /\ m \notin nonces =>
            /\ HasAll(i, m)
            /\ messengers[i].reading # m.index => ~ReadWhole(i, m)

\* Who closes a messenger wakes it, and the thread tells before it ends.
CloserOK(i) ==
    /\ messengers[i].closed => messengers[i].woken
    /\ messengers[i].thread \in {"told", "ended"} => messengers[i].told

MessengerInv ==
    /\ MessengerType /\ HandledOK
    /\ \A i \in 1..made : /\ messengers[i].chunks \subseteq got[i]
                          /\ ReaderOK(i) /\ CloserOK(i)
    /\ \A i \in Ids : i > made => got[i] = {}

LEMMA MadeType ==
    ASSUME MessengerInv
    PROVE  /\ made \in Nat /\ \A i \in 1..made : i \in Ids /\ i \in 1..Len(messengers) /\ messengers[i] \in Messenger
           /\ messengers \in Seq(Messenger) /\ made + 1 \in Nat \ {0}
<1>1. messengers \in Seq(Messenger) /\ made = Len(messengers) /\ made <= MaxMessengers /\ MaxMessengers \in Nat
    BY MessengerAssumption DEF MessengerInv, MessengerType
<1>2. made \in Nat
    BY <1>1
<1>3. \A i \in 1..made : messengers[i] \in Messenger
    BY <1>1
<1>4. \A i \in 1..made : i \in 1..MaxMessengers
    BY <1>1, <1>2
<1> QED BY <1>1, <1>2, <1>3, <1>4 DEF Ids

LEMMA MessengerInitially == MessengerInit => MessengerInv
<1> SUFFICES ASSUME MessengerInit PROVE MessengerInv
    OBVIOUS
<1> USE MessengerAssumption DEF MessengerInit
<1>1. messengers = <<>> /\ made = 0
    OBVIOUS
<1>2. MessengerType
    BY <1>1 DEF MessengerType
<1>3. HandledOK
    BY DEF HandledOK, EmptyBag
<1> QED BY <1>1, <1>2, <1>3 DEF MessengerInv

-----------------------------------------------------------------------------
(* What a step leaves of one messenger *)

LEMMA SetType ==
    ASSUME MessengerInv, NEW i \in 1..made, NEW r \in Messenger, Set(i, r)
    PROVE  /\ messengers' \in Seq(Messenger) /\ Len(messengers') = Len(messengers)
           /\ messengers'[i] = r /\ \A j \in 1..made : j # i => messengers'[j] = messengers[j]
<1>1. messengers \in Seq(Messenger) /\ made = Len(messengers) /\ i \in 1..Len(messengers)
    BY MadeType DEF MessengerInv, MessengerType
<1>2. messengers' = [messengers EXCEPT ![i] = r]
    BY DEF Set
<1> QED BY <1>1, <1>2

LEMMA ReaderKept ==
    ASSUME MessengerInv, NEW i \in 1..made, UNCHANGED <<got, dropped>>, nonces \subseteq nonces',
           messengers'[i].chunks = messengers[i].chunks, messengers'[i].reading = messengers[i].reading,
           messengers'[i].thread = "runs" => messengers[i].thread = "runs"
    PROVE  ReaderOK(i)'
<1>1. ReaderOK(i)
    BY DEF MessengerInv
<1> QED BY <1>1 DEF ReaderOK, Unmixed, Mixed, HasAll, ReadWhole

LEMMA OthersKept ==
    ASSUME MessengerInv, NEW i \in 1..made, messengers'[i] = messengers[i], nonces \subseteq nonces',
           got'[i] = got[i], dropped'[i] = dropped[i]
    PROVE  messengers'[i].chunks \subseteq got'[i] /\ ReaderOK(i)' /\ CloserOK(i)'
<1>1. ReaderOK(i) /\ CloserOK(i) /\ messengers[i].chunks \subseteq got[i]
    BY DEF MessengerInv
<1> QED BY <1>1 DEF ReaderOK, CloserOK, Unmixed, Mixed, HasAll, ReadWhole

\* A step that only moves a thread, or closes.
LEMMA MovesOn ==
    ASSUME MessengerInv, NEW i \in 1..made, NEW r \in Messenger, Set(i, r),
           UNCHANGED <<isserver, peerVars, receiving, made, readVars>>,
           owned' \in [Peers -> Nat], udpmsgrs' \in [Peers -> Nat],
           r.chunks = messengers[i].chunks, r.reading = messengers[i].reading,
           r.thread = "runs" => messengers[i].thread = "runs",
           r.closed => r.woken, r.thread \in {"told", "ended"} => r.told
    PROVE  MessengerInv'
<1>1. /\ messengers' \in Seq(Messenger) /\ Len(messengers') = Len(messengers)
      /\ messengers'[i] = r /\ \A j \in 1..made : j # i => messengers'[j] = messengers[j]
    BY SetType
<1>2. UNCHANGED <<incarnation, lastindex, sent, nonces, handled, got, dropped>>
    BY DEF peerVars, readVars
<1>3. MessengerType' /\ HandledOK'
    BY <1>1, <1>2 DEF MessengerInv, MessengerType, HandledOK
<1>4. ReaderOK(i)'
    BY <1>1, <1>2, ReaderKept
<1>5. CloserOK(i)' /\ messengers'[i].chunks \subseteq got'[i]
    BY <1>1, <1>2 DEF CloserOK, MessengerInv
<1>6. \A j \in 1..made : messengers'[j].chunks \subseteq got'[j] /\ ReaderOK(j)' /\ CloserOK(j)'
    BY <1>1, <1>2, <1>4, <1>5, OthersKept
<1>7. \A j \in Ids : j > made' => got'[j] = {}
    BY <1>2 DEF MessengerInv
<1> QED BY <1>3, <1>6, <1>7 DEF MessengerInv

-----------------------------------------------------------------------------
(* The peers and the opening of messengers *)

LEMMA PeersKeep ==
    ASSUME MessengerInv, NEW p \in Peers, PeerSends(p) \/ PeerRestarts(p)
    PROVE  MessengerInv'
<1>1. /\ UNCHANGED <<udpmsgrs, owned, made, messengers, nonces, handled, got, dropped>>
    BY DEF PeerSends, PeerRestarts, readVars
<1>2. incarnation \in [Peers -> Nat] /\ lastindex \in [Peers -> Nat] /\ sent \subseteq Msg
    BY DEF MessengerInv, MessengerType
<1>3. incarnation' \in [Peers -> Nat] /\ lastindex' \in [Peers -> Nat] /\ sent' \subseteq Msg
    <2>1. CASE PeerSends(p)
        <3>1. /\ lastindex' = [lastindex EXCEPT ![p] = @ + 1] /\ UNCHANGED incarnation
            BY <2>1 DEF PeerSends
        <3>2. PICK n \in 1..MaxChunks :
                  sent' = sent \cup {[peer |-> p, by |-> incarnation[p], index |-> lastindex'[p], total |-> n]}
            BY <2>1 DEF PeerSends
        <3>3. lastindex'[p] \in Nat \ {0} /\ incarnation[p] \in Nat /\ n \in Nat \ {0}
            BY <1>2, <3>1
        <3>4. [peer |-> p, by |-> incarnation[p], index |-> lastindex'[p], total |-> n] \in Msg
            BY <3>3 DEF Msg
        <3> QED BY <1>2, <3>1, <3>2, <3>4
    <2>2. CASE PeerRestarts(p)
        BY <1>2, <2>2 DEF PeerRestarts
    <2> QED BY <2>1, <2>2
<1>4. MessengerType' /\ HandledOK'
    BY <1>1, <1>3 DEF MessengerInv, MessengerType, HandledOK
<1>5. \A j \in 1..made : messengers'[j].chunks \subseteq got'[j] /\ ReaderOK(j)' /\ CloserOK(j)'
    BY <1>1, OthersKept
<1> QED BY <1>1, <1>4, <1>5 DEF MessengerInv

LEMMA MakeKeeps ==
    ASSUME MessengerInv, NEW p \in Peers, Make(p), owned' \in [Peers -> Nat],
           UNCHANGED <<peerVars, readVars>>
    PROVE  MessengerInv'
<1>1. /\ UNCHANGED <<incarnation, lastindex, sent, nonces, handled, got, dropped>>
      /\ made < MaxMessengers /\ made' = made + 1
      /\ messengers' = Append(messengers, NewMessenger(p)) /\ udpmsgrs' = [udpmsgrs EXCEPT ![p] = made + 1]
    BY DEF Make, peerVars, readVars
<1>0. PICK n \in Nat : n = made + 1
    BY MadeType
<1>2. NewMessenger(p) \in Messenger
    BY DEF NewMessenger, Messenger, Threads
<1>3. /\ messengers' \in Seq(Messenger) /\ Len(messengers') = made' /\ made' <= MaxMessengers
      /\ messengers'[n] = NewMessenger(p)
      /\ \A j \in 1..made : messengers'[j] = messengers[j]
      /\ made \in Nat /\ \A j \in 1..made' : j \in 1..made \/ j = n
    BY <1>0, <1>1, <1>2, MadeType, MessengerAssumption DEF MessengerInv, MessengerType
<1>4. MessengerType' /\ HandledOK'
    BY <1>1, <1>3 DEF MessengerInv, MessengerType, HandledOK
<1>5. \A j \in 1..made : messengers'[j].chunks \subseteq got'[j] /\ ReaderOK(j)' /\ CloserOK(j)'
    BY <1>1, <1>3, OthersKept
<1>6. got[n] = {}
    <2>1. n \in Ids /\ n > made
        BY <1>0, <1>1, <1>3, MessengerAssumption DEF Ids
    <2> QED BY <2>1 DEF MessengerInv
<1>7. ReaderOK(n)'
    <2>1. \A m \in Msg : 1 \in 1..m.total
        BY DEF Msg
    <2>2. \A m \in Msg : ~ReadWhole(n, m)'
        BY <1>1, <1>6, <2>1 DEF ReadWhole
    <2>3. \A m : HasAll(n, m)'
        BY <1>1, <1>6 DEF HasAll
    <2> QED BY <1>1, <2>2, <2>3 DEF ReaderOK
<1>8. CloserOK(n)' /\ messengers'[n].chunks \subseteq got'[n]
    BY <1>3 DEF CloserOK, NewMessenger
<1>9. \A j \in Ids : j > made' => got'[j] = {}
    BY <1>0, <1>1, <1>3 DEF MessengerInv, Ids
<1> QED BY <1>3, <1>4, <1>5, <1>7, <1>8, <1>9 DEF MessengerInv

LEMMA OpensKeep ==
    ASSUME MessengerInv, NEW p \in Peers, OpenMessenger(p) \/ UnknownAddress(p)
    PROVE  MessengerInv'
<1>1. owned \in [Peers -> Nat] /\ made + 1 \in Nat
    BY MadeType DEF MessengerInv, MessengerType
<1>2. CASE OpenMessenger(p)
    BY <1>1, <1>2, MakeKeeps DEF OpenMessenger
<1>3. CASE UnknownAddress(p) /\ Make(p)
    BY <1>1, <1>3, MakeKeeps DEF UnknownAddress
<1>4. CASE UnknownAddress(p) /\ ~Make(p)
    <2>1. UNCHANGED <<made, messengers, udpmsgrs, owned, incarnation, lastindex, sent,
                      nonces, handled, got, dropped>>
        BY <1>4 DEF UnknownAddress, peerVars, readVars
    <2>2. \A j \in 1..made : messengers'[j].chunks \subseteq got'[j] /\ ReaderOK(j)' /\ CloserOK(j)'
        BY <2>1, OthersKept
    <2> QED BY <2>1, <2>2 DEF MessengerInv, MessengerType, HandledOK
<1> QED BY <1>2, <1>3, <1>4

-----------------------------------------------------------------------------
(* Closing *)

LEMMA ClosesKeep ==
    ASSUME MessengerInv, NEW i \in 1..made,
           LoseHeartbeat(i) \/ ReadEmpty(i) \/ TellOwner(i) \/ CloseSelf(i)
    PROVE  MessengerInv'
<1> DEFINE r == messengers[i]
<1>1. /\ r \in Messenger /\ CloserOK(i) /\ owned \in [Peers -> Nat] /\ udpmsgrs \in [Peers -> Nat]
      /\ \A p \in Peers : Unregistered(p) \in [Peers -> Nat]
    BY MadeType DEF MessengerInv, MessengerType, Unregistered
<1>2. CASE LoseHeartbeat(i)
    <2>1. Set(i, Closed(r)) /\ udpmsgrs' = Unregistered(r.peer)
          /\ UNCHANGED <<isserver, peerVars, receiving, owned, made, readVars>>
        BY <1>2 DEF LoseHeartbeat
    <2>2. Closed(r) = [r EXCEPT !.closed = TRUE, !.woken = TRUE]
        BY DEF Closed
    <2>3. /\ Closed(r) \in Messenger /\ Closed(r).chunks = r.chunks /\ Closed(r).reading = r.reading
          /\ Closed(r).thread = r.thread /\ Closed(r).woken /\ Closed(r).told = r.told /\ r.peer \in Peers
        BY <1>1, <2>2 DEF Messenger
    <2> QED BY <1>1, <2>1, <2>3, MovesOn DEF CloserOK
<1>3. CASE ReadEmpty(i)
    <2> DEFINE s == [r EXCEPT !.thread = "leaves"]
    <2>1. Set(i, s) /\ UNCHANGED <<isserver, peerVars, receiving, udpmsgrs, owned, made, readVars>>
        BY <1>3 DEF ReadEmpty
    <2>2. /\ s \in Messenger /\ s.chunks = r.chunks /\ s.reading = r.reading
          /\ s.thread = "leaves" /\ s.woken = r.woken /\ s.closed = r.closed
        BY <1>1 DEF Messenger, Threads
    <2> QED BY <1>1, <2>1, <2>2, MovesOn DEF CloserOK
<1>4. CASE TellOwner(i)
    <2> DEFINE s == [r EXCEPT !.thread = "told", !.told = TRUE]
    <2>1. /\ Set(i, s) /\ owned' = [owned EXCEPT ![r.peer] = 0]
          /\ UNCHANGED <<isserver, peerVars, receiving, udpmsgrs, made, readVars>>
        BY <1>4 DEF TellOwner
    <2>2. /\ s \in Messenger /\ s.chunks = r.chunks /\ s.reading = r.reading
          /\ s.thread = "told" /\ s.told /\ s.woken = r.woken /\ s.closed = r.closed
        BY <1>1 DEF Messenger, Threads
    <2>3. owned' \in [Peers -> Nat]
        BY <1>1, <2>1
    <2> QED BY <1>1, <2>1, <2>2, <2>3, MovesOn DEF CloserOK
<1>5. CASE CloseSelf(i)
    <2> DEFINE s == [r EXCEPT !.thread = "ended"]
    <2>1. /\ r.thread = "told"
          /\ \/ s.closed /\ Set(i, s) /\ UNCHANGED udpmsgrs
             \/ ~s.closed /\ Set(i, Closed(s)) /\ udpmsgrs' = Unregistered(s.peer)
          /\ UNCHANGED <<isserver, peerVars, receiving, owned, made, readVars>>
        BY <1>5 DEF CloseSelf
    <2>2. /\ s \in Messenger /\ s.chunks = r.chunks /\ s.reading = r.reading /\ s.peer \in Peers
          /\ s.thread = "ended" /\ s.told = r.told /\ s.woken = r.woken /\ s.closed = r.closed
        BY <1>1 DEF Messenger, Threads
    <2>3. Closed(s) = [s EXCEPT !.closed = TRUE, !.woken = TRUE]
        BY DEF Closed
    <2>4. /\ Closed(s) \in Messenger /\ Closed(s).chunks = s.chunks /\ Closed(s).reading = s.reading
          /\ Closed(s).thread = s.thread /\ Closed(s).told = s.told /\ Closed(s).woken
        BY <2>2, <2>3 DEF Messenger
    <2>5. CASE s.closed /\ Set(i, s) /\ UNCHANGED udpmsgrs
        BY <1>1, <2>1, <2>2, <2>5, MovesOn DEF CloserOK
    <2>6. CASE ~s.closed /\ Set(i, Closed(s)) /\ udpmsgrs' = Unregistered(s.peer)
        BY <1>1, <2>1, <2>2, <2>4, <2>6, MovesOn DEF CloserOK
    <2> QED BY <2>1, <2>5, <2>6
<1> QED BY <1>2, <1>3, <1>4, <1>5

-----------------------------------------------------------------------------
(* Reading, cleaning, assembling *)

LEMMA ReadChunkKeeps ==
    ASSUME MessengerInv, NEW i \in 1..made, NEW m \in sent, ReadChunk(i, m)
    PROVE  MessengerInv'
<1> DEFINE r == messengers[i]
           max == IF m.index > r.maxindex THEN m.index ELSE r.maxindex
<1>1. /\ r \in Messenger /\ m \in Msg /\ i \in Ids /\ r.chunks \subseteq got[i] /\ ReaderOK(i) /\ CloserOK(i)
      /\ got \in [Ids -> SUBSET Chunk]
    BY MadeType DEF MessengerInv, MessengerType
<1>2. PICK c \in 1..m.total :
          /\ got' = [got EXCEPT ![i] = @ \cup {[msg |-> m, chunk |-> c]}]
          /\ Set(i, IF Fitting(r.chunks, [msg |-> m, chunk |-> c])
                    THEN [r EXCEPT !.maxindex = max, !.reading = m.index,
                                   !.chunks = Stored(r.chunks, [msg |-> m, chunk |-> c])]
                    ELSE [r EXCEPT !.maxindex = max])
    BY DEF ReadChunk
<1>3. /\ r.thread = "runs" /\ r.reading = 0
      /\ UNCHANGED <<incarnation, lastindex, sent, udpmsgrs, owned, made, nonces, handled, dropped>>
    BY DEF ReadChunk, peerVars
<1> DEFINE k == [msg |-> m, chunk |-> c]
           s == [r EXCEPT !.maxindex = max, !.reading = m.index, !.chunks = Stored(r.chunks, k)]
           q == [r EXCEPT !.maxindex = max]
<1>4. /\ k \in Chunk /\ k.msg = m /\ k.chunk = c /\ max \in Nat /\ m.index \in Nat \ {0}
      /\ r.chunks \subseteq Chunk
    BY <1>1 DEF Chunk, Msg, Messenger
<1>5. Stored(r.chunks, k) \subseteq r.chunks \cup {k} /\ Stored(r.chunks, k) \subseteq Chunk /\ k \in Stored(r.chunks, k)
    BY <1>4 DEF Stored
<1>6. /\ s \in Messenger /\ s.reading = m.index /\ s.chunks = Stored(r.chunks, k) /\ s.thread = "runs"
      /\ s.closed = r.closed /\ s.woken = r.woken
    BY <1>1, <1>3, <1>4, <1>5 DEF Messenger
<1>7. /\ q \in Messenger /\ q.reading = 0 /\ q.chunks = r.chunks /\ q.thread = "runs"
      /\ q.closed = r.closed /\ q.woken = r.woken
    BY <1>1, <1>3, <1>4 DEF Messenger
<1>8. /\ got'[i] = got[i] \cup {k} /\ \A j \in Ids : j # i => got'[j] = got[j]
      /\ got' \in [Ids -> SUBSET Chunk]
    BY <1>1, <1>2, <1>4
<1>9. PICK w \in Messenger : /\ Set(i, w) /\ (w = s \/ w = q)
                             /\ w = (IF Fitting(r.chunks, k) THEN s ELSE q)
    BY <1>2, <1>6, <1>7
<1> HIDE DEF k, s, q, r, max
<1>10. /\ messengers' \in Seq(Messenger) /\ Len(messengers') = Len(messengers)
       /\ messengers'[i] = w /\ \A j \in 1..made : j # i => messengers'[j] = messengers[j]
    BY <1>9, SetType
<1>11. MessengerType' /\ HandledOK'
    BY <1>3, <1>8, <1>10 DEF MessengerInv, MessengerType, HandledOK
<1>12. CloserOK(i)' /\ messengers'[i].chunks \subseteq got'[i]
    BY <1>1, <1>5, <1>6, <1>7, <1>8, <1>9, <1>10 DEF CloserOK, r
<1>13. ReaderOK(i)'
    <2> SUFFICES ASSUME NEW n \in Msg, Unmixed(i, n)', n \notin nonces
                 PROVE  HasAll(i, n)' /\ (messengers'[i].reading # n.index => ~ReadWhole(i, n)')
        BY <1>3 DEF ReaderOK
    <2>1. Unmixed(i, n)
        BY <1>3, <1>8 DEF Unmixed, Mixed
    <2>2. HasAll(i, n) /\ ~ReadWhole(i, n)
        <3>1. r.reading # n.index
            BY <1>3 DEF Msg
        <3> QED BY <1>1, <1>3, <2>1, <3>1 DEF ReaderOK, r
    <2>3. CASE n.index # m.index
        <3>1. n # m
            BY <2>3
        <3>2. HasAll(i, n)'
            BY <1>4, <1>5, <1>6, <1>7, <1>8, <1>9, <1>10, <2>2, <2>3, <3>1 DEF HasAll, Stored, r
        <3>3. ~ReadWhole(i, n)'
            BY <1>4, <1>8, <2>2, <3>1 DEF ReadWhole
        <3> QED BY <3>2, <3>3
    <2>4. CASE n.index = m.index
        <3>1. n = m
            BY <1>4, <1>8, <2>4 DEF Unmixed, Mixed
        <3>2. \A e \in r.chunks : e.msg.index = m.index => e.msg = m
            BY <1>1, <2>1, <3>1 DEF Unmixed, Mixed
        <3>3. Fitting(r.chunks, k)
            BY <1>4, <3>2 DEF Fitting
        <3>4. w = s
            BY <1>9, <3>3
        <3>5. \A e \in r.chunks : e.msg = m /\ e.chunk = c => e = k
            BY <1>4 DEF Chunk, k
        <3>6. r.chunks \subseteq Stored(r.chunks, k)
            BY <1>4, <3>2, <3>5 DEF Stored
        <3>7. HasAll(i, n)'
            BY <1>5, <1>6, <1>8, <1>10, <2>2, <3>4, <3>6 DEF HasAll, r
        <3> QED BY <1>6, <1>10, <2>4, <3>4, <3>7
    <2> QED BY <2>3, <2>4
<1>14. \A j \in 1..made : messengers'[j].chunks \subseteq got'[j] /\ ReaderOK(j)' /\ CloserOK(j)'
    <2>1. \A j \in 1..made : j \in Ids
        BY MadeType
    <2> QED BY <1>3, <1>8, <1>10, <1>12, <1>13, <2>1, OthersKept
<1>15. \A j \in Ids : j > made' => got'[j] = {}
    <2>1. \A j \in Ids : j > made => j # i
        BY MadeType
    <2> QED BY <1>3, <1>8, <2>1 DEF MessengerInv
<1> QED BY <1>3, <1>11, <1>14, <1>15 DEF MessengerInv

LEMMA CleanKeeps ==
    ASSUME MessengerInv, NEW i \in 1..made, CleanMessages(i)
    PROVE  MessengerInv'
<1> DEFINE r == messengers[i]
<1>1. PICK drop \in SUBSET Nat :
          /\ Set(i, [r EXCEPT !.chunks = {k \in @ : k.msg.index \notin drop}])
          /\ dropped' = [dropped EXCEPT ![i] = @ \cup drop]
    <2>1. PICK aged \in SUBSET BegunLongAgo(i) :
              LET fallen == {n \in 1..MaxMessages :
                                 Entry(i, n) # {} /\ n + Behind < messengers[i].maxindex}
                  drop   == fallen \cup aged
              IN  /\ Set(i, [r EXCEPT !.chunks = {k \in @ : k.msg.index \notin drop}])
                  /\ dropped' = [dropped EXCEPT ![i] = @ \cup drop]
        BY DEF CleanMessages
    <2> DEFINE drop == {n \in 1..MaxMessages :
                            Entry(i, n) # {} /\ n + Behind < messengers[i].maxindex} \cup aged
    <2>2. drop \in SUBSET Nat
        <3>1. 1..MaxMessages \subseteq Nat
            BY MessengerAssumption
        <3> QED BY <3>1 DEF BegunLongAgo
    <2> HIDE DEF drop
    <2> QED BY <2>1, <2>2 DEF drop
<1>2. UNCHANGED <<incarnation, lastindex, sent, udpmsgrs, owned, made, nonces, handled, got>>
    BY DEF CleanMessages, peerVars
<1>3. r \in Messenger /\ i \in Ids /\ r.chunks \subseteq got[i] /\ ReaderOK(i) /\ CloserOK(i)
      /\ dropped \in [Ids -> SUBSET Nat]
    BY MadeType DEF MessengerInv, MessengerType
<1> DEFINE s == [r EXCEPT !.chunks = {k \in @ : k.msg.index \notin drop}]
<1>4. /\ s \in Messenger /\ s.chunks = {k \in r.chunks : k.msg.index \notin drop}
      /\ s.reading = r.reading /\ s.thread = r.thread /\ s.closed = r.closed /\ s.woken = r.woken
      /\ s.told = r.told
    BY <1>3 DEF Messenger
<1>5. Set(i, s)
    BY <1>1
<1> HIDE DEF s
<1>6. /\ messengers' \in Seq(Messenger) /\ Len(messengers') = Len(messengers)
      /\ messengers'[i] = s /\ \A j \in 1..made : j # i => messengers'[j] = messengers[j]
    BY <1>4, <1>5, SetType
<1>7. /\ dropped' \in [Ids -> SUBSET Nat] /\ dropped'[i] = dropped[i] \cup drop
      /\ \A j \in Ids : j # i => dropped'[j] = dropped[j]
    BY <1>1, <1>3
<1>8. MessengerType' /\ HandledOK'
    BY <1>2, <1>6, <1>7 DEF MessengerInv, MessengerType, HandledOK
<1>9. CloserOK(i)' /\ messengers'[i].chunks \subseteq got'[i]
    BY <1>2, <1>3, <1>4, <1>6 DEF CloserOK
<1>10. ReaderOK(i)'
    <2> SUFFICES ASSUME messengers[i].thread = "runs", NEW n \in Msg, Unmixed(i, n)', n \notin nonces
                 PROVE  HasAll(i, n)' /\ (messengers'[i].reading # n.index => ~ReadWhole(i, n)')
        BY <1>2, <1>4, <1>6 DEF ReaderOK
    <2>1. Unmixed(i, n) /\ n.index \notin drop
        BY <1>2, <1>7 DEF Unmixed, Mixed
    <2>2. HasAll(i, n) /\ (r.reading # n.index => ~ReadWhole(i, n))
        BY <1>3, <2>1 DEF ReaderOK
    <2>3. HasAll(i, n)'
        BY <1>2, <1>4, <1>6, <2>1, <2>2 DEF HasAll
    <2>4. ReadWhole(i, n)' <=> ReadWhole(i, n)
        BY <1>2 DEF ReadWhole
    <2> QED BY <1>4, <1>6, <2>2, <2>3, <2>4
<1>11. \A j \in 1..made : messengers'[j].chunks \subseteq got'[j] /\ ReaderOK(j)' /\ CloserOK(j)'
    <2>1. \A j \in 1..made : j \in Ids
        BY MadeType
    <2> QED BY <1>2, <1>6, <1>7, <1>9, <1>10, <2>1, OthersKept
<1> QED BY <1>2, <1>8, <1>11 DEF MessengerInv

\* A new message is handled once, whichever messenger has assembled it.
LEMMA HandledAnew ==
    ASSUME HandledOK, NEW m, m \notin nonces, nonces' = nonces \cup {m},
           handled' = handled (+) SetToBag({m})
    PROVE  HandledOK'
<1>1. handled = [n \in nonces |-> 1] /\ SetToBag({m}) = [n \in {m} |-> 1]
    BY DEF HandledOK, SetToBag
<1>2. handled' = [n \in nonces \cup {m} |->
                     (IF n \in nonces THEN handled[n] ELSE 0) + (IF n \in {m} THEN SetToBag({m})[n] ELSE 0)]
    BY <1>1 DEF (+)
<1>3. handled' = [n \in nonces' |-> 1]
    BY <1>1, <1>2
<1> QED BY <1>3 DEF HandledOK, SetToBag

\* What is left of the entry that is read, by what the thread makes of it.
LEMMA AssembledReader ==
    ASSUME MessengerInv, NEW i \in 1..made, messengers[i].reading # 0,
           nonces \subseteq nonces', UNCHANGED <<got, dropped>>,
           messengers'[i].reading = 0, messengers[i].thread = "runs",
           LET E == Entry(i, messengers[i].reading)
           IN  \/ ~Complete(E) /\ messengers'[i].chunks = messengers[i].chunks
               \/ /\ messengers'[i].chunks = messengers[i].chunks \ E
                  /\ \A k \in E : k.msg \in nonces'
    PROVE  ReaderOK(i)'
<1> DEFINE E == Entry(i, messengers[i].reading)
<1>1. ReaderOK(i) /\ messengers[i].chunks \subseteq got[i] /\ messengers[i].chunks \subseteq Chunk
    BY MadeType DEF MessengerInv, Messenger
<1> SUFFICES ASSUME NEW n \in Msg, Unmixed(i, n), n \notin nonces'
             PROVE  HasAll(i, n)' /\ ~ReadWhole(i, n)
    BY DEF ReaderOK, Unmixed, Mixed, ReadWhole
<1>2. HasAll(i, n) /\ (messengers[i].reading # n.index => ~ReadWhole(i, n))
    BY <1>1 DEF ReaderOK
<1>3. HasAll(i, n)'
    BY <1>2 DEF HasAll
<1>4. ASSUME messengers[i].reading = n.index, ReadWhole(i, n) PROVE FALSE
    <2>1. \A c \in 1..n.total : [msg |-> n, chunk |-> c] \in E
        BY <1>2, <1>4 DEF ReadWhole, HasAll, Entry
    <2>2. 1 \in 1..n.total
        BY DEF Msg
    <2>3. [msg |-> n, chunk |-> 1] \in E
        BY <2>1, <2>2
    <2>4. ~Complete(E)
        BY <2>3
    <2>5. \A k \in E : k.msg = n
        BY <1>1, <1>4 DEF Entry, Unmixed, Mixed
    <2>6. Complete(E)
        <3>1. \A c \in 1..n.total : \E e \in E : e.chunk = c
            <4> SUFFICES ASSUME NEW c \in 1..n.total PROVE \E e \in E : e.chunk = c
                OBVIOUS
            <4>1. [msg |-> n, chunk |-> c] \in E /\ [msg |-> n, chunk |-> c].chunk = c
                BY <2>1
            <4> QED BY <4>1
        <3>2. \A k \in E : \A c \in 1..k.msg.total : \E e \in E : e.chunk = c
            BY <2>5, <3>1
        <3> QED BY <3>2 DEF Complete
    <2> QED BY <2>4, <2>6
<1> QED BY <1>2, <1>3, <1>4

LEMMA AssembleKeeps ==
    ASSUME MessengerInv, NEW i \in 1..made, Assemble(i)
    PROVE  MessengerInv'
<1> DEFINE r == messengers[i]
           E == Entry(i, r.reading)
<1>1. /\ r.thread = "runs" /\ r.reading # 0
      /\ UNCHANGED <<incarnation, lastindex, sent, udpmsgrs, owned, made, got, dropped>>
    BY DEF Assemble, peerVars
<1>2. /\ r \in Messenger /\ r.chunks \subseteq got[i] /\ ReaderOK(i) /\ CloserOK(i)
      /\ E \subseteq r.chunks /\ r.chunks \subseteq Chunk /\ nonces \subseteq Msg
    BY MadeType DEF MessengerInv, MessengerType, Entry, Messenger
<1> HIDE DEF E
<1>3. ASSUME NEW s \in Messenger, Set(i, s), s.chunks \subseteq r.chunks,
             s.closed = r.closed, s.woken = r.woken, s.thread \in {"runs", "leaves", "died"},
             nonces \subseteq nonces', nonces' \subseteq Msg, HandledOK',
             s.thread = "runs" => ReaderOK(i)'
      PROVE  MessengerInv'
    <2>1. /\ messengers' \in Seq(Messenger) /\ Len(messengers') = Len(messengers)
          /\ messengers'[i] = s /\ \A j \in 1..made : j # i => messengers'[j] = messengers[j]
        BY <1>3, SetType
    <2>2. MessengerType'
        BY <1>1, <1>3, <2>1 DEF MessengerInv, MessengerType
    <2>3. CloserOK(i)' /\ messengers'[i].chunks \subseteq got'[i]
        BY <1>1, <1>2, <1>3, <2>1 DEF CloserOK
    <2>4. ReaderOK(i)'
        BY <1>3, <2>1 DEF ReaderOK
    <2>5. \A j \in 1..made : messengers'[j].chunks \subseteq got'[j] /\ ReaderOK(j)' /\ CloserOK(j)'
        BY <1>1, <1>3, <2>1, <2>3, <2>4, OthersKept
    <2> QED BY <1>1, <1>3, <2>2, <2>5 DEF MessengerInv
<1>4. CASE Set(i, [r EXCEPT !.thread = "died"]) /\ UNCHANGED <<nonces, handled>>
    <2> DEFINE s == [r EXCEPT !.thread = "died"]
    <2>1. /\ s \in Messenger /\ s.chunks = r.chunks /\ s.closed = r.closed /\ s.woken = r.woken
          /\ s.thread = "died"
        BY <1>2 DEF Messenger, Threads
    <2>2. HandledOK'
        BY <1>4 DEF MessengerInv, HandledOK
    <2> QED BY <1>2, <1>3, <1>4, <2>1, <2>2
<1>5. CASE ~Complete(E) /\ Set(i, [r EXCEPT !.reading = 0]) /\ UNCHANGED <<nonces, handled>>
    <2> DEFINE s == [r EXCEPT !.reading = 0]
    <2>1. /\ s \in Messenger /\ s.chunks = r.chunks /\ s.closed = r.closed /\ s.woken = r.woken
          /\ s.thread = "runs" /\ s.reading = 0
        BY <1>1, <1>2 DEF Messenger
    <2>2. HandledOK'
        BY <1>5 DEF MessengerInv, HandledOK
    <2>3. messengers'[i] = s
        BY <1>5, <2>1, SetType
    <2>4. ReaderOK(i)'
        BY <1>1, <1>5, <2>1, <2>3, AssembledReader DEF E
    <2> QED BY <1>2, <1>3, <1>5, <2>1, <2>2, <2>4
<1>6. ASSUME E # {}, Opens(E), NEW thread \in {"runs", "died"},
             Set(i, [r EXCEPT !.reading = 0, !.chunks = @ \ E, !.thread = thread]),
             nonces' = nonces \cup {k.msg : k \in E}, handled' = handled (+) SetToBag({k.msg : k \in E})
      PROVE  MessengerInv'
    <2> DEFINE s == [r EXCEPT !.reading = 0, !.chunks = @ \ E, !.thread = thread]
    <2>1. PICK e \in E : TRUE
        BY <1>6
    <2>2. {k.msg : k \in E} = {e.msg} /\ e.msg \notin nonces /\ e.msg \in Msg
        BY <1>2, <1>6, <2>1 DEF Opens, Chunk
    <2>3. /\ s \in Messenger /\ s.chunks = r.chunks \ E /\ s.closed = r.closed /\ s.woken = r.woken
          /\ s.thread \in {"runs", "died"} /\ s.reading = 0
        BY <1>2, <1>6 DEF Messenger, Threads
    <2>4. HandledOK'
        BY <1>6, <2>2, HandledAnew DEF MessengerInv
    <2>5. messengers'[i] = s
        BY <1>6, <2>3, SetType
    <2>6. ReaderOK(i)'
        <3>1. \A k \in E : k.msg \in nonces'
            BY <1>6
        <3> QED BY <1>1, <1>6, <2>3, <2>5, <3>1, AssembledReader DEF E
    <2> QED BY <1>2, <1>3, <1>6, <2>2, <2>3, <2>4, <2>6
<1>7. CASE Set(i, [r EXCEPT !.reading = 0, !.chunks = @ \ E, !.thread = "leaves"]) /\ UNCHANGED <<nonces, handled>>
    <2> DEFINE s == [r EXCEPT !.reading = 0, !.chunks = @ \ E, !.thread = "leaves"]
    <2>1. /\ s \in Messenger /\ s.chunks \subseteq r.chunks /\ s.closed = r.closed /\ s.woken = r.woken
          /\ s.thread = "leaves"
        BY <1>2 DEF Messenger, Threads
    <2>2. HandledOK'
        BY <1>7 DEF MessengerInv, HandledOK
    <2> QED BY <1>2, <1>3, <1>7, <2>1, <2>2
<1> QED BY <1>4, <1>5, <1>6, <1>7 DEF Assemble, E

LEMMA MessengerSteps == MessengerInv /\ [MessengerNext]_messengerVars => MessengerInv'
<1> SUFFICES ASSUME MessengerInv, [MessengerNext]_messengerVars PROVE MessengerInv'
    OBVIOUS
<1>1. CASE UNCHANGED messengerVars
    <2>1. UNCHANGED <<made, messengers, udpmsgrs, owned, incarnation, lastindex, sent,
                      nonces, handled, got, dropped>>
        BY <1>1 DEF messengerVars
    <2>2. \A j \in 1..made : messengers'[j].chunks \subseteq got'[j] /\ ReaderOK(j)' /\ CloserOK(j)'
        BY <2>1, OthersKept
    <2> QED BY <2>1, <2>2 DEF MessengerInv, MessengerType, HandledOK
<1> QED BY <1>1, PeersKeep, OpensKeep, ClosesKeep, ReadChunkKeeps, CleanKeeps, AssembleKeeps
        DEF MessengerNext

LEMMA MessengerInvariant == MessengerSpec => []MessengerInv
BY MessengerInitially, MessengerSteps, PTL DEF MessengerSpec

(* However chunks arrive, no message is handled twice, and one whose       *)
(* chunks a thread has read is handled (recvthread, _handlerecvbytes,      *)
(* decryptMessage), with the exceptions the property names.                *)
THEOREM WholeMessagesHandledOnce == MessengerSpec => []WholeHandledOnce
<1>1. MessengerInv => WholeHandledOnce
    <2> SUFFICES ASSUME MessengerInv, NEW m \in sent PROVE
            /\ Handlings(m) <= 1
            /\ \A i \in 1..made :
                  messengers[i].thread = "runs" /\ messengers[i].reading = 0 /\ ReadWhole(i, m)
                  => Handlings(m) = 1 \/ m.index \in dropped[i] \/ Mixed(i, m)
        BY DEF WholeHandledOnce
    <2>1. handled = [n \in nonces |-> 1]
        BY DEF MessengerInv, HandledOK, SetToBag
    <2>2. Handlings(m) = IF m \in nonces THEN 1 ELSE 0
        BY <2>1 DEF Handlings, BagIn, BagToSet
    <2>3. m \in Msg /\ m.index # 0
        BY DEF MessengerInv, MessengerType, Msg
    <2>4. \A i \in 1..made : ReaderOK(i)
        BY DEF MessengerInv
    <2> QED BY <2>2, <2>3, <2>4 DEF ReaderOK, Unmixed
<1> QED BY <1>1, MessengerInvariant, PTL

(* The owner of a messenger that anybody has closed is told of it, or its  *)
(* thread has an empty message to read (Messenger.close, recvthread).      *)
THEOREM OwnersAreTold == MessengerSpec => []ClosedIsTold
<1>1. MessengerInv => ClosedIsTold
    <2> SUFFICES ASSUME MessengerInv, NEW i \in 1..made, messengers[i].closed PROVE
            \/ messengers[i].told \/ messengers[i].thread \in {"leaves", "died"}
            \/ (messengers[i].thread = "runs" /\ messengers[i].reading # 0) \/ CanReadEmpty(i)
        BY DEF ClosedIsTold
    <2>1. CloserOK(i) /\ messengers[i].thread \in Threads
        BY MadeType DEF MessengerInv, Messenger
    <2> QED BY <2>1 DEF CloserOK, Threads, CanReadEmpty
<1> QED BY <1>1, MessengerInvariant, PTL
===============================================================================
