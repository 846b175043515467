# Verification of the physical-ai-toolchain

TLA+ models of the parts of this repository whose correctness rests on the
order in which processes, people and failures act. This directory holds the
modules, the TLC configurations that check them on small instances, and the
TLAPS proofs that hold for every value of the constants. `PROJECT.json` maps
each definition to the lines it models and lists runs, mutants, hazards and
theorems.

## The system

| Component | State | Operations | What is hard |
|---|---|---|---|
| Judge jobs (`data-management/curation/physical_ai_curation/jobs.py`) | one JSON document: jobs, targets, execution slots, generations, previews, withdrawals, approvals | submit, claim, heartbeat, publish, release, cancel, retry, request/apply, preview/confirm/retry/run a withdrawal | many replicas, leases on unsynchronised clocks, fences, crashes, a second resource written inside a transaction |
| Job stores (`adapters/job_storage.py`) | `state.json` under a file lock, or a Blob under a lease | transaction, read | lease lost in the body of a transaction, publication that raises after it happened |
| Label files (`storage.py`, `adapters/local_storage.py`, viewer `services/label_storage.py`) | one file per dataset with a revision | load, conditional save | stale copies, three kinds of writers |
| Contribution ledger (`models.py`) | authored values, acceptances, tombstones per episode | record, derive, accept, withdraw, resolve, materialize | several owners of one field, replays, withdrawal after promotion |
| Sample approval (`jobs.py` approve, `_validate_*`) | approvals in the same document | approve, validate | approval that is stale when used |
| Dataviewer label handlers (`viewer/backend/.../routers/labels.py`) | none of their own | edit labels or analysis, promote, delete an option | people, runs and promotions own different values of one episode |
| Dataviewer dataset service (`viewer/backend/.../services/dataset_service/service.py`, `storage/blob_dataset.py`) | published videos with a byte budget, one synchronised edit directory, cached edit contexts | materialize a video, read an episode for editing | requests that interleave at every await while the source object is written anew |
| Dataviewer annotations, episode cache, detection, exporters | annotation files, caches | HTTP handlers, conversions | cache invalidation |
| Dataviewer frontend | browser state | user interface | - |
| GPU-offload messengers (`gpu-offload/runtime/remoter/msg*.py`) | messengers by address, partial messages, nonces, heartbeats | send, receive, reassemble, clean, close | loss, duplication, reordering, a messenger closed by another thread, a peer that starts over |
| GPU-offload remote calls (`remoter.py`) | callers' events and results; on the server registered calls, a thread pool, a cleanup queue, remote objects | call, cancel, time out, answer, connect, close | late answers, closed connections, cancellations over another connection, single-instance functions |
| GPU-offload server discovery (`rmtconfigkube.py`, `rmtconfig.py`) | the addresses in the configuration file, the run locations | list, watch, restart the watch, read the file | replayed events, lost streams, reissued addresses |
| GPU-offload controller (`controller/mutate.py`) | none of its own: Secrets, network policies and Deployments in the cluster | initial synchronisation, watches, reconciliation, cleanup of orphans; admission webhook | failed calls and restarts between any two API calls, recreated workloads, shared names, the garbage collector |
| Training wrapper of imitation learning (`training/il/scripts/lerobot/train.py`, `checkpoints.py`) | names of uploaded checkpoints, tags of the run, model versions | periodic scan, signal handler, last scan, final registration | retries after lost answers, a handler that re-enters an upload |
| Evaluation, other trainers, fleet deployment, OSMO proxy, AVOPS, capture configuration, infrastructure | - | drivers and pipelines | sequential; listed in `PROJECT.json` as not modelled |

How they interact: clients (HTTP or CLI) call `JudgeJobs`, whose every
operation is a transaction on the shared document. Worker processes loop over
`run_once`: run a pending withdrawal, else apply one queued result to a label
file, else claim one target, judge it and publish the evidence. People edit
the same label files through the viewer. Transactions, claims and label files
are protected by three different devices (a lock or lease, a fence with a
lease, a revision), and the properties are about what they achieve together.

GPU offload: the controller keeps server Deployments with a key and a network
policy for each workload; a client discovers the addresses of the server pods
from the cluster, connects to one of them through a messenger and calls remote
functions there. These parts meet only in pods and addresses that the cluster
hands on, and fail independently of one another. The dataset service reads the
blobs that others write; the training wrapper mirrors what a trainer process
writes to a model registry.

Correct means, for each component that is modelled:

- *queue*: shared capacity, one slot for one input, one publisher per target,
  evidence written once, no job stranded, every job ends;
- *withdrawal*: covered jobs are frozen from the confirmation on, covered
  labels are out of force once it is published, nothing the user was not
  shown is removed, it does not stay running;
- *label files*: no writer undoes another's change;
- *ledger*: whoever edited a field alone sees what they said last; where nobody
  edited, the latest run in force is shown; nothing withdrawn or overruled stays
  visible; a promoted label goes with its finding; a withdrawal takes what its
  runs gave and nothing else; history is never rewritten;
- *workers*: the devices really in use stay within the capacity, and timely
  workers do not lose their claims;
- *remote calls*: one answer, unless the cleanup thread is late; a caller learns
  of its answer or that none will come, a single-instance function runs once, a closed connection leaves
  nothing behind;
- *messengers*: a message whose chunks arrive is handled once, whoever closes a
  messenger its owner is told, and the reading thread survives;
- *discovery*: the configuration file holds the servers there are, and calls go
  there;
- *controller*: no server without its policy and no server removed that is not the
  workload's own, except between workloads that share one; in the end the servers
  that are configured;
- *dataset service*: what is served under a version is that version, and besides
  it only data that was there with it; the scratch budget neither leaks nor
  overflows;
- *checkpoints*: one model version each, and the newest one when the run reports
  success.

## Modules

| Module | What it is |
|---|---|
| `JudgeState` | constants with their assumptions, the document, the label files, the position of each worker in `run_once`, types, `Init`, `ValidClaim`, `Summary` |
| `JudgeQueue` | submit, claim (`Take`, `TakeNothing`), `Observe` (the unlocked read of `run_once`), heartbeat, publish, release, shutdown, cancel, retry |
| `JudgeWithdrawal` | request_application, previews, confirmation, retry of withdrawals, human edits; `apply_once` and `reset_once` as chains of steps under the store's lock |
| `JudgeJobs` | composes both, with crashes, time and fairness, and states the properties |
| `JudgePromise` | abstract specification: evidence, withdrawn runs, labels in force |
| `MCJudgeJobs` | constants of the TLC runs |
| `JudgeTypeProofs`, `JudgeSafetyProofs`, `JudgeLabelProofs` | theorems and their proofs: types; slots, fences and evidence; the ends of jobs, label files, `JudgePromise` and clocks |
| `ContributionLedger` | the ledger and the values of one episode: `resolve`, `record_changes`, `derive`, `withdraw`, `plan_withdrawal` as operators, one action per operation that writes, and the properties |
| `MCContributionLedger` | constants of its TLC runs |
| `ContributionProofs` | theorems about the ledger and their proofs |
| `RemoteServer` | the server of remote calls: `msgHandler` of each connection, thread pool, `cleanupFunctions`, `closeconn` |
| `RemoteCalls` | EXTENDS it with the callers and connections of one client: end to end, with the properties |
| `RemoteTypeProofs`, `RemoteProofs` | theorems about remote calls and their proofs |
| `MessengerUDP` | the receiving side of UDP messengers of one process, server or client: registration by address, chunks, cleaning, assembly, closing |
| `ServerDiscovery` | list and watch of server pods up to the run locations |
| `ServerReconcile` | `ReconcileRuntime` and `reconcile_object` call by call, with users and garbage collector |
| `ServersProofs` | theorems about both |
| `DatasetSources` | `materialize_blob_video` and `_get_edit_episode`, await by await, with the objects they read |
| `CheckpointUpload` | uploads of checkpoints as a stack of frames that signals push onto |
| `TransferProofs` | theorems about `DatasetSources`, `CheckpointUpload` and `MessengerUDP` |
| `MCServices`, `MCAllServices` | constants of the TLC runs of these components, the second of all of them |

`JudgeWithdrawal` and `ContributionLedger` look at the label file from two
sides. For the jobs a file is a revision with the contributions of runs in it,
and what matters is when it is loaded and saved. For the ledger each load and
conditional save is one step, because a save on a stale copy is refused, and
what matters is which value each field shows.

The modules after the ledger describe components that share no state. Where a
run holds several of them, `part` is chosen in the initial state and only that
component moves, so a run explores the union of their state spaces and not the
product, and each property is checked where its component is at work; the other
components get the smallest constants there are. `DatasetSources` has two parts,
`videos` and `contexts`, because a video and an edit context are different objects.
`RemoteCalls` is a true composition: the client's and the server's threads
interleave over shared streams.

### State and code

`job[j]` is the job with `run_order` j; `target[j][e]` its target for episode
e. `executions` maps a claim to the time its slot has left, as `executions` in
the document maps the fingerprint of a claim to `expires_at`. Expiry times are
kept as ticks that remain (`left`), counted down by `Tick` to `Floor`, which is
an exact abstraction because the code only compares expiry times with clocks;
`Offset[w]` is how far the clock of worker w is ahead. `labels[d]` says which
(job, episode) contributions a file holds, which are tombstoned, how many
human revisions it saw, and whether two human authors disagree in it; the
record is also its etag. `generations`, `previews`, `resets` are the entries of
the document with those names.

A quick operation is one atomic step that needs the lock. `apply_once` and
`reset_once` hold the lock over slow work, so each is `Begin.`, `.Load`,
`.Save`, `.Commit`; `body[w]` holds their locals, including the label file as
loaded. The guards are the code's conditions and early returns; an operation
that raises leaves the document alone, so its refusals are not steps.
`LoseStoreLease` lets a Blob transaction go on without its lease, as the code
does, and its commit is then discarded. A crash may hit any of these steps.

The ledger: `file` is the part of a `DatasetLabelsFile` that concerns one
episode. `items[f]` are the contributions to field f in the order of their
sequence numbers (`record_changes` and `derive` give a field increasing ones),
so a contribution is named by its field and place. `run = 0` stands for no
machine provenance; the run of a contribution is its place in the run order, and
its identity the run and the field, as in the uuid that `record_changes` makes.
`source` is the place in the analysis field of what a promoted label is derived
from. `shown` is what `episodes[key]` and `analysis[key]` hold: a label is there
or not, an analysis field has a value or None. Outcomes are the built-in labels
that a judge run sets all at once; `Tag` gives the label that a finding is
promoted to. An operation that raises (two authors and nobody chosen, a rewritten
contribution, a tombstone accepted) saves nothing and is no step. `Init` is any
file from before contributions were tracked. Left out: acceptances, which
`resolve` does not read, the list of options, further analysis fields (they are
treated alike), and the origins `template` and `retroactive` of the annotation
service.

Left out of the jobs: `actor` checks, the capacity scope and the result kind (one of each:
they partition the state), the text of evidence, counters for display,
timestamps, acceptances, and runs that a preview covers although the document
does not list them. Approvals and saved-input validation decide only whether
an operation fails, which the model allows wherever they run. An etag is the
content of the file; a Blob etag also changes when the same content is saved
again, which only makes more conflicts. `reset_once` looks for a running
withdrawal before its transaction; when that one is settled in between, it
returns and the next loop finds another one: the model lets it find that at
once.

*Remote calls.* `fns[k]` and `markers[k]` are `conn["fns"]` of a server
connection: entries with a task, and entries None that `sendResult` leaves for a
call that is not registered there. `running`, `cleaned`, `cleanup` and `cleaning`
are `runningTasks`, `alreadyCleaned`, `cleanupQueue` and the item in the hands of
`cleanupFunctions`. A uid leaves `alreadyCleaned` five seconds after it was put
there, whether the cleanup thread has taken the item or not (`ForgetCleaned`); a
thread that sits in a callback for so long lets the call be queued again.
`overdue[c]` counts how often that happened, and `MaxOverdue` bounds it. `execfunction` is `ReceiveCall`, `Submit` and `Register`
because workers and the cleanup thread run in between; everything that the code
does under one lock is one step. On the client `fnuid`, `woken`, `results`,
`objConn` are `conn["fnuid"]`, the events, `results`, `remotedClassesConn`. A
connection is a FIFO stream in each direction that breaks at any time; what is in
flight may still arrive. A value is named by the call that computed it. Left out:
asynchronous callers, process queues, other functypes, single-instance classes
(the single-instance function is modelled) and calls to the own location.

*Messengers.* `udpmsgrs` is `udp_msgrs` of a server or `udp_msgrs_client` of a
client. `chunks` of a messenger are the filled places of `messages`, `got` and
`dropped` histories of what it read and cleaned away. A chunk may be read any
number of times and in any order, or never, as the network has it. Storing a
chunk (`ReadChunk`) and looking at its message (`Assemble`) are two steps, since
the cleaning thread runs between them. Indices count from 1 instead of 0.
`BegunLongAgo` lets any message age except one that was begun by the chunk just
stored. The nonce of a message is its identity; the time limits of the replay
window, rate limiting and the heartbeats themselves are left out, and unix and
TCP messengers are the streams of `RemoteCalls`.

*Discovery.* `log` is the sequence of pod events by resource version, `listedAt`
the version every watch starts from again, `kept` what the cluster has compacted.
`locations` is the configuration file, `choices` what `updateRunLoc` made of it.

*Controller.* `deployed[s]` and `policy[s]` are the owners of the Deployment and
of the network policy of stage `s`, empty if there is none; `key[k]` the owner of
the Secret. `work[k]` is where the thread of a kind is inside `reconcile_object`,
`inbox[k]` the rest of its listing or stream. Workloads have one name and differ
in kind or uid, which is when they share object names: no name of a Deployment or
of a policy holds the kind, so workloads of two kinds with a stage of one name
have one Deployment, of which both become owners. `ownedBy` and `removers` are
histories: who has owned a server, and which cleanups removed a policy since a
thread put it there. Left out: the admission
webhook (pure patches), client-specific stages, opt-outs, disabled encryption.

*Dataset service.* `version` is what an etag or a revision tells apart, `shard`
what an edit context is read from besides: for a LeRobot dataset, which is tried
first, the revision covers `info.json` and the other metadata but not the Parquet
file with the episode's data; for HDF5, the fallback, it is the etag of the file and
does not cover the JSON files beside it. `content` is the set of versions that
bytes were read from, so a torn copy has two members, and `data` the shard that
was copied last. `beside` is a history of which shards there were at each version.
Each `await` ends a step. `videoLock` and `editLock` are the asyncio locks.

*Checkpoints.* `frames` is the stack of interrupted `upload_new_checkpoints`: the
handler runs on top of the main loop. `excuses[c]` counts lost answers, lost tags
and interruptions that concern `c`.

## Runs

The `ledger` runs are of `MCContributionLedger`; `services_safety` of
`MCAllServices`; `services_liveness` of `MCServices`; `answered_twice_violation` of
`RemoteCalls`, `address_unknown_violation` of `MessengerUDP`; the others of
`MCJudgeJobs`. Deadlock is checked in the judge and ledger runs. The services runs
end where bounds on calls, events and messages are used up and everybody is done,
so they do not check it; that nobody waits for ever is what their liveness
properties, `WaitersWatched` and `ClosedIsTold` say.

| Run | Bounds | Shows |
|---|---|---|
| `queue` | 2 workers, 2 jobs of one episode, 2 keys, 2 configurations, capacities 1 and 2, lease 1 | `CapacityRespected`, `ExclusiveInputs`, `NoStrandedWork`. Two jobs with the same or different configuration are about the same or different inputs, so busy inputs, full capacity and free capacity all occur |
| `withdrawal` | 2 workers, 2 jobs, 1 preview, edits, faults | `TypeOK`, `WithdrawalComplete`, `WithdrawnJobsFrozen`, and `ImplementsPromise`: the refinement of `JudgePromise` |
| `timely` | lease 3, clocks one tick apart, renewals on time | `JudgingWithinCapacity`, `TimelyClaimKept` |
| `liveness` | 1 job, retries, a withdrawal, a crash | `ResetsSettle`, `JobsSettle` under `FairSpec` |
| `lease_lost` | 2 workers, 1 job, fence up to 4, 1 retry, 1 withdrawal, 1 edit, 1 fault, lease 2; the store may lose its lease | `OnePublisher`, `EvidenceFinal`: the fences hold through claim, takeover, cancel and retry of one target; `ApplicationsBacked`, `LabelFilesOnlyGrow`, `PublishesThePreview`: what the revisions of the label files protect even when the store's lock does not |
| `lease_lost_violation` | the store may lose its lease | `WithdrawalComplete` fails: see Findings |
| `ledger` | 2 people; 2 runs that give findings and 1 finding, or 2 judge runs and 2 outcomes; 7 contributions of which 3 of no run | `TypeOK`, `OwnedValuesShown`, `LatestRunShown`, `ShownIsResolved`, `DerivedFollowsSource`, `WithdrawalExact`, `HistoryKept` |
| `ledger_restore_violation` | 1 run, 2 outcomes, 1 finding, 4 contributions | `LegacyLabelsRestored` fails: see Findings |
| `services_safety` | calls: 2 of a single-instance function and 2 of methods of one object, 2 of the 4 made, 1 cancelled, none with a timeout, 2 connections, pool of 1, and for the single-instance function also with a cleanup thread that is late once; controller: 2 Deployments, one after the other, and a Pod, all of one name and one stage, with 1 edit and 1 fault, of the three together only one of the two; discovery: 3 pods, 2 of one address, 4 events, 1 lost stream; messengers: 1 peer given by host name, 2 messengers, 1 restart of the peer, 2 messages of up to 2 chunks, 3 arrivals; dataset: 3 video and 2 edit requests, 3 versions, 2 versions of the shard, budget 2; checkpoints: 2 steps, 3 attempts, 1 signal, 3 errors | `TypeOK`, `AnswersBounded`, `RunsOnce`, `WaitersWatched`, `ClosedReleased`; `IsolatedServers`, `RemovesOwnOnly`; `CaughtUpExact`; `WholeHandledOnce`, `ClosedIsTold`; `ScratchAccounted`, `NamedVersionServed`; `OneVersionEach`, `NewestRegistered` |
| `services_liveness` | 3 calls of which 2 are made, 1 with a timeout, the cleanup thread in time; 3 pods, 3 events, 1 lost stream; controller: any two of the workloads with 1 edit and 1 fault, or all three with neither | `CallsReturn`, `LocationsFollow`, `Converges` under `FairServicesSpec` |
| `answered_twice_violation` | 1 call, 1 cancellation, 1 connection, the cleanup thread late once | `AnsweredOnce` fails: see Findings |
| `address_unknown_violation` | 2 peers, 2 messengers | `AddressKnown` fails: see Findings |

The bounds count events that the properties need: two workers for every race
between two claims, two jobs for two inputs or for a covered and a later run, a
fence of four for a claim, its takeover or cancellation, and a retry with another
claim in one history, one human edit and
one fault at any place. A third worker can only repeat what the second does,
since each property is about pairs of claims or one transaction and its rival;
for every safety property the theorems below remove the bounds altogether. Each property of a passing
run has a mutant: a plausible bug in one mapped definition that makes TLC find
it violated.

The runs `queue`, `withdrawal` and `lease_lost` identify states that differ in the
names of keys, configurations and workers, which is sound because their clocks agree;
`timely`, where one worker's clock is ahead, and the liveness runs do not.

For the ledger, two people are every disagreement about an owner and two runs
every question of order, of coverage and of a conflict with a run outside a
withdrawal. A behaviour is about outcome labels or about findings and the labels
promoted from them (`OneAspect`). Seven contributions hold a finding of each run
and a promotion of each with a person's edit and the value from before on either
field, or both outcomes of both runs and three values from before or edits. One
finding is enough because a second value of the same field only makes promotions
of different labels, which share no contribution. The theorems remove these
bounds.

For the services: two calls meet in every race between a call and another that
shares its function, its object or its worker, and two connections let a
cancellation go out over another one than its call. A cleanup thread that is late
once lets a call be queued twice; each further time adds one answer in the same
way, and the theorem has any number. `CallsReturn` is checked with a cleanup
thread in time, to keep its graph small: lateness only adds answers. A Deployment, its
successor and a Pod of the same name are the three ways to share a name, and all of
them have the same stage; the order of the two Deployments is fixed, since nothing
depends on it. Two chunks arrive
in either order, once or twice, and a peer that starts over reuses an index with
a different number of chunks. `Behind` is 3 in the code; the run takes 0 so that
the first of two messages already falls behind the second, which four messages
would do with 3. A timeout sends the cancellation a client's own `cancel` sends, so
`services_safety` has cancellations only and timeouts are in the liveness run. Two
shards are one that was there and one that came while a context was read; three
video requests are two that share a version and one of another. Two
steps and one signal interrupt an upload of the newest checkpoint, of an older one,
and the final registration.

**Fairness.** In the judge jobs `FairSpec` gives weak fairness to each worker's loop
(`run_forever` goes round until it is cancelled, and a process that dies is
started again), to the renewal task and to time. Clients, people and faults owe
nothing. `JobsSettle` assumes that clients stop asking for applications
(`ClientsRest`): `run_once` applies before it claims, so an application that
fails and is requested again without end holds up the queue.

`FairServicesSpec`: the client's threads and the server's threads each go on
while one of them can (operating-system threads that are not blocked run, and
functions end); the controller's threads take their next step and open their next
watch, since `_watch_kind` loops until the process stops and a stream ends
after its timeout; the garbage collector collects; the discovery thread loops and
the configuration file is read after a change. Users, faults, breaking
connections and events owe nothing. Three excuses are part of the properties because
the code needs them, and cover no hazard that they name: followers of a
single-instance function whose first caller never finishes wait and hold their
workers (`FollowersWait`; see Findings), a call that reused
its object's connection is woken by nobody (`Reused`), and a watch whose start
version was compacted away fails for ever (`Blind`).

`JudgingWithinCapacity` and `TimelyClaimKept` need `Timely` (every worker
renews before the next tick) and clocks that differ by less than the part of
the lease that is left between renewals. Without these the code gives up
mutual exclusion on the device and keeps only the fences; the other runs make
no such assumption.

## Findings

`lease_lost_violation`: `BlobJobStore` checks `renewal_error` after the body of
a transaction. If the lease is lost while `apply_once` is at work, another
replica can confirm and publish a withdrawal of that very run (the file holds
nothing of it, so its content is already the projected content and its revision
stays the same), after which the late save still matches the revision it
loaded. The withdrawal reads succeeded and a label of the withdrawn run is in
force; only the commit of the job document is refused. With the store's lock
kept, the `withdrawal` run finds `WithdrawalComplete` to hold.

`ledger_restore_violation`: `plan_withdrawal` reports a field that falls back to
its value from before any run as `legacy_value_restored` ("The pre-existing
unprovenanced value is restored rather than guessed removable."), but writes that
value only in namespace `analysis`. A label from before contributions were
tracked which a run overruled (a judged FAILURE over an old SUCCESS) stays
missing after the run is withdrawn, although `resolve` gives it. The next write
to the episode, whoever makes it, materializes it again.

`address_unknown_violation`: `handleUDPPacket` asserts that a client knows the
address of every packet ("Received UDP message from unknown client address ... on
client side"). When a client messenger is closed (no heartbeat for three periods,
a failed decryption, a failed send) its address leaves `udp_msgrs_client`, but the
server goes on sending to the socket that all client messengers share. The next
packet fails the assertion in `recvUDPThread`, which catches nothing and is
started only once: from then on no UDP messenger of that process receives
anything. The run: the client opens a messenger, the peer sends, the heartbeat
thread closes the messenger, the packet arrives.

`answered_twice_violation`: `alreadyCleaned` is there "to avoid cleaning up the same
function multiple times", but `removeFromCleanup` takes a uid out of it five seconds
after it was put there without asking whether its item has been taken. While the
cleanup thread sits in a callback (`sendResult` to a slow connection), the call is
still in `runningTasks`, so a cancellation or the closing of its connection queues it
again and it is answered twice. `AnswersBounded` says that there is no other way.

Met while modelling, without a run of its own:

- The first result of a single-instance function is to be "memoized and returned to
  every later caller". When the first caller is cancelled the cleanup runs its answer
  and not `callbackfirst`, so the event of the others is never set: they wait, each on
  a worker of the pool, until their client goes away (`FollowersWait`).
- `_deployment_name` has no kind in it, `reconcile_named_network_policy` no owner
  check, and the cleanup takes a server with any owner that it is about, although
  `reconcile_object` calls that object the sole owner. Of a Deployment and a Pod of one
  name with a stage in common, the cleanup of the one removes the policy and the server
  that the other still wants; between its two calls, and between the two calls with
  which the other makes them anew, a wanted server runs without the promised policy.
  The next listing of the other brings both back (`Converges`); `RemovesOwnOnly` and
  `IsolatedServers` say that nobody else than a workload that has owned the server can
  do this.
- `get_source_revision` is to identify the current generation of the dataset, but for
  LeRobot it is made of the metadata: a Parquet file that is written anew while the
  metadata stays is served from the old copy under the revision of the moment, from the
  directory or from the cache, until the metadata changes. `NamedVersionServed` says
  what is left: the metadata are of the revision, and the data is some that was there
  at that revision.

Excused by name in the properties, and worth a look: the
reused connection above; `closeconn` raises at an entry
None that a cancellation over another connection left, and releases nothing after
it (`spoiled`); the cleaning thread may delete the very message that is being
assembled, whose KeyError ends the receiving thread without `closefn` (thread
"died"); an exception of `handlefn` ends it in the same way; a pod that takes over
an address is removed by the late DELETED of its
predecessor (`Reissued`); a lost answer, a lost tag or an interrupting signal
makes a second model version (`excuses`).

## Proofs

Every invariant and every action property of the passing runs, and the
refinement of `JudgePromise`, is also a theorem: for every number of workers,
datasets, episodes, jobs, clocks and leases that `ConstantsAssumption` admits,
every number of people, runs, labels, findings and contributions that
`LedgerAssumption` admits, and likewise for calls and connections
(`RemoteAssumption`), workloads, kinds and stages (`ReconcileAssumption`), pods
and events (`DiscoveryAssumption`), requests, versions and sizes
(`SourcesAssumption`), checkpoints, signals and errors (`UploadAssumption`), peers,
messages and arrivals (`MessengerAssumption`).

| Module | Theorem | States |
|---|---|---|
| `JudgeTypeProofs` | `TypeCorrect` | `[]TypeOK` |
| `JudgeSafetyProofs` | `CapacityTheorem` | `[]CapacityRespected` |
| | `ExclusiveTheorem` | `[]ExclusiveInputs` |
| | `FencingTheorem` | `[]OnePublisher` |
| | `EvidenceTheorem` | `EvidenceFinal` |
| `JudgeLabelProofs` | `WorkIsNeverStranded` | `[]NoStrandedWork` |
| | `WithdrawnJobsStayFrozen` | `WithdrawnJobsFrozen` |
| | `ApplicationsStayBacked` | `[]ApplicationsBacked` |
| | `LabelFilesKeepEverything` | `LabelFilesOnlyGrow` |
| | `WithdrawalsPublishThePreview` | `PublishesThePreview` |
| | `PublishedWithdrawalsAreComplete` | `[]WithdrawalComplete`, if `StoreLeaseLost = FALSE` |
| | `ServiceKeepsItsPromise` | `ImplementsPromise`, if `StoreLeaseLost = FALSE` |
| | `JudgingStaysWithinCapacity` | `[]JudgingWithinCapacity`, if `InTime` |
| | `TimelyClaimsAreKept` | `[]TimelyClaimKept`, if `InTime` |
| `ContributionProofs` | `LedgerTypeTheorem` | `[]TypeOK` |
| | `OwnedTheorem` | `[]OwnedValuesShown` |
| | `LatestRunTheorem` | `[]LatestRunShown` |
| | `ResolvedTheorem` | `[]ShownIsResolved` |
| | `DerivedTheorem` | `[]DerivedFollowsSource` |
| | `WithdrawalTheorem` | `[]WithdrawalExact` |
| | `HistoryTheorem` | `HistoryKept` |
| `RemoteTypeProofs` | `RemoteTypeTheorem` | `[]TypeOK` |
| `RemoteProofs` | `AnswersBoundedTheorem` | `[]AnswersBounded` |
| | `WaitersWatchedTheorem` | `[]WaitersWatched` |
| | `RunsOnceTheorem` | `[]RunsOnce` |
| | `ClosedReleasedTheorem` | `[]ClosedReleased` |
| `ServersProofs` | `IsolatedServersTheorem` | `[]IsolatedServers` |
| | `RemovesOwnOnlyTheorem` | `RemovesOwnOnly` |
| | `CaughtUpExactTheorem` | `[]CaughtUpExact` |
| `TransferProofs` | `NamedVersionServedTheorem` | `[]NamedVersionServed` |
| | `ScratchAccountedTheorem` | `[]ScratchAccounted` |
| | `CheckpointsRegisteredOnce` | `[]OneVersionEach` |
| | `SuccessRegistersNewest` | `[]NewestRegistered` |
| | `WholeMessagesHandledOnce` | `[]WholeHandledOnce` |
| | `OwnersAreTold` | `[]ClosedIsTold` |

Each is of the form `Spec => ...` for the specification of its component. Two
theorems need a store that keeps its lease; without it they are false, which
`lease_lost_violation` shows. Two need `InTime`: workers renew between two
ticks (`Timely`), and no clock is ahead of another by what is left of a lease
then (`Offset[v] < Offset[w] + Lease - 1`). The run `timely` satisfies it with a
lease of three ticks and clocks one apart. All the others hold with lost store
leases, late renewals and any clocks.

*Types.* `TypeOK` is not inductive: a body that is about to write must name an
existing job, episode and dataset, and a job that was submitted must have a
dataset. `TypeInv` adds `BodyOK` and `JobOK`; each action has a lemma.

*Fences and slots.* `OnePublisher` follows from `FencesOK`: a target's fence is
never below that of a claim anybody holds on it, and two workers hold different
fences of one target. `ValidClaim` compares the fence for equality, so a valid
claim is the highest. A claim is only made by `Take`, with a fence above all;
`Cancel`, `Retry` and `Take` are the only steps that move a fence, upwards.

*Capacity and inputs.* Slots are added only by `Take`, which has just purged
the expired ones: `SlotsOK` says that the slots are a finite set of claims of
submitted jobs, so the cardinality argument goes through, and `JobsKept` that
the dataset and configuration of a submitted job never change, so inputs of
existing slots stay what they were.

*Evidence.* `EvidenceOK` says that a target with a verdict is succeeded, which
no cancel, retry, publication or withdrawal touches.

*The ends of jobs.* `LabelInv` joins those of the queue with five parts.
`WorkOK`: the status of a job follows from its targets, and nothing in a job is
open next to something cancelled, because cancellation and retry are of the whole
job; without this `Summary` would call a job with open work cancelled.
`SummaryAccounts` is the lemma that every operation cites. `ResetsOK`: generations
of jobs are not ahead of their datasets, and what a withdrawal on record covers is
withdrawn. `LockOK`: while a worker holds the store's lock, what its slow
transaction began with still is so, since everything else in the document needs
the lock. `JobSteps` says what a step can do to a job; `WithdrawnJobsFrozen` is
`JobSteps` with each operation's guard refuted by the generation.

*Label files.* `Before` orders contents by what they hold; every save goes up
(`LabelsGrow`) because it compares revisions, with or without the lock. `EtagsOK`:
what a withdrawal was confirmed for is not later than the file, and what a worker
began with is not later than what is on record. A save that sets tombstones finds
the file as the worker's etag says, so all three are equal. `BackedOK` says what a
contribution rests on and, at each step of an application, what it has achieved.

*Withdrawal and promise.* `KeptInv` adds, for a store that keeps its lease, that a
worker in a slow transaction holds the lock (`LeaseKept`), and that a worker about
to record a publication has a file in which every contribution is withdrawn
(`CompleteOK`). The refinement maps each step: a publication of a valid claim
records evidence, a confirmation withdraws runs, a save puts one contribution in
force or takes those of withdrawn runs out, and everything else stutters.

*Clocks.* `SlotsHeldInv`: a worker that has claimed and not published has a slot,
under its own name, that no clock finds expired. The claims are then different
slots, an injection, and `CapacityRespected` bounds them (`FS_Injection`).
`HeldNow`: unless the job was withdrawn, the target is as the claim left it, with
the lease of the slot, until its fence moves, and it moves by one only to a target
that is not running. Heartbeats renew both leases together as the claim is valid;
nobody else finds the lease expired, and nobody else's claim has that fence.

*Ledger.* `LedgerInv` joins well-formedness, `OwnedValuesShown` (as `Owned`),
`HumanFindingsKept` and `RunsInv`. A finding that a person gave is never
withdrawn: `withdraw` also retires what is derived
from a tombstone, and only if no source of a person's promoted label can be
retired does a withdrawal leave people's labels alone (`RetireSpares`). Of runs:
one gives a field at most one contribution (`OnePerRun`), so the latest run in
force is one contribution and no tie is broken by place; a label without the
finding it came from stays only next to one of another run that has its own
(`OrphansCovered`), so what a later withdrawal leaves is a conflict and not a
remainder; and what is shown without people is `resolve`'s value (`RunsShown`).
Files are built by chains of operators, so each operator has a lemma about the file it
returns (`Recorded`, `Retired`, `DeriveKeeps`, `SourceExists`, `MaterializeOwned`)
and each action one that cites them. `WithdrawalExact` speaks of a withdrawal of
any runs from the present file, so it is proved from the lemmas about `Plan` and
not from a step. `Winner` is a CHOOSE over a finite set; that
it has a value (`BestExists`, `LastIsLargest`) follows from the well-foundedness
of the strict-subset order. `Keeps`, proved of every step beside the invariant,
gives `HistoryKept`.

*Remote calls.* `TypeInv` adds to `TypeOK` that queued items and chosen
connections are real. `TurnsInv` counts the answers a call has had, those in the
queue and the one in the hands of the cleanup thread: they exceed the times its uid
was forgotten while it was queued by one at most, and not at all while it runs and
its uid is not in `alreadyCleaned`, since only then may one more be queued.
`WatchInv`: a call that is in the
`fnuid` of the connection it chose and has not been woken is on the connection in
use, and only a method that reused its object's connection is not in one. `FirstInv`: a
call travels once (`MsgInv`), at most one call has the role "first" and only it
runs a body (`RoleInv`), and every value of a shared call that is queued, in
flight, memorised or returned is that of the first or `Stopped` (`ValueInv`).
`HeldInv`, for what a closed connection leaves: a running call is in `fns` of its
connection or in the hands of its handler, so `closeconn` finds it, and one that
was cleaned already is still queued (`HandlerInv`, `RunningInv`); the object lives
on one connection, and is not hidden by `alreadyCleaned` before that has closed
(`ObjectInv`).

*Controller.* `IsolatedServers` is not inductive: a policy may lose its owner to
the garbage collector while a Deployment keeps one. `Covered` says that every
existing owner of a Deployment owns its policy too, or a cleanup removed that since,
and that a server half way (`half`) has its policy already. `Owners`: a cleanup is
about a workload that has owned what it removes, whatever stages kinds have in
common. `InTurn` is what a recreated workload needs: once the thread of a kind deals
with a living workload nothing of its predecessor is left in its inbox, so a late
reconciliation of a dead one cannot take the name over.

*Discovery.* `DiscoveryInv`: the last event of a pod says how it is
(`LogIsTrue`), addresses without an event since the list are as listed
(`AsListed`), the others as the last event seen said (`AsSeen`). Replaying from
`listedAt` keeps `AsListed` true because old events are about other addresses.

*Dataset service.* `SourcesInv`: bytes read for a request were read after the
version it found, and versions only grow; at publication the object still has
that version, so the bytes are of it alone (`OnlyVersion`) and the shard is one that
was there beside it (`BesideVersion`). `ScratchInv` adds that
a transfer holds the lock of a version that is not published, so no two transfers
are of one version. The bytes are a set of pairs of holder and place instead of a
sum, so that what begins, ends or is published adds or removes a block of known
size (`HolderBytes`, `BytesAdd`); a sum over a set would need induction.

*Checkpoints.* `Owed(c)` counts the versions of c there are and those that frames
on the stack may still make. `UploadInv`: it exceeds what is excused by one at
most, and not at all whenever a new upload of c may begin (`Accounted`); and the
final registration is about the newest checkpoint (`NewestOK`).

*Messengers.* `MessengerInv`: the bag of handled messages is the set of nonces, so
nothing is handled twice (`HandledOK`); a reading thread holds every chunk it has
read of a message that nothing came between, until it is handled (`ReaderOK`); who
closes a messenger wakes it, and its thread tells before it ends (`CloserOK`).

Constant assumptions beyond ranges are that `None` is none of the values it
stands beside, and that leases and capacities are positive. Kinds may have any stages
in common.

*Only model-checked:* the liveness properties `ResetsSettle`, `JobsSettle`,
`CallsReturn`, `Converges` and `LocationsFollow`, since the prover has no rules for
fairness; and the properties that the code violates, one run each.

## Not modelled

The repository is large (some 66,000 lines of implementation) and most of it has
no state that several actors share: trainers and launchers around third-party
libraries, CARLA capture and video generation, the operational-design-domain
engine, exporters and dataset readers, the React frontend, Terraform and shell.
Those are listed in `PROJECT.json` with the reason. What is modelled was chosen
because its correctness depends on order, time or failure; it is a small part of
the lines and most of that kind of difficulty. A state machine of the rest would
restate straight-line code.

Within the components that are modelled, the gaps are: sample approvals (their
failures are in the model, when they are stale is not), the file lock and the
temporary file of the local stores, acceptances and option lists of the ledger,
asynchronous and process-pool remote calls, single-instance classes, the
heartbeat messages and the replay window's clock, the admission webhook and
per-client stages, the viewer's metadata caches and annotation files, MLflow's
registry and warm starts. The checkpoint monitor of the evaluation is one thread
that polls a directory.

## What would come next

1. `JobStore`: local and Blob transactions as steps of an OS lock, a lease with
   an ETag and a cancelled publication, shown to implement an atomic store.
2. The viewer's metadata caches (`get_info_json`), which cache bytes older than
   the revision they are filed under.
3. An abstract specification of remote calls (a call is answered, stopped or
   lost, once) and a proof that the composition of client and server implements
   it.
