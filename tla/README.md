# TLA+ models of trex

trex is a toolkit for inspecting, building and running historical software. Most
of its code parses formats, one call at a time. This project models the parts
where state lives longer than a call and where several actors, failures or
crashes meet: the SCS repository, the block devices and the server that exports
them, the caches, the control of virtual machines and the channels that join
guests with each other and with tools.

1. [Inventory](#inventory)
2. [Modules](#modules)
3. [Runs](#runs)
4. [Proofs](#proofs)
5. [What is not modelled](#what-is-not-modelled)
6. [Plan](#plan)

## Inventory

The parts of the system that keep state, and what is hard about each. The first
eleven are modelled; the others are in the [plan](#plan).

| Part | State | Operations | What is hard about it |
| --- | --- | --- | --- |
| SCS repository (`scs/repo`) | an append-only record file, its buffered writer, the maps a handle keeps of it, workspaces | write, delete, snapshot, publish, drop, checkpoint, close, open | a crash, a failed write or a failed sync between any two storage calls; recovery along two paths that must agree |
| SCS Git import (`scs/git/parallel.go`) | scanner, workers, dependency records | import of a pack | bases that come later, equal objects, cycles, failures while goroutines wait for each other |
| Copy-on-write overlay (`block/star/overlay.go`) | written chunks over a base, snapshots, leases, a seal | write, zero, snapshot, acquire, release, commit, extent maps | buffers shared with snapshots, a byte limit, chunks that turn back into base, a short last chunk |
| Byte cache (`storage/cache`) | table, recency list, byte count, loads under way | get, lookup | loads run outside the lock; waiters outlive the entry they wait for |
| Mirror cache (`storage/native/mirror.go`) | partial and published files | open, resume, verify, publish | a stop at any byte, several mirrors, several callers |
| NBD server (`block/nbd`) | connection, job queue, workers, buffers, device lease | serve, requests, close | reads run concurrently while mutations must not; every way a connection can end |
| Ethernet switch (`vmm/ethernet`) | connected ports, learning table, a queue per port | connect, send, receive, close | table and queue limits, ports that close while others send |
| QMP client (`vmm/qemu/qmp.go`) | pending calls by number, one write slot | call, reply, cancel, close | cancellation racing with a write or a late reply |
| Virtual processor loop (`vmm/cc/driver_smp.go`, `driver.go`) | workers, an epoch, pending exits, a request channel | run, exit, pause, resume, reset, rebuild, close | the machine may be touched only while no processor is in its guest |
| Kernel debugger transport (`windows/kd`) | one-bit packet numbers, acknowledgements, stop generation | send, acknowledge, resend, reset, continue | damaged and repeated packets, reboots |
| Memory channel and TCP bridge (`channel/memory.go`, `channel/native/tcp.go`) | two bounded buffers, notifications, a connection, two copies | read, write, close, checkpoint, restore, serve, stop | wake-ups across close and restore; every goroutine must end |
| Block read cache (`block/star/cache.go`) | chunks, recency list, loads under way | read, prefetch | as the byte cache, plus a base that may not be called concurrently |
| Sparse overlay (`block/sparse.go`) | dirty chunks in a backing file | read, write, flush | a failed call is terminal: half-written chunks must stay invisible |
| Ready channel (`channel/ready.go`) | buffer filled by a pump, readiness token, deadline | read, poll, set deadline, close | the token must match the buffer; the pump races with close |
| Lifecycle registry (`lifecycle`) | registered resources | add, release, close | registration during shutdown |
| Fast index (`scs/repo/fast_index.go`) | sealed runs by level | lookup, seal, merge | merging must keep the newest entry |

How they interact: a guest's disk is an overlay over a read cache over an
archive; the NBD server leases the overlay for each connection, and `Commit`
turns an overlay into an immutable base once no lease is left. Archive readers
share one byte cache. Workspaces of one SCS repository share its handle and its
mutex, and a Git import stores its objects through the same handle. Virtual
machine monitors drive the switch and the QMP client; the serial ports of their
guests are byte channels, to which the kernel debugger attaches and which the
bridge offers over TCP.

## Modules

| Module | Models | Built on |
| --- | --- | --- |
| `ScsRepository` | `scs/repo/{store,refs,checkpoint,fast_index,workspace}.go` | |
| `NamedRoots` | what the repository promises about its named roots | implemented by `ScsRepository` |
| `GitImport` | `scs/git/parallel.go` | |
| `BlockOverlay` | `block/star/overlay.go` | |
| `FlatDisk` | what an overlay promises to its users | implemented by `BlockOverlay` |
| `OverlayExtents` | the extent maps of an overlay | `BlockOverlay` |
| `ByteCache` | `storage/cache/{cache,lookup}.go` | |
| `MirrorCache` | `storage/native/mirror.go` | |
| `NbdServer` | `block/nbd/server.go` from `serve` to its return | |
| `EthernetSwitch` | `vmm/ethernet/switch.go` | |
| `QmpClient` | `vmm/qemu/qmp.go` | |
| `VcpuLoop` | `vmm/cc/driver_smp.go`, the calls and the rebuild in `driver.go` | |
| `KdTransport` | `windows/kd/wire.go`, the continue and stop states of `session.go` | |
| `MemoryChannel` | `channel/memory.go` | |
| `TcpBridge` | `channel/native/tcp.go` together with the channel | `MemoryChannel` |
| `*Proofs` | theorems: `SwitchQmpProofs` about the switch and the QMP client, `ScsRecoveryProofs`, `ScsStorageProofs` and `ScsRepositoryProofs` about the repository, the others about the module they are named after | the modules they are about |
| `MC*` | constants and symmetries of the runs; `MCSwitchMirror` joins two parts in one run | the modules each is named after |

Operators whose name ends in an underscore and a word (`Fail_Kept`) are
mutants: a plausible mistake in the definition that follows them. No
specification uses them; each shows that a property notices the mistake.

### ScsRepository

`log` is the sequence of records the handle has appended. Its first `nfile`
records are in the file, the rest in the `bufio.Writer`; the first `ndisk` are
durable. `torn` and `dtorn` say that the file and its durable image end in a
part of a record. So a killed process leaves the file as it is at `nfile`, and
a power loss any image between `ndisk` and `nfile`.

A file's content is a member of `Object`, a tree a set of objects, and the ID of
a snapshot its tree, since IDs are digests of the content. Every operation holds
`Repository.mu`. It is split where it calls the storage, because that is where
it can fail or the process can die: `op` holds the stage it has reached.

| Code | Actions |
| --- | --- |
| `Workspace.write`, `Delete`, `Repository.Empty` | `Ingest`, `Write`, `Delete`, `Empty` |
| `Checkout`, `Fork`, `load` | `Checkout`, `Fork`, `ReadFails` |
| `Snapshot` | `Snapshot`, `Save`, `SyncWrite`, `FsyncSnapshot` |
| `Publish` | `Publish`, then as `Snapshot`, `AppendRefs`, `SyncWrite`, `FsyncRoot` |
| `Drop` | `Drop`, `AppendRefs`, `SyncWrite`, `FsyncRoot` |
| `Checkpoint`, `buildFastIndex` | `Checkpoint`, `BuildFastIndex`, `SyncWrite`, `FsyncCheckpoint` |
| `sealFast` | `SealedLog`, inside `SyncWrite` and `CloseFlush` |
| `sync` that fails | `FsyncFails`: any prefix may have become durable, the handle is poisoned |
| `Close` | `CloseUnsealed`, `CloseFlush`, `FsyncClose`, `ClosePoisoned` |
| `open`, `scan`, `loadFastIndex`, `trim` | `Open`, `OpenFails` |
| the environment | `ProcessCrash`, `PowerLoss` |

`acked`, `since` and `returned` record what callers were told. No guard reads
them.

### GitImport

A pack is chosen in the initial state: any kinds, bases and identifiers for up to
`Count` entries, equal objects and unresolvable deltas included. The scanner, the
workers and the coordinator are separate processes joined by the channels of the
code: batches of headers, jobs and results. `done`, `child` and `waiting` are its
dependency records; `Send` gives a worker a runnable delta before any other object.
An offset that names no earlier entry ends the import (`Refused`), as do failures of
a read, of a store or of the link check and the end of the caller's context, after
which the coordinator waits for everybody. That a worker cannot be started is not
modelled; it ends the import like a failed store.

### BlockOverlay, OverlayExtents

A chunk refers to a buffer in `heap`. Whether a write alters a snapshot depends
on which buffer it fills, so buffers have identities; unreferenced ones are
reused. `Staged` is what `updateLocked` computes: the chunks that are touched,
which of them become equal to the base and are dropped, the charge against
`maxDirty`, and the copies of buffers that a snapshot shares. `Update` installs
it unless the charge is too high. All methods run under one mutex and are one
action each. The chunk size is a variable that never changes, so that one run has
several. `OverlayExtents` adds the pure functions `ExtentMap` and `DirtyExtents`
over the same state.

### ByteCache

An entry is an object: a caller that waits for one still holds it after the table
has dropped it. `Get` is split where it releases the mutex: `Join` or `Miss`,
then `Wake` for a caller that joined, `Loaded` or `LoadFails` for the one that
loads. Evictions belong to `Loaded`, as in the code.

### MirrorCache

One object is modelled; its bytes are good or bad, and a digest fits exactly the
payload. Files are inodes, since an open file outlives its directory entry. `Open`
is split at every call of the file system and of a mirror: the lock, the check of
the cached object, opening and hashing the partial file, the request with its
range and status, each chunk of the body, verification, rename, and the second
verification after publishing. `Using` gives each caller its cache, and with it the
lock it takes. Mirrors and the disk are external: a mirror is
honest or commits one of `MaxFaults` faults; a crash may spoil what was not synced
and undo the last rename.

### NbdServer

The reader (`main`), the workers, the goroutine that watches for cancellation
and callers of `close` are separate processes. A request is its number on the
connection; its kind is `"read"` for everything workers execute, `"write"` and
`"bare"` for mutations with and without a payload, which the reader executes
itself behind `nbdMutationBarrier`. Marking a job done, returning its buffer and
reporting a failed reply are separate steps of a worker, since the reader can run
between them. `close` is split between fetching the cancel function and calling
it.

### EthernetSwitch

All operations hold `Switch.mu`. A frame is its two addresses, the port it came
from and a serial number; the last two are only observed. So is `seen`, the port that
each address last sent from, which the code does not keep: its table is `learned`,
and a full one does not take every address.

### QmpClient

A call, the `AfterFunc` callback of its context, the reader and a caller of `Close`
are processes; each runs `shutdown` on its own (`fail`, then the replies to the
calls taken from the map, then closing the transport). A call stands for its id
and for the contents of its reply, so that the lookup by id is taken as it is and
the properties are about how often a call is answered. QEMU is external: it may answer a command it
received at any time, more than once or never, and may read nothing.

### VcpuLoop

The coordinator is a program counter over the blocks of `loopSMP`, with `loop` of
`driver.go` for the reset and the rebuild; each processor has a worker. `active`
holds the processors that were dispatched, `pending` those of them whose exit was
received while the coordinator stops the others, and `cancelled` says whether the
epoch was. An exit is a cancellation, an access to a device, an access that may switch
address line 20, or an error; what an emulated device answers is a choice.
Callers wait for room in the request channel, queue their request, cancel processors
under `cpuMu` and wait for a reply or the end; their context may be done while they
wait for either.

### KdTransport

`writeLoop`, `readLoop` and the callers that queue continue packets are processes;
the line keeps the order of packets in each direction and may damage data
packets. The target is external and runs the same protocol, repeats what was not
acknowledged, may reboot, and sends its first packets with or without the sync bit.
Every data packet of the target is a state change, so that the packets drive the
session's stop generation. A packet is checked and acknowledged in one step of the
reader (`HandleData`) and changes the session in the next (`Deliver`), where it may
turn out to be malformed; a reset is split in the same way. Writes and reads may
fail, which ends the writer or the reader. All of these faults share one bound.

### MemoryChannel, TcpBridge

`MemoryChannel` has the operations of the channel, one under its mutex each.
`changed[s]` is the set of waiters that hold the current notification of end `s`:
`notifyLocked` closes that channel and makes another that nobody holds.
`TcpBridge` composes it with `serve`, its two copies, `stop` and `Close`; a copy
asks for a notification, tries, and sleeps in separate steps, as in the code. The
TCP client and the guest at the other end are external.

## Runs

`tlc -config X.cfg M` in this directory; `PROJECT.json` lists module,
configuration and properties of each run. No configuration replaces a definition
of a module.

| Run | Instance | What it shows |
| --- | --- | --- |
| `scs_plain` | format 2, one object, two names, two workspaces, 6 records, 1 fault | what recovery finds, durability and lost updates with written-through records; refinement of `NamedRoots` |
| `scs_indexed` | format 3, one object, one name, one workspace, 9 records, 1 fault | with buffered records: every crash image can be opened and has the right roots, and the sealed index and the scan recover the same |
| `git_import` | every pack of up to 3 entries, batches of 1, two workers; failures in packs of up to 2 | every entry stored once and after its base; the import returns (liveness) |
| `block_overlay` | 3 bytes in chunks of 1 or 2, room for 2 dirty bytes; two leases with the small chunks, two snapshots with the large ones | accounting, sharing, leases, every write and every extent map in every state; refinement of `FlatDisk` |
| `byte_cache` | keys of 1, 1, 2 and 3 bytes, a cache of 2, two callers | one load per key, exact accounting, errors not kept, every call returns (liveness) |
| `mirror_own_caches` | two callers with a cache each on one directory, honest mirrors | expected to fail: a file that is not verified is published (see [Disagreements](#disagreements)) |
| `nbd_server` | two connections of two requests, two workers | order of reads and mutations, answers, buffers, lease, a late `close`, the end of connections (liveness) |
| `switch_mirror` | three ports, two stations and a group address, queues of 2, a table of 1; three callers of one mirror cache, an object of 2 bytes, 2 tries, a fault and a crash | table, order and direction of frames; what is published and returned is verified |
| `qmp_client` | two calls, cancellation and `Close` at any time | each call is answered once, cancellation hits its own write, cancelled calls and `Close` return (liveness) |
| `vcpu_loop` | two processors, one caller, a request channel of 1 | the machine is touched only while quiet, exits are handled, calls return (liveness) |
| `kd_transport` | two packets to the target, two from it, with and without the sync bit, two faults | delivery once and in order both ways, nothing acknowledged is lost; a continue never clears a newer stop |
| `tcp_bridge` | a channel of 1 byte, a connection of 2, three bytes, one checkpoint | bytes arrive in order, nobody sleeps without reason, `Close` returns (liveness) |

The switch and the mirror cache have nothing to do with each other. `MCSwitchMirror`
lets one of them run while the other stays in its initial state, so the run has the
states of each, not their product, and says of each what a run of its own would.

Deadlock is checked except in three runs of systems that may stop: an import that
has returned, a bridge that is closed, and a debugger line whose bounds are used
up while nobody has anything to repeat.

### The properties

Several properties are conjunctions; the parts have names of their own in the
modules and are named here where that helps.

**SCS repository.** `AlwaysRecoverable`: no crash image makes `Open` refuse the
file. `TreesComplete`: a snapshot follows its objects in the log. `RecoveryExact`:
what is recovered is the root map of the last operation that returned success, or
of one attempted since, never an older one or a mixture; the manifest and the scan
of the same image agree; and an idle open handle knows exactly what its log holds.
`SnapshotsDurable`: an ID that was returned, or memoized to be returned without
another sync, is durable with its objects. `NoLostUpdate`: a name changes only
over the version its publisher started from. `ImplementsNamedRoots`: the history
of root maps grows by one-name changes and loses only a suffix that was not yet
stable. `scs_indexed` leaves out the properties that are proved for both formats
and have no part that only format 3 exercises.

**Git import.** `EntriesStored`: a delta reaches a worker only after its base is
stored, no entry reaches two, success means that each entry was stored once, and
missing bases are reported only for packs with a set of deltas that only need each
other or nothing there is. `ImportReturns`: the import ends with its goroutines
joined.

**Overlay.** `AccountsExact`: the byte account is that of the chunks in memory and
within the limit, a chunk's generation says exactly whether a snapshot shares its
buffer, and a chunk is copied at most once per snapshot. `LeasedIsWritable`: no
lease is held on a sealed device. `WritesExact`, `ImplementsFlatDisk`: writes have
the effect they have on a flat disk, snapshots never change and nothing changes
after the seal. `ExtentMapsExact`: extents cover a range exactly, in order, as few
as possible, and tell allocated positions from others; the dirty extents add up.

**Byte cache.** `CacheConsistent`: one load per key, table and list agree, bytes
are exact. `CallsServed`: every call returns, and never with the error of a load
that had failed before it joined.

**Mirror cache.** `VerifiedStays`: with a pinned digest the published object, and
every file that `Open` returned, holds the requested bytes and keeps them. It holds
for the callers of one cache and fails for callers with a cache each.

**NBD server.** `ReadsInOrder`: a read sees exactly the mutations sent before it.
`RequestsServed`: a connection that ends without error answered everything, a
buffer serves one request at a time, and the device is called only under the
lease. `CloseHitsOwn`: a call of `close` ends the connection it found.
`ConnectionEnds`: a connection that is cancelled or whose client goes away ends, and
one whose reader breaks off ends too if its client goes on reading. Replies are
written without a deadline, and the end waits for the workers that write them
(`server.go:768`), so without that condition it need not.

**Switch.** `LearnedPortsConnected`: the table names connected ports.
`DeliveredInOrder`: a port receives frames in the order of their sending, none twice.
`UnicastFollowsStation`: a frame to a station the table knows is queued where that
station last sent from, also when it moved while the table was full.

**QMP client.** `AnsweredOnce`: a call is owed at most one message, so nobody
blocks on its channel of one.
`CancelHitsOwnWrite`: a callback fails the session only while its call owns the
write slot. `CallsEnd`: cancelled calls and `Close` return.

**Processor loop.** `Quiet`: no processor is in its guest while the machine is
paused, a request executes, an exit that may remap memory is handled or the machine
is rebuilt or closed. `ExitsHandled`: each exit is handled before its processor
enters again. `LiveEpoch`: the loop does not wait for processors of a cancelled
epoch. `CallsEnd`: every call returns.

**Kernel debugger.** `StopsOnce`: state changes reach the session in order and once,
except that a packet with the sync bit may be repeated, and until a reboot none that
the target takes for acknowledged is lost unless the reader has ended. `PacketsOnce`:
until a reboot the target takes packets in order and once, among them all whose
callers were told of an acknowledgement. `NewerStopKept`: while the last
state change was not continued the session says stopped.

**Bridge.** `StreamExact`: client and guest receive what was sent, without gaps.
`SleepersHaveReason`: a copy that sleeps on a notification has nothing to do.
`CloseEnds`: `Close` returns with all goroutines ended and the connection closed.

### Bounds, and why they are enough

- SCS: one object makes two trees (empty and full), so roots can differ. Two
  workspaces are what a lost update takes, two names what it takes to see that a
  change of one keeps the other. Six records are an object, both snapshots and three
  root maps: a name is published, checked out twice, published by one workspace and
  then by the other, which must be refused. In format 3 a seal takes two records;
  nine leave room for a publication, a checkpoint and another seal. One fault is a
  failed write or sync, after which the handle is poisoned, or a crash; both are
  followed by recovery.
- Git import: three entries make a chain, two deltas of one base, a forward
  reference, a cycle and a duplicate of a base; batches of one let the scanner be
  behind at any entry.
- Overlay: one full and one short chunk, or three chunks with a clean one between
  dirty ones, with room for two bytes, so that longer writes are refused and
  dropping a chunk makes room. Two snapshots let a chunk be shared by either, both
  or none. Leases touch no data and guard only `Commit`; they are combined with
  chunks of one byte. A second call of a release function does nothing and is not a
  step. All data are written, so one base image stands for all. Twelve buffers are one
  per position for the overlay, each of two snapshots and the write that is staged.
- Byte cache: two keys fit together, one pushes both out, one never fits. Each
  caller holds one entry, so |Key| + |Proc| entries are enough.
- Mirror cache: one caller has the right size, one a stale size, one none but a
  validation callback; an object of two bytes can be cut in the middle, and a
  maximum of three lets a mirror send too much.
- NBD: two requests are a read before, after or beside a mutation; two workers
  finish in either order; two connections are what a late `close` takes.
- Switch: a table of one entry is full at once; queues of two overflow with
  three frames, and a station moves and is sent to with three.
- QMP: two calls are a cancelled one and the next holder of the write slot.
- Processor loop: two processors are one that stops and one that still runs.
- Kernel debugger: two packets each way use both identifiers, and the repeat of one
  meets the other; two faults are a reboot or an end after a damaged packet.
- Bridge: a channel smaller than the connection splits writes and fills up.

`MaxLog`, `MaxFaults`, `MaxSnapshots`, `MaxLeases`, `MaxSends`, `MaxConnections`,
`MaxRequests`, `MaxTries`, `MaxCrashes`, `MaxPackets`, `MaxStops`, `MaxLine`,
`MaxBytes` of the bridge, `Count` and `FailCount` limit
exploration only and correspond to nothing in the code, except that `MaxTries` is
the number of URLs times passes.

### Fairness

All fairness is weak except where said, and nobody is assumed to call.

- `ByteCache`: loads end, with data or an error, and a caller whose entry is ready
  runs. The first is the contract of the load function, the second the Go
  scheduler.
- `NbdServer`: the reader, each worker, the watching goroutine and a started
  `close` run when they can, and device calls return. Clients get no fairness: while
  the channel is open they may stay silent and read nothing for ever, so a reply
  need not be written. Once it is closed or broken, reads and writes of it return an
  error; that is the contract of the channel, and is why cancellation closes it. A
  part of `ConnectionEnds` is conditional on clients that read (`RepliesTaken`).
- `QmpClient`: goroutines run when they can; reads and writes of a closed transport
  fail. QEMU gets no fairness.
- `VcpuLoop`: a run of a processor ends, at the latest with its time slice. The
  cases of a `select`, and the callers that wait for room in the channel or for
  `cpuMu`, are strongly fair: Go chooses among ready cases at random, serves the
  senders of a full channel in turn, and its mutex hands over to a starving waiter.
- `GitImport`: each goroutine goes on while it can; reads and stores return.
- `TcpBridge`: the goroutines of the bridge go on while they can; client and guest
  need not read, write or close. That accepting fails is assumed only once the
  listener is closed.

The other runs state none: they have only safety properties.

### Disagreements

Four statements of comments and tests do not hold of the code in every case. The
first is the finding of `PROJECT.json`; the models contain the others too, and the
constants given make TLC show them.

1. `storage/native/mirror.go:81`: "only a fully verified file is atomically
   published as a cache object". It holds for callers that share a `MirrorCache`,
   whose lock excludes them from each other (`mirror.go:199`). `mirror_file` makes
   a new cache for each call (`mirror_star.go:71`). Two of them with one directory
   write one partial file; when the second is answered with status 200 it truncates
   (`mirror.go:303`) the file that the first has verified and renames. The run
   `mirror_own_caches` shows it, with honest mirrors.
2. `mirror.go:276`: "Do not ask for bytes beyond EOF and get stuck on HTTP 416". A
   partial file of the full length with wrong bytes is never reset: each later
   request asks for the bytes after it (`mirror.go:278`), which mirrors that honour
   ranges refuse. `EventuallyServed` fails under `LiveSpec` with one opener,
   `Ranges = {TRUE}`, `MaxTries = 2`, `MaxFaults = 2`.
3. `windows/kd/session_test.go:498` expects that a request to send again is answered
   with the packet in flight. A request handled between the write of a packet and
   the store of `lastOutbound` (`wire.go:194`) is answered with the packet before.
   `ResendsCurrent` fails with the constants of `kd_transport`. The target discards
   the stale packet, and `PacketsOnce` holds all the same.
4. `session.go:119`: the identifier does not advance "until the target acknowledges
   the previous packet". After the reset of a rebooting target the identifiers start
   again, and the acknowledgement of a packet sent before it settles a newer one
   (`wire.go:206`). `AcknowledgedTaken` fails with the constants of `kd_transport`;
   without a reboot it is a part of `PacketsOnce`.

No test or comment says what happens to a repeated packet that carries the sync bit.
The bit sets the expected identifier to the packet's own (`wire.go:243`), so the
repeat is delivered again; `StopsOnce` has that exception.

## Proofs

`tlapm M.tla` checks a module. The switch and the QMP client do
not interact; they share `SwitchQmpProofs`, which extends both, and no theorem is about
the two. The theorems hold for all values of the constants
that satisfy the named assumption of the module (`SwitchAssumption`,
`RepositoryAssumption`, `OverlayAssumption`, `ServerAssumption`, `QmpAssumption`,
`VcpuAssumption`, `MaximumAssumption` and `BridgeAssumption`), so for any numbers of
ports, addresses, objects, names, workspaces, bytes, chunk sizes, workers, requests,
calls and processors, and any limits; the bounds of the runs play no part. Two
assumptions stand for a memory allocator that always finds a buffer: there are more
buffers than the overlay and its snapshots, or the workers and requests of a server,
can refer to at one time.

**Switch.** `SwitchTypes` includes that no port is both connected and closed, and
carries the others. `LearnedSafe`: `Send` learns only the sender, which is
connected, and `Close` purges. `TableSafe`: by cardinality, a new address is
added only below the limit, while a known one replaces itself; closing only
removes. `EchoFree`: `Peers` leaves out the sender. `OrderSafe` proves
`DeliveredInOrder` from `Stamped`: serial numbers rise along each queue, above the
last one its port received and up to the last `Send`, so a new frame fits behind
all of them. `FollowsSafe` proves `UnicastFollowsStation` from `Following`: what the
table knows of an address is the port it was last seen on, since `Send` updates an
address it knows even in a full table and `Close` forgets those of its port.

**Repository.** `Inductive` proves `IndInv`, from which `TreesSafe`,
`RecoverySafe` and `PromisesKept` follow. The three are not inductive alone:

- deduplication skips a record the handle remembers, so an appended snapshot
  follows its objects only if everything remembered is in the log (`Remembered`);
- a root is appended several steps after its snapshot, so the invariant must say
  what each stage of an operation has established (`Staged`);
- a sync makes durable what is in the file, so that it covers the log before
  the fsync (`Staged`) and that the three images are nested (`Nested`) matter;
- a crash cuts the log anywhere, and the same must hold of what remains.
  `ChildrenFirst` refers only to earlier records, so every prefix inherits it
  (`ChildrenPrefix`); that covers any crash image at once.

`RecoveryIsExact` proves `RecoveryExact` and `UpdatesKept` proves `NoLostUpdate`, from
`IndInv` and two strengthenings that TLC also found to hold on both instances:

- `RecInv`. An idle handle knows what its log holds; in between, the log already has
  the refs record and the map in memory does not, and the map that the next manifest
  repeats is the recorded one (`Known`). That makes every manifest exact when it is
  written, and an exact manifest stays exact in every prefix that holds it (`Exact`,
  `CutLog`). Which prefix a crash leaves is not known before it happens, so not only
  the images of the file but all prefixes of the log beyond the durable ones have the
  roots acknowledged last or roots attempted since (`Tried`);
- `Vetted`: from the check at the start of a publish or drop to the sync at its end,
  the map still has the version that was checked.

`ScsRecoveryProofs` has the lemmas on logs, records and types, and shows that the steps
keep the two strengthenings once `IndInv` holds (`ExactKept`, `NextVetted`).
`ScsStorageProofs` has the steps of `IndInv` outside an operation (workspace edits,
loading, close, crashes, open) and those that start one, `ScsRepositoryProofs` one per
stage of snapshot, publish, drop and checkpoint, the inductions and the theorems. Facts
that only one lemma needs are named steps of its proof. That a set of records that is
not empty has a last one (`LastExists`) is a hypothesis up to the end, where it follows
from well-founded induction (`LastFacts`).

**Overlay.** `OverlayInvariant` proves `Invariant`, from which the others follow.
`OverlayAccounts` proves `AccountsExact`, `LeaseKeepsWritable` `LeasedIsWritable`,
`OverlayWrites` `WritesExact`, and `OverlayRefines` that the overlay implements
`FlatDisk` (`ImplementsFlatDisk`). A write takes buffers that nothing refers to
(`FreshFacts`), so it changes neither another chunk nor a snapshot (`Installs`,
`StagedFacts`); that such buffers exist is a count of references (`RoomFacts`). The
accounts need more than they say:

- each buffer referred to holds bytes of all positions of its chunk, the short last
  one included (`Filled`), or reading a chunk would not be a read of the disk;
- `CopiedOnce` is not inductive: a chunk that a snapshot shares may still be copied.
  `Copies` adds the bytes of such chunks (`Stale`) to the bytes copied. A write moves
  bytes from one to the other or drops them, and a snapshot adds what it takes to
  both sides;
- the leases counted are the ones held, and none is when it is sealed (`Leasing`).

Bytes, holders and buffers are counted in the last part of `BlockOverlayProofs`; the
proofs of the steps use only that bytes of disjoint chunks add up (`Measure`) and how
a set of holders grows (`Counts`).

**NBD server.** `ServerInvariant` proves `Invariant`; `ReadsSeeOrder` (`ReadsInOrder`),
`ServerServes` (`RequestsServed`) and `CloseEndsOwn` (`CloseHitsOwn`) follow, for any
numbers of workers, requests and connections. What a read sees depends on who is
where, so the invariant says which requests wait, are with a worker or with the
reader, that `jobs` is exactly their number (`Handed`), and that the reader executes a
mutation only when it is zero; so all mutations executed so far precede every read
that is not over (`Ordered`). Buffers are in the pool or with one request each
(`Pooled`), which are not more than workers and requests together, so that a new one
can always be told apart (`SpareBuffer`). That a connection without an error answered
everything needs the reasons for which the reader and the workers break off
(`Causes`, `Excused`, `Outcome`).

**QMP client.** `RepliesSafe` and `CancelSafe`, for any finite set of calls. That a
channel is owed one message needs that the four ways to be owed one exclude each
other (`OwedOnce`), among them that `fail` takes the pending calls only once. That a
callback finds its call in the write slot needs the section of the slot (`WriteSlot`) and that a call
leaves it only after its callback was stopped or has run.

**Processor loop.** `QuietSafe`, `ExitsSafe` and `EpochSafe`, for any processors,
callers and size of the request channel. The invariant says that every dispatched
processor is under way or collected (`Accounted`, `Collected`), so that the join
waits for all of them, and that the coordinator owns the machine with nothing
dispatched and dispatches only in a live epoch (`Owned`).

**Bridge.** `SleepersSafe`, for any capacity of the channel and of the connection.
The property speaks of a sleeping copy, but what makes it true happens before it
sleeps: a notification that a copy still holds is current, from the moment it was
handed out (`Current`). For the copy that writes this includes the room it was
told of, since it goes to sleep again when a restored checkpoint left less. Lemmas
on each operation of the channel say whom it frees; the steps of bridge, client and
guest use only these. `StreamSafe` proves `StreamExact`: the bytes of a direction
lie in four places, each continuing the one before it (`Pipe`), and every step
enters a byte at the end or moves a first part one place on, until a checkpoint is
restored. That needs that the copy to the client reads only when it holds nothing
(`Emptied`), or it would overwrite what it has not delivered.

**Only model-checked.** Liveness (`CallsServed`, `ConnectionEnds`, both `CallsEnd`,
`ImportReturns`, `CloseEnds`), which the prover does not handle; the extent maps
of the overlay and the accounts of the byte cache, which are sums and folds over
data of any length and need induction; the refinement of `NamedRoots`, whose mapping
filters the log (`SelectSeq`, again an induction); the mirror cache, the Git
import and the kernel debugger.

## What is not modelled

- Inside modelled parts: record encoding and digests, Git catalogs, packs and
  body spans of the repository; pack parsing and delta translation of the Git
  import; operation counters and traces; NBD frames, option negotiation and reply
  contents; JSON and events of QMP; the loop for one processor, breakpoints and
  the emulated devices; the debugger's packet layout, event queues and memory
  requests; channels without notifications behind the TCP bridge. A failed read of
  an overlay's base changes nothing and is not a step.
- Archive, filesystem, binary and database readers, image builders and Windows
  servicing: sequential code about byte layouts, without shared state.
- Codecs and CPU emulators: bit-level functions over wide words, beyond an
  explicit-state checker at a useful size.
- SMB, RFB and GDB servers: one connection, one loop; nearly all of the code
  encodes messages.
- The rest of the virtual machine monitors, the shell, the Starlark bindings and the
  command line: process control, interpretation and user interface.

The readers and codecs are most of the repository's lines, so the models cover a
small share of it. Of the sixteen stateful parts in the inventory eleven are
modelled.

## Plan

In this order.

1. `BlockCache`: single flight over chunks, serialised base; refinement of a
   plain read of the base.
2. `ReadyChannel`: the token agrees with the buffer, no lost wake-up; with
   `MemoryChannel` an implementation of a bounded byte stream.
3. `SparseOverlay` (against `FlatDisk`), `LifecycleRegistry`, `FastIndex`.
4. Composition of `NbdServer` with `BlockOverlay`: `Commit` against connections
   that hold leases.
5. Proofs: `VerifiedStays`; `StopsOnce`, `PacketsOnce`; `EntriesStored`.
