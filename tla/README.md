# Formal models of the Trust Kernel

TLA+ models of the core of this repository, the TLC runs that check them on small
instances, and TLAPS proofs of their main properties for every instance.

    tlc -config airlock_bus.cfg MCAirlock      # a run
    tlapm AirlockProofs.tla                    # a proof

`PROJECT.json` lists the runs, what each definition translates (file and lines), the
hazards the properties are aimed at, and the theorems.

## 1. The system

The repository is a "dual kernel": Kernel A (the Voorproever) tries a request out, a
one-way bus carries what passed to Kernel B (the Archivaris), a watchdog closes the bus
when Kernel A stays silent. Around it lie a memory system (blocks that are evicted to files
and to a second machine and come back on page faults), the transports to that machine, and
a number of support libraries.

| Component | State | Operations | Talks to | Hard part | Correct when |
|---|---|---|---|---|---|
| Voorproever, SNAFT (`voorproever.rs`, `snaft.rs`) | none per frame | `evaluate`: intent routing, payload scan, syscall policy, FIR/A score | stamps payloads on the bus, resets the watchdog | two profiles with different tables; prefix against whole-string matches | verdicts follow one rule; the fast profile is never the stricter |
| Bus (`bus.rs`) | open flag, sequence counter, expected number, counters | `stamp_payload`, `receive`, `shutdown`, `reopen` | all tasks | load and store of the expected number are two steps; numbers are stamped long before they are received | a loss is noticed, nothing is received twice, nothing crosses a closed bus |
| Watchdog (`watchdog.rs`) | last response, misses, triggered, active | `check`, `kernel_a_responded`, `reset`, `pause`, `resume` | tasks, bus | every field is an atomic of its own | a kill reaches the bus |
| Main loop, MUX listener (`main.rs`, `mux.rs`) | one task per frame | accept, read, the four phases, the answer | all of the above | head-of-line blocking; tasks run concurrently | every frame is answered, and rightly |
| Archivaris (`archivaris.rs`) | archive, seal vault | `process`, `jis_check`, `vault_store`, `vault_retrieve` | bus | the outcome of the bus and of JIS are reported together | accepts only what crossed the bus and has an identity |
| RAM RAID (`ram_raid.rs`) | block table, resident count, clock hand | read, write, fault, evict, restore, batch, prefetch, production mode | RAM B through a transport; userfaultfd | one of several transfers fails; a fault thread next to other threads; a counter kept by hand | RAM B has what left memory for it, the count is exact, every fault is served |
| Cluster MUX (`cluster_mux.rs`) | one connection, channel counter, hash cache | `ping`, `fetch_block`, `store_block`, `fetch_batch`, `disconnect`; one server task per connection | BlockStore of RAM B | connections break in the middle of a call; responses left unread; server restarts | a success is the answer to this request |
| Block store, cluster transport (`cluster_transport.rs`) | BlockStore of RAM B | store, fetch, ping; a connection per request | RAM RAID | late, lost and corrupted requests; restarts | every call takes effect once and reports what it met |
| QUIC MUX (`quic_mux.rs`) | one connection, hash cache | as the cluster MUX, with a stream per request; parallel batches | the same BlockStore | answers in any order; a cached hash while others overwrite | as above |
| Overlay MUX (`overlay_mux.rs`) | registry, resolver cache, peers | resolve, establish, send, migrate, disconnect | peers over QUIC | lookups and inserts under separate locks | nobody is sent to another's address; a migration takes hold |
| UPIP pager (`upip_pager.rs`) | fork tokens, statistics | page out and in, bulk, consume, assemble, continue | bus numbers | long sequences of legal calls; the chunk limit | the books balance; a chunk comes back unchanged or not at all |
| Bifurcation, seal vault (`bifurcation.rs`, `archivaris.rs`) | session keys, key cache, archive | seal, open, rotate, `vault_store`, `vault_retrieve` | Archivaris, store-mmu | a cached key that outlives a rotation; batches across limits | what is sealed stays readable, with clearance only, and is audited |
| store-mmu (`crates/store-mmu`) | arena, handler thread, its engine | fault, fill, shutdown, drop | bifurcation | shutdown while a page is waited for; a panic in the handler | a read returns the page's own content or zeros, and returns unless the kernel or the process fails it |
| Snapshots, git, recovery (`snapshot.rs`, `git_store.rs`, `recovery.rs`) | snapshot index, commit log | capture, register, commit, recover | Zandbak region | calls of two tasks mix; fallback order; a damaged candidate | a sound snapshot is found when one qualifies |
| Zandbak (`zandbak.rs`) | three atomics of a region | allocate, zerofill | sandboxed code | check and add are separate steps | two threads never share memory |
| seccomp (`seccomp.rs`) | none | compile_filter, validate_syscall | Linux | jump offsets counted by hand; a second table of intents | the program does what the list says, and the list serves what Kernel A passes |
| Port MUX, XDP filter (`portmux.rs`, `xdp.rs`) | port table, lists, switches | classify, infer_intent, wrap_port | both kernels, backend | three layers recognise protocols by tables of their own | what one layer lets in the next can route |
| LLM mapper (`llm_mapper.rs`) | layers and their blocks | materialise, prefetch, evict | RAM RAID | none of its own | a layer in use is in memory |
| Android (`crates/trust-kernel-android`, `android/`) | none | classify, seal, bridge | application | none | as bifurcation |

## 2. Modules

    Snaft -+-> Airlock -----------------> AirlockProofs     MCAirlock
           |      |  implements AirlockGate   |
           +-> Ingress, Seccomp -> Layers ----+             MCIngress
    RamRaid -> RamRaidProofs                                MCRamRaid
    ClusterMux -> ClusterMuxProofs                          MCClusterMux
    ClusterTransport, QuicMux -> RamB -> RamBProofs         MCRamB
                                   |  implements BlockService
    OverlayMux -> OverlayMuxProofs                          MCOverlayMux
    UpipPager -> UpipPagerProofs                            MCUpipPager
    Bifurcation -+-> Vault -+-> VaultProofs                 MCVault
                 +-> Mmu ---+                               MCMmu
    Zandbak, Recovery -> Sandbox -> SandboxProofs           MCSandbox

**`Snaft`** (pure operators). `evaluate` and what it calls. An intent is the entry of the
intent table it starts with and whether it is exactly that entry, because the tables mix
prefix and whole-string matches; a payload is the set of dangerous patterns it contains.

**`AirlockGate`** is the promise to clients: a request that is acceptable may be admitted
while the gate is open, an admitted one is granted and never refused, any other may only
be refused.

**`Airlock`** is `main.rs` with `mux.rs`, `bus.rs`, `watchdog.rs` and `Archivaris::process`:
one process per frame, with a step for every atomic access that another task can see.
`check` is two steps (load and compare; count, and perhaps trigger), `kernel_a_responded`
is two, `receive` is three (open flag and size; load of the expected number; its store with
the counters). Everything in between is local to the task and belongs to the step before it.
`Tick` lets time pass; only "longer than the timeout or not" is kept. The accept loop reads one frame
at a time. With `Operator = TRUE` an embedding program may also call `reset`, `pause`,
`resume` and `reopen`; `main.rs` does not, nor can it read a frame that is too large for the
bus (it reads 8 KiB), which an embedding program may offer.

| `main.rs` | `Airlock` |
|---|---|
| accept and read (52-63, `mux.rs`) | `Connect`, `ReadFrame`, `ReadFails` |
| phase 1, watchdog | `CheckLoad`, `CheckMiss`, `Shutdown` |
| phase 2, Kernel A | `Reject`, `Kill`, `Pass`, `RespondStore`, `RespondClear` |
| phase 3 and 4, bus and Kernel B | `ReceiveOpen`, `BusClosed`, `PayloadTooLarge`, `ReceiveLoad`, `ReceiveStore`, `Archive`, `Reply` |

**`RamRaid`** is the controller. A method runs to its end before another starts (it has
`&mut self`, or the mutex), but it is one step per block it evicts or restores, and each
transfer to RAM B may fail before or after RAM B acted. A block's content is reduced to the
kind of hash the controller keeps for it: that is what decides whether RAM B will serve it
again. Local `.tza` files are in the table only: the code writes none ("In production: write
.tza to disk", `ram_raid.rs:1171`) and reads none, so `EvictLocal` saves nothing, an even
block that left memory is gone, and no property says otherwise. In production mode the fault
thread (`ThreadLoop`, `ThreadRead`, `ThreadCopy`, `ThreadCopyFails`) handles faults of
application threads (`Touch`, external, one thread per page), releases the mutex and copies
the page. It does not look at the result of the copy: when the kernel refuses it, the event is
gone and the application thread stays blocked (`refused`). With `Shared = TRUE` another thread
calls methods in between.

**`ClusterMux`** is client, network and server of the multiplexed transport. The streams
are sequences of frames and payloads, so that what a call leaves unread is what the next
call finds. `Break` cuts a connection anywhere, `Vanish` ends one without either end
noticing, perhaps for ever (neither end sets a timeout or a keepalive), `Restart` empties the
server's memory; all are external. Sockets take what is written, so that `fetch_batch`, which writes all its
requests before it reads, is not held up by full buffers. It is the network that `RamRaid` assumes when `Transport = "mux"`:
`AcknowledgedIsApplied` and `AnswersItsRequest` are what its store and fetch steps rely on.
They hold unless a batch was given up on the connection (section 4); the controller
does use `fetch_batch`, and behind a batch that was given up `RamRaid`'s properties are not
claimed.

**`Ingress`** follows one connection: the first data packet through `classify` (`Classify`,
`Retransmit`, `SwitchFilter`), then the task of `wrap_port` (`Peek`, `Evaluate`, `Process`,
`Forward`, `Finish`). Bytes are reduced to what the code tells apart: what they start with,
what the words tested behind that say (a PostgreSQL version, MySQL's `0x0a`, the type of a
TLS handshake), marks of a path, patterns in the preview, a signature. Beginning and words are
independent, because the tests of filter and PortMux overlap: a TLS record whose fifth byte
is `0x0a` passes the filter as TLS and PortMux as a MySQL greeting. The verdict is that of
`Snaft`. A preview is cut by bytes and the cut panics inside a character (`portmux.rs:87`),
which is `PeekPanics`: the release profile has `panic = "abort"` (`Cargo.toml:13`), so that
it ends the whole process there, and the task of the connection in other builds.

**`Seccomp`** (pure operators) has the lists of `compile_filter`, the program of
`generate_bpf` and a machine that runs it (external). **`Layers`** composes it with
`Ingress`, because the claims are about tables of several layers agreeing; beside the
connections of `Ingress` it has frames that state any intent and carry any patterns
(`InitNative`, `Grow`), as the MUX listener admits them.

**`BlockService`** is the promise of a transport to RAM B: each call takes effect at most
once, at one moment between invocation and return, and returns what it met then; one that
ended in an error may have taken effect, or may yet; memory may be lost in a restart.

**`ClusterTransport`** has the BlockStore and the client and server that use a connection
per request; **`QuicMux`** the client with one QUIC connection and a stream per request, its
server tasks, its hash cache and `fetch_batch_parallel`. **`RamB`** puts both on one
BlockStore, with faults (`Break`, `Corrupt`, `Restart`, external), and maps the state to
`BlockService`: a call's entry there is filled in when the server's write lock is taken.
`Corrupt` damages the data of a block on a TCP connection, on its way to the server or back;
the server stores what it read, not what was sent. Sizes, names and statuses are covered by no
hash and are not damaged.

**`OverlayMux`** has registry, resolver cache and peers, each behind a lock that is held for
one access, so that each access is a step: `send` and `migrate` are sequences of five to
eight steps that interleave. `resolve` completes a name without a colon, and nothing else
does.

**`UpipPager`** is the pager, one action per method (it takes `&mut self`). A token is its
state, size, task, label and whether its seal still fits. `check_pressure` is arithmetic on
its arguments, and `PressureIsRelieved` is a claim about them alone: TLC evaluates it as an
`ASSUME` of `MCUpipPager`, and section 5 proves it.

**`Bifurcation`** holds the engine as operators on a record (keys are symbolic); **`Vault`**
is an engine with its user, the Archivaris or a program that calls the engine directly;
**`Mmu`** is the userfaultfd arena, whose handler thread opens sealed pages with an engine
of its own. Its specification is `ArenaSpec`; the pages are sealed one by one from
`NoneSealed` with `SealNext`. A damaged page makes `open` panic: in a build that unwinds
the handler thread ends, its descriptor is closed and readers get zeros; the release profile
aborts (`Cargo.toml:13`) and the process ends. `ServeSealed` has both. `CopyFails` is a copy
the kernel refuses (`lib.rs:371`): it is counted, the event is gone and the reader stays
blocked (`refused`).

**`Zandbak`** is `allocate` at the grain of its atomics, **`Recovery`** capture, index, commit
log and `recover`, **`Sandbox`** the two together: a snapshot is taken of a region.
`zerofill` takes `&self` and is three stores, so the code does not keep it from running
beside an `allocate`; that its owner calls it between requests only, which makes it one step,
is an assumption about the caller. `Scan` is external: `recovery.rs:117` speaks of a scan of
the disk at the start, and the code has only the `register` that such a scan would call.

## 3. Runs

Passing:

| Run | Instance | Shows |
|---|---|---|
| `ingress` | 9 ports, 96 kinds of first bytes, every packet and switch; every native intent with up to 3 patterns | `DryRunReference`: the full dry-run kills exactly for a pattern other than mmap, or mmap where the intent does not allow it; `DryRunIsStricter`; `MarkedIsRouted`: what the filter lets in for its marker gets an intent Kernel A knows, but on the web ports for CONNECT and for TLS records that are neither a ClientHello nor taken for a MySQL greeting; `FilterRunsAsListed`: the BPF program allows exactly the listed calls; `FilterServesPassed`: the filter of an intent allows the calls of a payload that passed |
| `airlock_bus` | 3 tasks, 4 kinds of frame, 2 misses | `TypeOK`, `NoGapNoLoss`, `DeliveredOnce`, `KillReachesBus` |
| `airlock_gate` | 2 tasks, 5 kinds of frame, 2 profiles, operator | `ImplementsGate` and, under fairness, `EveryFrameAnswered` |
| `raid` | 2 blocks of which 1 may be resident, batches longer than that and beyond the arena, fault thread and another thread, one refused copy | `TypeOK`, `CountIsExact`; `RamBHasLastWrites`: RAM B has the last write of every odd block that left memory, also of one dropped as clean; `RemoteIsFetchable`; `FaultIsServed`: something is copied in for every fault, unless the kernel refuses |
| `mux` | 2 blocks, 2 contents; 5 requests on one connection, or 3 over two | `AnswersItsRequest`, `AcknowledgedIsApplied`, `CacheIsHonest`; `EveryCallReturns`: a call hangs only on a connection that died without notice or that a batch was given up on |
| `ramb` | 1 TCP call beside 2 QUIC calls or a batch of 2; 1 block, 2 contents, 2 connections, 2 faults | `ImplementsService`: both transports implement `BlockService`; `BatchIsWhole`: a batch that succeeds has each answer at its index; `CacheIsHarmless`: skipping the hash never lets in other bytes than were asked for; `NothingCorrupted`: data damaged on its way over TCP is neither stored nor returned |
| `overlay` | 3 names of 2 identities, 2 endpoints, 2 calls, 2 connections, 1 event from outside | `NoForeignEndpoint`, `MigrationTakesHold`; `CallsReturn`: a call that does not wait for the API ends |
| `upip_pager` | 2 tasks, chunks of 2, a limit of 2 chunks, bulks of 2, 3 and 5 | `Accounting`: statistics are what the tokens add up to; `TokenLifecycle`: what is consumed or invalid never comes back; `BulkIsWhole` |
| `vault` | 3 blocks, 2 levels, a cache of 2 keys, sessions of 2 blocks, batches of 2 | `SealedStaysReadable` through rotation, overflow and batches; `ReadsWhatWasSealed`; `LimitsHold`; `AuditIsComplete` |
| `mmu` | 2 threads, 3 pages of which 2 are sealed, sessions and cache of 1 | `PagesAreTheirOwn`; `EveryReadReturns`, unless a panic ended the process or the kernel refused the copy to every reader of the page; `HandlerEnds` |
| `sandbox` | 2 threads, a region of 3 pages; 2 intents, one the prefix of the other, 3 snapshots, a clock of 2 instants | `AllocationsAreDisjoint`, `CleanBootIsLastResort`, `CheckpointIsClosest` |

Expecting a violation: `mux_channels` (section 4). Other modules define a `TypeOK` too; it is
there for readers and for proofs and in no run of its own.

Why the bounds are enough. Airlock: a bus race needs two tasks between load and store and
a third that has stamped; a watchdog race needs one miss and one response. With
three tasks both happen together. `MaxMissed` is 2 and 1 instead of 3: one
miss below the limit and one at it. RamRaid: one block per stripe and room for one makes
every fault evict, and the theorems of section 5 hold for any number of blocks. With
`Transport = "none"` (RAM B enabled but nothing attached) `evict_coldest` drops odd blocks
by design of the simulation, so `RamBHasLastWrites` says nothing of it. ClusterMux:
five requests are a store, a batch of two that is given up, a call that takes what it left,
and one that finds the rest; two connections are one that breaks and its successor, for which
three requests are enough (`MaxLater`). RamB: three calls on one block are the smallest number in which a store
falls between another store and the fetch that has to tell them apart; two faults are a
broken connection and a restart. Overlay: one call that migrates and one that sends is the
race; the third name is another identity's. Pager: a bulk of three pieces exceeds a limit
of two. Vault, Mmu: cache and session limits are below the number of blocks, so both are
passed. Sandbox: three snapshots at two instants give equal and different times. Ingress is
complete for intents; the kinds of bytes have each beginning in each size and one of every
other mark. `MaxAccess`, `MaxRefused`, `MaxConn`, `MaxChannel`, `MaxLater`, `MaxFaults`, `MaxReads`, `MaxScans`,
`MaxRecoveries` and `MaxEvents` stop callers and faults, never a call that has begun.
Deadlock checking is off: when the bounded number of frames, calls or faults is used up the
system rests.

Fairness. `Airlock.FairSpec`: weak fairness of each task's own steps (tokio polls every
spawned task that is ready); none for clients, clock or operator. `RamRaid.FairSpec`: the
fault thread and the method in progress keep going. `std::sync::Mutex` does not promise that
the fault thread ever wins against a caller that keeps taking it, so `FaultIsServed` is
claimed of behaviours in which the other callers come to rest. A transfer to RAM B is taken
to end, which it does not on a connection that died without notice (below). `ClusterMux.FairSpec`: client
and server tasks keep running and a connection that is up delivers; nothing has to be
called, and connections may break at any time. Nobody need notice that one did: the read at
`cluster_mux.rs:605` has no timeout, so a call on a connection that died silently hangs with
the mutex held and everyone behind it, and `EveryCallReturns` excepts exactly that and the
connections a batch was given up on. `OverlayMux`: weak fairness of each call's
next step and of the peer's handler, also tokio tasks, but for the step that waits for the
API: its read (`overlay_mux.rs:301`) has no timeout and nothing makes the API answer. QUIC
connections do end, by quinn's idle timeout. `Mmu`: weak fairness of the handler
and of the thread that joins it, and none of the kernel's accepting a copy; strong fairness of reading each thread's event, because the
kernel queues events in order and the handler cannot pass one over for ever.

## 4. Disagreements between code and comments

`mux_channels` expects TLC to find the violation: responses are matched by position only,
and `fetch_batch` leaves responses behind when it fails (`cluster_mux.rs:734`), so the next
call takes one of them for its own.

The others are stated in the modules, and TLC refutes each when it takes the place of the
properties of the run named (`findings` in `PROJECT.json` quotes the comment).

| Property | Run | What the code does |
|---|---|---|
| `GapMeansMissing` | `airlock_bus` | payloads that overtake each other are reported as a gap with "missing payloads" (`bus.rs:124`) |
| `TriggeredMeansUnresponsive` | `airlock_bus` | the watchdog kills a kernel that merely had nothing to do (`watchdog.rs:75`), and `main.rs` never reopens the bus |
| `GapIsFlagged` | `airlock_bus` | a gap found together with a JIS refusal is not reported, although `archivaris.rs:106` says "Accept but flag" |
| `RealDataInjected` | `raid` | the second page of a block that came back from RAM B is zeros (`ram_raid.rs:764`) |
| `FailureIsReported` | `raid` | a restore that failed after an eviction is reported as restored (`ram_raid.rs:708`) |
| `DropsWhereItCame` | `raid` | a clean block that came from RAM B is dropped to a local `.tza` that nobody wrote ("we have the .tza already", `ram_raid.rs:1071`), and restored as zeros |
| `PhysicalBound` | `raid` | eviction unmaps nothing, so more blocks have pages in memory than `max_resident_blocks` |
| `EvictsLeastRecent` | `raid` | `evict_coldest` goes by `access_count`; its comment (`ram_raid.rs:1030`) says "least recently accessed" |
| `CountIsExact` | `raid` with the index list `<<0, 0>>` | `simulate_read_batch` counts an index given twice twice (`ram_raid.rs:1322`) |
| `EnsuresLiveConnection` | `mux` | a broken connection is kept for good |
| `LastStoreWins` | `mux` | a store sent on a connection since given up is carried out after a newer one was acknowledged; `bus_seq` is stored and never compared |
| `MigrationSticks` | `overlay` | a send that resolved before puts the old endpoint back (`overlay_mux.rs:623`); `MigrationTakesHold` says what does hold |
| `CompleteMeansAll` | `upip_pager` | `assemble` passes over tokens found invalid earlier and reports Complete (`upip_pager.rs:597`) |
| `RefusesOnlyWhenFull` | `upip_pager` | the chunk limit counts every token ever made (`upip_pager.rs:384`) |
| `SessionLimitHolds` | `vault` | a batch overruns `max_blocks` of its session (`bifurcation.rs:1048`) |
| `DamageIsReported` | `vault` | a damaged block panics the thread instead of failing the integrity check (`bifurcation.rs:1027`) |
| `RotationClearsCache` | `vault` | rotation leaves the key cache as it is (`bifurcation.rs:865`) |
| `BudgetHolds` | `sandbox` | two threads pass the budget check together (`zandbak.rs:220`) |
| `RoomIsUsable` | `sandbox` with `MaxAllocations = 2`, `WorkRegion = 4` | the first allocation makes the region dirty, and every later one is refused (`zandbak.rs:204`) |
| `LastGoodIsLatest` | `sandbox` | the index is sorted by the time of registration (`recovery.rs:141`) |
| `FailedMeansNone` | `sandbox` | Checkpoint takes the closest candidate by signature and gives up when its hash is wrong (`recovery.rs:178`) |
| `GitRescues` | `sandbox` | GitRecover searches the local index once more (`recovery.rs:187`) |
| `UnknownPortIsRejected` | `ingress` | bytes decide before the port does (`portmux.rs:78`) |
| `OnlyAcceptedIsForwarded` | `ingress` | `wrap_port` does not look at Kernel B's answer: a connection that passed Kernel A is joined to its backend also when the bus is shut (`portmux.rs:341`) |

Not stated as properties: a seal longer than 128 bytes is not truncated as
`cluster_transport.rs:649` says; `execve`, which SNAFT allows every intent, is in no seccomp
filter.

## 5. Proofs

`AirlockProofs`: for every set of tasks, frames and profiles and every watchdog setting,
from `TimeAssumption` (the timeout is a natural number) and `FramesAssumption` (what a
frame is, and that no frame is the absent one).

- `TypeCorrect`, `Invariance`, and from it `NoLossUnnoticed`, `NoDoubleDelivery`,
  `KillIsDelivered`. `NoGapNoLoss` is not inductive: the task that stores the expected
  number loaded it earlier. The invariant `AirlockInv` adds who holds which number
  (`SeqInv`: numbers in flight are stamped, not received, and different), that while no gap
  was counted a task about to store the number it expected is the one the bus waits for
  (`GapInv`), and what a task's position says about its frame (`FrameInv`).
- `Implementation`: every step of the airlock is a step of `AirlockGate` or invisible to
  it, which needs `FrameInv` before and after.

The second half of the module is about `Layers`, for any ports, first bytes and number of
patterns, from `BytesAssumption` (first bytes are described by the marks of `Bytes`, and the
longer beginnings leave no room for the words).

- `LayersInvariance`: types, what the filter saw of a marked connection, and that a judged
  intent was inferred from the connection's own bytes. The rest are facts about operators
  that this invariant carries to the states.
- `MarkersAreRouted`, by cases on what the bytes start with.
- `DryRunKillsForPatterns`, `FastModeKillsLess`: violations of a union are violations of a
  part (`ViolationsGrow`), the calls of a clean run are allowed to every intent
  (`AllowsCleanRun`), so only the patterns decide (`ScanDecides`, `CallsViolate`). TLC sees up
  to 3 patterns, the theorems every set of them.
- `FilterIsItsList`: `compile_filter` pushes each call once, so its list is at most 56 calls
  long and holds exactly the base and the extra calls (`PushesList`, `FilterCalls`); 56 is
  below 255, so no jump wraps in its byte (`ProgramParts`). A run of the program exists
  (`RunExists`, written out place by place) and any run answers from the i-th comparison on
  what the rest of the list says (`RunAnswers`, by least counterexample from the last
  comparison back).
- `PassedRunsInItsFilter`: what passes has no pattern but mmap, under two intents, and
  both add mmap to their filter (`MapsMemory`).

`RamRaidProofs`: for any number of blocks, residents, pages and index lists and every
transport, from the assumptions that sizes are positive, bounds natural, and lists finite.

- `RaidTypeCorrect`, `RaidInvariance`, `CountIsCorrect` (lists without repetition),
  `RamBKeepsWrites`, `RemoteIsThere`. `RaidInv` adds that the lists a batch made before its
  evictions still describe absent blocks after them (`ListInv`), that dirty blocks are
  resident and RAM B has the clean odd ones (`PlaceInv`), and that the count is never below the
  number of resident blocks even when a list repeats an index (`CountInv`), which is what
  keeps the subtraction from wrapping.

`ClusterMuxProofs`: for any blocks, contents, batches and number of connections, from
`BoundsAssumption`, `ListsAssumption` (a batch is a non-empty list of blocks),
`NoneAssumption` and `BlocksAssumption` (there is a block).

- `MuxInvariance`, and from it `CallsAreAnswered`, `AcknowledgedStoresAreApplied` and
  `CacheStaysHonest`. A response carries nothing that says which request it answers, so none
  of the three is inductive. `StreamInv` says what makes positions enough: on a connection no
  batch was given up on, what is on the way, requests and responses together, answers exactly
  the requests that wait, in their order, a block's payload directly behind its header.
  `CallInv` says where a call stands in that order, `FreshInv` that a connection not opened
  yet is empty, `SilentInv` that only opened ones fall silent, `ResultInv` that the answers a call has taken so far are its own, and
  `CacheInv` that what RAM B stores and what the client cached are contents it held.

`RamBProofs`: for any calls, blocks, contents, batches and faults, from
`ContentAssumption`, `RequestAssumption` (a request names a block, and a store a content),
`ConnAssumption`, `BatchAssumption`, `FaultAssumption` and `CallAssumption` (a call is made on one transport).

- `RamBInvariance`, `BatchesAreWhole`, `CacheDoesNoHarm`, `NothingIsCorrupted`. The invariant
  says, per call and transport, what its position implies about the request the server has,
  the answer under way and the hash to compare it with; for a batch, which of its tasks have
  been joined. For a store it says that what arrives is its content or damaged, and only the
  check in `handle_store` keeps the latter out of `blocks`.
- `TransportsServeBlocks`: every step of either transport is a step of `BlockService` or
  invisible to it. The entry of a call there is a function of the call's own record, which
  turns the proof into one lemma per transport about what a step does to one call.

`OverlayMuxProofs`: for any names, endpoints, calls and connections.

- `OverlayTypeCorrect`, `OnlyGivenEndpoints`, `MigrationsTakeHold`. What a call carries
  between two locks may be stale, so the invariant follows it: `RegistryInv` and
  `CarriedInv` (every endpoint in registry, cache or a call's hands was given for that name),
  `UsedInv` (a connection that somebody refers to was made), `AloneInv` (no other call is at
  work on the identity of one that is undisturbed) and `HoldInv` (what registry, cache and
  peers name at each step of an undisturbed migration).

`SandboxProofs`: for any finite set of threads and of sizes, any intents and clock.

- `RegionInvariance`, `RangesAreDisjoint`. The ranges fill the region up to
  `allocated` (`RangeInv`), so the next begins behind all of them; `BudgetInv` leaves room for
  what the threads between check and add will still take, one request each; `NumberInv` says
  how far the count lags.
- `IndexIsSorted`, `CleanBootComesLast`, `CheckpointComesClose`: `recover` takes the first
  entry that qualifies, which is the newest or the closest only because every insertion keeps
  the index sorted. For these proofs `Recovery` states the search as the least place that
  qualifies and the insertion as a place in the list, not as a fold.

`VaultProofs`: for any plaintexts, levels, limits and batch sizes, from `LevelAssumption`,
`LimitAssumption`, `ValueAssumption` and `BoundAssumption` (a batch has a block).

- `VaultInvariance`, `BlocksStayReadable`, `BatchesReadWhatWasSealed`, `LimitsAreKept`,
  `LogIsComplete`. A stale key in the cache would be the danger; `TypeInv` includes that the
  cache holds a key only under the block it was drawn for, so that a hit and a derivation
  agree, through any rotation and eviction. `BlockInv`: a block is what was given, or was
  damaged. `LimitInv` counts the blocks under the key of the session, `AuditInv` ties the
  archive to the vault. `PutAll` (a batch of cache insertions) is a recursive function.

The last part of the module is about the arena of `Mmu`, for any threads, pages and limits,
from `MarkAssumption` (the marks for an absent, a zero and a broken page are no page
numbers or texts) and the assumptions above.

- `ArenaInvariance`, `PagesNeverMix`. `PagesAreTheirOwn` says nothing of what is under way.
  `ConfigInv` says that block p of the arena is the page p that `seal_pages` sealed, but for
  damage (`PagesSealed`, by least counterexample along the pages), `HandlerInv` that the
  engine of the handler caches own keys only, so that the lemmas about opening a block apply
  to it, and `CopyInv` that what is about to be copied is the content of the page the served
  thread waits for.

`UpipPagerProofs`: for any chunk size, limit, lengths of data and tasks, from
`ChunkAssumption` and `InputAssumption`.

- `PagerInvariance`, `BooksBalance`, `TokensLiveOnce`, `BulksAreWhole`. The books are sums
  over all tokens, so the first part of the module proves what sums do (`SumInsert`: the
  order does not matter; `SumSplit`, `SumPlus`, `SumSame`, `SumOnes`), by least
  counterexample on the size of the set. Two lemmas then cover every call: tokens added at
  the end (`AccountGrow`) and tokens served once more (`AccountServe`). `PiecesSum` shows that
  the pieces of a bulk add up to the bytes counted, the short last piece included.
- `PressureComesDown`: `PressureIsRelieved` for every chunk size, allocation and budget. The
  target is cut to whole bytes and the chunks are rounded up (`FreedReaches`); the offsets
  found are as many as were asked for when the allocation holds them (`ColdCount`, `RowSize`).

All of them also use the bounds' being natural numbers; the bounds stop callers, and the
theorems hold for every value of them.

Model-checked only: liveness (`EveryFrameAnswered`, `FaultIsServed`, `EveryCallReturns`,
`CallsReturn`, `EveryReadReturns`, `HandlerEnds`), because fairness and ENABLED are out of the
prover's reach. Every other property of a passing run is also a theorem. What recursive
functions compute (`PutAll`, `seal_pages`, `compile_filter`, the machine of `Executed`, sums) is
proved without an induction theorem: a function with the recursion's equation exists, and
the least argument at which the claim fails leads to a contradiction.

## 6. Abstractions

SHA-256 has no collisions, and payloads of a size-carrying frame have one size. Signatures,
tokens, timings, statistics, wording and logging are left out. Counters are natural numbers:
the 64-bit ones do not wrap in any run the program can have. The atomics of the bus are `SeqCst`,
and the mutex-protected state has no races, so steps interleave without weak-memory effects.

Cryptography in `Bifurcation` is symbolic: a ciphertext opens with its own key only. The
panics of the code are kept where they decide something (`PeekPanics`, the handler of `Mmu`,
opening a damaged block).

Not modelled, and why:

- `llm_mapper.rs`: sequential bookkeeping over a RAM RAID controller that it owns. Its calls
  are calls `RamRaid` already takes in any order.
- `LiveMigration` of `bifurcation.rs` and `airlock_vmm.rs`: simulations that count and print.
- `tibet_token.rs`: makes a record from its arguments.
- `.tza` layout and compression in `snapshot.rs`: byte formats without a decision that
  another part reads, other than whether hash and signature hold.
- Android crate and application, `tibet-dgx`, demos and benchmarks: front ends, and a smaller
  copy of the bifurcation.

## 7. Plan

The modules and theorems of the plan are done. What could follow:

1. `llm_mapper.rs` on top of `RamRaid`, if it comes to share its controller with other callers.
2. Proofs of the disagreements' converses: the weakest condition under which each property of
   section 4 does hold, as `StreamInv` gives it for `AnsweredByChannel`.
