------------------------------ MODULE RamRaid ------------------------------
(***************************************************************************)
(* The RAM RAID controller (ram_raid.rs): a virtual arena cut into blocks, *)
(* of which at most MaxResident are meant to stay in memory.  Odd blocks   *)
(* are evicted to RAM B, a second machine.  Even ones are meant for local  *)
(* .tza files, which the code neither writes nor reads yet: the table then *)
(* names a file that does not exist.                                       *)
(*                                                                         *)
(* A method of the controller has it by `&mut self', in production mode    *)
(* through a mutex; `op' is the method in progress.  A method that evicts *)
(* or restores several blocks is one step per block, so that each transfer *)
(* may fail by itself, and no other method runs until it has returned.     *)
(*                                                                         *)
(* In production mode a fault thread reads the page faults of the          *)
(* application, calls handle_fault_production under the mutex, releases it *)
(* and only then copies the page in.  A block is larger than a page.       *)
(*                                                                         *)
(* The content evict_coldest saves is one constant, so a block's content is*)
(* reduced to the kind of hash the controller keeps for it.                *)
(***************************************************************************)
EXTENDS Integers, Sequences, FiniteSets

CONSTANTS
    N,            \* number of blocks
    MaxResident,  \* config.max_resident_blocks
    Transport,    \* "off": no RAM B; "mux": over the network; "local": an
                  \* in-memory BlockStore; "none": RAM B, but nothing attached
    Pages,        \* the pages of one block
    Batches,      \* the index lists given to simulate_read_batch and prefetch
    Shared,       \* do other threads use the controller in production mode?
    MaxAccess,    \* bound: callers stop when an access count reaches it
    MaxRefused,   \* bound: copies the kernel refuses
    NoPage

ASSUME SizeAssumption  == N \in Nat \ {0} /\ MaxResident \in Nat \ {0}
ASSUME BatchAssumption == Batches \subseteq Seq(Nat)
ASSUME BoundAssumption == MaxAccess \in Nat /\ MaxRefused \in Nat
ASSUME KindAssumption  ==
    /\ Transport \in {"off", "mux", "local", "none"} /\ Shared \in BOOLEAN
    /\ IsFiniteSet(Pages)

Blocks == 0 .. N - 1

VARIABLES
    \* the block table
    location, dirty,
    content_hash,   \* "write": made up by simulate_write; "fnv", "sha": of
                    \* evicted content, by simulate_sha256 or sha256_hex
    access_count,
    resident_count, lru_clock,
    \* the method in progress
    op,             \* which, or "idle"
    to_evict,       \* evictions it still has to try
    evicted,        \* has one of them freed a block?
    block, page,    \* of a fault
    batch,          \* of simulate_read_batch: the index list, and its blocks by
                    \* where they were
    result,         \* the kind and the block of the FaultResult of the last method
    \* what eviction saved
    ram_b,          \* blocks whose last write is in RAM B's BlockStore
    \* production mode
    mode,           \* "simulation", "production", "stopped"
    thread,         \* where the fault thread is
    pending,        \* faults of blocked application threads, <<block, page>>
    copying,        \* the page the fault thread is about to copy in
    mapped,         \* the pages of each block backed by physical memory
    refused,        \* faults whose event was read, but whose copy failed
    \* history
    newest,         \* the blocks with the latest last_access_ns
    origin          \* where each block last came from

tableVars == <<location, dirty, content_hash, access_count, resident_count,
               newest, origin>>
storeVars == <<ram_b>>
prodVars  == <<mode, thread, pending, copying, mapped, refused>>
callVars  == <<op, to_evict, evicted, block, page, batch>>
vars      == <<tableVars, lru_clock, callVars, result, storeVars, prodVars>>

Location == {"Virgin", "Resident", "LocalStore", "RemoteKernel"}
Kinds    == {"none", "AlreadyResident", "ZeroFilled", "RestoredLocal",
             "RestoredRemote", "EvictedThenRestored", "Failed"}

Residents == {b \in Blocks : location[b] = "Resident"}

NoResult == [kind |-> "none", block |-> 0]

NoBatch == [list |-> <<>>, touch |-> {}, virgin |-> {}, local |-> {}, remote |-> {}]

Init ==
    /\ location = [b \in Blocks |-> "Virgin"]
    /\ dirty = [b \in Blocks |-> FALSE]
    /\ content_hash = [b \in Blocks |-> "none"]
    /\ access_count = [b \in Blocks |-> 0]
    /\ resident_count = 0 /\ lru_clock = 0
    /\ op = "idle" /\ to_evict = 0 /\ evicted = FALSE
    /\ block = 0 /\ page = NoPage /\ batch = NoBatch
    /\ result = NoResult
    /\ ram_b = {}
    /\ mode = "simulation" /\ thread = "none"
    /\ pending = {} /\ copying = NoPage /\ mapped = [b \in 0 .. N |-> {}] /\ refused = {}
    /\ newest = {} /\ origin = [b \in Blocks |-> "zero"]

\* A caller has the controller to itself: it owns it, or holds the mutex.
CallerMayCall ==
    /\ op = "idle"
    /\ mode = "simulation" \/ (mode = "production" /\ Shared)
    /\ \A b \in Blocks : access_count[b] < MaxAccess

\* A method starts with n evictions to try; it returns.
Start(o, n) == op' = o /\ to_evict' = n /\ evicted' = FALSE
Return      == /\ Start("idle", 0)
               /\ block' = 0 /\ page' = NoPage /\ batch' = NoBatch
Report(k)   == result' = [kind |-> k, block |-> block]

-----------------------------------------------------------------------------
(***************************************************************************)
(* The methods as they start.                                              *)
(***************************************************************************)
\* Leaves the block resident without evicting another.
simulate_write(b) ==
    /\ CallerMayCall
    /\ location' = [location EXCEPT ![b] = "Resident"]
    /\ dirty' = [dirty EXCEPT ![b] = TRUE]
    /\ content_hash' = [content_hash EXCEPT ![b] = "write"]
    /\ access_count' = [access_count EXCEPT ![b] = @ + 1]
    /\ resident_count' = IF b \in Residents THEN resident_count
                                            ELSE resident_count + 1
    /\ newest' = {b}
    /\ ram_b' = ram_b \ {b}
    /\ result' = NoResult
    /\ UNCHANGED <<origin, lru_clock, callVars, prodVars>>

\* simulate_read of a resident block; of any other it is handle_fault.
simulate_read(b) ==
    /\ CallerMayCall
    /\ b \in Residents
    /\ access_count' = [access_count EXCEPT ![b] = @ + 1]
    /\ newest' = {b}
    /\ result' = [kind |-> "AlreadyResident", block |-> b]
    /\ UNCHANGED <<location, dirty, content_hash, resident_count, origin,
                   lru_clock, callVars, storeVars, prodVars>>

\* One eviction first when the arena is full, wherever the block is.
Fault(o, b, p) ==
    /\ Start(o, IF b \in Blocks /\ resident_count >= MaxResident THEN 1 ELSE 0)
    /\ block' = b /\ page' = p /\ result' = NoResult
    /\ UNCHANGED batch

handle_fault(b) ==
    /\ CallerMayCall
    /\ Fault("fault", b, NoPage)
    /\ UNCHANGED <<tableVars, lru_clock, storeVars, prodVars>>

\* From three quarters of the maximum on, down to six tenths of it.
proactive_evict ==
    /\ CallerMayCall
    /\ resident_count * 100 >= MaxResident * 75
    /\ resident_count > (MaxResident * 6) \div 10
    /\ Start("proactive", resident_count - (MaxResident * 6) \div 10)
    /\ result' = NoResult
    /\ UNCHANGED <<block, page, batch, tableVars, lru_clock, storeVars, prodVars>>

Members(s, S)     == {b \in S : \E i \in DOMAIN s : s[i] = b}
Occurrences(s, S) == Cardinality({i \in DOMAIN s : s[i] \in S})
At(l)             == {b \in Blocks : location[b] = l}
PositivePart(n)   == IF n > 0 THEN n ELSE 0

\* The blocks are sorted by location before anything is evicted.
Batch(s, touched) ==
    /\ batch' = [list |-> s, touch |-> touched, virgin |-> Members(s, At("Virgin")),
                 local |-> Members(s, At("LocalStore")),
                 remote |-> Members(s, At("RemoteKernel"))]
    /\ Start("batch", PositivePart(Occurrences(s, Blocks \ Residents)
                                   - PositivePart(MaxResident - resident_count)))
    /\ result' = NoResult
    /\ UNCHANGED <<block, page>>

simulate_read_batch(s) ==
    /\ CallerMayCall
    /\ Batch(s, Members(s, Residents))
    /\ UNCHANGED <<tableVars, lru_clock, storeVars, prodVars>>

\* The resident blocks are left out of the batch.
prefetch(s) ==
    /\ CallerMayCall
    /\ Members(s, Blocks \ Residents) # {}
    /\ Batch(s, {})
    /\ UNCHANGED <<tableVars, lru_clock, storeVars, prodVars>>

-----------------------------------------------------------------------------
(***************************************************************************)
(* evict_coldest.                                                          *)
(***************************************************************************)
\* The scan starts at the clock hand and keeps the first block that is colder.
Distance(b) == (b - lru_clock) % N
Coldest(b)  ==
    /\ b \in Residents
    /\ \A c \in Residents :
          \/ access_count[b] < access_count[c]
          \/ access_count[b] = access_count[c] /\ Distance(b) <= Distance(c)

GoesToRamB(b) == b % 2 = 1 /\ Transport # "off"

Evicting(b) == to_evict > 0 /\ Coldest(b) /\ lru_clock' = b + 1

\* MUTANT: the eviction and its caller both take the block off the count.
Evicted_CountedTwice(b, to) ==
    /\ location' = [location EXCEPT ![b] = to]
    /\ dirty' = [dirty EXCEPT ![b] = FALSE]
    /\ resident_count' = resident_count - 2
    /\ to_evict' = to_evict - 1 /\ evicted' = TRUE
    /\ UNCHANGED <<op, block, page, batch, access_count, newest, origin, result, prodVars>>

\* The block leaves memory and the method goes on.
Evicted(b, to) ==
    /\ location' = [location EXCEPT ![b] = to]
    /\ dirty' = [dirty EXCEPT ![b] = FALSE]
    /\ resident_count' = resident_count - 1
    /\ to_evict' = to_evict - 1 /\ evicted' = TRUE
    /\ UNCHANGED <<op, block, page, batch, access_count, newest, origin, result, prodVars>>

\* MUTANT: a dirty block is dropped like a clean one.
DropClean_Dirty(b) ==
    /\ Evicting(b)
    /\ Evicted(b, IF content_hash[b] = "none" THEN "Virgin" ELSE "LocalStore")
    /\ UNCHANGED <<content_hash, storeVars>>

\* "we have the .tza already": also of a block that came from RAM B, which is
\* not asked for it again.
DropClean(b) ==
    /\ Evicting(b) /\ ~dirty[b]
    /\ Evicted(b, IF content_hash[b] = "none" THEN "Virgin" ELSE "LocalStore")
    /\ UNCHANGED <<content_hash, storeVars>>

\* The table gets the name of a file; "In production: write .tza to disk" is
\* all there is of writing it.
EvictLocal(b) ==
    /\ Evicting(b) /\ dirty[b] /\ ~GoesToRamB(b)
    /\ Evicted(b, "LocalStore")
    /\ content_hash' = [content_hash EXCEPT ![b] = "fnv"]
    /\ UNCHANGED storeVars

\* MUTANT: the hash of a block sent to RAM B is the simulated one.
EvictRemote_Fnv(b) ==
    /\ Evicting(b) /\ dirty[b] /\ GoesToRamB(b)
    /\ Evicted(b, "RemoteKernel")
    /\ content_hash' = [content_hash EXCEPT ![b] = "fnv"]
    /\ ram_b' = IF Transport = "none" THEN ram_b ELSE ram_b \union {b}

EvictRemote(b) ==
    /\ Evicting(b) /\ dirty[b] /\ GoesToRamB(b)
    /\ Evicted(b, "RemoteKernel")
    /\ content_hash' = [content_hash EXCEPT ![b] = "sha"]
    /\ ram_b' = IF Transport = "none" THEN ram_b ELSE ram_b \union {b}

\* An eviction that frees nothing: a fault is given up, the other methods
\* ignore it, and proactive_evict stops when there is nothing left.
EvictionFailed(nothing) ==
    /\ IF op = "fault"
       THEN Return /\ Report("Failed")
       ELSE /\ to_evict' = IF nothing /\ op = "proactive" THEN 0 ELSE to_evict - 1
            /\ UNCHANGED <<op, evicted, block, page, batch, result>>
    /\ UNCHANGED <<location, dirty, content_hash, access_count, resident_count,
                   newest, origin, prodVars>>

\* RAM B may have stored the block although its answer was lost.
StoreFails(b) ==
    /\ Evicting(b) /\ dirty[b] /\ GoesToRamB(b) /\ Transport = "mux"
    /\ ram_b' \in {ram_b, ram_b \union {b}}
    /\ EvictionFailed(FALSE)

NothingToEvict ==
    /\ to_evict > 0 /\ Residents = {}
    /\ EvictionFailed(TRUE)
    /\ UNCHANGED <<lru_clock, ram_b>>

-----------------------------------------------------------------------------
(***************************************************************************)
(* restore_block and restore_block_inner, which differ in the data they    *)
(* return, and the end of the two fault methods.                           *)
(***************************************************************************)
Restoring(b) == op \in {"fault", "production"} /\ to_evict = 0 /\ block = b

\* MUTANT: nothing is copied in for a fault that could not be handled.
FaultDone_NoCopy(kind, data) ==
    /\ Return
    /\ Report(IF op = "fault" /\ evicted THEN "EvictedThenRestored" ELSE kind)
    /\ IF op = "fault"
       THEN UNCHANGED <<thread, copying>>
       ELSE /\ thread' = IF kind = "Failed" THEN "loop" ELSE "copy"
            /\ copying' = IF kind = "Failed" THEN NoPage
                          ELSE [block |-> block, page |-> page, data |-> data]
    /\ UNCHANGED <<lru_clock, storeVars, mode, pending, mapped, refused>>

\* handle_fault reports an eviction whatever came of the restore.  The fault
\* thread is handed the block's data, or none, and unlocks the controller.
FaultDone(kind, data) ==
    /\ Return
    /\ Report(IF op = "fault" /\ evicted THEN "EvictedThenRestored" ELSE kind)
    /\ IF op = "fault"
       THEN UNCHANGED <<thread, copying>>
       ELSE /\ thread' = "copy"
            /\ copying' = [block |-> block, page |-> page, data |-> data]
    /\ UNCHANGED <<lru_clock, storeVars, mode, pending, mapped, refused>>

\* MUTANT: the counter is not incremented for a zero-filled block.
BecomesResident_NotCounted(b, accesses, from) ==
    /\ location' = [location EXCEPT ![b] = "Resident"]
    /\ dirty' = [dirty EXCEPT ![b] = IF from = "zero" THEN @ ELSE FALSE]
    /\ access_count' = [access_count EXCEPT ![b] = accesses]
    /\ resident_count' = IF from = "zero" THEN resident_count ELSE resident_count + 1
    /\ newest' = {b} /\ origin' = [origin EXCEPT ![b] = from]
    /\ UNCHANGED content_hash

BecomesResident(b, accesses, from) ==
    /\ location' = [location EXCEPT ![b] = "Resident"]
    /\ dirty' = [dirty EXCEPT ![b] = IF from = "zero" THEN @ ELSE FALSE]
    /\ access_count' = [access_count EXCEPT ![b] = accesses]
    /\ resident_count' = resident_count + 1
    /\ newest' = {b} /\ origin' = [origin EXCEPT ![b] = from]
    /\ UNCHANGED content_hash

RestoreResident(b) ==
    /\ Restoring(b) /\ location[b] = "Resident"
    /\ FaultDone("AlreadyResident", "zeros")
    /\ UNCHANGED tableVars

RestoreVirgin(b) ==
    /\ Restoring(b) /\ location[b] = "Virgin"
    /\ BecomesResident(b, 1, "zero")
    /\ FaultDone("ZeroFilled", "zeros")

\* No .tza is read: production mode is handed zeros.
RestoreLocal(b) ==
    /\ Restoring(b) /\ location[b] = "LocalStore"
    /\ BecomesResident(b, access_count[b] + 1, "local")
    /\ FaultDone("RestoredLocal", "zeros")

\* Would a fetch of b find it, and would its content have the expected hash?
\* restore_block_inner knows the network only, and compares the zeros it
\* makes up without one; restore_block without a transport takes it as fetched.
Fetchable(b) ==
    /\ Transport # "mux" => op # "production"
    /\ Transport \in {"mux", "local"} => b \in ram_b /\ content_hash[b] = "sha"

RestoreRemote(b) ==
    /\ Restoring(b) /\ location[b] = "RemoteKernel" /\ Fetchable(b)
    /\ BecomesResident(b, access_count[b] + 1, "remote")
    /\ FaultDone("RestoredRemote", "data")

FetchFails(b) ==
    /\ Restoring(b) /\ location[b] = "RemoteKernel"
    /\ Transport = "mux" \/ ~Fetchable(b)
    /\ FaultDone("Failed", "zeros")
    /\ UNCHANGED tableVars

\* The last part of an arena that is no multiple of the block size.
OutOfRange ==
    /\ Restoring(N)
    /\ FaultDone("Failed", "zeros")
    /\ UNCHANGED tableVars

Restore(b) == \/ RestoreResident(b) \/ RestoreVirgin(b) \/ RestoreLocal(b)
              \/ RestoreRemote(b) \/ FetchFails(b)

-----------------------------------------------------------------------------
(***************************************************************************)
(* The rest of simulate_read_batch, once room was made.  The lists drawn   *)
(* up before the evictions are used as they are; an index given twice is   *)
(* filled or fetched twice.                                                *)
(***************************************************************************)
Load(S, accesses, added, from) ==
    /\ location' = [b \in Blocks |-> IF b \in S THEN "Resident" ELSE location[b]]
    /\ access_count' = [b \in Blocks |-> accesses[b]]
    /\ resident_count' = resident_count + added
    /\ origin' = [b \in Blocks |-> IF b \in S THEN from[b] ELSE origin[b]]
    /\ newest' = LET used == batch.touch \union batch.virgin \union batch.local \union S
                 IN IF used = {} THEN newest ELSE used
    /\ UNCHANGED <<content_hash, lru_clock, result, storeVars, prodVars>>

Times(b) == Occurrences(batch.list, {b})

\* Resident blocks are touched, virgin ones filled, local ones restored.
BatchFill ==
    /\ op = "batch" /\ to_evict = 0
    /\ Load(batch.virgin \union batch.local,
            [b \in Blocks |-> IF b \in batch.virgin THEN 1 ELSE access_count[b] +
                                 IF b \in batch.touch THEN Times(b)
                                 ELSE IF b \in batch.local THEN 1 ELSE 0],
            Occurrences(batch.list, batch.virgin) + Cardinality(batch.local),
            [b \in Blocks |-> IF b \in batch.virgin THEN "zero" ELSE "local"])
    /\ dirty' = [b \in Blocks |-> dirty[b] /\ b \notin batch.local]
    /\ IF batch.remote = {}
       THEN Return
       ELSE op' = "remote" /\ UNCHANGED <<to_evict, evicted, block, page, batch>>

\* fetch_batch succeeds as a whole or fails as a whole.  Without a network
\* each block is restored by itself, a second time as already resident.
Fetched == {b \in batch.remote : Fetchable(b)}

BatchRemote ==
    /\ op = "remote"
    /\ Transport = "mux" => batch.remote \subseteq ram_b
    /\ Load(Fetched,
            [b \in Blocks |-> IF b \notin Fetched THEN access_count[b]
                              ELSE access_count[b] + IF Transport = "mux" THEN Times(b) ELSE 1],
            IF Transport = "mux" THEN Occurrences(batch.list, Fetched)
                                 ELSE Cardinality(Fetched),
            [b \in Blocks |-> "remote"])
    /\ dirty' = [b \in Blocks |-> dirty[b] /\ b \notin Fetched]
    /\ Return

BatchFails ==
    /\ op = "remote" /\ Transport = "mux"
    /\ Return
    /\ UNCHANGED <<tableVars, lru_clock, result, storeVars, prodVars>>

ProactiveDone ==
    /\ op = "proactive" /\ to_evict = 0
    /\ Return
    /\ UNCHANGED <<tableVars, lru_clock, result, storeVars, prodVars>>

-----------------------------------------------------------------------------
(***************************************************************************)
(* Production mode.                                                        *)
(***************************************************************************)
start_production ==
    /\ mode = "simulation" /\ op = "idle" /\ Pages # {}
    /\ mode' = "production" /\ thread' = "loop"
    /\ UNCHANGED <<tableVars, lru_clock, callVars, result, storeVars, pending,
                   copying, mapped, refused>>

\* External: an application thread touches a page without memory and blocks;
\* one thread per page.
Touch(b, p) ==
    /\ mode = "production" /\ p \notin mapped[b] /\ <<b, p>> \notin pending \union refused
    /\ pending' = pending \union {<<b, p>>}
    /\ UNCHANGED <<tableVars, lru_clock, callVars, result, storeVars, mode, thread,
                   copying, mapped, refused>>

\* The fault thread locks the controller to read its `active' flag.
ThreadLoop ==
    /\ thread = "loop" /\ op = "idle"
    /\ thread' = IF mode = "production" THEN "read" ELSE "exited"
    /\ UNCHANGED <<tableVars, lru_clock, callVars, result, storeVars, mode, pending,
                   copying, mapped, refused>>

\* read_event; nothing pending: sleep a millisecond.
ThreadRead ==
    /\ thread = "read"
    /\ \/ /\ pending = {}
          /\ thread' = "loop" /\ UNCHANGED <<callVars, result>>
       \/ /\ op = "idle"
          /\ \E f \in pending : Fault("production", f[1], f[2])
          /\ thread' = "handle"
    /\ UNCHANGED <<tableVars, lru_clock, storeVars, mode, pending,
                   copying, mapped, refused>>

\* uffd.copy, with the controller unlocked; the application thread resumes.
ThreadCopy ==
    /\ thread = "copy"
    /\ mapped' = [mapped EXCEPT ![copying.block] = @ \union {copying.page}]
    /\ pending' = pending \ {<<copying.block, copying.page>>}
    /\ copying' = NoPage /\ thread' = "loop"
    /\ UNCHANGED <<tableVars, lru_clock, callVars, result, storeVars, mode, refused>>

\* The kernel refuses the copy.  The result is not looked at: the event is
\* gone, and the application thread stays blocked.
ThreadCopyFails ==
    /\ thread = "copy" /\ Cardinality(refused) < MaxRefused
    /\ pending' = pending \ {<<copying.block, copying.page>>}
    /\ refused' = refused \union {<<copying.block, copying.page>>}
    /\ copying' = NoPage /\ thread' = "loop"
    /\ UNCHANGED <<tableVars, lru_clock, callVars, result, storeVars, mode, mapped>>

shutdown ==
    /\ mode = "production" /\ op = "idle"
    /\ mode' = "stopped"
    /\ UNCHANGED <<tableVars, lru_clock, callVars, result, storeVars, thread,
                   pending, copying, mapped, refused>>

-----------------------------------------------------------------------------
Begin ==
    \/ \E b \in Blocks : simulate_write(b) \/ simulate_read(b)
    \/ \E b \in 0 .. N : handle_fault(b)
    \/ proactive_evict
    \/ \E s \in Batches : simulate_read_batch(s) \/ prefetch(s)

Evict ==
    \/ \E b \in Blocks : \/ DropClean(b) \/ EvictLocal(b) \/ EvictRemote(b)
                         \/ StoreFails(b)
    \/ NothingToEvict

Proceed ==
    \/ Evict \/ OutOfRange \/ BatchFill \/ BatchRemote \/ BatchFails
    \/ ProactiveDone
    \/ \E b \in Blocks : Restore(b)

Thread == ThreadLoop \/ ThreadRead \/ ThreadCopy \/ ThreadCopyFails

Next ==
    \/ Begin \/ Proceed \/ Thread \/ start_production \/ shutdown
    \/ \E b \in 0 .. N, p \in Pages : Touch(b, p)

Spec == Init /\ [][Next]_vars

\* The fault thread and the method that holds the controller keep running, so
\* that a transfer to or from RAM B ends, in an error if need be.  It does not
\* end on a connection that died without notice: see ClusterMux.  Callers, the
\* application and the operator need not do anything.
FairSpec == Spec /\ WF_vars(Thread) /\ WF_vars(Proceed)

-----------------------------------------------------------------------------
(***************************************************************************)
(* Properties.                                                             *)
(***************************************************************************)
CallOK ==
    /\ op \in {"idle", "fault", "production", "proactive", "batch", "remote"}
    /\ to_evict \in Nat
    /\ block \in 0 .. N /\ page \in Pages \union {NoPage}

BatchOK ==
    batch \in [list : Seq(Nat), touch : SUBSET Blocks, virgin : SUBSET Blocks,
               local : SUBSET Blocks, remote : SUBSET Blocks]

ResultOK == evicted \in BOOLEAN /\ result \in [kind : Kinds, block : 0 .. N]

TableOK ==
    /\ location \in [Blocks -> Location] /\ dirty \in [Blocks -> BOOLEAN]
    /\ content_hash \in [Blocks -> {"none", "write", "fnv", "sha"}]
    /\ access_count \in [Blocks -> Nat]
    /\ origin \in [Blocks -> {"zero", "local", "remote"}]

SetsOK == newest \subseteq Blocks /\ ram_b \subseteq Blocks

ThreadOK ==
    /\ mode \in {"simulation", "production", "stopped"}
    /\ thread \in {"none", "loop", "read", "handle", "copy", "exited"}
    /\ pending \subseteq (0 .. N) \X Pages
    /\ refused \subseteq (0 .. N) \X Pages
    /\ copying \in {NoPage} \union
                   [block : 0 .. N, page : Pages, data : {"zeros", "data"}]
    /\ mapped \in [0 .. N -> SUBSET Pages]

\* Every variable has the type the Rust declarations give it; in particular
\* resident_count, an unsigned counter that eviction decrements, never
\* goes below zero.
TypeOK ==
    /\ TableOK /\ SetsOK /\ CallOK /\ BatchOK /\ ResultOK /\ ThreadOK
    /\ resident_count \in Nat /\ lru_clock \in 0 .. N

\* resident_count, kept by hand in ten places, is the number of resident
\* blocks between any two block transfers, failed ones included.  (Index lists
\* without repetition: simulate_read_batch counts a block as often as it is
\* named.)
CountIsExact == resident_count = Cardinality(Residents)

\* RAM B has the last write of every odd block that is not resident, whichever
\* way it left memory (ram_raid.rs:1070, 1111): sent there, also if the answer
\* to an earlier attempt was lost, or dropped as clean after it was restored,
\* when the table no longer says so.  Of even blocks nothing can be said: no
\* file holds them.
RamBHasLastWrites ==
    Transport \in {"mux", "local"} =>
        \A b \in Blocks : b % 2 = 1 /\ content_hash[b] # "none" /\ b \notin Residents
                            => b \in ram_b

\* A block the table sends to RAM B can be fetched from there: RAM B has its
\* last write, under the hash the controller will compare with, and it is an
\* odd block.
RemoteIsFetchable ==
    Transport \in {"mux", "local"} =>
        \A b \in At("RemoteKernel") :
            b \in ram_b /\ content_hash[b] = "sha" /\ b % 2 = 1

\* No page fault is forgotten: the fault thread copies something in for it,
\* whether the block could be restored or not, unless the kernel refuses the
\* copy (ram_raid.rs:594 does not look at its result), the arena is shut down,
\* or other threads take the controller's mutex again and again: which of the
\* threads that wait for it gets it is open.
FaultIsServed ==
    <>[](op \in {"idle", "production"}) =>
        \A b \in 0 .. N, p \in Pages :
            <<b, p>> \in pending
                ~> (p \in mapped[b] \/ <<b, p>> \in refused \/ mode = "stopped")

\* VIOLATED by the code.  "Maximum blocks resident in physical RAM at once":
\* no more than MaxResident blocks have pages mapped.
PhysicalBound == Cardinality({b \in Blocks : mapped[b] # {}}) <= MaxResident

\* VIOLATED by the code.  The fault thread injects the real data: no page of
\* a block that was fetched from RAM B is mapped as zeros.
RealDataInjected ==
    [][mapped' # mapped /\ copying.block \in Residents /\ origin[copying.block] = "remote"
       => copying.data = "data"]_vars

\* VIOLATED by the code.  "Clean block - just drop it, we have the .tza already":
\* the place the table gives a block that is dropped is one that has its
\* content, so that of a block that came from RAM B it is RAM B.
DropsWhereItCame ==
    [][\A b \in Residents :
          location'[b] # "Resident" /\ ~dirty[b] /\ origin[b] = "remote"
             => location'[b] = "RemoteKernel"]_vars

\* VIOLATED by the code.  A fault is reported Failed when handling it failed:
\* after any other result the block is resident.
FailureIsReported ==
    [][op = "fault" /\ op' = "idle" /\ result'.kind # "Failed"
       => location'[block] = "Resident"]_vars

\* VIOLATED by the code.  "Evict the coldest (least recently accessed)
\* resident block": not the latest accessed one while others are resident.
EvictsLeastRecent ==
    [][\A b \in Residents :
          location'[b] # "Resident" => b \notin newest \/ Residents \subseteq newest]_vars
=============================================================================
