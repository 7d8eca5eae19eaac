--------------------------- MODULE RamRaidProofs ---------------------------
(***************************************************************************)
(* Theorems about the RAM RAID controller, for every arena size, limit,    *)
(* transport and set of batches, with and without the fault thread.        *)
(***************************************************************************)
EXTENDS RamRaid, FiniteSetTheorems, TLAPS

(***************************************************************************)
(* The inductive invariant.  RamBHasLastWrites is not inductive: a clean   *)
(* resident block may be dropped, so RAM B must have it already.  The      *)
(* counter is decremented by evict_coldest, so it stays a natural number   *)
(* only because it never falls below the number of resident blocks.        *)
(***************************************************************************)

\* The page the fault thread copies is one of a block.
CopyInv ==
    /\ thread = "copy" =>
          copying \in [block : 0 .. N, page : Pages, data : {"zeros", "data"}]
    /\ op = "production" => page \in Pages

\* The lists of a batch still describe its blocks when they are restored:
\* what was absent before the evictions is absent after them.
ListInv ==
    /\ op \in {"batch", "remote"} =>
          /\ batch.list \in Batches
          /\ batch.remote \subseteq Members(batch.list, At("RemoteKernel"))
    /\ op = "batch" =>
          /\ batch.virgin \subseteq Members(batch.list, At("Virgin"))
          /\ batch.local \subseteq Members(batch.list, At("LocalStore"))

DirtyInv == \A b \in Blocks : dirty[b] => location[b] = "Resident"

\* Of the odd blocks only a dirty one has a last write that RAM B has not.
SavedInv ==
    Transport \in {"mux", "local"} =>
        \A b \in Blocks : b % 2 = 1 /\ content_hash[b] # "none" /\ ~dirty[b] => b \in ram_b

\* No batch names a block twice.
NoRepetition == \A s \in Batches : \A i, j \in DOMAIN s : s[i] = s[j] => i = j

CountInv ==
    /\ resident_count >= Cardinality(Residents)
    /\ NoRepetition => CountIsExact

\* Dirty blocks stay in memory, RAM B keeps the clean odd ones, and what the table
\* sends to RAM B stays there.
PlaceInv == DirtyInv /\ SavedInv /\ RemoteIsFetchable

RaidInv == TypeOK /\ CopyInv /\ ListInv /\ PlaceInv /\ CountInv

-----------------------------------------------------------------------------
(***************************************************************************)
(* The table of blocks and the sets of saved blocks.                       *)
(***************************************************************************)
USE DEF tableVars, storeVars, prodVars, callVars

\* How often a list names blocks of a set is a natural number.
LEMMA OccurrencesType ==
    ASSUME NEW s \in Seq(Nat), NEW S
    PROVE  /\ IsFiniteSet({i \in DOMAIN s : s[i] \in S})
           /\ Occurrences(s, S) \in Nat
<1>1. IsFiniteSet(DOMAIN s)
  BY FS_Interval, DOMAIN s = 1 .. Len(s), Len(s) \in Nat
<1>2. IsFiniteSet({i \in DOMAIN s : s[i] \in S})
  BY <1>1, FS_Subset
<1> QED
  BY <1>2, FS_CardinalityType DEF Occurrences

\* Every step keeps the block table in its type.
LEMMA TableStep ==
    ASSUME TableOK, batch.list \in Seq(Nat), [Next]_vars PROVE TableOK'
<1> USE DEF TableOK, Location
<1>0. ASSUME NEW b \in Blocks, simulate_write(b) PROVE TableOK'
  BY <1>0 DEF simulate_write
<1>1. ASSUME NEW b \in Blocks, simulate_read(b) PROVE TableOK'
  BY <1>1 DEF simulate_read
<1>2. CASE \/ \E b \in 0 .. N : handle_fault(b)
           \/ proactive_evict
           \/ \E s \in Batches : simulate_read_batch(s) \/ prefetch(s)
  BY <1>2 DEF handle_fault, proactive_evict, simulate_read_batch, prefetch
<1>3. ASSUME NEW b \in Blocks, DropClean(b) \/ EvictLocal(b) PROVE TableOK'
  BY <1>3 DEF DropClean, EvictLocal, Evicted
<1>4. ASSUME NEW b \in Blocks, EvictRemote(b) \/ StoreFails(b) PROVE TableOK'
  BY <1>4 DEF EvictRemote, StoreFails, Evicted, EvictionFailed
<1>5. CASE NothingToEvict
  BY <1>5 DEF NothingToEvict, EvictionFailed
<1>6. ASSUME NEW b \in Blocks, Restore(b) PROVE TableOK'
  <2>1. CASE RestoreResident(b) \/ FetchFails(b)
    BY <2>1 DEF RestoreResident, FetchFails
  <2>2. CASE RestoreVirgin(b)
    BY <2>2 DEF RestoreVirgin, BecomesResident
  <2>3. CASE RestoreLocal(b)
    BY <2>3 DEF RestoreLocal, BecomesResident
  <2>4. CASE RestoreRemote(b)
    BY <2>4 DEF RestoreRemote, BecomesResident
  <2> QED
    BY <1>6, <2>1, <2>2, <2>3, <2>4 DEF Restore
<1>7. \A b \in Blocks : Times(b) \in Nat
  BY OccurrencesType DEF Times
<1>8. CASE BatchFill
  BY <1>7, <1>8 DEF BatchFill, Load
<1>9. CASE BatchRemote
  BY <1>7, <1>9 DEF BatchRemote, Load
<1>10. CASE OutOfRange \/ BatchFails \/ ProactiveDone
  BY <1>10 DEF OutOfRange, BatchFails, ProactiveDone, FaultDone
<1>11. CASE Thread \/ start_production \/ shutdown \/ \E b \in 0 .. N, p \in Pages : Touch(b, p)
  BY <1>11 DEF Thread, ThreadLoop, ThreadRead, ThreadCopy, ThreadCopyFails,
              start_production, shutdown, Touch
<1>12. CASE UNCHANGED vars
  BY <1>12 DEF vars
<1> QED
  BY <1>0, <1>1, <1>2, <1>3, <1>4, <1>5, <1>6, <1>8, <1>9, <1>10, <1>11, <1>12
     DEF Next, Begin, Proceed, Evict

\* Every step keeps the sets of saved blocks sets of blocks.
LEMMA SetsStep ==
    ASSUME SetsOK, BatchOK, [Next]_vars PROVE SetsOK'
<1> USE DEF SetsOK, BatchOK
<1>1. ASSUME NEW b \in Blocks, simulate_write(b) \/ simulate_read(b) PROVE SetsOK'
  BY <1>1 DEF simulate_write, simulate_read
<1>2. CASE \/ \E b \in 0 .. N : handle_fault(b)
           \/ proactive_evict
           \/ \E s \in Batches : simulate_read_batch(s) \/ prefetch(s)
  BY <1>2 DEF handle_fault, proactive_evict, simulate_read_batch, prefetch
<1>3. ASSUME NEW b \in Blocks, DropClean(b) \/ EvictLocal(b) PROVE SetsOK'
  BY <1>3 DEF DropClean, EvictLocal, Evicted
<1>4. ASSUME NEW b \in Blocks, EvictRemote(b) \/ StoreFails(b) PROVE SetsOK'
  BY <1>4 DEF EvictRemote, StoreFails, Evicted, EvictionFailed
<1>5. CASE NothingToEvict
  BY <1>5 DEF NothingToEvict, EvictionFailed
<1>6. ASSUME NEW b \in Blocks, Restore(b) PROVE SetsOK'
  BY <1>6 DEF Restore, RestoreResident, RestoreVirgin, RestoreLocal, RestoreRemote,
              FetchFails, BecomesResident, FaultDone
<1>7. CASE BatchFill
  BY <1>7 DEF BatchFill, Load
<1>8. CASE BatchRemote
  BY <1>8 DEF BatchRemote, Load, Fetched
<1>9. CASE OutOfRange \/ BatchFails \/ ProactiveDone
  BY <1>9 DEF OutOfRange, BatchFails, ProactiveDone, FaultDone
<1>10. CASE Thread \/ start_production \/ shutdown \/ \E b \in 0 .. N, p \in Pages : Touch(b, p)
  BY <1>10 DEF Thread, ThreadLoop, ThreadRead, ThreadCopy, ThreadCopyFails,
              start_production, shutdown, Touch
<1>11. CASE UNCHANGED vars
  BY <1>11 DEF vars
<1> QED
  BY <1>1, <1>2, <1>3, <1>4, <1>5, <1>6, <1>7, <1>8, <1>9, <1>10, <1>11
     DEF Next, Begin, Proceed, Evict

\* A method in progress has the arguments its next step needs.
LEMMA CallStep ==
    ASSUME CallOK, resident_count \in Nat,
           \A f \in pending : f \in (0 .. N) \X Pages,
           [Next]_vars
    PROVE  CallOK'
<1> USE SizeAssumption DEF SizeAssumption, CallOK
<1>1. ASSUME NEW b \in Blocks, simulate_write(b) \/ simulate_read(b) PROVE CallOK'
  BY <1>1 DEF simulate_write, simulate_read
<1>2. ASSUME NEW b \in 0 .. N, handle_fault(b) PROVE CallOK'
  BY <1>2 DEF handle_fault, Fault, Start
<1>3. CASE proactive_evict
  <2>1. to_evict' \in Nat
    BY <1>3 DEF proactive_evict, Start
  <2> QED
    BY <1>3, <2>1 DEF proactive_evict, Start
<1>4. ASSUME NEW s \in Batches, simulate_read_batch(s) \/ prefetch(s) PROVE CallOK'
  <2>1. Occurrences(s, Blocks \ Residents) \in Nat
    BY BatchAssumption, OccurrencesType DEF BatchAssumption
  <2>2. to_evict' \in Nat
    BY <1>4, <2>1 DEF simulate_read_batch, prefetch, Batch, Start, PositivePart
  <2> QED
    BY <1>4, <2>2 DEF simulate_read_batch, prefetch, Batch, Start
<1>5. ASSUME NEW b \in Blocks, DropClean(b) \/ EvictLocal(b) \/ EvictRemote(b) PROVE CallOK'
  BY <1>5 DEF DropClean, EvictLocal, EvictRemote, Evicting, Evicted
<1>6. CASE (\E b \in Blocks : StoreFails(b)) \/ NothingToEvict
  BY <1>6 DEF StoreFails, NothingToEvict, EvictionFailed, Evicting, Return, Start
<1>7. ASSUME NEW b \in Blocks, Restore(b) PROVE CallOK'
  BY <1>7 DEF Restore, RestoreResident, RestoreVirgin, RestoreLocal, RestoreRemote,
              FetchFails, FaultDone, Return, Start
<1>8. CASE BatchFill
  BY <1>8 DEF BatchFill, Return, Start
<1>9. CASE BatchRemote \/ BatchFails \/ ProactiveDone \/ OutOfRange
  BY <1>9 DEF BatchRemote, BatchFails, ProactiveDone, OutOfRange, FaultDone, Return, Start
<1>10. CASE ThreadRead
  BY <1>10 DEF ThreadRead, Fault, Start
<1>11. CASE ThreadLoop \/ ThreadCopy \/ ThreadCopyFails \/ start_production \/ shutdown
            \/ \E b \in 0 .. N, p \in Pages : Touch(b, p)
  BY <1>11 DEF ThreadLoop, ThreadCopy, ThreadCopyFails, start_production, shutdown, Touch
<1>12. CASE UNCHANGED vars
  BY <1>12 DEF vars
<1> QED
  BY <1>1, <1>2, <1>3, <1>4, <1>5, <1>6, <1>7, <1>8, <1>9, <1>10, <1>11, <1>12
     DEF Next, Begin, Proceed, Evict, Thread

\* A batch's lists are set when it starts and cleared when a method returns.
LEMMA BatchStep == ASSUME BatchOK, [Next]_vars PROVE BatchOK'
<1>1. ASSUME NEW s \in Batches, simulate_read_batch(s) \/ prefetch(s) PROVE BatchOK'
  BY <1>1, BatchAssumption
     DEF BatchAssumption, simulate_read_batch, prefetch, Batch, Members, At, Residents, BatchOK
<1>2. NoBatch \in [list : Seq(Nat), touch : SUBSET Blocks, virgin : SUBSET Blocks,
                   local : SUBSET Blocks, remote : SUBSET Blocks]
  BY DEF NoBatch
<1>3. CASE ~ \E s \in Batches : simulate_read_batch(s) \/ prefetch(s)
  <2>1. batch' = batch \/ batch' = NoBatch
    BY <1>3 DEF Next, Begin, Proceed, Evict, Thread, simulate_write, simulate_read,
         handle_fault, proactive_evict, Fault, DropClean, EvictLocal, EvictRemote,
         StoreFails, NothingToEvict, Evicted, EvictionFailed, Restore, RestoreResident,
         RestoreVirgin, RestoreLocal, RestoreRemote, FetchFails, OutOfRange, FaultDone,
         BatchFill, BatchRemote, BatchFails, ProactiveDone, Return, ThreadLoop,
         ThreadRead, ThreadCopy, ThreadCopyFails, start_production, shutdown, Touch, vars
  <2> QED
    BY <1>2, <2>1 DEF BatchOK
<1> QED
  BY <1>1, <1>3

\* What a method reports is one of the FaultResults, about a block.
LEMMA ResultStep == ASSUME CallOK, ResultOK, [Next]_vars PROVE ResultOK'
<1>1. evicted' \in BOOLEAN
  BY DEF ResultOK, Next, Begin, Proceed, Evict, Thread, simulate_write, simulate_read,
       handle_fault, proactive_evict, simulate_read_batch, prefetch, Batch, Start,
       Fault, DropClean, EvictLocal, EvictRemote,
       StoreFails, NothingToEvict, Evicted, EvictionFailed, Restore, RestoreResident,
       RestoreVirgin, RestoreLocal, RestoreRemote, FetchFails, OutOfRange, FaultDone,
       BatchFill, BatchRemote, BatchFails, ProactiveDone, Return, ThreadLoop,
       ThreadRead, ThreadCopy, ThreadCopyFails, start_production, shutdown, Touch, vars
<1>2. \/ result' \in {result, NoResult}
      \/ \E k \in Kinds, b \in 0 .. N : result' = [kind |-> k, block |-> b]
  <2>1. ASSUME NEW b \in Blocks, simulate_read(b)
        PROVE  \E k \in Kinds, c \in 0 .. N : result' = [kind |-> k, block |-> c]
    BY <2>1, SizeAssumption DEF SizeAssumption, simulate_read, Kinds, Blocks
  <2>2. ASSUME NEW b \in Blocks, StoreFails(b) \/ NothingToEvict
        PROVE  \/ result' = result
               \/ \E k \in Kinds, c \in 0 .. N : result' = [kind |-> k, block |-> c]
    BY <2>2 DEF StoreFails, NothingToEvict, EvictionFailed, Report, Kinds, CallOK
  <2>3. ASSUME NEW b \in Blocks, Restore(b) \/ OutOfRange
        PROVE  \E k \in Kinds, c \in 0 .. N : result' = [kind |-> k, block |-> c]
    BY <2>3 DEF Restore, RestoreResident, RestoreVirgin, RestoreLocal, RestoreRemote,
                FetchFails, OutOfRange, FaultDone, Report, Kinds, CallOK
  <2>4. CASE /\ ~ \E b \in Blocks : simulate_read(b) \/ StoreFails(b) \/ Restore(b)
             /\ ~ NothingToEvict /\ ~ OutOfRange
    BY <2>4 DEF Next, Begin, Proceed, Evict, Thread, simulate_write, Fault, Batch,
         handle_fault, proactive_evict, simulate_read_batch, prefetch,
         DropClean, EvictLocal, EvictRemote, Evicted, BatchFill, BatchRemote, Load,
         BatchFails, ProactiveDone, ThreadLoop,
         ThreadRead, ThreadCopy, ThreadCopyFails, start_production, shutdown, Touch, vars
  <2>5. \E b \in Blocks : TRUE
    BY SizeAssumption, 0 \in 0 .. N - 1 DEF SizeAssumption, Blocks
  <2> QED
    BY <2>1, <2>2, <2>3, <2>4, <2>5
<1>3. NoResult \in [kind : Kinds, block : 0 .. N]
  BY SizeAssumption DEF SizeAssumption, NoResult, Kinds
<1> QED
  BY <1>1, <1>2, <1>3 DEF ResultOK

\* The fault thread always knows the page it is about to copy.
LEMMA ThreadStep ==
    ASSUME CallOK, ThreadOK, CopyInv, [Next]_vars
    PROVE  ThreadOK' /\ CopyInv'
<1> USE DEF CallOK, ThreadOK, CopyInv
<1>1. CASE Begin
  BY <1>1 DEF Begin, simulate_write, simulate_read, handle_fault, proactive_evict,
              simulate_read_batch, prefetch, Fault, Batch, Start
<1>2. CASE Evict
  BY <1>2 DEF Evict, DropClean, EvictLocal, EvictRemote, StoreFails, NothingToEvict,
              Evicted, EvictionFailed, Return, Start
<1>3. CASE OutOfRange \/ \E b \in Blocks : Restore(b)
  <2>1. op \in {"fault", "production"}
    BY <1>3 DEF Restore, RestoreResident, RestoreVirgin, RestoreLocal, RestoreRemote,
                FetchFails, OutOfRange, Restoring
  <2>2. ASSUME NEW k, NEW d \in {"zeros", "data"}, FaultDone(k, d)
        PROVE  ThreadOK' /\ CopyInv'
    BY <2>1, <2>2 DEF FaultDone, Return, Start
  <2>3. CASE OutOfRange
    BY <2>2, <2>3 DEF OutOfRange
  <2>4. ASSUME NEW b \in Blocks, RestoreResident(b) \/ FetchFails(b) PROVE ThreadOK' /\ CopyInv'
    BY <2>2, <2>4 DEF RestoreResident, FetchFails
  <2>5. ASSUME NEW b \in Blocks, RestoreVirgin(b) \/ RestoreLocal(b) \/ RestoreRemote(b)
        PROVE  ThreadOK' /\ CopyInv'
    BY <2>2, <2>5 DEF RestoreVirgin, RestoreLocal, RestoreRemote
  <2> QED
    BY <1>3, <2>3, <2>4, <2>5 DEF Restore
<1>4. CASE BatchFill \/ BatchRemote \/ BatchFails \/ ProactiveDone
  BY <1>4 DEF BatchFill, BatchRemote, BatchFails, ProactiveDone, Load, Return, Start
<1>5. CASE ThreadLoop \/ start_production \/ shutdown
  BY <1>5 DEF ThreadLoop, start_production, shutdown
<1>6. CASE ThreadRead
  BY <1>6 DEF ThreadRead, Fault, Start
<1>7. CASE ThreadCopy \/ ThreadCopyFails
  BY <1>7 DEF ThreadCopy, ThreadCopyFails
<1>8. ASSUME NEW b \in 0 .. N, NEW p \in Pages, Touch(b, p) PROVE ThreadOK' /\ CopyInv'
  BY <1>8 DEF Touch
<1>9. CASE UNCHANGED vars
  BY <1>9 DEF vars
<1> QED
  BY <1>1, <1>2, <1>3, <1>4, <1>5, <1>6, <1>7, <1>8, <1>9 DEF Next, Proceed, Thread

-----------------------------------------------------------------------------
(***************************************************************************)
(* The parts about where blocks are.                                       *)
(***************************************************************************)
\* A step of the method in progress moves no block onto or off the lists.
LEMMA ListStep ==
    ASSUME TableOK, BatchOK, ListInv, [Next]_vars PROVE ListInv'
<1> USE DEF TableOK, ListInv, Members, At
<1>1. ASSUME NEW s \in Batches, simulate_read_batch(s) \/ prefetch(s) PROVE ListInv'
  BY <1>1 DEF simulate_read_batch, prefetch, Batch, Start
<1>2. ASSUME NEW b \in Blocks, DropClean(b) \/ EvictLocal(b) \/ EvictRemote(b) PROVE ListInv'
  <2>1. /\ op' = op /\ batch' = batch /\ location[b] = "Resident"
        /\ \A c \in Blocks \ {b} : location'[c] = location[c]
    BY <1>2 DEF DropClean, EvictLocal, EvictRemote, Evicting, Evicted, Coldest, Residents
  <2>2. ASSUME NEW l, l # "Resident", NEW S, S \subseteq Members(batch.list, At(l))
        PROVE  S \subseteq Members(batch.list, At(l))'
    BY <2>1, <2>2
  <2> QED
    BY <2>1, <2>2 DEF ListInv
<1>3. CASE BatchFill
  <2>1. CASE op' = "idle"
    BY <2>1
  <2>2. CASE op' # "idle"
    <3>1. op = "batch" /\ op' = "remote" /\ batch' = batch
      BY <1>3, <2>2 DEF BatchFill, Return, Start
    <3>2. \A c \in batch.remote : location'[c] = "RemoteKernel"
      BY <1>3, <3>1 DEF BatchFill, Load
    <3> QED
      BY <3>1, <3>2
  <2> QED
    BY <2>1, <2>2
<1>4. CASE \/ \E b \in Blocks : simulate_write(b) \/ simulate_read(b)
           \/ \E b \in 0 .. N : handle_fault(b)
           \/ proactive_evict
  BY <1>4 DEF simulate_write, simulate_read, handle_fault, proactive_evict, Fault,
              Start, CallerMayCall
<1>5. CASE (\E b \in Blocks : StoreFails(b)) \/ NothingToEvict
  BY <1>5 DEF StoreFails, NothingToEvict, EvictionFailed, Return, Start
<1>6. CASE OutOfRange \/ BatchRemote \/ BatchFails \/ ProactiveDone
           \/ \E b \in Blocks : Restore(b)
  <2>1. op' = "idle"
    BY <1>6 DEF Restore, RestoreResident, RestoreVirgin, RestoreLocal, RestoreRemote,
                FetchFails, OutOfRange, FaultDone, BatchRemote, BatchFails, ProactiveDone,
                Return, Start
  <2> QED
    BY <2>1
<1>7. CASE Thread \/ start_production \/ shutdown \/ (\E b \in 0 .. N, p \in Pages : Touch(b, p))
           \/ UNCHANGED vars
  <2>1. /\ location' = location /\ batch' = batch
        /\ op' \in {"batch", "remote"} => op' = op
    BY <1>7 DEF Thread, ThreadLoop, ThreadRead, ThreadCopy, ThreadCopyFails,
                start_production, shutdown, Touch, Fault, Start, vars
  <2> QED
    BY <2>1
<1> QED
  BY <1>1, <1>2, <1>3, <1>4, <1>5, <1>6, <1>7 DEF Next, Begin, Proceed, Evict

\* Dirty blocks stay resident and RAM B keeps the clean odd ones, also when a
\* transfer fails.
LEMMA PlaceStep ==
    ASSUME TableOK, BatchOK, ListInv, PlaceInv, [Next]_vars PROVE PlaceInv'
<1> USE DEF TableOK, Location, PlaceInv, DirtyInv, SavedInv, RemoteIsFetchable, At
<1>1. ASSUME NEW b \in Blocks, simulate_write(b) PROVE PlaceInv'
  BY <1>1 DEF simulate_write
<1>2. ASSUME NEW b \in Blocks, DropClean(b) PROVE PlaceInv'
  BY <1>2 DEF DropClean, Evicted
<1>3. ASSUME NEW b \in Blocks, EvictLocal(b) PROVE PlaceInv'
  BY <1>3 DEF EvictLocal, Evicted, GoesToRamB
<1>4. ASSUME NEW b \in Blocks, EvictRemote(b) PROVE PlaceInv'
  BY <1>4 DEF EvictRemote, Evicted, GoesToRamB
<1>5. ASSUME NEW b \in Blocks, StoreFails(b) PROVE PlaceInv'
  BY <1>5 DEF StoreFails, EvictionFailed
<1>6. ASSUME NEW b \in Blocks, RestoreVirgin(b) PROVE PlaceInv'
  BY <1>6 DEF RestoreVirgin, BecomesResident, FaultDone
<1>7. ASSUME NEW b \in Blocks, RestoreLocal(b) \/ RestoreRemote(b) PROVE PlaceInv'
  <2>1. CASE RestoreLocal(b)
    BY <2>1 DEF RestoreLocal, BecomesResident, FaultDone
  <2>2. CASE RestoreRemote(b)
    BY <2>2 DEF RestoreRemote, BecomesResident, FaultDone
  <2> QED
    BY <1>7, <2>1, <2>2
<1>8. CASE BatchFill
  BY <1>8 DEF BatchFill, Load, ListInv, BatchOK, Members
<1>9. CASE BatchRemote
  BY <1>9 DEF BatchRemote, Load, Fetched, ListInv, BatchOK, Members
<1>10. CASE UNCHANGED <<location, dirty, content_hash, ram_b>>
  BY <1>10
<1>11. CASE \/ \E b \in Blocks : simulate_read(b) \/ RestoreResident(b) \/ FetchFails(b)
            \/ \E b \in 0 .. N : handle_fault(b)
            \/ proactive_evict \/ NothingToEvict \/ OutOfRange \/ BatchFails \/ ProactiveDone
            \/ \E s \in Batches : simulate_read_batch(s) \/ prefetch(s)
            \/ Thread \/ start_production \/ shutdown
            \/ \E b \in 0 .. N, p \in Pages : Touch(b, p)
            \/ UNCHANGED vars
  <2>1. UNCHANGED <<location, dirty, content_hash, ram_b>>
    BY <1>11 DEF simulate_read, RestoreResident, FetchFails, handle_fault, proactive_evict,
         NothingToEvict, EvictionFailed, OutOfRange, BatchFails, ProactiveDone, FaultDone,
         simulate_read_batch, prefetch, Thread, ThreadLoop, ThreadRead, ThreadCopy, ThreadCopyFails,
         start_production, shutdown, Touch, vars
  <2> QED
    BY <2>1, <1>10
<1> QED
  BY <1>1, <1>2, <1>3, <1>4, <1>5, <1>6, <1>7, <1>8, <1>9, <1>11
     DEF Next, Begin, Proceed, Evict, Restore

-----------------------------------------------------------------------------
(***************************************************************************)
(* The counter.                                                            *)
(***************************************************************************)
\* Only finitely many blocks are resident.
LEMMA ResidentsFinite ==
    IsFiniteSet(Residents) /\ Cardinality(Residents) \in Nat
<1>1. IsFiniteSet(0 .. N - 1)
  BY SizeAssumption, FS_Interval DEF SizeAssumption
<1>2. Residents \subseteq 0 .. N - 1
  BY DEF Residents, Blocks
<1> QED
  BY <1>1, <1>2, FS_Subset, FS_CardinalityType

\* A batch counts each of its blocks at least once, and just once when its
\* list has no repetition.
LEMMA OccurrencesBound ==
    ASSUME NEW s \in Batches, NEW S, S \subseteq {s[i] : i \in DOMAIN s}
    PROVE  /\ IsFiniteSet(S) /\ Cardinality(S) \in Nat
           /\ Occurrences(s, S) \in Nat
           /\ Cardinality(S) <= Occurrences(s, S)
           /\ NoRepetition => Cardinality(S) = Occurrences(s, S)
<1> DEFINE D == {i \in DOMAIN s : s[i] \in S}
           f == [i \in D |-> s[i]]
<1>1. s \in Seq(Nat)
  BY BatchAssumption DEF BatchAssumption
<1>2. IsFiniteSet(D) /\ Occurrences(s, S) \in Nat
  BY <1>1, OccurrencesType
<1>3. f \in Surjection(D, S)
  BY DEF Surjection
<1>4. NoRepetition => f \in Injection(D, S)
  BY DEF Injection, IsInjective, NoRepetition
<1> HIDE DEF f
<1>5. /\ IsFiniteSet(S) /\ Cardinality(S) <= Cardinality(D)
      /\ Cardinality(S) = Cardinality(D) <=> f \in Injection(D, S)
  BY <1>2, <1>3, FS_Surjection
<1> QED
  BY <1>2, <1>4, <1>5, FS_CardinalityType DEF Occurrences

\* Blocks T join the resident ones and the counter grows by n.
LEMMA CountGrows ==
    ASSUME CountInv, resident_count \in Nat, NEW T, IsFiniteSet(T), NEW n \in Nat,
           T \cap Residents = {}, Residents' = Residents \cup T,
           resident_count' = resident_count + n,
           Cardinality(T) <= n, NoRepetition => Cardinality(T) = n
    PROVE  resident_count' \in Nat /\ CountInv'
<1>1. Cardinality(T) \in Nat
  BY FS_CardinalityType
<1>2. Cardinality(Residents') = Cardinality(Residents) + Cardinality(T)
  BY <1>1, ResidentsFinite, FS_Union, FS_EmptySet
<1>3. NoRepetition' <=> NoRepetition
  BY DEF NoRepetition
<1> QED
  BY <1>1, <1>2, <1>3, ResidentsFinite DEF CountInv, CountIsExact

\* resident_count moves with the set of resident blocks.
LEMMA CountStep ==
    ASSUME TableOK, CallOK, BatchOK, ListInv, CountInv, resident_count \in Nat, [Next]_vars
    PROVE  resident_count' \in Nat /\ CountInv'
<1> DEFINE Goal == resident_count' \in Nat /\ CountInv'
<1> USE DEF TableOK
<1>a. NoRepetition' <=> NoRepetition
  BY DEF NoRepetition
<1>1. ASSUME NEW b \in Blocks, simulate_write(b) PROVE Goal
  <2>1. /\ Residents' = Residents \cup {b}
        /\ resident_count' = IF b \in Residents THEN resident_count ELSE resident_count + 1
    BY <1>1 DEF simulate_write, Residents
  <2>2. Cardinality(Residents \cup {b}) =
           IF b \in Residents THEN Cardinality(Residents) ELSE Cardinality(Residents) + 1
    BY ResidentsFinite, FS_AddElement
  <2>3. Cardinality(Residents') =
           IF b \in Residents THEN Cardinality(Residents) ELSE Cardinality(Residents) + 1
    BY <2>1, <2>2
  <2> QED
    BY <1>a, <2>1, <2>3, ResidentsFinite DEF CountInv, CountIsExact
<1>2. ASSUME NEW b \in Blocks, DropClean(b) \/ EvictLocal(b) \/ EvictRemote(b) PROVE Goal
  <2>1. b \in Residents
    BY <1>2 DEF DropClean, EvictLocal, EvictRemote, Evicting, Coldest
  <2>2. PICK l : l # "Resident" /\ location' = [location EXCEPT ![b] = l]
    BY <1>2 DEF DropClean, EvictLocal, EvictRemote, Evicted
  <2>3. Residents' = Residents \ {b}
    BY <2>2 DEF Residents
  <2>4. resident_count' = resident_count - 1
    BY <1>2 DEF DropClean, EvictLocal, EvictRemote, Evicted
  <2>5. Cardinality(Residents') = Cardinality(Residents) - 1 /\ Cardinality(Residents') \in Nat
    BY <2>1, <2>3, ResidentsFinite, FS_RemoveElement, FS_CardinalityType
  <2> QED
    BY <1>a, <2>4, <2>5, ResidentsFinite DEF CountInv, CountIsExact
<1>3. ASSUME NEW b \in Blocks, RestoreVirgin(b) \/ RestoreLocal(b) \/ RestoreRemote(b) PROVE Goal
  <2>1. /\ {b} \cap Residents = {} /\ Residents' = Residents \cup {b}
        /\ resident_count' = resident_count + 1
    BY <1>3 DEF RestoreVirgin, RestoreLocal, RestoreRemote, BecomesResident, Residents
  <2>2. IsFiniteSet({b}) /\ Cardinality({b}) = 1
    BY FS_Singleton
  <2> QED
    BY <2>1, <2>2, CountGrows
<1>4. CASE BatchFill
  <2> DEFINE V == batch.virgin
             L == batch.local
  <2>1. /\ op = "batch" /\ batch.list \in Batches
        /\ V \subseteq Members(batch.list, At("Virgin"))
        /\ L \subseteq Members(batch.list, At("LocalStore"))
    BY <1>4 DEF BatchFill, ListInv
  <2>2. /\ IsFiniteSet(V) /\ Cardinality(V) \in Nat /\ Occurrences(batch.list, V) \in Nat
        /\ Cardinality(V) <= Occurrences(batch.list, V)
        /\ NoRepetition => Cardinality(V) = Occurrences(batch.list, V)
    BY <2>1, OccurrencesBound DEF Members
  <2>3. IsFiniteSet(L) /\ Cardinality(L) \in Nat
    BY <2>1, OccurrencesBound DEF Members
  <2>4. V \cap L = {} /\ (V \cup L) \cap Residents = {}
    BY <2>1 DEF Members, At, Residents
  <2>5. /\ Residents' = Residents \cup (V \cup L)
        /\ resident_count' = resident_count + (Occurrences(batch.list, V) + Cardinality(L))
    BY <1>4, <2>1 DEF BatchFill, Load, Members, At, Residents
  <2>6. IsFiniteSet(V \cup L) /\ Cardinality(V \cup L) = Cardinality(V) + Cardinality(L)
    <3> HIDE DEF V, L
    <3>1. Cardinality(V \cap L) = 0
      BY <2>4, FS_EmptySet
    <3> QED
      BY <2>2, <2>3, <3>1, FS_Union
  <2> QED
    BY <2>2, <2>3, <2>4, <2>5, <2>6, CountGrows
<1>5. CASE BatchRemote
  <2>1. /\ op = "remote" /\ batch.list \in Batches
        /\ Fetched \subseteq Members(batch.list, At("RemoteKernel"))
    BY <1>5 DEF BatchRemote, ListInv, Fetched
  <2>2. /\ IsFiniteSet(Fetched) /\ Cardinality(Fetched) \in Nat
        /\ Occurrences(batch.list, Fetched) \in Nat
        /\ Cardinality(Fetched) <= Occurrences(batch.list, Fetched)
        /\ NoRepetition => Cardinality(Fetched) = Occurrences(batch.list, Fetched)
    BY <2>1, OccurrencesBound DEF Members
  <2>3. Fetched \cap Residents = {} /\ Residents' = Residents \cup Fetched
    BY <1>5, <2>1 DEF BatchRemote, Load, Members, At, Residents
  <2>4. resident_count' = resident_count +
           (IF Transport = "mux" THEN Occurrences(batch.list, Fetched) ELSE Cardinality(Fetched))
    BY <1>5 DEF BatchRemote, Load
  <2> QED
    BY <2>2, <2>3, <2>4, CountGrows
<1>6. CASE UNCHANGED <<location, resident_count>>
  BY <1>a, <1>6 DEF CountInv, CountIsExact, Residents
<1>7. CASE \/ \E b \in Blocks : simulate_read(b) \/ RestoreResident(b) \/ FetchFails(b)
                               \/ StoreFails(b)
           \/ \E b \in 0 .. N : handle_fault(b)
           \/ proactive_evict \/ NothingToEvict \/ OutOfRange \/ BatchFails \/ ProactiveDone
           \/ \E s \in Batches : simulate_read_batch(s) \/ prefetch(s)
           \/ Thread \/ start_production \/ shutdown
           \/ \E b \in 0 .. N, p \in Pages : Touch(b, p)
           \/ UNCHANGED vars
  <2>1. UNCHANGED <<location, resident_count>>
    BY <1>7 DEF simulate_read, RestoreResident, FetchFails, StoreFails, handle_fault,
         proactive_evict, NothingToEvict, EvictionFailed, OutOfRange, BatchFails,
         ProactiveDone, FaultDone, simulate_read_batch, prefetch, Thread, ThreadLoop,
         ThreadRead, ThreadCopy, ThreadCopyFails, start_production, shutdown, Touch, vars
  <2> QED
    BY <2>1, <1>6
<1> QED
  BY <1>1, <1>2, <1>3, <1>4, <1>5, <1>7 DEF Next, Begin, Proceed, Evict, Restore

-----------------------------------------------------------------------------
(***************************************************************************)
(* The theorems.                                                           *)
(***************************************************************************)
\* The invariant holds for a new controller.
LEMMA RaidInit == Init => RaidInv
<1> SUFFICES ASSUME Init PROVE RaidInv
  OBVIOUS
<1> USE SizeAssumption DEF SizeAssumption, Init
<1>1. TableOK /\ SetsOK
  BY DEF TableOK, SetsOK, Location
<1>2. CallOK /\ ThreadOK /\ CopyInv
  BY DEF CallOK, ThreadOK, CopyInv
<1>3. BatchOK
  BY DEF BatchOK, NoBatch
<1>4. evicted \in BOOLEAN
  BY Zenon
<1>5. ResultOK
  BY <1>4 DEF ResultOK, Kinds, NoResult
<1>6. ListInv /\ PlaceInv
  BY DEF ListInv, PlaceInv, DirtyInv, SavedInv, RemoteIsFetchable, At
<1>7. Residents = {}
  BY DEF Residents
<1>8. CountInv
  BY <1>7, FS_EmptySet DEF CountInv, CountIsExact
<1>9. resident_count \in Nat /\ lru_clock \in 0 .. N
  OBVIOUS
<1> QED
  BY <1>1, <1>2, <1>3, <1>5, <1>6, <1>8, <1>9 DEF RaidInv, TypeOK

\* The clock hand stays within the table.
LEMMA ClockStep == ASSUME lru_clock \in 0 .. N, [Next]_vars PROVE lru_clock' \in 0 .. N
<1>1. CASE \E b \in Blocks : DropClean(b) \/ EvictLocal(b) \/ EvictRemote(b) \/ StoreFails(b)
  <2>1. PICK b \in Blocks : lru_clock' = b + 1
    BY <1>1 DEF DropClean, EvictLocal, EvictRemote, StoreFails, Evicting
  <2> QED
    BY <2>1, SizeAssumption DEF SizeAssumption, Blocks
<1>2. CASE ~ \E b \in Blocks : DropClean(b) \/ EvictLocal(b) \/ EvictRemote(b) \/ StoreFails(b)
  <2>1. lru_clock' = lru_clock
    BY <1>2 DEF Next, Begin, Proceed, Evict, Thread, simulate_write, simulate_read,
         handle_fault, proactive_evict, simulate_read_batch, prefetch, NothingToEvict,
         Restore, RestoreResident, RestoreVirgin, RestoreLocal, RestoreRemote,
         FetchFails, OutOfRange, FaultDone, BatchFill, BatchRemote, Load, BatchFails,
         ProactiveDone, ThreadLoop, ThreadRead, ThreadCopy, ThreadCopyFails,
                start_production, shutdown,
         Touch, vars
  <2> QED
    BY <2>1
<1> QED
  BY <1>1, <1>2

\* The inductive invariant holds in every reachable state of the controller.
THEOREM RaidInvariance == Spec => []RaidInv
<1>1. RaidInv /\ [Next]_vars => RaidInv'
  <2> SUFFICES ASSUME RaidInv, [Next]_vars PROVE RaidInv'
    OBVIOUS
  <2> USE DEF RaidInv, TypeOK
  <2>1. batch.list \in Seq(Nat)
    BY DEF BatchOK
  <2>2. \A f \in pending : f \in (0 .. N) \X Pages
    BY DEF ThreadOK
  <2>3. TableOK' /\ SetsOK'
    BY <2>1, TableStep, SetsStep
  <2>4. CallOK' /\ BatchOK' /\ ResultOK'
    BY <2>2, CallStep, BatchStep, ResultStep
  <2>5. ThreadOK' /\ CopyInv'
    BY ThreadStep
  <2>6. ListInv' /\ PlaceInv'
    BY ListStep, PlaceStep
  <2>7. resident_count' \in Nat /\ CountInv'
    BY CountStep
  <2>8. lru_clock' \in 0 .. N
    BY ClockStep
  <2> QED
    BY <2>3, <2>4, <2>5, <2>6, <2>7, <2>8
<1> QED
  BY <1>1, RaidInit, PTL DEF Spec

\* Every variable keeps its type; the unsigned resident_count never underflows,
\* whatever transfers fail and whatever index lists are given.
THEOREM RaidTypeCorrect == Spec => []TypeOK
<1>1. RaidInv => TypeOK
  BY DEF RaidInv
<1> QED
  BY <1>1, RaidInvariance, PTL

\* The counter is the number of resident blocks in every reachable state, when
\* no batch names a block twice.
THEOREM CountIsCorrect == NoRepetition => (Spec => []CountIsExact)
<1>1. NoRepetition /\ RaidInv => CountIsExact
  BY DEF RaidInv, CountInv
<1>2. ASSUME NoRepetition PROVE RaidInv => CountIsExact
  BY <1>1, <1>2
<1>3. ASSUME NoRepetition PROVE Spec => []CountIsExact
  BY <1>2, <1>3, RaidInvariance, PTL
<1> QED
  BY <1>3

\* Whichever way an odd block left memory, after any calls and failed transfers,
\* RAM B has its last write (ram_raid.rs:1070, 1111).
THEOREM RamBKeepsWrites == Spec => []RamBHasLastWrites
<1>1. RaidInv => RamBHasLastWrites
  BY DEF RaidInv, PlaceInv, TypeOK, TableOK, DirtyInv, SavedInv, RamBHasLastWrites, Residents
<1> QED
  BY <1>1, RaidInvariance, PTL

\* What the table sends to RAM B is there, under the hash it will be checked
\* against.
THEOREM RemoteIsThere == Spec => []RemoteIsFetchable
<1>1. RaidInv => RemoteIsFetchable
  BY DEF RaidInv, PlaceInv
<1> QED
  BY <1>1, RaidInvariance, PTL
=============================================================================
