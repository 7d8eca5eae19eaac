------------------------------ MODULE Zandbak ------------------------------
(***************************************************************************)
(* The memory region of src/crates/trust-kernel/src/zandbak.rs: three      *)
(* atomics (allocated_bytes, allocation_count, is_clean) that allocate     *)
(* reads and writes one after the other while other threads do the same.   *)
(* zerofill and emergency_zerofill store to the three in turn and take     *)
(* &self: nothing in the code keeps them apart from an allocate.  That the *)
(* owner of the region calls them between two requests only, when none is  *)
(* under way, is assumed of the callers; then the order of the three       *)
(* stores is not seen, and they are one step.  Sizes are counted in pages: *)
(* allocate rounds up to whole pages before it compares (:216).            *)
(***************************************************************************)
EXTENDS Integers, FiniteSets

CONSTANTS Threads,
          Sizes,            \* sizes of requests, in pages
          WorkRegion,       \* budget.work_region_bytes, in pages
          MaxAllocations    \* budget.max_allocations

ASSUME SizeAssumption == Sizes \subseteq Nat \ {0} /\ Sizes # {} /\ IsFiniteSet(Sizes)
ASSUME BudgetAssumption == WorkRegion \in Nat /\ MaxAllocations \in Nat
ASSUME ThreadAssumption == IsFiniteSet(Threads) /\ Threads # {}

VARIABLES allocated, count, clean,
          thread,   \* what each thread is doing: step, size, offset
          live      \* ranges handed out since the region was last zeroed

regionVars == <<allocated, count, clean, thread, live>>

Idle == [step |-> "idle", size |-> 0, offset |-> 0]

RegionInit == /\ allocated = 0 /\ count = 0 /\ clean = TRUE
              /\ thread = [t \in Threads |-> Idle]
              /\ live = {}

Goto(t, step) == thread' = [thread EXCEPT ![t].step = step]

\* allocate, up to the first load: a region that was not zeroed is refused.
allocate(t, size) ==
    /\ thread[t] = Idle
    /\ clean
    /\ thread' = [thread EXCEPT ![t] = [step |-> "count", size |-> size, offset |-> 0]]
    /\ UNCHANGED <<allocated, count, clean, live>>

\* AllocationLimitReached, or on to the budget.
LoadCount(t) ==
    /\ thread[t].step = "count"
    /\ IF count >= MaxAllocations THEN thread' = [thread EXCEPT ![t] = Idle] ELSE Goto(t, "budget")
    /\ UNCHANGED <<allocated, count, clean, live>>

\* BudgetExceeded, or on to the commit.
LoadBytes(t) ==
    /\ thread[t].step = "budget"
    /\ IF allocated + thread[t].size > WorkRegion
       THEN thread' = [thread EXCEPT ![t] = Idle] ELSE Goto(t, "add")
    /\ UNCHANGED <<allocated, count, clean, live>>

AddBytes(t) ==
    /\ thread[t].step = "add"
    /\ thread' = [thread EXCEPT ![t].step = "number", ![t].offset = allocated]
    /\ allocated' = allocated + thread[t].size
    /\ live' = live \cup {[from |-> allocated, to |-> allocated + thread[t].size - 1]}
    /\ UNCHANGED <<count, clean>>

AddCount(t) ==
    /\ thread[t].step = "number"
    /\ count' = count + 1
    /\ Goto(t, "dirty")
    /\ UNCHANGED <<allocated, clean, live>>

StoreDirty(t) ==
    /\ thread[t].step = "dirty"
    /\ clean' = FALSE
    /\ thread' = [thread EXCEPT ![t] = Idle]
    /\ UNCHANGED <<allocated, count, live>>

\* MUTANT: allocated_bytes is not reset.
zerofill_KeepsBytes ==
    /\ \A t \in Threads : thread[t] = Idle
    /\ allocated > 0
    /\ count' = 0 /\ clean' = TRUE /\ live' = {}
    /\ UNCHANGED <<allocated, thread>>

\* zerofill(EveryDealloc) and emergency_zerofill; the other policies change nothing.
\* The first conjunct is the assumption on the callers, not a check of the code.
zerofill ==
    /\ \A t \in Threads : thread[t] = Idle
    /\ allocated > 0
    /\ allocated' = 0 /\ count' = 0 /\ clean' = TRUE /\ live' = {}
    /\ UNCHANGED thread

RegionNext == \/ \E t \in Threads : \/ \E size \in Sizes : allocate(t, size)
                                    \/ LoadCount(t) \/ LoadBytes(t) \/ AddBytes(t)
                                    \/ AddCount(t) \/ StoreDirty(t)
              \/ zerofill

-----------------------------------------------------------------------------

LargestSize == CHOOSE s \in Sizes : \A r \in Sizes : r <= s

Overlap(a, b) == a.from <= b.to /\ b.from <= a.to

Committing == {t \in Threads : thread[t].step \in {"number", "dirty"}}

(***************************************************************************)
(* The ranges handed out since the region was zeroed are disjoint, they    *)
(* are what allocated_bytes counts, and they pass the end of the work      *)
(* region only by the requests that other threads committed between the    *)
(* check and the commit of one (zandbak.rs:216-227): one thread never      *)
(* passes it.                                                              *)
(***************************************************************************)
AllocationsAreDisjoint ==
    /\ \A a, b \in live : a # b => ~Overlap(a, b)
    /\ allocated = Cardinality(UNION {a.from..a.to : a \in live})
    /\ allocated <= WorkRegion + (Cardinality(Threads) - 1) * LargestSize
    /\ count <= Cardinality(live) /\ Cardinality(live) <= count + Cardinality(Committing)

\* "Memory budget per intent (prevent resource exhaustion)" (zandbak.rs:10).
BudgetHolds == allocated <= WorkRegion

\* "Maximum number of distinct allocations" (zandbak.rs:119): after one, the region is dirty,
\* so that a region with room for more refuses.
RoomIsUsable ==
    (\A t \in Threads : thread[t] = Idle) /\ count < MaxAllocations
        /\ allocated + LargestSize <= WorkRegion => clean

=============================================================================
