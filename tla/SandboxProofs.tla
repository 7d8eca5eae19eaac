--------------------------- MODULE SandboxProofs ---------------------------
(***************************************************************************)
(* Theorems about the sandbox region and about recovery, for any number of *)
(* threads, sizes and snapshots.                                           *)
(***************************************************************************)
EXTENDS Sandbox, FiniteSetTheorems, SequenceTheorems, TLAPS

Step == {"idle", "count", "budget", "add", "number", "dirty"}

Work == [step : Step, size : Sizes \cup {0}, offset : Nat]

RegionType ==
    /\ allocated \in Nat /\ count \in Nat
    /\ thread \in [Threads -> Work]
    /\ \A t \in Threads : thread[t].step # "idle" => thread[t].size \in Sizes
    /\ live \subseteq [from : Nat, to : Nat] /\ IsFiniteSet(live)

\* The ranges handed out fill the region up to allocated_bytes, so that the
\* next one begins behind all of them.
RangeInv ==
    /\ \A a \in live : a.from <= a.to /\ a.to < allocated
    /\ \A a, b \in live : a # b => ~Overlap(a, b)
    /\ \A p \in 0 .. allocated - 1 : \E a \in live : a.from <= p /\ p <= a.to

\* Threads that have passed the budget and not committed, and threads that
\* have committed and not counted.
At(step)  == {t \in Threads : thread[t].step = step}
Adding    == At("add")
Numbering == At("number")

Limit == WorkRegion + (Cardinality(Threads) - 1) * LargestSize

(***************************************************************************)
(* The bound on allocated_bytes is not inductive: it must leave room for   *)
(* what the threads between check and commit will add.  The one that       *)
(* checked last passed the check, and each other adds at most LargestSize. *)
(***************************************************************************)
BudgetInv ==
    /\ allocated <= Limit
    /\ Adding # {} =>
         \E t \in Adding :
            allocated + thread[t].size + (Cardinality(Adding) - 1) * LargestSize <= Limit

\* allocation_count lags behind by the threads that have yet to count.
NumberInv == Cardinality(live) = count + Cardinality(Numbering)

RegionInv == RegionType /\ RangeInv /\ BudgetInv /\ NumberInv

-----------------------------------------------------------------------------
(***************************************************************************)
(* Numbers and sets of numbers.                                            *)
(***************************************************************************)
\* A set of natural numbers that is not empty has a least element.
LEMMA HasMinimum ==
    ASSUME NEW T \in SUBSET Nat, T # {} PROVE \E x \in T : \A y \in T : x <= y
<1> DEFINE Less == OpToRel(<, Nat)
<1>1. IsWellFoundedOn(Less, Nat)
  BY NatLessThanWellFounded
<1> HIDE DEF Less
<1>2. PICK x \in T : \A y \in T : ~(<<y, x>> \in Less)
  BY <1>1, T \subseteq Nat, WFMin, Zenon
<1>3. \A m, n \in Nat : m < n => <<m, n>> \in Less
  <2>1. Less = {ss \in Nat \X Nat : ss[1] < ss[2]}
    BY DEF OpToRel, Less
  <2> QED
    BY <2>1
<1>4. ASSUME NEW y \in T PROVE x <= y
  <2>1. x \in Nat /\ y \in Nat /\ ~(<<y, x>> \in Less)
    BY <1>2
  <2> QED
    BY <1>3, <2>1
<1> QED
  BY <1>4

\* The largest request exists: of the tails of Sizes one is smallest.
LEMMA Largest ==
    LargestSize \in Sizes /\ LargestSize \in Nat /\ \A s \in Sizes : s <= LargestSize
<1> DEFINE above(s) == {r \in Sizes : r >= s}
           sizes == {Cardinality(above(s)) : s \in Sizes}
<1>1. \A s \in Sizes : IsFiniteSet(above(s)) /\ Cardinality(above(s)) \in Nat
  BY SizeAssumption, FS_Subset, FS_CardinalityType
<1>2. PICK s \in Sizes : \A r \in Sizes : Cardinality(above(s)) <= Cardinality(above(r))
  <2>1. sizes \in SUBSET Nat /\ sizes # {}
    BY <1>1, SizeAssumption
  <2>2. PICK k \in sizes : \A m \in sizes : k <= m
    BY <2>1, HasMinimum
  <2>3. PICK s \in Sizes : k = Cardinality(above(s))
    OBVIOUS
  <2>4. \A r \in Sizes : Cardinality(above(r)) \in sizes
    OBVIOUS
  <2> HIDE DEF sizes, above
  <2> QED
    BY <2>2, <2>3, <2>4
<1>3. ASSUME NEW r \in Sizes, ~(r <= s) PROVE FALSE
  <2>1. \A x \in Sizes : x \in Nat
    BY SizeAssumption
  <2>2. s \in above(s) /\ s \notin above(r) /\ \A x \in above(r) : x \in above(s)
    BY <1>3, <2>1
  <2>3. Cardinality(above(r)) < Cardinality(above(s))
    BY <1>1, <2>2, above(r) \in SUBSET above(s), FS_Subset
  <2> QED
    BY <1>1, <1>2, <2>3
<1>4. \E x \in Sizes : \A r \in Sizes : r <= x
  BY <1>3
<1> QED
  BY <1>4, SizeAssumption DEF LargestSize

\* More threads that may add leave less room.
LEMMA RoomIsMonotone ==
    ASSUME NEW i \in Nat, NEW j \in Nat, i <= j PROVE i * LargestSize <= j * LargestSize
  BY Largest

-----------------------------------------------------------------------------
(***************************************************************************)
(* The steps of the region, as changes of a thread's step and size.        *)
(***************************************************************************)
USE SizeAssumption, BudgetAssumption, ThreadAssumption

Becomes(t, step, size) ==
    /\ thread' \in [Threads -> Work]
    /\ \A u \in Threads : u # t => thread'[u] = thread[u]
    /\ thread'[t].step = step /\ thread'[t].size = size

\* allocate begins, and the loads that let it go on or end it.
Checked(t) ==
    /\ \/ thread[t].step = "idle" /\ \E size \in Sizes : Becomes(t, "count", size)
       \/ thread[t].step = "count" /\ Becomes(t, "budget", thread[t].size)
       \/ thread[t].step \in {"count", "budget"} /\ Becomes(t, "idle", 0)
    /\ UNCHANGED <<allocated, count, live>>

\* The load of allocated_bytes that lets a thread commit.
Passed(t) ==
    /\ thread[t].step = "budget" /\ Becomes(t, "add", thread[t].size)
    /\ allocated + thread[t].size <= WorkRegion
    /\ UNCHANGED <<allocated, count, live>>

Chunk(t) == [from |-> allocated, to |-> allocated + thread[t].size - 1]

Added(t) ==
    /\ thread[t].step = "add" /\ Becomes(t, "number", thread[t].size)
    /\ allocated' = allocated + thread[t].size
    /\ live' = live \cup {Chunk(t)}
    /\ UNCHANGED count

Counted(t) ==
    /\ thread[t].step = "number" /\ Becomes(t, "dirty", thread[t].size)
    /\ count' = count + 1
    /\ UNCHANGED <<allocated, live>>

Dirtied(t) ==
    /\ thread[t].step = "dirty" /\ Becomes(t, "idle", 0)
    /\ UNCHANGED <<allocated, count, live>>

Zeroed ==
    /\ \A t \in Threads : thread[t].step = "idle"
    /\ allocated' = 0 /\ count' = 0 /\ live' = {} /\ UNCHANGED thread

Effect ==
    \/ \E t \in Threads : Checked(t) \/ Passed(t) \/ Added(t) \/ Counted(t) \/ Dirtied(t)
    \/ Zeroed
    \/ UNCHANGED <<allocated, count, thread, live>>

\* A thread that goes on keeps its size.
LEMMA GotoEffect ==
    ASSUME thread \in [Threads -> Work], NEW t \in Threads, NEW step \in Step, Goto(t, step)
    PROVE  Becomes(t, step, thread[t].size)
  BY DEF Goto, Becomes, Work

\* A thread that ends is idle.
LEMMA IdleEffect ==
    ASSUME thread \in [Threads -> Work], NEW t \in Threads,
           thread' = [thread EXCEPT ![t] = Idle]
    PROVE  Becomes(t, "idle", 0)
  BY DEF Becomes, Work, Idle, Step

LEMMA AddEffect ==
    ASSUME thread \in [Threads -> Work], allocated \in Nat, NEW t \in Threads,
           thread' = [thread EXCEPT ![t].step = "number", ![t].offset = allocated]
    PROVE  Becomes(t, "number", thread[t].size)
<1> DEFINE r == [thread[t] EXCEPT !.step = "number", !.offset = allocated]
<1>1. thread' = [thread EXCEPT ![t] = r]
  OBVIOUS
<1>2. r.step = "number" /\ r.size = thread[t].size
  BY DEF Work
<1>3. r \in Work
  BY DEF Work, Step
<1> QED
  BY <1>1, <1>2, <1>3 DEF Becomes

\* Every step of the sandbox is one of these for the region.
LEMMA NextEffect ==
    ASSUME RegionType, [Next]_vars PROVE Effect
<1>0. thread \in [Threads -> Work] /\ allocated \in Nat
  BY DEF RegionType
<1>1. ASSUME NEW t \in Threads, NEW size \in Sizes, allocate(t, size) PROVE Checked(t)
  <2> DEFINE r == [step |-> "count", size |-> size, offset |-> 0]
  <2>1. r \in Work
    BY DEF Work, Step
  <2>2. Becomes(t, "count", size)
    BY <1>0, <1>1, <2>1 DEF allocate, Becomes
  <2> QED
    BY <1>1, <2>2 DEF allocate, Checked, Idle
<1>2. ASSUME NEW t \in Threads, LoadCount(t) PROVE Checked(t)
  BY <1>0, <1>2, GotoEffect, IdleEffect DEF LoadCount, Checked, Step
<1>3. ASSUME NEW t \in Threads, LoadBytes(t) PROVE Checked(t) \/ Passed(t)
  <2>1. CASE allocated + thread[t].size > WorkRegion
    BY <1>0, <1>3, <2>1, IdleEffect DEF LoadBytes, Checked
  <2>2. CASE ~(allocated + thread[t].size > WorkRegion)
    <3>1. thread[t].size \in Nat
      BY <1>3 DEF LoadBytes, RegionType
    <3>2. Becomes(t, "add", thread[t].size)
      BY <1>0, <1>3, <2>2, "add" \in Step, GotoEffect DEF LoadBytes, Step
    <3>3. allocated + thread[t].size <= WorkRegion
      BY <1>0, <2>2, <3>1
    <3> QED
      BY <1>3, <3>2, <3>3 DEF LoadBytes, Passed
  <2> QED
    BY <2>1, <2>2
<1>4. ASSUME NEW t \in Threads, AddBytes(t) PROVE Added(t)
  BY <1>0, <1>4, AddEffect DEF AddBytes, Added, Chunk
<1>5. ASSUME NEW t \in Threads, AddCount(t) PROVE Counted(t)
  BY <1>0, <1>5, "dirty" \in Step, GotoEffect DEF AddCount, Counted, Step
<1>6. ASSUME NEW t \in Threads, StoreDirty(t) PROVE Dirtied(t)
  BY <1>0, <1>6, IdleEffect DEF StoreDirty, Dirtied
<1>7. CASE zerofill
  BY <1>7 DEF zerofill, Zeroed, Idle, Effect
<1>8. CASE UNCHANGED regionVars
  BY <1>8 DEF regionVars, Effect
<1>9. CASE RegionNext
  BY <1>1, <1>2, <1>3, <1>4, <1>5, <1>6, <1>7, <1>9 DEF RegionNext, Effect
<1> QED
  BY <1>8, <1>9 DEF Next, vars, regionVars

-----------------------------------------------------------------------------
(***************************************************************************)
(* Each part of the invariant is kept by every step.                       *)
(***************************************************************************)
LEMMA RegionTypeStep ==
    ASSUME RegionType, Effect PROVE RegionType'
<1> USE DEF RegionType, Becomes
<1>1. ASSUME NEW t \in Threads, Checked(t) PROVE RegionType'
  BY <1>1 DEF Checked
<1>2. ASSUME NEW t \in Threads, Passed(t) PROVE RegionType'
  BY <1>2 DEF Passed
<1>3. ASSUME NEW t \in Threads, Added(t) PROVE RegionType'
  <2>1. thread[t].size \in Nat \ {0}
    BY <1>3 DEF Added
  <2>2. Chunk(t) \in [from : Nat, to : Nat]
    BY <2>1 DEF Chunk
  <2>3. IsFiniteSet(live')
    BY <1>3, FS_AddElement DEF Added
  <2> QED
    BY <1>3, <2>1, <2>2, <2>3 DEF Added
<1>4. ASSUME NEW t \in Threads, Counted(t) \/ Dirtied(t) PROVE RegionType'
  BY <1>4 DEF Counted, Dirtied
<1>5. CASE Zeroed
  BY <1>5, FS_EmptySet DEF Zeroed
<1>6. CASE UNCHANGED <<allocated, count, thread, live>>
  BY <1>6
<1> QED
  BY <1>1, <1>2, <1>3, <1>4, <1>5, <1>6 DEF Effect

\* A new range begins behind the others and ends where allocated_bytes ends.
LEMMA RangeStep ==
    ASSUME RegionType, RangeInv, Effect PROVE RangeInv'
<1>1. ASSUME NEW t \in Threads, Added(t) PROVE RangeInv'
  <2> DEFINE r == Chunk(t)
             n == thread[t].size
  <2>1. n \in Nat \ {0} /\ allocated \in Nat
    BY <1>1 DEF Added, RegionType
  <2>2. r.from = allocated /\ r.to = allocated + n - 1 /\ allocated' = allocated + n
    BY <1>1 DEF Added, Chunk
  <2>3. live' = live \cup {r} /\ \A a \in live : a.from \in Nat /\ a.to \in Nat
    BY <1>1 DEF Added, RegionType
  <2> HIDE DEF r, n
  <2>4. \A a \in live' : a.from <= a.to /\ a.to < allocated'
    BY <2>1, <2>2, <2>3 DEF RangeInv
  <2>5. \A a \in live : ~Overlap(a, r) /\ ~Overlap(r, a)
    BY <2>1, <2>2, <2>3 DEF RangeInv, Overlap
  <2>6. \A a, b \in live' : a # b => ~Overlap(a, b)
    BY <2>3, <2>5 DEF RangeInv
  <2>7. ASSUME NEW p \in 0 .. allocated' - 1 PROVE \E a \in live' : a.from <= p /\ p <= a.to
    <3>1. CASE p < allocated
      BY <2>1, <2>2, <2>3, <3>1 DEF RangeInv
    <3>2. CASE ~(p < allocated)
      BY <2>1, <2>2, <2>3, <3>2
    <3> QED
      BY <3>1, <3>2
  <2> QED
    BY <2>4, <2>6, <2>7 DEF RangeInv, Overlap
<1>2. CASE Zeroed
  BY <1>2 DEF Zeroed, RangeInv
<1>3. CASE UNCHANGED <<allocated, live>>
  BY <1>3 DEF RangeInv, Overlap
<1> QED
  BY <1>1, <1>2, <1>3 DEF Effect, Checked, Passed, Counted, Dirtied

LEMMA AtIsFinite == \A step : IsFiniteSet(At(step)) /\ Cardinality(At(step)) \in Nat
  BY FS_Subset, FS_CardinalityType DEF At

\* A thread that reaches a step joins those that are there.
LEMMA Joins ==
    ASSUME NEW t \in Threads, NEW step, NEW size, thread[t].step # step, Becomes(t, step, size)
    PROVE  /\ At(step)' = At(step) \cup {t}
           /\ Cardinality(At(step)') = Cardinality(At(step)) + 1
<1>1. t \notin At(step) /\ At(step)' = At(step) \cup {t}
  BY DEF At, Becomes
<1> QED
  BY <1>1, AtIsFinite, FS_AddElement

\* A thread that goes on leaves the others where they are.
LEMMA Leaves ==
    ASSUME NEW t \in Threads, NEW step, NEW size, thread[t].step # step,
           Becomes(t, step, size)
    PROVE  /\ t \in At(thread[t].step)
           /\ {u \in Threads : thread'[u].step = thread[t].step} = At(thread[t].step) \ {t}
           /\ Cardinality(At(thread[t].step) \ {t}) = Cardinality(At(thread[t].step)) - 1
<1>1. t \in At(thread[t].step)
  BY DEF At
<1>2. {u \in Threads : thread'[u].step = thread[t].step} = At(thread[t].step) \ {t}
  BY DEF At, Becomes
<1>3. IsFiniteSet(At(thread[t].step))
  BY AtIsFinite
<1> QED
  BY <1>1, <1>2, <1>3, FS_RemoveElement

\* The room that the threads between check and commit may still take.
LEMMA BudgetStep ==
    ASSUME RegionType, BudgetInv, Effect PROVE BudgetInv'
<1> DEFINE L == LargestSize
           A == Cardinality(Adding)
<1>0. /\ allocated \in Nat /\ L \in Nat /\ Limit \in Int
      /\ \A t \in Threads : thread[t].step # "idle" => thread[t].size \in Nat /\ thread[t].size <= L
      /\ IsFiniteSet(Adding) /\ A \in Nat
      /\ Cardinality(Threads) \in Nat
  <2>1. allocated \in Nat /\ L \in Nat /\ Cardinality(Threads) \in Nat
    BY Largest, FS_CardinalityType DEF RegionType
  <2>2. \A t \in Threads : thread[t].step # "idle" => thread[t].size \in Nat /\ thread[t].size <= L
    BY Largest DEF RegionType
  <2>3. IsFiniteSet(Adding) /\ A \in Nat
    BY AtIsFinite DEF Adding
  <2>4. Limit \in Int
    BY <2>1 DEF Limit
  <2> QED
    BY <2>1, <2>2, <2>3, <2>4
<1>1. ASSUME NEW t \in Threads, Checked(t) \/ Counted(t) \/ Dirtied(t) PROVE BudgetInv'
  <2>1. Adding' = Adding /\ allocated' = allocated
    BY <1>1 DEF Checked, Counted, Dirtied, Adding, At, Becomes
  <2>2. \A u \in Adding : thread'[u].size = thread[u].size
    BY <1>1 DEF Checked, Counted, Dirtied, Adding, At, Becomes
  <2> QED
    BY <2>1, <2>2 DEF BudgetInv, Limit
<1>2. ASSUME NEW t \in Threads, Passed(t) PROVE BudgetInv'
  <2>1. Adding' = Adding \cup {t} /\ allocated' = allocated /\ thread'[t].size = thread[t].size
    BY <1>2, Joins DEF Passed, Adding, Becomes
  <2>2. Cardinality(Adding') = A + 1
    BY <1>2, Joins DEF Passed, Adding
  <2>3. A + 1 <= Cardinality(Threads)
    BY <2>2, FS_Subset, Adding' \in SUBSET Threads DEF Adding, At
  <2>4. A * L <= (Cardinality(Threads) - 1) * L
    BY <1>0, <2>3, RoomIsMonotone
  <2>5. thread[t].size \in Nat /\ allocated + thread[t].size <= WorkRegion
    BY <1>0, <1>2 DEF Passed
  <2> HIDE DEF A, L
  <2>6. allocated + thread[t].size + A * L <= Limit
    BY <1>0, <2>4, <2>5 DEF Limit, L
  <2>7. (Cardinality(Adding') - 1) * L = A * L
    BY <1>0, <2>2
  <2>8. t \in Adding'
    BY <2>1
  <2> QED
    BY <2>1, <2>6, <2>7, <2>8 DEF BudgetInv, Limit, L
<1>3. ASSUME NEW t \in Threads, Added(t) PROVE BudgetInv'
  <2>1. Adding' = Adding \ {t} /\ t \in Adding /\ Cardinality(Adding') = A - 1
    BY <1>3, Leaves DEF Added, Adding, At
  <2>2. allocated' = allocated + thread[t].size
    BY <1>3 DEF Added
  <2>3. \A u \in Adding : /\ thread'[u].size = thread[u].size
                          /\ thread[u].size \in Nat /\ thread[u].size <= L
    BY <1>0, <1>3 DEF Added, Adding, At, Becomes
  <2>4. PICK u \in Adding : allocated + thread[u].size + (A - 1) * L <= Limit
    BY <2>1 DEF BudgetInv
  <2>5. A >= 1 /\ (A - 1) * L = (A - 2) * L + L /\ (A - 1) * L >= 0 /\ (A = 1 => (A - 1) * L = 0)
    BY <1>0, <2>1, FS_EmptySet
  <2> HIDE DEF A, L
  <2>6. CASE u = t
    <3>1. \A v \in Adding' :
             allocated' + thread'[v].size + (Cardinality(Adding') - 1) * L <= Limit
      <4> SUFFICES ASSUME NEW v \in Adding'
                   PROVE  allocated' + thread'[v].size + (Cardinality(Adding') - 1) * L <= Limit
        OBVIOUS
      <4>1. v \in Adding
        BY <2>1
      <4> QED
        BY <1>0, <2>1, <2>2, <2>3, <2>4, <2>5, <2>6, <4>1
    <3>2. allocated' <= Limit
      BY <1>0, <2>1, <2>2, <2>3, <2>4, <2>5, <2>6
    <3> QED
      BY <3>1, <3>2 DEF BudgetInv, Limit, L
  <2>7. CASE u # t
    <3>1. u \in Adding' /\ A # 1
      <4>1. u \in Adding' /\ IsFiniteSet(Adding')
        BY <1>0, <2>1, <2>7, FS_RemoveElement
      <4>2. Cardinality(Adding') # 0
        BY <4>1, FS_EmptySet
      <4> QED
        BY <1>0, <2>1, <4>1, <4>2
    <3>2. allocated' + thread'[u].size + (Cardinality(Adding') - 1) * L <= Limit
      BY <1>0, <2>1, <2>2, <2>3, <2>4, <2>5
    <3>3. (A - 2) * L >= 0
      BY <1>0, <2>5, <3>1
    <3>4. allocated' <= Limit
      BY <1>0, <2>1, <2>2, <2>3, <2>4, <2>5, <3>3
    <3> QED
      BY <3>1, <3>2, <3>4 DEF BudgetInv, Limit, L
  <2> QED
    BY <2>6, <2>7
<1>4. CASE Zeroed
  <2>1. allocated' = 0 /\ Adding' = {}
    BY <1>4 DEF Zeroed, Adding, At
  <2>2. (Cardinality(Threads) - 1) * L >= 0
    BY <1>0, FS_EmptySet
  <2>3. 0 <= Limit
    BY <1>0, <2>2 DEF Limit
  <2> QED
    BY <2>1, <2>3 DEF BudgetInv, Limit
<1>5. CASE UNCHANGED <<allocated, count, thread, live>>
  BY <1>5 DEF BudgetInv, Adding, At, Limit
<1> QED
  BY <1>1, <1>2, <1>3, <1>4, <1>5 DEF Effect

\* Every range is counted, or a thread is about to count it.
LEMMA NumberStep ==
    ASSUME RegionType, RangeInv, NumberInv, Effect PROVE NumberInv'
<1>0. count \in Nat /\ IsFiniteSet(live) /\ Cardinality(live) \in Nat
  BY FS_CardinalityType DEF RegionType
<1>1. ASSUME NEW t \in Threads, Checked(t) \/ Passed(t) \/ Dirtied(t) PROVE NumberInv'
  <2>1. Numbering' = Numbering
    BY <1>1 DEF Checked, Passed, Dirtied, Numbering, At, Becomes
  <2> QED
    BY <1>1, <2>1 DEF Checked, Passed, Dirtied, NumberInv
<1>2. ASSUME NEW t \in Threads, Added(t) PROVE NumberInv'
  <2>1. Cardinality(Numbering') = Cardinality(Numbering) + 1 /\ Cardinality(Numbering) \in Nat
    BY <1>2, AtIsFinite, Joins DEF Added, Numbering
  <2>2. Chunk(t) \notin live
    <3>1. thread[t].size \in Nat \ {0} /\ allocated \in Nat
      BY <1>2 DEF Added, RegionType
    <3>2. Chunk(t).to = allocated + thread[t].size - 1
      BY DEF Chunk
    <3> QED
      BY <3>1, <3>2 DEF RangeInv
  <2>3. Cardinality(live') = Cardinality(live) + 1
    BY <1>0, <1>2, <2>2, FS_AddElement DEF Added
  <2> QED
    BY <1>0, <1>2, <2>1, <2>3 DEF Added, NumberInv
<1>3. ASSUME NEW t \in Threads, Counted(t) PROVE NumberInv'
  <2>1. Cardinality(Numbering') = Cardinality(Numbering) - 1 /\ Cardinality(Numbering) \in Nat
    <3>1. Numbering' = Numbering \ {t} /\ Cardinality(Numbering \ {t}) = Cardinality(Numbering) - 1
      BY <1>3, Leaves DEF Counted, Numbering, At
    <3> QED
      BY <3>1, AtIsFinite DEF Numbering
  <2> QED
    BY <1>0, <1>3, <2>1 DEF Counted, NumberInv
<1>4. CASE Zeroed
  <2>1. Numbering' = {}
    BY <1>4 DEF Zeroed, Numbering, At
  <2> QED
    BY <1>4, <2>1, FS_EmptySet DEF Zeroed, NumberInv
<1>5. CASE UNCHANGED <<allocated, count, thread, live>>
  BY <1>5 DEF NumberInv, Numbering, At
<1> QED
  BY <1>1, <1>2, <1>3, <1>4, <1>5 DEF Effect

-----------------------------------------------------------------------------
LEMMA RegionInitInv == Init => RegionInv
<1> SUFFICES ASSUME Init PROVE RegionInv
  OBVIOUS
<1>0. allocated = 0 /\ count = 0 /\ live = {} /\ thread = [t \in Threads |-> Idle]
  BY DEF Init, RegionInit
<1>1. RegionType
  <2>1. Idle \in Work /\ Idle.step = "idle"
    BY DEF Idle, Work, Step
  <2> QED
    BY <1>0, <2>1, FS_EmptySet DEF RegionType
<1>2. RangeInv
  BY <1>0 DEF RangeInv
<1>3. \A step : step # "idle" => At(step) = {}
  BY <1>0 DEF At, Idle
<1>4. BudgetInv
  <2>1. Adding = {}
    BY <1>3 DEF Adding
  <2>2. Cardinality(Threads) \in Nat /\ Cardinality(Threads) # 0
    BY FS_CardinalityType, FS_EmptySet
  <2>3. 0 * LargestSize <= (Cardinality(Threads) - 1) * LargestSize
    BY <2>2, RoomIsMonotone
  <2>4. 0 <= Limit
    BY <2>2, <2>3, Largest DEF Limit
  <2> QED
    BY <1>0, <2>1, <2>4 DEF BudgetInv
<1>5. NumberInv
  BY <1>0, <1>3, FS_EmptySet DEF NumberInv, Numbering
<1> QED
  BY <1>1, <1>2, <1>4, <1>5 DEF RegionInv

\* The inductive invariant of the region holds in every reachable state.
THEOREM RegionInvariance == Spec => []RegionInv
<1>1. RegionInv /\ [Next]_vars => RegionInv'
  BY NextEffect, RegionTypeStep, RangeStep, BudgetStep, NumberStep DEF RegionInv
<1> QED
  BY <1>1, RegionInitInv, PTL DEF Spec

\* The pages of the ranges handed out are those below allocated_bytes.
LEMMA PagesBelow ==
    ASSUME RegionInv PROVE UNION {a.from..a.to : a \in live} = 0 .. allocated - 1
<1>1. allocated \in Nat /\ \A a \in live : a.from \in Nat /\ a.to \in Nat
  BY DEF RegionInv, RegionType
<1>2. ASSUME NEW a \in live, NEW p \in a.from .. a.to PROVE p \in 0 .. allocated - 1
  BY <1>1 DEF RegionInv, RangeInv
<1>3. ASSUME NEW p \in 0 .. allocated - 1 PROVE \E a \in live : p \in a.from .. a.to
  BY <1>1 DEF RegionInv, RangeInv
<1> QED
  BY <1>2, <1>3

\* Ranges handed out by allocate are disjoint, they fill the region without a
\* gap up to allocated_bytes, allocated_bytes exceeds the budget by at most
\* one request of each other thread, and allocation_count is right as soon as
\* no commit is under way, however the threads' loads and adds interleave.
THEOREM RangesAreDisjoint == Spec => []AllocationsAreDisjoint
<1>1. ASSUME RegionInv PROVE AllocationsAreDisjoint
  <2>1. allocated \in Nat /\ count \in Nat
    BY <1>1 DEF RegionInv, RegionType
  <2>2. allocated = Cardinality(UNION {a.from..a.to : a \in live})
    <3>1. Cardinality(0 .. allocated - 1) = allocated
      BY <2>1, 0 \in Int, allocated - 1 \in Int, FS_Interval
    <3> QED
      BY <1>1, <3>1, PagesBelow
  <2>3. /\ Cardinality(Numbering) \in Nat /\ Cardinality(Committing) \in Nat
        /\ Cardinality(Numbering) <= Cardinality(Committing)
    <3>1. Numbering \in SUBSET Committing
      BY DEF Numbering, At, Committing
    <3>2. IsFiniteSet(Committing)
      BY FS_Subset DEF Committing
    <3> QED
      BY <3>1, <3>2, FS_Subset, FS_CardinalityType
  <2>4. count <= Cardinality(live) /\ Cardinality(live) <= count + Cardinality(Committing)
    BY <1>1, <2>1, <2>3 DEF RegionInv, NumberInv
  <2>5. allocated <= WorkRegion + (Cardinality(Threads) - 1) * LargestSize
    BY <1>1 DEF RegionInv, BudgetInv, Limit
  <2>6. \A a, b \in live : a # b => ~Overlap(a, b)
    BY <1>1 DEF RegionInv, RangeInv
  <2> QED
    BY <2>2, <2>4, <2>5, <2>6 DEF AllocationsAreDisjoint
<1> QED
  BY <1>1, RegionInvariance, PTL

-----------------------------------------------------------------------------
(***************************************************************************)
(* Recovery: the index stays sorted, so that the first entry that passes a *)
(* test is the newest one that does.                                       *)
(***************************************************************************)
\* The index holds candidates, newest first.
Sorted(s) == \A i, j \in 1 .. Len(s) : i < j => s[i].at >= s[j].at

HeldSnapshot == [intent : Intents, seq : Nat, registered : BOOLEAN]

IndexInv ==
    /\ index \in Seq(SnapshotCandidate) /\ Sorted(index)
    /\ held \subseteq HeldSnapshot
    /\ seq \in Nat /\ clock \in Nat

\* The entries that are not older than a new one are the first ones.
LEMMA NewerFirst ==
    ASSUME NEW s \in Seq(SnapshotCandidate), Sorted(s), NEW c \in SnapshotCandidate,
           NEW k, k = Cardinality({i \in DOMAIN s : s[i].at >= c.at})
    PROVE  /\ k \in 0 .. Len(s)
           /\ \A i \in 1 .. k : s[i].at >= c.at
           /\ \A i \in k + 1 .. Len(s) : c.at >= s[i].at
<1> DEFINE n == Len(s)
           newer == {i \in DOMAIN s : s[i].at >= c.at}
           older == {i \in 1 .. n + 1 : i \notin newer}
<1>0. n \in Nat /\ DOMAIN s = 1 .. n /\ c.at \in Nat /\ \A i \in 1 .. n : s[i].at \in Nat
  <2>1. n \in Nat /\ DOMAIN s = 1 .. n /\ \A i \in 1 .. n : s[i] \in SnapshotCandidate
    OBVIOUS
  <2> QED
    BY <2>1 DEF SnapshotCandidate
<1>1. n + 1 \in older /\ older \in SUBSET Nat
  BY <1>0
<1>2. PICK m \in older : \A i \in older : m <= i
  BY <1>1, HasMinimum
<1>3. m \in 1 .. n + 1 /\ m <= n + 1 /\ m \notin newer
  BY <1>0, <1>1, <1>2
<1>4. \A i \in 1 .. m - 1 : i \in newer
  BY <1>0, <1>2, <1>3
<1>5. ASSUME NEW i \in m .. n PROVE ~(s[i].at >= c.at)
  <2>1. m \in 1 .. n /\ ~(s[m].at >= c.at) /\ i \in 1 .. n
    BY <1>0, <1>3
  <2>2. i = m \/ s[m].at >= s[i].at
    BY <1>0, <2>1 DEF Sorted
  <2> QED
    BY <1>0, <2>1, <2>2
<1>6. newer = 1 .. m - 1
  BY <1>0, <1>3, <1>4, <1>5
<1>10. k = Cardinality(newer)
  OBVIOUS
<1> HIDE DEF newer, older
<1>7. k = m - 1 /\ m - 1 \in 0 .. n
  <2>1. Cardinality(1 .. m - 1) = m - 1
    BY <1>0, <1>3, 1 \in Int, m - 1 \in Int, FS_Interval
  <2> QED
    BY <1>0, <1>3, <1>6, <1>10, <2>1
<1>8. \A i \in 1 .. k : s[i].at >= c.at
  BY <1>4, <1>7 DEF newer
<1>9. ASSUME NEW i \in k + 1 .. n PROVE c.at >= s[i].at
  <2>1. i \in m .. n /\ i \in 1 .. n
    BY <1>0, <1>3, <1>7
  <2> QED
    BY <1>0, <1>5, <2>1
<1> QED
  BY <1>7, <1>8, <1>9

\* register keeps the index sorted.
LEMMA RegisterSorts ==
    ASSUME NEW s \in Seq(SnapshotCandidate), Sorted(s), NEW c \in SnapshotCandidate
    PROVE  Register(s, c) \in Seq(SnapshotCandidate) /\ Sorted(Register(s, c))
<1> DEFINE k == Cardinality({i \in DOMAIN s : s[i].at >= c.at})
           n == Len(s)
           r == Register(s, c)
<1>0. n \in Nat /\ c.at \in Nat /\ \A i \in 1 .. n : s[i].at \in Nat /\ s[i] \in SnapshotCandidate
  <2>1. n \in Nat /\ \A i \in 1 .. n : s[i] \in SnapshotCandidate
    OBVIOUS
  <2> QED
    BY <2>1 DEF SnapshotCandidate
<1>1. /\ k \in 0 .. n
      /\ \A i \in 1 .. k : s[i].at >= c.at
      /\ \A i \in k + 1 .. n : c.at >= s[i].at
  BY NewerFirst
<1>2. r = SubSeq(s, 1, k) \o <<c>> \o SubSeq(s, k + 1, n)
  <2>1. r = SubSeq(s, 1, (k + 1) - 1) \o <<c>> \o SubSeq(s, k + 1, n)
    BY Zenon DEF Register, InsertAt
  <2> HIDE DEF k, r
  <2>2. (k + 1) - 1 = k
    BY <1>0, <1>1
  <2> QED
    BY <2>1, <2>2
<1> HIDE DEF k, r
<1>3. /\ r \in Seq(SnapshotCandidate) /\ Len(r) = n + 1
      /\ \A i \in 1 .. n + 1 :
            r[i] = IF i <= k THEN s[i] ELSE IF i = k + 1 THEN c ELSE s[i - 1]
  <2> DEFINE front == SubSeq(s, 1, k)
             back == SubSeq(s, k + 1, n)
  <2>1. /\ front \in Seq(SnapshotCandidate) /\ Len(front) = k
        /\ \A i \in 1 .. k : front[i] = s[i]
    BY <1>0, <1>1
  <2>2. /\ back \in Seq(SnapshotCandidate) /\ Len(back) = n - k
        /\ \A i \in 1 .. n - k : back[i] = s[k + i]
    BY <1>0, <1>1
  <2> HIDE DEF front, back
  <2>3. k \in Nat /\ n \in Nat /\ n - k \in Nat
    BY <1>0, <1>1
  <2>4. r = (front \o <<c>>) \o back
    BY <1>2 DEF front, back
  <2> DEFINE fc == front \o <<c>>
  <2>5. /\ fc \in Seq(SnapshotCandidate) /\ Len(fc) = k + 1
        /\ \A i \in 1 .. k : fc[i] = front[i]
        /\ fc[k + 1] = c
    BY <2>1, <2>3
  <2> HIDE DEF fc
  <2>6. /\ r \in Seq(SnapshotCandidate) /\ Len(r) = k + 1 + (n - k)
        /\ \A i \in 1 .. k + 1 : r[i] = fc[i]
        /\ \A i \in k + 2 .. n + 1 : r[i] = back[i - (k + 1)]
    <3>1. r = fc \o back
      BY <2>4 DEF fc
    <3>2. /\ r \in Seq(SnapshotCandidate) /\ Len(r) = Len(fc) + Len(back)
          /\ \A i \in 1 .. Len(fc) + Len(back) :
                r[i] = IF i <= Len(fc) THEN fc[i] ELSE back[i - Len(fc)]
      BY <2>2, <2>5, <3>1, ConcatProperties
    <3>3. ASSUME NEW i \in k + 2 .. n + 1 PROVE r[i] = back[i - (k + 1)]
      <4>1. i \in 1 .. (k + 1) + (n - k) /\ ~(i <= k + 1)
        BY <2>3
      <4> QED
        BY <2>2, <2>5, <3>2, <4>1
    <3>4. ASSUME NEW i \in 1 .. k + 1 PROVE r[i] = fc[i]
      <4>1. i \in 1 .. (k + 1) + (n - k) /\ i <= k + 1
        BY <2>3
      <4> QED
        BY <2>2, <2>5, <3>2, <4>1
    <3> QED
      BY <2>2, <2>5, <3>2, <3>3, <3>4
  <2>7. ASSUME NEW i \in k + 2 .. n + 1 PROVE r[i] = s[i - 1]
    <3>1. i - (k + 1) \in 1 .. n - k /\ k + (i - (k + 1)) = i - 1
      BY <2>3
    <3> QED
      BY <2>2, <2>6, <3>1
  <2>8. ASSUME NEW i \in 1 .. n + 1
        PROVE  r[i] = IF i <= k THEN s[i] ELSE IF i = k + 1 THEN c ELSE s[i - 1]
    BY <2>1, <2>3, <2>5, <2>6, <2>7
  <2> QED
    BY <2>3, <2>6, <2>8
<1>4. ASSUME NEW i \in 1 .. n + 1, NEW j \in 1 .. n + 1, i < j PROVE r[i].at >= r[j].at
  <2> DEFINE a == IF i <= k THEN i ELSE i - 1
             b == IF j <= k THEN j ELSE j - 1
  <2>1. CASE i # k + 1 /\ j # k + 1
    <3>1. a \in 1 .. n /\ b \in 1 .. n /\ a < b
      BY <1>0, <1>1, <1>4, <2>1
    <3>2. r[i] = s[a] /\ r[j] = s[b]
      BY <1>0, <1>1, <1>3, <2>1
    <3> HIDE DEF a, b
    <3>3. s[a].at >= s[b].at
      BY <3>1 DEF Sorted
    <3> QED
      BY <3>2, <3>3
  <2>2. CASE i = k + 1
    <3>1. j - 1 \in k + 1 .. n /\ r[j] = s[j - 1] /\ r[i] = c
      BY <1>0, <1>1, <1>3, <1>4, <2>2
    <3> QED
      BY <1>1, <3>1
  <2>3. CASE j = k + 1
    BY <1>0, <1>1, <1>3, <1>4, <2>3
  <2> QED
    BY <2>1, <2>2, <2>3
<1> QED
  BY <1>3, <1>4 DEF Sorted, r

\* Capture, registration, commit and scan keep the index sorted, in whatever
\* order tasks take them and whatever time a scanned file carries.
LEMMA IndexStep == IndexInv /\ [Next]_vars => IndexInv'
<1> SUFFICES ASSUME IndexInv, [Next]_vars PROVE IndexInv'
  OBVIOUS
<1>0. /\ index \in Seq(SnapshotCandidate) /\ Sorted(index)
      /\ held \subseteq HeldSnapshot /\ seq \in Nat /\ clock \in Nat
  BY DEF IndexInv
<1>1. CASE UNCHANGED recoveryVars
  BY <1>0, <1>1 DEF recoveryVars, IndexInv, Sorted
<1>2. CASE Tick
  BY <1>0, <1>2 DEF Tick, IndexInv, Sorted
<1>3. CASE capture_region(RegionIntent, allocated)
  <2>1. [intent |-> RegionIntent, seq |-> seq, registered |-> FALSE] \in HeldSnapshot
    BY <1>0, RegionAssumption DEF HeldSnapshot
  <2>2. /\ held' = held \cup {[intent |-> RegionIntent, seq |-> seq, registered |-> FALSE]}
        /\ seq' = seq + 1 /\ index' = index /\ clock' = clock
    BY <1>3 DEF capture_region
  <2>3. held' \subseteq HeldSnapshot
    BY <1>0, <2>1, <2>2, Zenon
  <2> QED
    BY <1>0, <2>2, <2>3 DEF IndexInv, Sorted
<1>4. ASSUME NEW s \in held, register_from_snapshot(s) PROVE IndexInv'
  <2> DEFINE c == Candidate(s.intent, s.seq, clock, TRUE, TRUE)
             k == [s EXCEPT !.registered = TRUE]
  <2>1. s \in HeldSnapshot
    BY <1>0, <1>4
  <2>2. c \in SnapshotCandidate /\ k \in HeldSnapshot
    BY <1>0, <2>1 DEF Candidate, SnapshotCandidate, HeldSnapshot
  <2>3. index' = Register(index, c) /\ held' = (held \ {s}) \cup {k}
        /\ UNCHANGED <<seq, clock>>
    BY <1>4 DEF register_from_snapshot
  <2> HIDE DEF c, k
  <2>4. index' \in Seq(SnapshotCandidate) /\ Sorted(index')
    BY <1>0, <2>2, <2>3, RegisterSorts
  <2> QED
    BY <1>0, <2>2, <2>3, <2>4 DEF IndexInv, Sorted
<1>5. ASSUME NEW s \in held, commit_snapshot(s) PROVE IndexInv'
  BY <1>0, <1>5 DEF commit_snapshot, IndexInv, Sorted
<1>6. ASSUME NEW intent \in Intents, NEW at \in 0 .. MaxTime, NEW sig \in BOOLEAN,
             NEW hash \in BOOLEAN, Scan(intent, at, sig, hash)
      PROVE  IndexInv'
  <2> DEFINE c == Candidate(intent, seq, at, sig, hash)
  <2>1. at \in Nat
    BY CountAssumption
  <2>2. c \in SnapshotCandidate
    BY <1>0, <2>1 DEF Candidate, SnapshotCandidate
  <2>3. index' = Register(index, c) /\ seq' = seq + 1 /\ UNCHANGED <<held, clock>>
    BY <1>6 DEF Scan
  <2> HIDE DEF c
  <2>4. index' \in Seq(SnapshotCandidate) /\ Sorted(index')
    BY <1>0, <2>2, <2>3, RegisterSorts
  <2> QED
    BY <1>0, <2>3, <2>4 DEF IndexInv, Sorted
<1>7. ASSUME NEW intent \in Intents, NEW preferred, recover(intent, preferred) PROVE IndexInv'
  BY <1>0, <1>7 DEF recover, IndexInv, Sorted
<1>8. CASE RecoveryNext
  BY <1>2, <1>4, <1>5, <1>6, <1>7, <1>8 DEF RecoveryNext
<1> QED
  BY <1>1, <1>3, <1>8 DEF Next, vars, recoveryVars

\* The index is sorted by time in every reachable state.
THEOREM IndexIsSorted == Spec => []IndexInv
<1>1. Init => IndexInv
  BY DEF Init, RecoveryInit, IndexInv, Sorted
<1> QED
  BY <1>1, IndexStep, PTL DEF Spec

-----------------------------------------------------------------------------
\* find returns the entry at the first of the places it is given.
LEMMA FindsFirst ==
    ASSUME NEW P \in SUBSET Nat, P # {}
    PROVE  \E m \in P : Find(P) = index[m] /\ \A j \in P : m <= j
<1>1. \E m \in P : \A j \in P : m <= j
  BY HasMinimum
<1>2. Min(P) \in P /\ \A j \in P : Min(P) <= j
  BY <1>1 DEF Min
<1> QED
  BY <1>2 DEF Find

LEMMA IndexEntries ==
    ASSUME IndexInv
    PROVE  /\ DOMAIN index \subseteq Nat
           /\ \A i \in DOMAIN index :
                 /\ index[i] \in SnapshotCandidate /\ index[i] # None
                 /\ index[i].seq \in Nat /\ index[i].at \in Nat
           /\ \A i, j \in DOMAIN index : i <= j => index[i].at >= index[j].at
<1>1. index \in Seq(SnapshotCandidate) /\ Sorted(index)
  BY DEF IndexInv
<1>2. Len(index) \in Nat /\ DOMAIN index = 1 .. Len(index)
  BY <1>1
<1>3. \A i \in DOMAIN index : index[i] \in SnapshotCandidate
  BY <1>1
<1>4. \A i \in DOMAIN index : index[i] # None
  BY <1>3, NoneAssumption, Zenon
<1>5. \A i \in DOMAIN index : index[i].seq \in Nat /\ index[i].at \in Nat
  BY <1>3 DEF SnapshotCandidate
<1>6. ASSUME NEW i \in DOMAIN index, NEW j \in DOMAIN index, i <= j
      PROVE  index[i].at >= index[j].at
  <2>1. CASE i = j
    BY <1>5, <2>1
  <2>2. CASE i # j
    BY <1>1, <1>2, <1>6, <2>2 DEF Sorted
  <2> QED
    BY <2>1, <2>2
<1> QED
  BY <1>2, <1>3, <1>4, <1>5, <1>6

\* Whatever a strategy resolves to is an entry of the index for the intent.
LEMMA ResolvesToEntry ==
    ASSUME IndexInv, NEW intent \in Intents, NEW strategy, resolve(intent, strategy) # None,
           strategy.name \in {"LastGood", "Checkpoint", "GitRecover", "CleanBoot"}
    PROVE  \E i \in DOMAIN index :
              /\ resolve(intent, strategy) = index[i] /\ Matches(index[i], intent)
<1> DEFINE c == resolve(intent, strategy)
           P == {i \in DOMAIN index : Matches(index[i], intent)}
<1>1. ASSUME NEW Q \in SUBSET P, c = Find(Q)
      PROVE  \E i \in DOMAIN index : c = index[i] /\ Matches(index[i], intent)
  <2>1. Q # {}
    BY <1>1 DEF Find
  <2>2. Q \in SUBSET Nat
    BY <1>1, IndexEntries
  <2>3. PICK m \in Q : Find(Q) = index[m]
    BY <2>1, <2>2, FindsFirst
  <2> QED
    BY <1>1, <2>3
<1>2. \E Q \in SUBSET P : c = Find(Q)
  <2> HIDE DEF c
  <2>1. CASE strategy.name = "LastGood"
    <3>1. c = Find({i \in DOMAIN index : Matches(index[i], intent) /\ Valid(index[i])})
      BY <2>1 DEF c, resolve, Places
    <3> QED
      BY <3>1
  <2>2. CASE strategy.name = "Checkpoint"
    <3> DEFINE Q == {i \in DOMAIN index :
                      Matches(index[i], intent) /\ index[i].seq <= strategy.target /\ index[i].sig}
    <3>1. c = Find({i \in Q : \A j \in Q : index[j].seq <= index[i].seq})
      BY <2>2 DEF c, resolve, Places, Closest
    <3> QED
      BY <3>1
  <2>3. CASE strategy.name = "GitRecover"
    BY <2>3 DEF c, resolve, Places
  <2>4. CASE strategy.name = "CleanBoot"
    BY <2>4 DEF c, resolve
  <2> QED
    BY <2>1, <2>2, <2>3, <2>4
<1> HIDE DEF c, P
<1> QED
  BY <1>1, <1>2 DEF c

\* Without a preference, recover restores the newest valid snapshot of the
\* intent whenever one is indexed, and boots clean only when there is none,
\* in whatever order snapshots were captured, scanned and registered.
THEOREM CleanBootComesLast == Spec => []CleanBootIsLastResort
<1>1. ASSUME IndexInv, NEW intent \in Intents
      PROVE  LET res == Recovered(intent, None)
             IN IF ValidFor(intent) = {} THEN res.kind = "CleanBooted"
                ELSE /\ res.kind = "Restored"
                     /\ \E i \in ValidFor(intent) : res.snapshot = index[i]
                     /\ \A i \in ValidFor(intent) : index[i].at <= res.snapshot.at
  <2> DEFINE V == ValidFor(intent)
             S == <<Named("LastGood"), Named("Checkpoint"), Named("GitRecover"),
                    Named("CleanBoot")>>
             ending == {k \in DOMAIN S : Ends(intent, S[k])}
             first == S[Min(ending)]
             res == Recovered(intent, None)
  <2>1. /\ DOMAIN S = 1 .. 4
        /\ S[1].name = "LastGood" /\ S[2].name = "Checkpoint" /\ S[3].name = "GitRecover"
        /\ S[4].name = "CleanBoot"
    BY DEF Named
  <2>2. V = {i \in DOMAIN index : Matches(index[i], intent) /\ Valid(index[i])}
    BY DEF ValidFor, Places
  <2>3. res = IF ending = {} THEN [kind |-> "Failed", snapshot |-> None]
              ELSE IF first.name = "CleanBoot" THEN [kind |-> "CleanBooted", snapshot |-> None]
              ELSE [kind |-> "Restored", snapshot |-> resolve(intent, first)]
    BY DEF Recovered, Strategies
  <2> HIDE DEF S, V, res
  <2>4. 4 \in ending /\ ending \in SUBSET Nat
    BY <2>1 DEF Ends
  <2>5. Min(ending) \in ending /\ \A j \in ending : Min(ending) <= j
    <3>1. \E m \in ending : \A j \in ending : m <= j
      BY <2>4, HasMinimum
    <3> QED
      BY <3>1 DEF Min
  <2>6. CASE V = {}
    <3>1. ASSUME NEW k \in ending, k # 4 PROVE FALSE
      <4>1. k \in 1 .. 3 /\ S[k].name \in {"LastGood", "Checkpoint", "GitRecover"}
        BY <2>1, <3>1
      <4>2. resolve(intent, S[k]) # None /\ Valid(resolve(intent, S[k]))
        BY <3>1, <4>1 DEF Ends
      <4>3. PICK i \in DOMAIN index : /\ resolve(intent, S[k]) = index[i]
                                      /\ Matches(index[i], intent)
        BY <1>1, <4>1, <4>2, ResolvesToEntry
      <4> QED
        BY <2>2, <2>6, <4>2, <4>3
    <3>2. first.name = "CleanBoot"
      BY <2>1, <2>5, <3>1
    <3>3. res.kind = "CleanBooted"
      BY <2>3, <2>4, <3>2
    <3> QED
      BY <2>6, <3>3 DEF V, res
  <2>7. CASE V # {}
    <3>1. V \in SUBSET Nat /\ V \in SUBSET DOMAIN index
      BY <1>1, <2>2, IndexEntries
    <3>2. PICK m \in V : Find(V) = index[m] /\ \A j \in V : m <= j
      BY <2>7, <3>1, FindsFirst
    <3>3. resolve(intent, S[1]) = index[m]
      BY <2>1, <2>2, <3>2 DEF resolve, Places
    <3>4. index[m] # None /\ Valid(index[m])
      BY <1>1, <2>2, <3>1, <3>2, IndexEntries
    <3>5. 1 \in ending
      BY <2>1, <3>3, <3>4 DEF Ends
    <3>6. Min(ending) = 1
      BY <2>1, <2>5, <3>5
    <3>7. res.kind = "Restored" /\ res.snapshot = index[m]
      BY <2>1, <2>3, <3>3, <3>5, <3>6
    <3>8. \A i \in V : index[i].at <= index[m].at
      BY <1>1, <3>1, <3>2, IndexEntries
    <3> QED
      BY <2>7, <3>2, <3>7, <3>8 DEF V, res
  <2> QED
    BY <2>6, <2>7 DEF V
<1>2. IndexInv => CleanBootIsLastResort
  BY <1>1 DEF CleanBootIsLastResort
<1> QED
  BY <1>2, IndexIsSorted, PTL

\* The checkpoint that recover restores is valid, not after the target, and
\* no valid one of the intent lies between it and the target.
THEOREM CheckpointComesClose == Spec => []CheckpointIsClosest
<1>1. ASSUME IndexInv, NEW intent \in Intents, NEW target \in 0 .. MaxSnapshots
      PROVE  LET res == Recovered(intent, [name |-> "Checkpoint", target |-> target])
             IN res.kind = "Restored" =>
                   /\ \E i \in ValidFor(intent) : res.snapshot = index[i]
                   /\ res.snapshot.seq <= target
                   /\ \A i \in ValidFor(intent) :
                         index[i].seq <= target => index[i].seq <= res.snapshot.seq
  <2> DEFINE strategy == [name |-> "Checkpoint", target |-> target]
             ending == {k \in DOMAIN <<strategy>> : Ends(intent, <<strategy>>[k])}
             first == <<strategy>>[Min(ending)]
             res == Recovered(intent, strategy)
             Q == {i \in DOMAIN index :
                      Matches(index[i], intent) /\ index[i].seq <= target /\ index[i].sig}
             C == {i \in Q : \A j \in Q : index[j].seq <= index[i].seq}
  <2>1. strategy # None
    <3>1. strategy \in Strategy
      BY DEF Strategy
    <3> QED
      BY <3>1, NoneAssumption, Zenon
  <2>2. res = IF ending = {} THEN [kind |-> "Failed", snapshot |-> None]
              ELSE IF first.name = "CleanBoot" THEN [kind |-> "CleanBooted", snapshot |-> None]
              ELSE [kind |-> "Restored", snapshot |-> resolve(intent, first)]
    BY <2>1 DEF Recovered, Strategies
  <2> HIDE DEF res
  <2> SUFFICES ASSUME res.kind = "Restored"
               PROVE  /\ \E i \in ValidFor(intent) : res.snapshot = index[i]
                      /\ res.snapshot.seq <= target
                      /\ \A i \in ValidFor(intent) :
                            index[i].seq <= target => index[i].seq <= res.snapshot.seq
    BY DEF res
  <2>3. ending # {}
    BY <2>2
  <2>4. ending = {1} /\ Ends(intent, strategy)
    BY <2>3
  <2>5. Min(ending) = 1
    BY <2>4 DEF Min
  <2>6. first = strategy
    BY <2>5
  <2>7. res.snapshot = resolve(intent, strategy)
    BY <2>2, <2>3, <2>6
  <2>8. resolve(intent, strategy) = Find(C)
    BY DEF resolve, Places, Closest
  <2>9. Find(C) # None /\ Valid(Find(C))
    BY <2>4, <2>8 DEF Ends
  <2> HIDE DEF strategy, ending, first
  <2>10. C # {} /\ C \in SUBSET Nat /\ C \in SUBSET Q /\ Q \in SUBSET DOMAIN index
    BY <1>1, <2>9, IndexEntries DEF Find
  <2>11. PICK m \in C : Find(C) = index[m]
    BY <2>10, FindsFirst
  <2>12. m \in ValidFor(intent)
    BY <2>9, <2>10, <2>11 DEF ValidFor, Places
  <2>13. ASSUME NEW i \in ValidFor(intent), index[i].seq <= target PROVE i \in Q
    BY <2>13 DEF ValidFor, Places, Valid
  <2> QED
    BY <2>7, <2>8, <2>11, <2>12, <2>13
<1>2. IndexInv => CheckpointIsClosest
  BY <1>1 DEF CheckpointIsClosest
<1> QED
  BY <1>2, IndexIsSorted, PTL

=============================================================================
