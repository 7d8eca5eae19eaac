------------------------------ MODULE UpipPager ------------------------------
(***************************************************************************)
(* The UPIP pager (upip_pager.rs): chunks of sandbox memory are sealed,    *)
(* put away under a fork token, and paged in again, one by one or as the   *)
(* task they belong to.                                                    *)
(*                                                                         *)
(* A task is an intent with a bus sequence number.  The id of a token is   *)
(* its place in the vector of tokens, which never shrinks.  Hashes and     *)
(* signature are reduced to whether the seal still fits the token, bytes   *)
(* to their number, clocks are left out.  Percentages are exact here and   *)
(* floating point in the code.                                             *)
(***************************************************************************)
EXTENDS Integers, Sequences, FiniteSetsExt

CONSTANTS
    Tasks,            \* intent and bus_seq of the chunks
    Kernels,          \* the kernels a chunk may continue on
    ChunkSize,        \* chunk_size
    MaxPagedChunks,   \* MAX_PAGED_CHUNKS
    Single, Bulk,     \* the lengths of the data paged out at once, and in chunks
    Regions,          \* budgets and allocations check_pressure is asked about
    MaxAccess,        \* bound: how often a chunk is paged in
    MaxFaults         \* bound: seals found broken by page_in, chunks sent away

ASSUME ChunkAssumption == ChunkSize \in Nat \ {0} /\ MaxPagedChunks \in Nat \ {0}
ASSUME InputAssumption == Single \cup Bulk \subseteq Nat /\ Regions \subseteq Nat
ASSUME BoundAssumption == MaxAccess \in Nat /\ MaxFaults \in Nat

VARIABLES
    tokens,                \* every fork token ever made, in order
    next_token_id,
    pages_out, pages_in,
    bytes_paged_out, bytes_paged_in,
    integrity_violations,
    remote_continuations,
    result                 \* what the last call returned

counters == <<next_token_id, pages_out, bytes_paged_out>>
vars == <<tokens, next_token_id, pages_out, pages_in, bytes_paged_out,
          bytes_paged_in, integrity_violations, remote_continuations, result>>

None      == 0                     \* total_chunks before a bulk sets it
Local     == "Archivaris"          \* storage of a chunk this kernel keeps
States    == {"PagedOut", "PagedIn", "Consumed", "Invalid"}
Indices   == 1 .. Len(tokens)

ForkToken == [task : Tasks, offset : Nat, raw_size : Nat \ {0},
              total_chunks : Nat, state : States, sealed : BOOLEAN,
              storage : {Local} \cup Kernels, access_count : Nat]

Token(task, offset, size) ==
    [task |-> task, offset |-> offset, raw_size |-> size, total_chunks |-> None,
     state |-> "PagedOut", sealed |-> TRUE, storage |-> Local, access_count |-> 0]

Ops   == {"new", "page_out", "page_out_bulk", "page_in", "consume", "assemble",
          "prepare_continuation"}
Kinds == {"None", "Empty", "MaxReached", "Success", "returned", "panicked",
          "IntegrityViolation", "AlreadyConsumed", "TokenNotFound", "true",
          "IntegrityFailed", "Incomplete", "Complete", "Some"}
Returned(op, kind, n, bytes) == [op |-> op, kind |-> kind, n |-> n, bytes |-> bytes]

Init ==
    /\ tokens = <<>> /\ next_token_id = 0
    /\ pages_out = 0 /\ pages_in = 0
    /\ bytes_paged_out = 0 /\ bytes_paged_in = 0
    /\ integrity_violations = 0 /\ remote_continuations = 0
    /\ result = Returned("new", "None", 0, 0)

-----------------------------------------------------------------------------
(***************************************************************************)
(* Memory pressure                                                         *)
(***************************************************************************)
Ceil(n) == (n + ChunkSize - 1) \div ChunkSize
Saturating(n) == IF n < 0 THEN 0 ELSE n

\* The chunks to free to come down to pct per cent of the budget.
ChunksToFree(allocated, budget, pct) ==
    Ceil(Saturating(allocated - (budget * pct) \div 100))

Utilised(allocated, budget, pct) ==
    allocated * 100 >= budget * pct /\ (allocated > 0 \/ budget > 0)

check_pressure(allocated, budget) ==
    IF Utilised(allocated, budget, 100)
    THEN [level |-> "Exhausted", chunks |-> 0]
    ELSE IF Utilised(allocated, budget, 95)
    THEN [level |-> "Critical", chunks |-> ChunksToFree(allocated, budget, 80)]
    ELSE IF Utilised(allocated, budget, 80)
    THEN [level |-> "Elevated", chunks |-> ChunksToFree(allocated, budget, 70)]
    ELSE [level |-> "Normal", chunks |-> 0]

\* Where the chunks start that are to go first, counted from the end.
find_coldest_offsets(allocated, count) ==
    LET first == Saturating(allocated - ChunkSize * count)
    IN  {first + ChunkSize * i : i \in {j \in 0 .. count - 1 :
            first + ChunkSize * (j + 1) <= allocated}}

-----------------------------------------------------------------------------
(***************************************************************************)
(* Out                                                                     *)
(***************************************************************************)
Full == Len(tokens) >= MaxPagedChunks

\* MUTANT: the id is drawn before the limit is looked at.
page_out_EarlyId(task, offset, len) ==
    /\ next_token_id' = next_token_id + 1
    /\ IF len = 0 \/ Full
       THEN /\ result' = Returned("page_out", IF len = 0 THEN "Empty" ELSE "MaxReached", 0, 0)
            /\ UNCHANGED <<tokens, pages_out, bytes_paged_out>>
       ELSE /\ tokens' = Append(tokens, Token(task, offset, len))
            /\ pages_out' = pages_out + 1
            /\ bytes_paged_out' = bytes_paged_out + len
            /\ result' = Returned("page_out", "Success", 1, len)
    /\ UNCHANGED <<pages_in, bytes_paged_in, integrity_violations, remote_continuations>>

page_out(task, offset, len) ==
    /\ IF len = 0 \/ Full
       THEN /\ result' = Returned("page_out", IF len = 0 THEN "Empty" ELSE "MaxReached", 0, 0)
            /\ UNCHANGED <<tokens, counters>>
       ELSE /\ tokens' = Append(tokens, Token(task, offset, len))
            /\ next_token_id' = next_token_id + 1
            /\ pages_out' = pages_out + 1
            /\ bytes_paged_out' = bytes_paged_out + len
            /\ result' = Returned("page_out", "Success", 1, len)
    /\ UNCHANGED <<pages_in, bytes_paged_in, integrity_violations, remote_continuations>>

\* The k-th piece of a bulk, and the bytes of its first k.
Piece(task, base, len, k) ==
    LET from == (k - 1) * ChunkSize
    IN  Token(task, base + from, Min({ChunkSize, len - from}))
BytesOf(len, k) == Min({len, k * ChunkSize})

\* The pieces for which there is room; the others fail, one by one.
Fitting(len) == Min({Ceil(len), MaxPagedChunks - Len(tokens)})

\* Every unlabelled token from start_seq on belongs, for the code, to the bulk.
Label(ts, start_seq, total) ==
    [i \in DOMAIN ts |-> IF i - 1 >= start_seq /\ ts[i].total_chunks = None
                         THEN [ts[i] EXCEPT !.total_chunks = total] ELSE ts[i]]

\* MUTANT: the label is counted from one token too far back.
Label_OffByOne(ts, start_seq, total) ==
    [i \in DOMAIN ts |-> IF i >= start_seq /\ ts[i].total_chunks = None
                         THEN [ts[i] EXCEPT !.total_chunks = total] ELSE ts[i]]

\* MUTANT: see Label_OffByOne.
page_out_bulk_Label(task, base, len) ==
    LET fit == Fitting(len)
        all == tokens \o [k \in 1 .. fit |-> Piece(task, base, len, k)]
    IN  /\ tokens' = Label_OffByOne(all, next_token_id + fit - Ceil(len), Ceil(len))
        /\ next_token_id' = next_token_id + fit
        /\ pages_out' = pages_out + fit
        /\ bytes_paged_out' = bytes_paged_out + BytesOf(len, fit)
        /\ result' = Returned("page_out_bulk", "returned", Ceil(len) - fit, BytesOf(len, fit))
        /\ UNCHANGED <<pages_in, bytes_paged_in, integrity_violations, remote_continuations>>

\* The pieces that failed count in the total, and start_seq is an unsigned
\* difference: below zero it panics or, unchecked, wraps to a number no
\* token reaches.  Either way no token is labelled.
page_out_bulk(task, base, len) ==
    LET total == Ceil(len)
        fit   == Fitting(len)
        all   == tokens \o [k \in 1 .. fit |-> Piece(task, base, len, k)]
        start == next_token_id + fit - total
    IN  /\ \/ /\ start >= 0
              /\ tokens' = Label(all, start, total)
              /\ result' = Returned("page_out_bulk", "returned", total - fit, BytesOf(len, fit))
           \/ /\ start < 0
              /\ tokens' = all
              /\ \E kind \in {"returned", "panicked"} :
                    result' = Returned("page_out_bulk", kind, total - fit, BytesOf(len, fit))
        /\ next_token_id' = next_token_id + fit
        /\ pages_out' = pages_out + fit
        /\ bytes_paged_out' = bytes_paged_out + BytesOf(len, fit)
        /\ UNCHANGED <<pages_in, bytes_paged_in, integrity_violations, remote_continuations>>

-----------------------------------------------------------------------------
(***************************************************************************)
(* In                                                                      *)
(***************************************************************************)
Restored(t, state) == [t EXCEPT !.state = state, !.access_count = @ + 1]

page_in_success(i) ==
    /\ tokens[i].state # "Consumed" /\ tokens[i].sealed
    /\ tokens[i].access_count < MaxAccess
    /\ tokens' = [tokens EXCEPT ![i] = Restored(@, "PagedIn")]
    /\ pages_in' = pages_in + 1
    /\ bytes_paged_in' = bytes_paged_in + tokens[i].raw_size
    /\ result' = Returned("page_in", "Success", 1, 0)
    /\ UNCHANGED <<counters, integrity_violations, remote_continuations>>

page_in_violation(i) ==
    /\ tokens[i].state # "Consumed" /\ ~tokens[i].sealed
    /\ integrity_violations < MaxFaults
    /\ tokens' = [tokens EXCEPT ![i].state = "Invalid"]
    /\ integrity_violations' = integrity_violations + 1
    /\ result' = Returned("page_in", "IntegrityViolation", 0, 0)
    /\ UNCHANGED <<counters, pages_in, bytes_paged_in, remote_continuations>>

\* TokenNotFound, for an id past the end, or AlreadyConsumed.
page_in_refused(i) ==
    /\ i \in Indices => tokens[i].state = "Consumed"
    /\ result' = Returned("page_in", IF i \in Indices THEN "AlreadyConsumed"
                                     ELSE "TokenNotFound", 0, 0)
    /\ UNCHANGED <<tokens, counters, pages_in, bytes_paged_in,
                   integrity_violations, remote_continuations>>

\* MUTANT: a consumed token can be paged in again.
page_in_Reuse(i) ==
    \/ /\ i \in Indices /\ tokens[i].sealed /\ tokens[i].access_count < MaxAccess
       /\ tokens' = [tokens EXCEPT ![i] = Restored(@, "PagedIn")]
       /\ pages_in' = pages_in + 1
       /\ bytes_paged_in' = bytes_paged_in + tokens[i].raw_size
       /\ result' = Returned("page_in", "Success", 1, 0)
       /\ UNCHANGED <<counters, integrity_violations, remote_continuations>>
    \/ i \in Indices /\ page_in_violation(i)

page_in(i) ==
    \/ i \in Indices /\ (page_in_success(i) \/ page_in_violation(i))
    \/ page_in_refused(i)

\* In whatever state the token is.
consume(i) ==
    /\ tokens' = [tokens EXCEPT ![i].state = "Consumed"]
    /\ result' = Returned("consume", "true", 0, 0)
    /\ UNCHANGED <<counters, pages_in, bytes_paged_in,
                   integrity_violations, remote_continuations>>

\* The tokens of the task that assemble takes up.
Pending(task) ==
    {i \in Indices : tokens[i].task = task /\ tokens[i].state \in {"PagedOut", "PagedIn"}}

\* Up to the first seal that does not fit, each is paged in and consumed.
Served(task) ==
    {i \in Pending(task) : \A j \in Pending(task) : j <= i => tokens[j].sealed}

Bytes(indices) == SumFunctionOnSet([i \in Indices |-> tokens[i].raw_size], indices)

assemble(task) ==
    LET pending == Pending(task)
        served  == Served(task)
        failed  == pending \ served
    IN  /\ \A i \in served : tokens[i].access_count < MaxAccess
        /\ tokens' = [i \in Indices |->
                        IF i \in served THEN Restored(tokens[i], "Consumed")
                        ELSE IF failed # {} /\ i = Min(failed)
                             THEN [tokens[i] EXCEPT !.state = "Invalid"] ELSE tokens[i]]
        /\ pages_in' = pages_in + Cardinality(served)
        /\ bytes_paged_in' = bytes_paged_in + Bytes(served)
        /\ integrity_violations' = integrity_violations + (IF failed = {} THEN 0 ELSE 1)
        /\ result' = IF failed # {}
                     THEN Returned("assemble", "IntegrityFailed", 0, 0)
                     ELSE Returned("assemble",
                                   IF pending = {} THEN "Incomplete" ELSE "Complete",
                                   Cardinality(served), Bytes(served))
        /\ UNCHANGED <<counters, remote_continuations>>

\* The token goes to the other kernel; the own copy stays as it is.
prepare_continuation(i, kernel) ==
    /\ remote_continuations < MaxFaults
    /\ tokens' = [tokens EXCEPT ![i].storage = kernel]
    /\ remote_continuations' = remote_continuations + 1
    /\ result' = Returned("prepare_continuation", "Some", 0, 0)
    /\ UNCHANGED <<counters, pages_in, bytes_paged_in, integrity_violations>>

\* Outside the pager: the tokens are public, and are stored and sent.
Tamper(i) ==
    /\ tokens[i].sealed
    /\ tokens' = [tokens EXCEPT ![i].sealed = FALSE]
    /\ UNCHANGED <<counters, pages_in, bytes_paged_in, integrity_violations,
                   remote_continuations, result>>

active_tokens == {i \in Indices : tokens[i].state = "PagedOut"}
bytes_currently_paged == Bytes(active_tokens)

Next ==
    \/ \E t \in Tasks : \/ \E len \in Single : page_out(t, 0, len)
                       \/ \E len \in Bulk : page_out_bulk(t, 0, len)
    \/ \E i \in 1 .. MaxPagedChunks : page_in(i)
    \/ \E i \in Indices : consume(i) \/ Tamper(i)
    \/ \E t \in Tasks : assemble(t)
    \/ \E i \in Indices, k \in Kernels : prepare_continuation(i, k)

Spec == Init /\ [][Next]_vars

-----------------------------------------------------------------------------
(***************************************************************************)
(* Properties                                                              *)
(***************************************************************************)
\* Every variable has its type; in particular no token stands for an empty
\* chunk, and there are never more than MAX_PAGED_CHUNKS.
TypeOK ==
    /\ tokens \in Seq(ForkToken) /\ Len(tokens) <= MaxPagedChunks
    /\ {next_token_id, pages_out, pages_in, bytes_paged_out, bytes_paged_in,
        integrity_violations, remote_continuations} \subseteq Nat
    /\ result.op \in Ops /\ result.kind \in Kinds
    /\ result.n \in Nat /\ result.bytes \in Nat

\* The statistics add up to the tokens whatever calls failed in between: ids
\* are the places of the tokens (a failed page_out draws none), what went out
\* is the size of all tokens, what came in their size as often as each was
\* paged in, and what stats reports as paged now is never more than went out.
Accounting ==
    /\ next_token_id = Len(tokens) /\ pages_out = Len(tokens)
    /\ bytes_paged_out = Bytes(Indices)
    /\ pages_in = SumFunctionOnSet([i \in Indices |-> tokens[i].access_count], Indices)
    /\ bytes_paged_in =
         SumFunctionOnSet([i \in Indices |-> tokens[i].access_count * tokens[i].raw_size], Indices)
    /\ bytes_currently_paged <= bytes_paged_out

\* What may become of a token: a consumed one is never paged in, assembled or
\* reported again; bytes are handed out only under a seal that fits, be it by
\* page_in or in the middle of an assembly; an invalid one is not restored
\* unless its seal fits again; the task, place and size never change.
TokenLifecycle ==
    [][\A i \in Indices :
        LET t == tokens[i]
            u == tokens'[i]
        IN  /\ t.state = "Consumed" => u.state = "Consumed" /\ u.access_count = t.access_count
            /\ u.access_count # t.access_count => t.sealed /\ u.state \in {"PagedIn", "Consumed"}
            /\ u.state = "PagedOut" => t.state = "PagedOut"
            /\ u.task = t.task /\ u.offset = t.offset /\ u.raw_size = t.raw_size]_vars

\* A bulk of which no piece failed cuts its data into pieces that follow one
\* another, the last one short if need be, labels exactly its own tokens with
\* their number and leaves every earlier token as it was, labelled or not.
BulkIsWhole ==
    [][result'.op = "page_out_bulk" /\ result'.n = 0 /\ Len(tokens') > Len(tokens) =>
        LET new == Len(tokens) + 1 .. Len(tokens')
        IN  /\ \A i \in Indices : tokens'[i] = tokens[i]
            /\ \A i \in new :
                 /\ tokens'[i].total_chunks = Cardinality(new)
                 /\ i + 1 \in new => tokens'[i + 1].offset = tokens'[i].offset + tokens'[i].raw_size
            /\ result'.bytes = SumFunctionOnSet([i \in new |-> tokens'[i].raw_size], new)]_vars

\* check_pressure and find_coldest_offsets fit together: the chunks offered
\* lie inside the allocation and do not overlap, and once as many as asked for
\* are gone the allocation is down to the target (70 per cent for Elevated, 80
\* for Critical), although the target is cut to whole bytes and the chunks are
\* whole.  A
\* budget so small that its target is less than a chunk is left out: there
\* the allocation does not hold that many chunks.
PressureIsRelieved ==
    \A allocated, budget \in Regions :
        LET p     == check_pressure(allocated, budget)
            cold  == find_coldest_offsets(allocated, p.chunks)
            after == allocated - ChunkSize * Cardinality(cold)
        IN  /\ \A o \in cold : o >= 0 /\ o + ChunkSize <= allocated
            /\ \A o, q \in cold : o < q => o + ChunkSize <= q
            /\ p.level \in {"Critical", "Elevated"} /\ ChunkSize * p.chunks <= allocated =>
                 /\ cold # {}
                 /\ after * 100 <= budget * (IF p.level = "Elevated" THEN 70 ELSE 80)

\* "All chunks assembled successfully" (upip_pager.rs:226): when assemble says
\* Complete, no chunk of the task has failed its verification.
CompleteMeansAll ==
    [][\A t \in Tasks : assemble(t) /\ result'.kind = "Complete" =>
        \A i \in Indices : tokens[i].task = t => tokens[i].state # "Invalid"]_vars

\* "Maximum chunks that can be paged out simultaneously" (upip_pager.rs:88):
\* a chunk is refused only when that many are paged out.
RefusesOnlyWhenFull ==
    [][result'.op = "page_out" /\ result'.kind = "MaxReached" =>
        Cardinality(active_tokens) >= MaxPagedChunks]_vars
==============================================================================
