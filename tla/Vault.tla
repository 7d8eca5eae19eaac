------------------------------- MODULE Vault -------------------------------
(***************************************************************************)
(* An engine of Bifurcation and its user.  The user is the Archivaris of   *)
(* src/crates/trust-kernel/src/archivaris.rs, which keeps its engine to    *)
(* itself and reaches it through vault_store and vault_retrieve only, or a *)
(* program that calls the engine and the parallel functions directly and   *)
(* keeps the blocks itself.  Blocks may be damaged while they are stored.  *)
(***************************************************************************)
EXTENDS Bifurcation

CONSTANTS MaxBlocks,  \* bound: blocks kept
          MaxBatch,   \* bound: blocks in a batch
          MaxReads,   \* bound: answers counted by the engine
          MaxFaults   \* bound: blocks damaged

ASSUME BoundAssumption == /\ {MaxBlocks, MaxBatch, MaxReads, MaxFaults} \subseteq Nat
                          /\ MaxBatch > 0

VARIABLES owner,    \* who uses the engine
          engine,   \* its state
          drawn,    \* ephemeral keys drawn so far
          blocks,   \* the vault, or the blocks the program keeps
          given,    \* for each of them, the plaintext and level it was sealed with
          archive,  \* the append-only log of the Archivaris
          faults

vars == <<owner, engine, drawn, blocks, given, archive, faults>>

Init == /\ owner \in {"archivaris", "program"}
        /\ engine = NewEngine
        /\ drawn = 0
        /\ blocks = << >> /\ given = << >> /\ archive = << >>
        /\ faults = 0

(* Sealing. *)
Entry(type, index) == [type |-> type, block |-> index]

\* The blocks made join the ones kept.
Keeps(made, texts, required) ==
    /\ Len(blocks) + Len(made) <= MaxBlocks
    /\ blocks' = blocks \o made
    /\ given' = given \o [i \in DOMAIN texts |-> [text |-> texts[i], required |-> required]]
    /\ UNCHANGED <<owner, faults>>

vault_store(data, required) ==
    /\ owner = "archivaris"
    /\ LET res == seal(engine, drawn, data, Len(blocks), required)
       IN engine' = res.engine /\ Keeps(res.blocks, <<data>>, required)
    /\ archive' = Append(archive, Entry("VAULT_SEAL", Len(blocks)))
    /\ drawn' = drawn + 1

Seal(data, index, required) ==
    /\ owner = "program"
    /\ LET res == seal(engine, drawn, data, index, required)
       IN engine' = res.engine /\ Keeps(res.blocks, <<data>>, required)
    /\ drawn' = drawn + 1
    /\ UNCHANGED archive

\* A key pair is drawn when the session is over.
DrawsForSession == drawn' = IF is_valid(engine.session) THEN drawn ELSE drawn + 1

SealSession(data, index, required) ==
    /\ owner = "program"
    /\ LET res == seal_session(engine, drawn, data, index, required)
       IN engine' = res.engine /\ Keeps(res.blocks, <<data>>, required)
    /\ DrawsForSession
    /\ UNCHANGED archive

SealBatch(texts, required) ==
    /\ owner = "program"
    /\ LET res == seal_batch(engine, drawn, texts, required)
       IN engine' = res.engine /\ Keeps(res.blocks, texts, required)
    /\ DrawsForSession
    /\ UNCHANGED archive

ParallelSeal(texts, required) ==
    /\ owner = "program"
    /\ Keeps(parallel_seal(drawn, texts, required), texts, required)
    /\ drawn' = drawn + Len(texts)
    /\ UNCHANGED <<engine, archive>>

(* The session ends and the cache is emptied. *)
RotateSession ==
    /\ owner = "program" /\ engine.session # NoSession
    /\ engine' = rotate_session(engine)
    /\ UNCHANGED <<owner, drawn, blocks, given, archive, faults>>

\* Five minutes pass.
SessionAges ==
    /\ engine.session # NoSession /\ ~engine.session.expired
    /\ engine' = [engine EXCEPT !.session.expired = TRUE]
    /\ UNCHANGED <<owner, drawn, blocks, given, archive, faults>>

Flush ==
    /\ owner = "program" /\ engine.cache # << >>
    /\ engine' = flush(engine)
    /\ UNCHANGED <<owner, drawn, blocks, given, archive, faults>>

(* Opening.  vault_retrieve of an index without a block, and parallel_open, change nothing. *)
Answers(e) == e.opened + e.denied + e.invalid + e.failed

\* MUTANT: a denial is not logged.
vault_retrieve_DenialUnlogged(i, claim) ==
    LET res == open(engine, blocks[i], claim)
    IN /\ owner = "archivaris"
       /\ Answers(engine) < MaxReads
       /\ engine' = res.engine
       /\ archive' = IF res.kind = "Opened" THEN Append(archive, Entry("VAULT_OPEN", i - 1))
                                            ELSE archive
       /\ UNCHANGED <<owner, drawn, blocks, given, faults>>

\* Openings and denials are logged, invalid claims and damaged blocks are not.
vault_retrieve(i, claim) ==
    LET res == open(engine, blocks[i], claim)
    IN /\ owner = "archivaris"
       /\ Answers(engine) < MaxReads
       /\ engine' = res.engine
       /\ archive' = CASE res.kind = "Opened"       -> Append(archive, Entry("VAULT_OPEN", i - 1))
                       [] res.kind = "AccessDenied" -> Append(archive, Entry("VAULT_DENIED", i - 1))
                       [] OTHER                     -> archive
       /\ UNCHANGED <<owner, drawn, blocks, given, faults>>

Open(i, claim) ==
    LET res == open(engine, blocks[i], claim)
    IN /\ owner = "program"
       /\ Answers(engine) < MaxReads
       /\ engine' = res.engine
       /\ UNCHANGED <<owner, drawn, blocks, given, archive, faults>>

OpenBatch(claim) ==
    LET res == open_batch(engine, blocks, claim)
    IN /\ owner = "program"
       /\ Answers(res.engine) <= MaxReads
       /\ engine' = res.engine
       /\ UNCHANGED <<owner, drawn, blocks, given, archive, faults>>

\* A stored block is damaged: its ciphertext, or the hash beside it.
Damage(i) ==
    /\ faults < MaxFaults
    /\ faults' = faults + 1
    /\ \/ blocks' = [blocks EXCEPT ![i].cipher.text = Garbage]
       \/ blocks' = [blocks EXCEPT ![i].hash = Garbage]
    /\ UNCHANGED <<owner, engine, drawn, given, archive>>

\* Every block gets a plaintext of its own: the engine compares it with its own hash only.
Unused == Data \ {given[i].text : i \in DOMAIN given}

Batches == {texts \in UNION {[1..n -> Unused] : n \in 1..MaxBatch} : IsInjective(texts)}

Next == \/ \E data \in Unused, required \in Clearance :
              \/ vault_store(data, required)
              \/ \E index \in 0..1 : Seal(data, index, required) \/ SealSession(data, index, required)
        \/ \E texts \in Batches, required \in Clearance :
              SealBatch(texts, required) \/ ParallelSeal(texts, required)
        \/ RotateSession \/ SessionAges \/ Flush
        \/ \E claim \in JisClaim :
              \/ OpenBatch(claim)
              \/ \E i \in DOMAIN blocks : vault_retrieve(i, claim) \/ Open(i, claim)
        \/ \E i \in DOMAIN blocks : Damage(i)

Spec == Init /\ [][Next]_vars

-----------------------------------------------------------------------------

IsCounter(e) == {e.sealed, e.opened, e.denied, e.invalid, e.failed} \subseteq Nat

\* Engine, blocks and answers keep their types.
TypeOK == /\ owner \in {"archivaris", "program"}
          /\ IsCounter(engine) /\ drawn \in Nat /\ faults \in 0..MaxFaults
          /\ DOMAIN engine.cache \subseteq (0..drawn) \X Nat
          /\ Len(blocks) <= MaxBlocks /\ DOMAIN given = DOMAIN blocks
          /\ \A i \in DOMAIN blocks : blocks[i].eph < drawn /\ blocks[i].required \in Clearance

Intact(i) == blocks[i].cipher.text = given[i].text /\ blocks[i].hash = given[i].text

(***************************************************************************)
(* Whatever was cached, cleared, rotated or aged since (bifurcation.rs:589,*)
(* :865), a claim with the level a block was sealed with opens it, by one  *)
(* engine or by parallel_open, unless the block itself was damaged.        *)
(***************************************************************************)
SealedStaysReadable ==
    \A i \in DOMAIN blocks : Intact(i) =>
        LET claim == [wellFormed |-> TRUE, clearance |-> given[i].required]
        IN /\ open(engine, blocks[i], claim).texts = <<given[i].text>>
           /\ parallel_open(<<blocks[i]>>, claim).texts = <<given[i].text>>

(***************************************************************************)
(* For every claim, open_batch and parallel_open (bifurcation.rs:1150,     *)
(* :1370) answer with the plaintexts that were sealed, in their order, of  *)
(* exactly the blocks that the claim's level reaches and whose hash is     *)
(* right, and with none of them for a claim that is not well formed; a     *)
(* damaged ciphertext stops the batch.                                     *)
(***************************************************************************)
ReadsWhatWasSealed ==
    \A claim \in JisClaim :
        LET Reaches(i) == claim.wellFormed /\ given[i].required <= claim.clearance
            broken     == \E i \in DOMAIN blocks : Reaches(i) /\ blocks[i].cipher.text = Garbage
            readable   == InOrder({i \in DOMAIN blocks : Reaches(i) /\ blocks[i].hash = given[i].text})
            texts      == IF broken THEN << >>
                          ELSE [i \in DOMAIN readable |-> given[readable[i]].text]
        IN /\ open_batch(engine, blocks, claim).texts = texts
           /\ parallel_open(blocks, claim).texts = texts

SealedUnder(eph) == Cardinality({i \in DOMAIN blocks : blocks[i].eph = eph})

(***************************************************************************)
(* The key cache keeps its limit (bifurcation.rs:590).  The session counts *)
(* every block sealed with its key, and no key seals more than the         *)
(* session's limit and the rest of one batch: seal_batch looks at the      *)
(* limit before its first block only (bifurcation.rs:1048).                *)
(***************************************************************************)
LimitsHold ==
    /\ Cardinality(DOMAIN engine.cache) <= MaxEntries
    /\ engine.session # NoSession => engine.session.sealed = SealedUnder(engine.session.eph)
    /\ \A eph \in 0..drawn : SealedUnder(eph) <= MaxSeals + MaxBatch - 1

Logged(type) == {j \in DOMAIN archive : archive[j].type = type}

(***************************************************************************)
(* The archive, the vault and the engine's counters agree: one VAULT_SEAL  *)
(* for each block, in the order of their indices, one entry for each       *)
(* opening and one for each denial (archivaris.rs:246, :290, :313).        *)
(***************************************************************************)
AuditIsComplete ==
    owner = "archivaris" =>
        /\ \A i \in DOMAIN blocks : blocks[i].index = i - 1
        /\ Cardinality(Logged("VAULT_SEAL")) = Len(blocks)
        /\ \A j \in Logged("VAULT_SEAL") :
              archive[j].block = Cardinality({i \in Logged("VAULT_SEAL") : i < j})
        /\ engine.sealed = Len(blocks)
        /\ Cardinality(Logged("VAULT_OPEN")) = engine.opened
        /\ Cardinality(Logged("VAULT_DENIED")) = engine.denied

\* "Session roteert automatisch na max_blocks" (bifurcation.rs:618).
SessionLimitHolds == \A eph \in 0..drawn : SealedUnder(eph) <= MaxSeals

\* "Integriteit check gefaald na decrypt (data corrupt of getampered)" (bifurcation.rs:513).
DamageIsReported ==
    \A i \in DOMAIN blocks, claim \in JisClaim : open(engine, blocks[i], claim).kind # "Panic"

\* "Cache wordt automatisch gewist bij key rotation of session timeout" (bifurcation.rs:555).
RotationClearsCache ==
    [][engine.session # NoSession /\ engine'.session = NoSession => engine'.cache = << >>]_vars

=============================================================================
