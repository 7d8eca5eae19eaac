---------------------------- MODULE Bifurcation ----------------------------
(***************************************************************************)
(* The engine of src/crates/trust-kernel/src/bifurcation.rs as operators   *)
(* on an engine's state: sealing with a key of its own, with the session   *)
(* key, in a batch; opening with a JIS claim; the cache of derived keys.   *)
(*                                                                         *)
(* Cryptography is symbolic. An ephemeral key pair is a number never drawn *)
(* before.  Its Diffie-Hellman secret with the system key is the same for  *)
(* both sides and for every engine, because every engine has the same      *)
(* system key (:700), so the pair's number also stands for the secret; the *)
(* AES key of a block is that secret with the block's index (:978).  A     *)
(* ciphertext opens with the key it was made with; any other key, or a     *)
(* damaged ciphertext, makes decrypt fail, which the code turns into a     *)
(* panic (:1027).  Nonces, averages and timings are left out.              *)
(***************************************************************************)
EXTENDS Integers, FiniteSets, Sequences, SequencesExt

CONSTANTS Data,          \* plaintexts
          TopLevel,      \* the highest clearance level
          MaxEntries,    \* entries of the key cache (16384 in the code)
          MaxSeals,      \* blocks per session (100000 in the code)
          NoSession, Garbage

ASSUME LevelAssumption == TopLevel \in Nat
ASSUME LimitAssumption == MaxEntries \in Nat \ {0} /\ MaxSeals \in Nat \ {0}
ASSUME ValueAssumption == NoSession \notin [eph : Nat, sealed : Nat, expired : BOOLEAN]
                          /\ Garbage \notin Data

Clearance == 0..TopLevel

\* What open looks at of a claim: whether identity and key have their shape, and the level.
JisClaim == [wellFormed : BOOLEAN, clearance : Clearance]

Key(eph, index) == <<eph, index>>

EncryptedBlock(eph, index, key, required, data) ==
    [index |-> index, eph |-> eph, required |-> required, hash |-> data,
     cipher |-> [key |-> key, text |-> data]]

\* The state of an AirlockBifurcation: key cache, session and counters.
NewEngine == [cache |-> << >>, session |-> NoSession,
              sealed |-> 0, opened |-> 0, denied |-> 0, invalid |-> 0, failed |-> 0]

(* KeyCache: a function from pairs of ephemeral key and index to AES keys. *)
Cached(cache, b) == <<b.eph, b.index>> \in DOMAIN cache

\* MUTANT: the cache is cleared one key too late.
put_LateClear(cache, eph, index, key) ==
    LET kept == IF Cardinality(DOMAIN cache) > MaxEntries THEN << >> ELSE cache
    IN [p \in DOMAIN kept \cup {<<eph, index>>} |-> IF p = <<eph, index>> THEN key ELSE kept[p]]

put(cache, eph, index, key) ==
    LET kept == IF Cardinality(DOMAIN cache) >= MaxEntries THEN << >> ELSE cache
    IN [p \in DOMAIN kept \cup {<<eph, index>>} |-> IF p = <<eph, index>> THEN key ELSE kept[p]]

flush(e) == [e EXCEPT !.cache = << >>]

(* Sealing.  Each operator returns the engine and the blocks made; fresh is the next      *)
(* ephemeral key, which seal_session and seal_batch draw only when the session has ended. *)
seal(e, fresh, data, index, required) ==
    LET key == Key(fresh, index)
    IN [engine |-> [e EXCEPT !.cache = put(@, fresh, index, key), !.sealed = @ + 1],
        blocks |-> <<EncryptedBlock(fresh, index, key, required, data)>>]

is_valid(s) == s # NoSession /\ s.sealed < MaxSeals /\ ~s.expired

ActiveSession(e, fresh) ==
    IF is_valid(e.session) THEN e.session ELSE [eph |-> fresh, sealed |-> 0, expired |-> FALSE]

seal_session(e, fresh, data, index, required) ==
    LET s   == ActiveSession(e, fresh)
        key == Key(s.eph, index)
    IN [engine |-> [e EXCEPT !.session = [s EXCEPT !.sealed = @ + 1],
                             !.cache = put(@, s.eph, index, key), !.sealed = @ + 1],
        blocks |-> <<EncryptedBlock(s.eph, index, key, required, data)>>]

\* One block after the other: the cache may be cleared on the way.
PutAll(cache, blocks) ==
    LET after[n \in 0 .. Len(blocks)] ==
            IF n = 0 THEN cache
            ELSE put(after[n - 1], blocks[n].eph, blocks[n].index,
                     Key(blocks[n].eph, blocks[n].index))
    IN  after[Len(blocks)]

\* The session is looked at once, the indices start at 0 in every batch.
seal_batch(e, fresh, texts, required) ==
    LET s      == ActiveSession(e, fresh)
        blocks == [i \in DOMAIN texts |->
                      EncryptedBlock(s.eph, i - 1, Key(s.eph, i - 1), required, texts[i])]
    IN [engine |-> [e EXCEPT !.session = [s EXCEPT !.sealed = @ + Len(texts)],
                             !.sealed = @ + Len(texts), !.cache = PutAll(@, blocks)],
        blocks |-> blocks]

\* Free function: a key pair for every block, and no engine.
parallel_seal(fresh, texts, required) ==
    [i \in DOMAIN texts |->
        EncryptedBlock(fresh + i - 1, i - 1, Key(fresh + i - 1, i - 1), required, texts[i])]

rotate_session(e) == [e EXCEPT !.session = NoSession]

(* Opening. *)
\* MUTANT: the cache is searched by index alone.
BlockKey_ByIndex(e, b) ==
    LET found == {p \in DOMAIN e.cache : p[2] = b.index}
    IN IF found # {} THEN e.cache[CHOOSE p \in found : TRUE] ELSE Key(b.eph, b.index)

BlockKey(e, b) == IF Cached(e.cache, b) THEN e.cache[<<b.eph, b.index>>]
                                        ELSE Key(b.eph, b.index)

Decrypts(b, key) == b.cipher.text # Garbage /\ b.cipher.key = key

\* MUTANT: the level has to be above the one required.
MayRead_Above(b, claim) == claim.wellFormed /\ claim.clearance > b.required

MayRead(b, claim) == claim.wellFormed /\ claim.clearance >= b.required

Outcome(b, claim, key) ==
    CASE ~claim.wellFormed                                   -> "ClaimInvalid"
      [] claim.wellFormed /\ ~MayRead(b, claim)              -> "AccessDenied"
      [] MayRead(b, claim) /\ ~Decrypts(b, key)              -> "Panic"
      [] MayRead(b, claim) /\ Decrypts(b, key) /\ b.cipher.text # b.hash -> "IntegrityFailed"
      [] OTHER                                               -> "Opened"

\* The engine after one open: the key is cached before decrypt is tried.
open(e, b, claim) ==
    LET key == BlockKey(e, b)
        res == Outcome(b, claim, key)
    IN [kind |-> res,
        texts |-> IF res = "Opened" THEN <<b.cipher.text>> ELSE << >>,
        engine |->
            [e EXCEPT !.cache = IF res \in {"ClaimInvalid", "AccessDenied"} \/ Cached(@, b)
                                THEN @ ELSE put(@, b.eph, b.index, key),
                      !.opened  = IF res = "Opened" THEN @ + 1 ELSE @,
                      !.denied  = IF res = "AccessDenied" THEN @ + 1 ELSE @,
                      !.invalid = IF res = "ClaimInvalid" THEN @ + 1 ELSE @,
                      !.failed  = IF res = "IntegrityFailed" THEN @ + 1 ELSE @]]

\* The places in S, in their order.
InOrder(S) == [k \in 1 .. Cardinality(S) |->
                  CHOOSE i \in S : Cardinality({j \in S : j <= i}) = k]

\* keys: the key of each block.  Texts are returned in the order of the blocks, without
\* the places of those that did not open.
BatchOpen(blocks, claim, keys) ==
    LET With(res) == {i \in DOMAIN blocks : Outcome(blocks[i], claim, keys[i]) = res}
        opened    == InOrder(With("Opened"))
    IN IF ~claim.wellFormed
       THEN [kind |-> "ClaimInvalid", texts |-> << >>, denied |-> Len(blocks)]
       ELSE IF With("Panic") # {}
       THEN [kind |-> "Panic", texts |-> << >>, denied |-> 0]
       ELSE [kind |-> "Opened",
             texts |-> [k \in DOMAIN opened |-> blocks[opened[k]].cipher.text],
             denied |-> Cardinality(With("AccessDenied"))]

\* The cache is read and not filled; a failed integrity check is counted nowhere.
open_batch(e, blocks, claim) ==
    LET res == BatchOpen(blocks, claim, [i \in DOMAIN blocks |-> BlockKey(e, blocks[i])])
    IN [kind |-> res.kind, texts |-> res.texts, denied |-> res.denied,
        engine |-> IF res.kind = "Opened"
                   THEN [e EXCEPT !.opened = @ + Len(res.texts), !.denied = @ + res.denied]
                   ELSE e]

parallel_open(blocks, claim) ==
    BatchOpen(blocks, claim, [i \in DOMAIN blocks |-> Key(blocks[i].eph, blocks[i].index)])

=============================================================================
