---------------------------- MODULE VaultProofs ----------------------------
(***************************************************************************)
(* Theorems about the bifurcation engine and its users.  A block can be    *)
(* read again because whatever is in the key cache is the key the block    *)
(* was sealed with; a key stays within its limit because the session       *)
(* counts every block under it and no other seal draws it.  The arena of   *)
(* store-mmu opens its pages with such an engine.                          *)
(***************************************************************************)
EXTENDS Vault, Mmu, FiniteSetTheorems, SequenceTheorems, WellFoundedInduction, TLAPS

Pairs == Nat \X Nat

\* A cache within its limit that gives every block its own key.
Small == {D \in SUBSET Pairs : IsFiniteSet(D) /\ Cardinality(D) <= MaxEntries}
Cache == {[p \in D |-> p] : D \in Small}

Session == [eph : Nat, sealed : Nat, expired : BOOLEAN]
Text    == Data \cup {Garbage}

Engine == [cache : Cache, session : Session \cup {NoSession}, sealed : Nat, opened : Nat,
           denied : Nat, invalid : Nat, failed : Nat]

Block == [index : Nat, eph : Nat, required : Clearance, hash : Text,
          cipher : [key : Pairs, text : Text]]

Given == [text : Data, required : Clearance]

LogEntry == [type : {"VAULT_SEAL", "VAULT_OPEN", "VAULT_DENIED"}, block : Nat]

TypeInv ==
    /\ owner \in {"archivaris", "program"} /\ engine \in Engine /\ drawn \in Nat
    /\ blocks \in Seq(Block) /\ given \in Seq(Given) /\ archive \in Seq(LogEntry)
    /\ Len(given) = Len(blocks)

\* A block is what was given, sealed with a key that was drawn, or damaged.
FromGiven(b, g, n) ==
    /\ b.eph < n /\ b.required = g.required /\ b.cipher.key = <<b.eph, b.index>>
    /\ b.cipher.text \in {g.text, Garbage} /\ b.hash \in {g.text, Garbage}

BlockInv == \A i \in 1 .. Len(blocks) : FromGiven(blocks[i], given[i], drawn)

Under(bs, eph) == {i \in 1 .. Len(bs) : bs[i].eph = eph}

LimitInv ==
    /\ engine.session # NoSession => /\ engine.session.eph < drawn
                                     /\ engine.session.sealed = Cardinality(Under(blocks, engine.session.eph))
    /\ \A eph \in Nat : Cardinality(Under(blocks, eph)) <= MaxSeals + MaxBatch - 1

LoggedIn(a, type) == {j \in 1 .. Len(a) : a[j].type = type}

\* The log a of an engine with these counters and n blocks.
Audited(a, n, opened, denied) ==
    /\ Cardinality(LoggedIn(a, "VAULT_SEAL")) = n
    /\ \A j \in LoggedIn(a, "VAULT_SEAL") :
          a[j].block = Cardinality({i \in LoggedIn(a, "VAULT_SEAL") : i < j})
    /\ Cardinality(LoggedIn(a, "VAULT_OPEN")) = opened
    /\ Cardinality(LoggedIn(a, "VAULT_DENIED")) = denied

AuditInv ==
    owner = "archivaris" =>
        /\ \A i \in 1 .. Len(blocks) : blocks[i].index = i - 1
        /\ engine.sealed = Len(blocks)
        /\ Audited(archive, Len(blocks), engine.opened, engine.denied)

VaultInv == TypeInv /\ BlockInv /\ LimitInv /\ AuditInv
-----------------------------------------------------------------------------
(* The key cache. *)
LEMMA HasMinimum ==
    ASSUME NEW T \in SUBSET Nat, T # {} PROVE \E x \in T : \A y \in T : x <= y
<1> DEFINE Less == OpToRel(<, Nat)
<1>1. IsWellFoundedOn(Less, Nat)
  BY NatLessThanWellFounded
<1> HIDE DEF Less
<1>2. PICK x \in T : \A y \in T : ~(<<y, x>> \in Less)
  BY <1>1, T \subseteq Nat, WFMin, Zenon
<1>3. \A m, n \in Nat : m < n => <<m, n>> \in Less
  <2>1. Less = {ss \in Nat \X Nat : ss[1] < ss[2]}
    BY DEF OpToRel, Less
  <2> QED
    BY <2>1
<1>4. ASSUME NEW y \in T PROVE x <= y
  <2>1. x \in Nat /\ y \in Nat /\ ~(<<y, x>> \in Less)
    BY <1>2
  <2> QED
    BY <1>3, <2>1
<1> QED
  BY <1>4

LEMMA EmptyCache == << >> \in Cache
<1>1. {} \in Small
  BY FS_EmptySet, LimitAssumption DEF Small
<1>2. << >> = [p \in {} |-> p]
  OBVIOUS
<1> QED
  BY <1>1, <1>2 DEF Cache

LEMMA CacheParts ==
    ASSUME NEW c \in Cache
    PROVE  /\ DOMAIN c \in Small /\ c = [p \in DOMAIN c |-> p]
           /\ \A p \in DOMAIN c : c[p] = p
  BY DEF Cache

LEMMA PutCache ==
    ASSUME NEW c \in Cache, NEW eph \in Nat, NEW index \in Nat
    PROVE  put(c, eph, index, Key(eph, index)) \in Cache
<1> DEFINE pair == <<eph, index>>
<1> DEFINE kept == IF Cardinality(DOMAIN c) >= MaxEntries THEN << >> ELSE c
<1> DEFINE D == DOMAIN kept
<1>1. pair \in Pairs
  BY DEF Pairs
<1>2. MaxEntries \in Nat /\ MaxEntries > 0
  BY LimitAssumption
<1>3. D \in Small /\ Cardinality(D) < MaxEntries /\ \A p \in D : kept[p] = p
  <2>1. CASE Cardinality(DOMAIN c) >= MaxEntries
    <3>1. D = {}
      BY <2>1
    <3> QED
      BY <3>1, <1>2, FS_EmptySet DEF Small
  <2>2. CASE ~(Cardinality(DOMAIN c) >= MaxEntries)
    <3>1. kept = c
      BY <2>2
    <3>2. DOMAIN c \in Small /\ \A p \in DOMAIN c : c[p] = p
      BY CacheParts
    <3>3. Cardinality(DOMAIN c) \in Nat
      BY <3>2, FS_CardinalityType DEF Small
    <3> QED
      BY <3>1, <3>2, <3>3, <2>2, <1>2
  <2> QED
    BY <2>1, <2>2
<1> HIDE DEF kept
<1>4. D \cup {pair} \in Small
  <2>1. IsFiniteSet(D) /\ D \subseteq Pairs /\ Cardinality(D) \in Nat
    BY <1>3, FS_CardinalityType DEF Small
  <2>2. /\ IsFiniteSet(D \cup {pair})
        /\ Cardinality(D \cup {pair}) = IF pair \in D THEN Cardinality(D) ELSE Cardinality(D) + 1
    BY <2>1, FS_AddElement
  <2>3. Cardinality(D \cup {pair}) <= MaxEntries
    BY <2>1, <2>2, <1>2, <1>3
  <2> QED
    BY <2>1, <2>2, <2>3, <1>1 DEF Small
<1>5. put(c, eph, index, Key(eph, index)) = [p \in D \cup {pair} |-> IF p = pair THEN pair ELSE kept[p]]
  BY DEF put, Key, kept
<1>6. put(c, eph, index, Key(eph, index)) = [p \in D \cup {pair} |-> p]
  BY <1>3, <1>5
<1> QED
  BY <1>4, <1>6 DEF Cache

\* The caches of a batch: one block after the other.
Puts(c, bs, m, g) ==
    g = [n \in 0 .. m |-> IF n = 0 THEN c
                          ELSE put(g[n - 1], bs[n].eph, bs[n].index, Key(bs[n].eph, bs[n].index))]

LEMMA PutsExist ==
    ASSUME NEW c, NEW bs, NEW k \in Nat PROVE \E g : Puts(c, bs, k, g)
<1> DEFINE T == {n \in Nat : ~\E g : Puts(c, bs, n, g)}
<1>1. SUFFICES T = {}
  OBVIOUS
<1>2. SUFFICES ASSUME T # {} PROVE FALSE
  OBVIOUS
<1>3. PICK m \in T : \A y \in T : m <= y
  BY <1>2, HasMinimum
<1>4. m \in Nat /\ ~\E g : Puts(c, bs, m, g)
  BY <1>3
<1>5. m # 0
  <2>1. SUFFICES ASSUME m = 0 PROVE FALSE
    OBVIOUS
  <2> DEFINE g0 == [n \in 0 .. 0 |-> c]
  <2>2. Puts(c, bs, 0, g0)
    <3>1. \A n \in 0 .. 0 : n = 0
      OBVIOUS
    <3>2. g0 = [n \in 0 .. 0 |-> IF n = 0 THEN c
                  ELSE put(g0[n - 1], bs[n].eph, bs[n].index, Key(bs[n].eph, bs[n].index))]
      BY <3>1
    <3> QED
      BY <3>2 DEF Puts
  <2> QED
    BY <2>1, <2>2, <1>4
<1>6. PICK i \in Nat : m = i + 1
  BY <1>4, <1>5
<1>7. i \notin T
  BY <1>3, <1>6
<1>8. PICK g : Puts(c, bs, i, g)
  BY <1>7
<1> DEFINE last == put(g[i], bs[m].eph, bs[m].index, Key(bs[m].eph, bs[m].index))
<1> DEFINE h == [n \in 0 .. m |-> IF n = m THEN last ELSE g[n]]
<1>9. h = [n \in 0 .. m |-> IF n = 0 THEN c
              ELSE put(h[n - 1], bs[n].eph, bs[n].index, Key(bs[n].eph, bs[n].index))]
  <2> HIDE DEF last
  <2>1. SUFFICES ASSUME NEW n \in 0 .. m
                 PROVE  h[n] = IF n = 0 THEN c
                          ELSE put(h[n - 1], bs[n].eph, bs[n].index, Key(bs[n].eph, bs[n].index))
    BY Zenon
  <2>2. CASE n = m
    <3>1. h[n] = last
      BY <2>2
    <3>2. n # 0 /\ n - 1 = i /\ i \in 0 .. m /\ i # m
      BY <2>2, <1>6
    <3>3. h[n - 1] = g[i]
      BY <3>2
    <3> QED
      BY <3>1, <3>2, <3>3, <2>2 DEF last
  <2>3. CASE n # m
    <3>1. n \in 0 .. i /\ h[n] = g[n]
      BY <2>3, <1>6
    <3>2. g[n] = IF n = 0 THEN c
                 ELSE put(g[n - 1], bs[n].eph, bs[n].index, Key(bs[n].eph, bs[n].index))
      BY <3>1, <1>8, Zenon DEF Puts
    <3>3. n # 0 => h[n - 1] = g[n - 1]
      <4>1. n # 0 => n - 1 \in 0 .. m /\ n - 1 # m
        BY <2>3, <1>6
      <4> QED
        BY <4>1
    <3> QED
      BY <3>1, <3>2, <3>3
  <2> QED
    BY <2>2, <2>3
<1>10. Puts(c, bs, m, h)
  BY <1>9 DEF Puts
<1> QED
  BY <1>10, <1>4

LEMMA PutAllCache ==
    ASSUME NEW c \in Cache, NEW bs, NEW k \in Nat, Len(bs) = k,
           \A n \in 1 .. k : bs[n].eph \in Nat /\ bs[n].index \in Nat
    PROVE  PutAll(c, bs) \in Cache
<1> DEFINE a == CHOOSE g : Puts(c, bs, k, g)
<1>1. PutAll(c, bs) = a[k]
  BY Zenon DEF PutAll, Puts
<1>2. Puts(c, bs, k, a)
  BY PutsExist
<1> HIDE DEF a
<1> DEFINE T == {n \in 0 .. k : a[n] \notin Cache}
<1>3. SUFFICES T = {}
  BY <1>1
<1>4. SUFFICES ASSUME T # {} PROVE FALSE
  OBVIOUS
<1>5. T \in SUBSET Nat
  OBVIOUS
<1>6. PICK m \in T : \A y \in T : m <= y
  BY <1>4, <1>5, HasMinimum
<1>7. m \in 0 .. k /\ a[m] \notin Cache
  BY <1>6
<1>8. a[m] = IF m = 0 THEN c
             ELSE put(a[m - 1], bs[m].eph, bs[m].index, Key(bs[m].eph, bs[m].index))
  BY <1>7, <1>2, Zenon DEF Puts
<1>9. m # 0
  BY <1>7, <1>8
<1>10. m - 1 \in 0 .. k /\ ~(m <= m - 1) /\ m \in 1 .. k
  BY <1>7, <1>9
<1>11. a[m - 1] \in Cache
  BY <1>6, <1>10
<1>12. bs[m].eph \in Nat /\ bs[m].index \in Nat
  BY <1>10
<1> QED
  BY <1>7, <1>8, <1>9, <1>11, <1>12, PutCache

-----------------------------------------------------------------------------
(* Counting and ordering places. *)
LEMMA UnderType ==
    ASSUME NEW bs, NEW k \in Nat, Len(bs) = k, NEW eph
    PROVE  IsFiniteSet(Under(bs, eph)) /\ Cardinality(Under(bs, eph)) \in Nat
<1>1. IsFiniteSet(1 .. k)
  BY FS_Interval
<1>2. Under(bs, eph) \in SUBSET (1 .. k)
  BY DEF Under
<1> QED
  BY <1>1, <1>2, FS_Subset, FS_CardinalityType

\* Places moved by n are as many as before.
LEMMA Moved ==
    ASSUME NEW S \in SUBSET Nat, IsFiniteSet(S), NEW n \in Nat
    PROVE  /\ IsFiniteSet({n + i : i \in S})
           /\ Cardinality({n + i : i \in S}) = Cardinality(S)
<1> DEFINE T == {n + i : i \in S}
<1> DEFINE f == [i \in S |-> n + i]
<1>1. f \in [S -> T]
  OBVIOUS
<1>2. \A a, b \in S : f[a] = f[b] => a = b
  OBVIOUS
<1>3. \A t \in T : \E i \in S : f[i] = t
  OBVIOUS
<1>4. f \in Bijection(S, T)
  <2>1. f \in Injection(S, T)
    BY <1>1, <1>2 DEF Injection, IsInjective
  <2>2. f \in Surjection(S, T)
    BY <1>1, <1>3 DEF Surjection
  <2> QED
    BY <2>1, <2>2 DEF Bijection
<1> QED
  BY <1>4, FS_Bijection DEF ExistsBijection

LEMMA UnderConcat ==
    ASSUME NEW bs \in Seq(Block), NEW made \in Seq(Block), NEW eph
    PROVE  Cardinality(Under(bs \o made, eph)) = Cardinality(Under(bs, eph)) + Cardinality(Under(made, eph))
<1>1. PICK n \in Nat : n = Len(bs)
  OBVIOUS
<1>2. PICK m \in Nat : m = Len(made)
  OBVIOUS
<1> DEFINE A == Under(bs, eph)
<1> DEFINE B == Under(made, eph)
<1> DEFINE C == {n + i : i \in B}
<1>3. /\ IsFiniteSet(A) /\ Cardinality(A) \in Nat
      /\ IsFiniteSet(B) /\ Cardinality(B) \in Nat
  BY <1>1, <1>2, UnderType
<1>4. B \in SUBSET Nat
  BY <1>2 DEF Under
<1>5. IsFiniteSet(C) /\ Cardinality(C) = Cardinality(B)
  <2> HIDE DEF B
  <2> QED
    BY <1>3, <1>4, Moved
<1>6. /\ Len(bs \o made) = n + m
      /\ \A i \in 1 .. n : (bs \o made)[i] = bs[i]
      /\ \A i \in 1 .. m : (bs \o made)[n + i] = made[i]
  <2>1. /\ Len(bs \o made) = Len(bs) + Len(made)
        /\ \A i \in 1 .. Len(bs) + Len(made) :
              (bs \o made)[i] = IF i <= Len(bs) THEN bs[i] ELSE made[i - Len(bs)]
    BY ConcatProperties
  <2>2. \A i \in 1 .. n : (bs \o made)[i] = bs[i]
    BY <2>1, <1>1, <1>2
  <2>3. ASSUME NEW i \in 1 .. m PROVE (bs \o made)[n + i] = made[i]
    <3>1. n + i \in 1 .. n + m /\ ~(n + i <= n) /\ n + i - n = i
      OBVIOUS
    <3> QED
      BY <3>1, <2>1, <1>1, <1>2
  <2> QED
    BY <2>1, <2>2, <2>3, <1>1, <1>2
<1>7. Under(bs \o made, eph) = A \cup C
  <2>1. ASSUME NEW x \in Under(bs \o made, eph) PROVE x \in A \cup C
    <3>1. x \in 1 .. n + m /\ (bs \o made)[x].eph = eph
      BY <1>6 DEF Under
    <3>2. CASE x \in 1 .. n
      BY <3>1, <3>2, <1>6, <1>1 DEF Under
    <3>3. CASE x \notin 1 .. n
      <4>1. PICK i \in 1 .. m : x = n + i
        <5>1. x - n \in 1 .. m /\ x = n + (x - n)
          BY <3>1, <3>3
        <5> QED
          BY <5>1
      <4>2. i \in B
        BY <4>1, <3>1, <1>6, <1>2 DEF Under
      <4> QED
        BY <4>1, <4>2
    <3> QED
      BY <3>2, <3>3
  <2>2. ASSUME NEW x \in A PROVE x \in Under(bs \o made, eph)
    BY <1>6, <1>1 DEF Under
  <2>3. ASSUME NEW x \in C PROVE x \in Under(bs \o made, eph)
    <3>1. PICK i \in B : x = n + i
      OBVIOUS
    <3>2. i \in 1 .. m /\ made[i].eph = eph
      BY <3>1, <1>2 DEF Under
    <3>3. x \in 1 .. n + m /\ (bs \o made)[x] = made[i]
      BY <3>1, <3>2, <1>6
    <3> QED
      BY <3>2, <3>3, <1>6 DEF Under
  <2> QED
    BY <2>1, <2>2, <2>3
<1>8. A \cap C = {}
  BY <1>1, <1>2 DEF Under
<1> HIDE DEF A, B, C
<1>9. Cardinality(A \cup C) = Cardinality(A) + Cardinality(C) - Cardinality({})
  BY <1>3, <1>5, <1>8, FS_Union
<1> QED
  BY <1>3, <1>5, <1>7, <1>9, FS_EmptySet DEF A, B

\* Every place of a finite set is the k-th for one k, and there is a k-th for every k.
LEMMA InOrderParts ==
    ASSUME NEW S \in SUBSET Nat, IsFiniteSet(S)
    PROVE  /\ Cardinality(S) \in Nat /\ DOMAIN InOrder(S) = 1 .. Cardinality(S)
           /\ \A k \in 1 .. Cardinality(S) : InOrder(S)[k] \in S
<1> DEFINE Upto(i) == {j \in S : j <= i}
<1> DEFINE n == Cardinality(S)
<1> DEFINE f == [i \in S |-> Cardinality(Upto(i))]
<1>1. n \in Nat
  BY FS_CardinalityType
<1>2. ASSUME NEW i \in S PROVE IsFiniteSet(Upto(i)) /\ Cardinality(Upto(i)) \in 1 .. n
  <2>1. Upto(i) \in SUBSET S /\ i \in Upto(i)
    OBVIOUS
  <2> HIDE DEF Upto
  <2>2. IsFiniteSet(Upto(i)) /\ Cardinality(Upto(i)) <= n
    BY <2>1, FS_Subset
  <2>3. Cardinality(Upto(i)) \in Nat /\ Cardinality(Upto(i)) # 0
    BY <2>1, <2>2, FS_CardinalityType, FS_EmptySet
  <2> QED
    BY <2>2, <2>3, <1>1
<1>3. ASSUME NEW a \in S, NEW b \in S, a < b PROVE Cardinality(Upto(a)) # Cardinality(Upto(b))
  <2>1. Upto(a) \in SUBSET Upto(b) /\ b \in Upto(b) /\ b \notin Upto(a)
    <3>1. a \in Nat /\ b \in Nat /\ a < b /\ \A j \in S : j \in Nat
      BY <1>3
    <3>2. \A j \in S : j <= a => j <= b
      BY <3>1
    <3>3. Upto(a) \subseteq Upto(b)
      BY <3>2
    <3>4. b \in Upto(b) /\ b \notin Upto(a)
      BY <3>1
    <3> QED
      BY <3>3, <3>4
  <2>2. IsFiniteSet(Upto(b))
    BY <1>2
  <2> HIDE DEF Upto
  <2> QED
    BY <2>1, <2>2, FS_Subset
<1>4. \A a, b \in S : f[a] = f[b] => a = b
  <2> HIDE DEF Upto
  <2>1. SUFFICES ASSUME NEW a \in S, NEW b \in S, a # b PROVE Cardinality(Upto(a)) # Cardinality(Upto(b))
    OBVIOUS
  <2>2. a < b \/ b < a
    BY <2>1
  <2> QED
    BY <2>2, <1>3
<1>5. f \in Injection(S, 1 .. n)
  <2> HIDE DEF Upto, n
  <2>1. f \in [S -> 1 .. n]
    BY <1>2
  <2> QED
    BY <2>1, <1>4 DEF Injection, IsInjective
<1>6. IsFiniteSet(1 .. n) /\ Cardinality(1 .. n) = n
  <2> HIDE DEF n
  <2> QED
    BY <1>1, FS_Interval
<1>7. f \in Surjection(S, 1 .. n)
  <2> HIDE DEF f
  <2> QED
    BY <1>5, <1>6, FS_Injection
<1>8. ASSUME NEW k \in 1 .. n PROVE InOrder(S)[k] \in S
  <2>1. PICK i \in S : f[i] = k
    <3> HIDE DEF f, n
    <3> QED
      BY <1>7 DEF Surjection
  <2>2. i \in S /\ Cardinality({j \in S : j <= i}) = k
    BY <2>1
  <2>3. InOrder(S)[k] = CHOOSE x \in S : Cardinality({j \in S : j <= x}) = k
    BY DEF InOrder
  <2>4. (CHOOSE x \in S : Cardinality({j \in S : j <= x}) = k) \in S
    BY <2>2, Zenon
  <2> QED
    BY <2>3, <2>4
<1>9. DOMAIN InOrder(S) = 1 .. n
  BY DEF InOrder
<1> QED
  BY <1>1, <1>8, <1>9

-----------------------------------------------------------------------------
(* Blocks join the ones kept. *)
LEMMA UnderFresh ==
    ASSUME TypeInv, BlockInv, NEW eph \in Nat, eph >= drawn
    PROVE  Cardinality(Under(blocks, eph)) = 0
<1>1. PICK n \in Nat : n = Len(blocks)
  BY DEF TypeInv
<1>2. ASSUME NEW i \in 1 .. n PROVE blocks[i].eph # eph
  <2>1. blocks[i] \in Block
    BY <1>1 DEF TypeInv
  <2>2. blocks[i].eph \in Nat
    BY <2>1 DEF Block
  <2>3. blocks[i].eph < drawn /\ drawn \in Nat
    BY <1>1 DEF BlockInv, FromGiven, TypeInv
  <2> QED
    BY <2>2, <2>3
<1>3. Under(blocks, eph) = {}
  BY <1>1, <1>2 DEF Under
<1> QED
  BY <1>3, FS_EmptySet

LEMMA UnderAll ==
    ASSUME NEW made \in Seq(Block), NEW key, \A i \in 1 .. Len(made) : made[i].eph = key
    PROVE  /\ Cardinality(Under(made, key)) = Len(made)
           /\ \A x : x # key => Cardinality(Under(made, x)) = 0
<1>1. PICK n \in Nat : n = Len(made)
  OBVIOUS
<1>2. Under(made, key) = 1 .. n
  BY <1>1 DEF Under
<1>3. Cardinality(1 .. n) = n
  <2>1. Cardinality(1 .. n) = IF 1 > n THEN 0 ELSE n - 1 + 1
    BY FS_Interval
  <2> QED
    BY <2>1
<1>4. ASSUME NEW x, x # key PROVE Cardinality(Under(made, x)) = 0
  <2>1. Under(made, x) = {}
    BY <1>4 DEF Under
  <2> QED
    BY <2>1, FS_EmptySet
<1> QED
  BY <1>1, <1>2, <1>3, <1>4

LEMMA UnderEach ==
    ASSUME NEW made \in Seq(Block), NEW n \in Nat, \A i \in 1 .. Len(made) : made[i].eph = n + i - 1
    PROVE  \A x \in Nat : /\ Cardinality(Under(made, x)) <= 1
                          /\ x < n => Cardinality(Under(made, x)) = 0
<1>1. PICK m \in Nat : m = Len(made)
  OBVIOUS
<1>2. TAKE x \in Nat
<1>3. ASSUME NEW i \in 1 .. m, made[i].eph = x PROVE i = x + 1 - n /\ ~(x < n)
  <2>1. made[i].eph = n + i - 1
    BY <1>1
  <2>2. n + i - 1 = x
    BY <1>3, <2>1
  <2> QED
    BY <2>2
<1>4. CASE x < n
  <2>1. Under(made, x) = {}
    BY <1>1, <1>3, <1>4 DEF Under
  <2> QED
    BY <2>1, FS_EmptySet
<1>5. CASE ~(x < n)
  <2>1. Under(made, x) \in SUBSET {x + 1 - n}
    BY <1>1, <1>3 DEF Under
  <2>2. IsFiniteSet({x + 1 - n}) /\ Cardinality({x + 1 - n}) = 1
    BY FS_Singleton
  <2>3. Cardinality(Under(made, x)) <= Cardinality({x + 1 - n})
    BY <2>1, <2>2, FS_Subset
  <2> QED
    BY <2>2, <2>3, <1>5
<1> QED
  BY <1>4, <1>5

LEMMA KeptParts ==
    ASSUME TypeInv, BlockInv, NEW texts \in Seq(Data), NEW required \in Clearance,
           NEW made \in Seq(Block), Len(made) = Len(texts), drawn' \in Nat, drawn' >= drawn,
           \A i \in 1 .. Len(made) :
              FromGiven(made[i], [text |-> texts[i], required |-> required], drawn'),
           Keeps(made, texts, required)
    PROVE  /\ blocks' \in Seq(Block) /\ given' \in Seq(Given) /\ Len(given') = Len(blocks')
           /\ blocks' = blocks \o made /\ owner' = owner /\ Len(blocks') = Len(blocks) + Len(made)
           /\ BlockInv'
<1> DEFINE added == [i \in DOMAIN texts |-> [text |-> texts[i], required |-> required]]
<1>1. PICK n \in Nat : n = Len(blocks)
  BY DEF TypeInv
<1>2. PICK m \in Nat : m = Len(made)
  OBVIOUS
<1>3. blocks \in Seq(Block) /\ given \in Seq(Given) /\ Len(given) = n /\ drawn \in Nat
  BY <1>1 DEF TypeInv
<1>4. added \in Seq(Given) /\ Len(added) = m /\ \A i \in 1 .. m : added[i] = [text |-> texts[i], required |-> required]
  <2>1. DOMAIN texts = 1 .. m /\ \A i \in 1 .. m : texts[i] \in Data
    BY <1>2
  <2>2. \A i \in 1 .. m : [text |-> texts[i], required |-> required] \in Given
    BY <2>1 DEF Given
  <2>3. added \in [1 .. m -> Given]
    BY <2>1, <2>2
  <2>4. \A l \in [1 .. m -> Given] : l \in Seq(Given) /\ Len(l) = m
    OBVIOUS
  <2>5. \A i \in 1 .. m : added[i] = [text |-> texts[i], required |-> required]
    BY <2>1
  <2> HIDE DEF added
  <2> QED
    BY <2>3, <2>4, <2>5
<1>5. blocks' = blocks \o made /\ given' = given \o added /\ owner' = owner
  BY DEF Keeps
<1> HIDE DEF added
<1>6. /\ blocks' \in Seq(Block) /\ Len(blocks') = n + m
      /\ \A i \in 1 .. n + m : blocks'[i] = IF i <= n THEN blocks[i] ELSE made[i - n]
  <2>1. Len(blocks) = n /\ Len(made) = m /\ blocks \in Seq(Block) /\ made \in Seq(Block)
    BY <1>1, <1>2, <1>3, <1>5
  <2>2. /\ blocks \o made \in Seq(Block) /\ Len(blocks \o made) = Len(blocks) + Len(made)
        /\ \A i \in 1 .. Len(blocks) + Len(made) :
              (blocks \o made)[i] = IF i <= Len(blocks) THEN blocks[i] ELSE made[i - Len(blocks)]
    BY <2>1, ConcatProperties
  <2> QED
    BY <2>1, <2>2, <1>5
<1>7. /\ given' \in Seq(Given) /\ Len(given') = n + m
      /\ \A i \in 1 .. n + m : given'[i] = IF i <= n THEN given[i] ELSE added[i - n]
  <2>1. Len(given) = n /\ Len(added) = m /\ given \in Seq(Given) /\ added \in Seq(Given)
    BY <1>3, <1>4, <1>5
  <2>2. /\ given \o added \in Seq(Given) /\ Len(given \o added) = Len(given) + Len(added)
        /\ \A i \in 1 .. Len(given) + Len(added) :
              (given \o added)[i] = IF i <= Len(given) THEN given[i] ELSE added[i - Len(given)]
    BY <2>1, ConcatProperties
  <2> QED
    BY <2>1, <2>2, <1>5
<1>8. ASSUME NEW i \in 1 .. n + m PROVE FromGiven(blocks'[i], given'[i], drawn')
  <2>1. CASE i <= n
    <3>1. FromGiven(blocks[i], given[i], drawn) /\ blocks[i] \in Block
      BY <2>1, <1>1, <1>3 DEF BlockInv
    <3>2. blocks[i].eph < drawn /\ blocks[i].eph \in Nat
      BY <3>1 DEF FromGiven, Block
    <3>3. blocks[i].eph < drawn'
      BY <3>2, <1>3
    <3>4. FromGiven(blocks[i], given[i], drawn')
      BY <3>1, <3>3 DEF FromGiven
    <3> QED
      BY <2>1, <3>4, <1>6, <1>7
  <2>2. CASE ~(i <= n)
    <3>1. PICK k \in 1 .. m : i - n = k
      BY <2>2
    <3>2. blocks'[i] = made[k] /\ given'[i] = [text |-> texts[k], required |-> required]
      BY <2>2, <3>1, <1>4, <1>6, <1>7
    <3> QED
      BY <3>1, <3>2, <1>2
  <2> QED
    BY <2>1, <2>2
<1> QED
  BY <1>1, <1>2, <1>5, <1>6, <1>7, <1>8 DEF BlockInv

LEMMA SessionParts ==
    ASSUME TypeInv, BlockInv, LimitInv, DrawsForSession, NEW s, s = ActiveSession(engine, drawn)
    PROVE  /\ s \in Session /\ s.eph < drawn' /\ drawn' \in Nat /\ drawn' >= drawn
           /\ s.sealed = Cardinality(Under(blocks, s.eph)) /\ s.sealed < MaxSeals
<1>1. drawn \in Nat /\ engine \in Engine
  BY DEF TypeInv
<1>2. engine.session \in Session \cup {NoSession}
  BY <1>1 DEF Engine
<1>3. CASE is_valid(engine.session)
  <2>1. s = engine.session /\ drawn' = drawn
    BY <1>3 DEF ActiveSession, DrawsForSession
  <2>2. engine.session # NoSession /\ engine.session.sealed < MaxSeals
    BY <1>3 DEF is_valid
  <2>3. s \in Session
    BY <1>2, <2>1, <2>2
  <2>4. s.eph < drawn /\ s.sealed = Cardinality(Under(blocks, s.eph))
    BY <2>1, <2>2 DEF LimitInv
  <2> QED
    BY <1>1, <2>1, <2>2, <2>3, <2>4
<1>4. CASE ~is_valid(engine.session)
  <2>1. s = [eph |-> drawn, sealed |-> 0, expired |-> FALSE] /\ drawn' = drawn + 1
    BY <1>4 DEF ActiveSession, DrawsForSession
  <2>2. s \in Session /\ s.eph = drawn /\ s.sealed = 0
    BY <1>1, <2>1 DEF Session
  <2>3. Cardinality(Under(blocks, drawn)) = 0
    BY <1>1, UnderFresh
  <2> QED
    BY <1>1, <2>1, <2>2, <2>3, LimitAssumption
<1> QED
  BY <1>3, <1>4

\* seal_session and seal_batch seal everything with the key of the session.
LEMMA SessionLimit ==
    ASSUME TypeInv, BlockInv, LimitInv, DrawsForSession, NEW s, s = ActiveSession(engine, drawn),
           NEW made \in Seq(Block), Len(made) <= MaxBatch, \A i \in 1 .. Len(made) : made[i].eph = s.eph,
           blocks' = blocks \o made,
           engine'.session = [s EXCEPT !.sealed = @ + Len(made)]
    PROVE  LimitInv' /\ engine'.session \in Session
<1>1. /\ s \in Session /\ s.eph < drawn' /\ drawn' \in Nat /\ drawn' >= drawn
      /\ s.sealed = Cardinality(Under(blocks, s.eph)) /\ s.sealed < MaxSeals
  BY SessionParts
<1>2. PICK m \in Nat : m = Len(made)
  OBVIOUS
<1>3. s.eph \in Nat /\ s.sealed \in Nat /\ s.expired \in BOOLEAN
  BY <1>1 DEF Session
<1>4. /\ engine'.session \in Session
      /\ engine'.session.eph = s.eph /\ engine'.session.sealed = s.sealed + m
  BY <1>1, <1>2, <1>3 DEF Session
<1>5. blocks \in Seq(Block)
  BY DEF TypeInv
<1>6. \A x : Cardinality(Under(blocks', x)) = Cardinality(Under(blocks, x)) + Cardinality(Under(made, x))
  BY <1>5, UnderConcat
<1>7. Cardinality(Under(made, s.eph)) = m /\ \A x : x # s.eph => Cardinality(Under(made, x)) = 0
  BY <1>2, UnderAll
<1>8. Cardinality(Under(blocks', s.eph)) = s.sealed + m
  BY <1>1, <1>6, <1>7
<1>9. MaxSeals \in Nat /\ MaxBatch \in Nat /\ m <= MaxBatch
  BY <1>2, LimitAssumption, BoundAssumption
<1>10. ASSUME NEW x \in Nat PROVE Cardinality(Under(blocks', x)) <= MaxSeals + MaxBatch - 1
  <2>1. CASE x = s.eph
    <3>1. s.sealed + m <= MaxSeals + MaxBatch - 1
      BY <1>1, <1>3, <1>9
    <3> QED
      BY <2>1, <3>1, <1>8
  <2>2. CASE x # s.eph
    <3>1. PICK k \in Nat : k = Len(blocks)
      BY <1>5, LenProperties, Zenon
    <3>2. Cardinality(Under(blocks, x)) \in Nat
      BY <3>1, UnderType
    <3>3. Cardinality(Under(made, x)) = 0
      BY <2>2, <1>7
    <3>4. Cardinality(Under(blocks', x)) = Cardinality(Under(blocks, x))
      BY <3>2, <3>3, <1>6
    <3>5. Cardinality(Under(blocks, x)) <= MaxSeals + MaxBatch - 1
      BY DEF LimitInv
    <3> QED
      BY <3>4, <3>5
  <2> QED
    BY <2>1, <2>2
<1>11. LimitInv'
  <2>1. engine'.session.eph < drawn' /\ engine'.session.sealed = Cardinality(Under(blocks', engine'.session.eph))
    BY <1>1, <1>4, <1>8
  <2> QED
    BY <2>1, <1>10 DEF LimitInv, Under
<1> QED
  BY <1>4, <1>11

\* seal and parallel_seal draw a key pair for every block.
LEMMA FreshLimit ==
    ASSUME TypeInv, BlockInv, LimitInv, NEW made \in Seq(Block),
           \A i \in 1 .. Len(made) : made[i].eph = drawn + i - 1,
           blocks' = blocks \o made, drawn' \in Nat, drawn' >= drawn,
           engine'.session = engine.session
    PROVE  LimitInv'
<1>1. drawn \in Nat /\ engine \in Engine /\ blocks \in Seq(Block)
  BY DEF TypeInv
<1>2. \A x : Cardinality(Under(blocks', x)) = Cardinality(Under(blocks, x)) + Cardinality(Under(made, x))
  BY <1>1, UnderConcat
<1>3. PICK k \in Nat : k = Len(blocks)
  BY <1>1
<1>4. PICK l \in Nat : l = Len(made)
  OBVIOUS
<1>5. \A x : Cardinality(Under(blocks, x)) \in Nat /\ Cardinality(Under(made, x)) \in Nat
  BY <1>3, <1>4, UnderType
<1>6. \A x \in Nat : /\ Cardinality(Under(made, x)) <= 1
                     /\ x < drawn => Cardinality(Under(made, x)) = 0
  BY <1>1, UnderEach
<1>7. \A x \in Nat : x < drawn => Cardinality(Under(blocks', x)) = Cardinality(Under(blocks, x))
  BY <1>2, <1>5, <1>6
<1>8. MaxSeals \in Nat /\ MaxBatch \in Nat /\ MaxSeals > 0 /\ MaxBatch > 0
  BY LimitAssumption, BoundAssumption
<1>9. ASSUME NEW x \in Nat PROVE Cardinality(Under(blocks', x)) <= MaxSeals + MaxBatch - 1
  <2>1. CASE x < drawn
    BY <2>1, <1>7 DEF LimitInv
  <2>2. CASE ~(x < drawn)
    <3>1. Cardinality(Under(blocks, x)) = 0
      BY <2>2, <1>1, UnderFresh
    <3>2. Cardinality(Under(blocks', x)) <= 1
      BY <3>1, <1>2, <1>5, <1>6
    <3>3. Cardinality(Under(blocks', x)) \in Nat
      BY <3>1, <1>2, <1>5
    <3> QED
      BY <3>2, <3>3, <1>8
  <2> QED
    BY <2>1, <2>2
<1>10. ASSUME engine.session # NoSession
       PROVE  /\ engine.session.eph < drawn'
              /\ engine.session.sealed = Cardinality(Under(blocks', engine.session.eph))
  <2>1. engine.session \in Session
    BY <1>1, <1>10 DEF Engine
  <2>2. engine.session.eph \in Nat
    BY <2>1 DEF Session
  <2>3. engine.session.eph < drawn /\ engine.session.sealed = Cardinality(Under(blocks, engine.session.eph))
    BY <1>10 DEF LimitInv
  <2> QED
    BY <2>2, <2>3, <1>1, <1>7
<1> QED
  BY <1>9, <1>10 DEF LimitInv, Under

-----------------------------------------------------------------------------
(* Sealing. *)
LEMMA BlockMade ==
    ASSUME NEW eph \in Nat, NEW index \in Nat, NEW required \in Clearance, NEW data \in Data,
           NEW n \in Nat, eph < n, NEW b, b = EncryptedBlock(eph, index, Key(eph, index), required, data)
    PROVE  /\ b \in Block /\ b.eph = eph /\ b.index = index
           /\ FromGiven(b, [text |-> data, required |-> required], n)
<1>1. b = [index |-> index, eph |-> eph, required |-> required, hash |-> data,
           cipher |-> [key |-> <<eph, index>>, text |-> data]]
  BY DEF EncryptedBlock, Key
<1>2. <<eph, index>> \in Pairs /\ data \in Text
  BY DEF Pairs, Text
<1>3. b \in Block
  BY <1>1, <1>2 DEF Block
<1>4. b.eph = eph /\ b.index = index /\ b.required = required /\ b.hash = data
      /\ b.cipher.key = <<eph, index>> /\ b.cipher.text = data
  BY <1>1
<1> QED
  BY <1>3, <1>4 DEF FromGiven

LEMMA EngineParts ==
    ASSUME NEW e \in Engine
    PROVE  /\ e.cache \in Cache /\ e.session \in Session \cup {NoSession} /\ e.sealed \in Nat
           /\ e.opened \in Nat /\ e.denied \in Nat /\ e.invalid \in Nat /\ e.failed \in Nat
  BY DEF Engine

\* One block more, and the engine counts one block more.
SealsOne(index) ==
    /\ engine' \in Engine /\ drawn' \in Nat
    /\ blocks' \in Seq(Block) /\ given' \in Seq(Given) /\ Len(given') = Len(blocks')
    /\ Len(blocks') = Len(blocks) + 1 /\ owner' = owner
    /\ \A i \in 1 .. Len(blocks) : blocks'[i] = blocks[i]
    /\ blocks'[Len(blocks) + 1].index = index
    /\ engine'.sealed = engine.sealed + 1
    /\ engine'.opened = engine.opened /\ engine'.denied = engine.denied
    /\ BlockInv' /\ LimitInv'

LEMMA SealParts ==
    ASSUME VaultInv, NEW data \in Data, NEW index \in Nat, NEW required \in Clearance,
           NEW res, res = seal(engine, drawn, data, index, required),
           engine' = res.engine, Keeps(res.blocks, <<data>>, required), drawn' = drawn + 1
    PROVE  SealsOne(index)
<1>1. TypeInv /\ BlockInv /\ LimitInv /\ drawn \in Nat /\ engine \in Engine /\ drawn' \in Nat /\ drawn < drawn'
  BY DEF VaultInv, TypeInv
<1> DEFINE b == EncryptedBlock(drawn, index, Key(drawn, index), required, data)
<1> DEFINE c == put(engine.cache, drawn, index, Key(drawn, index))
<1>2. res.engine = [engine EXCEPT !.cache = c, !.sealed = @ + 1] /\ res.blocks = <<b>>
  BY DEF seal
<1>3. /\ b \in Block /\ b.eph = drawn /\ b.index = index
      /\ FromGiven(b, [text |-> data, required |-> required], drawn')
  BY <1>1, BlockMade
<1>4. /\ engine.cache \in Cache /\ engine.session \in Session \cup {NoSession} /\ engine.sealed \in Nat
      /\ engine.opened \in Nat /\ engine.denied \in Nat /\ engine.invalid \in Nat /\ engine.failed \in Nat
  BY <1>1, EngineParts
<1>5. c \in Cache
  BY <1>1, <1>4, PutCache
<1> HIDE DEF b, c
<1>6. /\ engine' \in Engine /\ engine'.sealed = engine.sealed + 1
      /\ engine'.opened = engine.opened /\ engine'.denied = engine.denied
      /\ engine'.session = engine.session
  <2>1. engine' = [engine EXCEPT !.cache = c, !.sealed = engine.sealed + 1]
    BY <1>2
  <2>2. /\ engine'.sealed = engine.sealed + 1 /\ engine'.cache = c
        /\ engine'.opened = engine.opened /\ engine'.denied = engine.denied
        /\ engine'.session = engine.session
    BY <2>1, <1>1 DEF Engine
  <2>3. engine.sealed + 1 \in Nat
    BY <1>4
  <2>4. engine' \in Engine
    BY <2>1, <2>3, <1>1, <1>5 DEF Engine
  <2> QED
    BY <2>2, <2>4
<1> DEFINE made == <<b>>
<1>7. made \in Seq(Block) /\ Len(made) = 1 /\ made[1] = b
  BY <1>3
<1>8. <<data>> \in Seq(Data) /\ Len(<<data>>) = 1 /\ <<data>>[1] = data
  OBVIOUS
<1>9. Keeps(made, <<data>>, required)
  BY <1>2
<1> HIDE DEF made
<1>10. \A i \in 1 .. Len(made) :
          FromGiven(made[i], [text |-> <<data>>[i], required |-> required], drawn')
  BY <1>3, <1>7, <1>8
<1>11. drawn' >= drawn
  BY <1>1
<1>12. /\ blocks' \in Seq(Block) /\ given' \in Seq(Given) /\ Len(given') = Len(blocks')
       /\ blocks' = blocks \o made /\ owner' = owner /\ Len(blocks') = Len(blocks) + Len(made)
       /\ BlockInv'
  BY <1>1, <1>7, <1>8, <1>9, <1>10, <1>11, KeptParts
<1>13. \A i \in 1 .. Len(made) : made[i].eph = drawn + i - 1
  BY <1>1, <1>3, <1>7
<1>14. LimitInv'
  BY <1>1, <1>6, <1>7, <1>11, <1>12, <1>13, FreshLimit
<1>15. PICK n \in Nat : n = Len(blocks)
  BY <1>1, LenProperties DEF TypeInv
<1>16. /\ \A i \in 1 .. n : blocks'[i] = blocks[i]
       /\ blocks'[n + 1] = made[1]
  <2>1. blocks \in Seq(Block)
    BY <1>1 DEF TypeInv
  <2>2. \A i \in 1 .. Len(blocks) + Len(made) :
            (blocks \o made)[i] = IF i <= Len(blocks) THEN blocks[i] ELSE made[i - Len(blocks)]
    BY <2>1, <1>7, ConcatProperties
  <2>3. \A i \in 1 .. n + 1 : blocks'[i] = IF i <= n THEN blocks[i] ELSE made[i - n]
    BY <2>2, <1>7, <1>12, <1>15
  <2>4. \A i \in 1 .. n : blocks'[i] = blocks[i]
    BY <2>3
  <2>5. n + 1 - n = 1 /\ n + 1 \in 1 .. n + 1 /\ ~(n + 1 <= n)
    OBVIOUS
  <2>6. blocks'[n + 1] = made[n + 1 - n]
    BY <2>3, <2>5
  <2> QED
    BY <2>4, <2>5, <2>6
<1> QED
  BY <1>1, <1>3, <1>6, <1>7, <1>12, <1>14, <1>15, <1>16 DEF SealsOne

-----------------------------------------------------------------------------
(* The log. *)
LEMMA LogAppend ==
    ASSUME NEW a \in Seq(LogEntry), NEW e \in LogEntry, NEW n \in Nat, n = Len(a), NEW t
    PROVE  /\ Append(a, e) \in Seq(LogEntry)
           /\ \A j \in 1 .. n : Append(a, e)[j] = a[j]
           /\ Append(a, e)[n + 1] = e
           /\ LoggedIn(a, t) \subseteq 1 .. n
           /\ IsFiniteSet(LoggedIn(a, t)) /\ Cardinality(LoggedIn(a, t)) \in Nat
           /\ LoggedIn(Append(a, e), t) = IF e.type = t THEN LoggedIn(a, t) \cup {n + 1} ELSE LoggedIn(a, t)
           /\ Cardinality(LoggedIn(Append(a, e), t))
                = IF e.type = t THEN Cardinality(LoggedIn(a, t)) + 1 ELSE Cardinality(LoggedIn(a, t))
<1> DEFINE L == LoggedIn(a, t)
<1>1. /\ Append(a, e) \in Seq(LogEntry) /\ Len(Append(a, e)) = n + 1
      /\ \A j \in 1 .. n : Append(a, e)[j] = a[j]
      /\ Append(a, e)[n + 1] = e
  BY AppendProperties
<1>2. L \in SUBSET (1 .. n)
  BY DEF LoggedIn
<1>3. IsFiniteSet(L) /\ Cardinality(L) \in Nat
  <2>1. IsFiniteSet(1 .. n)
    BY FS_Interval
  <2> QED
    BY <2>1, <1>2, FS_Subset, FS_CardinalityType
<1>4. LoggedIn(Append(a, e), t) = IF e.type = t THEN L \cup {n + 1} ELSE L
  <2>1. 1 .. n + 1 = (1 .. n) \cup {n + 1}
    OBVIOUS
  <2>2. LoggedIn(Append(a, e), t) = {j \in (1 .. n) \cup {n + 1} : Append(a, e)[j].type = t}
    BY <1>1, <2>1 DEF LoggedIn
  <2>3. L = {j \in 1 .. n : Append(a, e)[j].type = t}
    BY <1>1 DEF LoggedIn
  <2>4. Append(a, e)[n + 1].type = e.type
    BY <1>1
  <2> HIDE DEF L
  <2> QED
    BY <2>2, <2>3, <2>4
<1>5. n + 1 \notin L
  BY <1>2
<1> HIDE DEF L
<1>6. Cardinality(L \cup {n + 1}) = Cardinality(L) + 1
  BY <1>3, <1>5, FS_AddElement
<1> QED
  BY <1>1, <1>2, <1>3, <1>4, <1>6 DEF L

LEMMA AuditSeal ==
    ASSUME NEW a \in Seq(LogEntry), NEW n \in Nat, NEW opened, NEW denied, Audited(a, n, opened, denied)
    PROVE  /\ Append(a, Entry("VAULT_SEAL", n)) \in Seq(LogEntry)
           /\ Audited(Append(a, Entry("VAULT_SEAL", n)), n + 1, opened, denied)
<1> DEFINE e == Entry("VAULT_SEAL", n)
<1> DEFINE a2 == Append(a, e)
<1>1. e \in LogEntry /\ e.type = "VAULT_SEAL" /\ e.block = n
  BY DEF Entry, LogEntry
<1>2. PICK k \in Nat : k = Len(a)
  BY LenProperties
<1> HIDE DEF e
<1> DEFINE L == LoggedIn(a, "VAULT_SEAL")
<1>3. /\ a2 \in Seq(LogEntry) /\ (\A j \in 1 .. k : a2[j] = a[j]) /\ a2[k + 1] = e
      /\ L \subseteq 1 .. k /\ IsFiniteSet(L) /\ Cardinality(L) \in Nat
      /\ LoggedIn(a2, "VAULT_SEAL") = L \cup {k + 1}
      /\ Cardinality(LoggedIn(a2, "VAULT_SEAL")) = Cardinality(L) + 1
  BY <1>1, <1>2, LogAppend
<1>4. /\ Cardinality(LoggedIn(a2, "VAULT_OPEN")) = Cardinality(LoggedIn(a, "VAULT_OPEN"))
      /\ Cardinality(LoggedIn(a2, "VAULT_DENIED")) = Cardinality(LoggedIn(a, "VAULT_DENIED"))
  BY <1>1, <1>2, LogAppend
<1>5. /\ Cardinality(L) = n
      /\ \A j \in L : a[j].block = Cardinality({i \in L : i < j})
      /\ Cardinality(LoggedIn(a, "VAULT_OPEN")) = opened
      /\ Cardinality(LoggedIn(a, "VAULT_DENIED")) = denied
  BY DEF Audited
<1> HIDE DEF a2, L
<1>6. ASSUME NEW j \in L \cup {k + 1}
      PROVE  a2[j].block = Cardinality({i \in L \cup {k + 1} : i < j})
  <2>1. CASE j \in L
    <3>1. j \in 1 .. k
      BY <2>1, <1>3
    <3>2. {i \in L \cup {k + 1} : i < j} = {i \in L : i < j}
      BY <3>1
    <3>3. a2[j] = a[j]
      BY <3>1, <1>3
    <3> QED
      BY <2>1, <3>2, <3>3, <1>5
  <2>2. CASE j = k + 1
    <3>1. {i \in L \cup {k + 1} : i < k + 1} = L
      <4>1. (\A i \in 1 .. k : i < k + 1) /\ ~(k + 1 < k + 1)
        OBVIOUS
      <4>2. \A i \in L : i < k + 1
        BY <4>1, <1>3
      <4> QED
        BY <4>1, <4>2
    <3> QED
      BY <2>2, <3>1, <1>1, <1>3, <1>5
  <2> QED
    BY <2>1, <2>2
<1>7. Audited(a2, n + 1, opened, denied)
  BY <1>3, <1>4, <1>5, <1>6 DEF Audited
<1> QED
  BY <1>3, <1>7 DEF a2, e

LEMMA AuditRead ==
    ASSUME NEW a \in Seq(LogEntry), NEW n, NEW opened \in Nat, NEW denied \in Nat,
           Audited(a, n, opened, denied), NEW b \in Nat
    PROVE  /\ Append(a, Entry("VAULT_OPEN", b)) \in Seq(LogEntry)
           /\ Audited(Append(a, Entry("VAULT_OPEN", b)), n, opened + 1, denied)
           /\ Append(a, Entry("VAULT_DENIED", b)) \in Seq(LogEntry)
           /\ Audited(Append(a, Entry("VAULT_DENIED", b)), n, opened, denied + 1)
<1>1. PICK k \in Nat : k = Len(a)
  BY LenProperties
<1> DEFINE L == LoggedIn(a, "VAULT_SEAL")
<1>2. /\ Cardinality(L) = n
      /\ \A j \in L : a[j].block = Cardinality({i \in L : i < j})
      /\ Cardinality(LoggedIn(a, "VAULT_OPEN")) = opened
      /\ Cardinality(LoggedIn(a, "VAULT_DENIED")) = denied
  BY DEF Audited
<1>3. ASSUME NEW e \in LogEntry, e.type # "VAULT_SEAL", NEW a2, a2 = Append(a, e)
      PROVE  /\ a2 \in Seq(LogEntry) /\ LoggedIn(a2, "VAULT_SEAL") = L
             /\ \A j \in L : a2[j].block = Cardinality({i \in L : i < j})
  <2>1. /\ a2 \in Seq(LogEntry) /\ (\A j \in 1 .. k : a2[j] = a[j])
        /\ L \subseteq 1 .. k /\ LoggedIn(a2, "VAULT_SEAL") = L
    BY <1>1, <1>3, LogAppend
  <2> HIDE DEF L
  <2> QED
    BY <2>1, <1>2
<1>4. ASSUME NEW e, e = Entry("VAULT_OPEN", b), NEW a2, a2 = Append(a, e)
      PROVE  a2 \in Seq(LogEntry) /\ Audited(a2, n, opened + 1, denied)
  <2>1. e \in LogEntry /\ e.type = "VAULT_OPEN"
    BY <1>4 DEF Entry, LogEntry
  <2>2. /\ Cardinality(LoggedIn(a2, "VAULT_OPEN")) = opened + 1
        /\ Cardinality(LoggedIn(a2, "VAULT_DENIED")) = denied
    BY <2>1, <1>1, <1>2, <1>4, LogAppend
  <2>3. /\ a2 \in Seq(LogEntry) /\ LoggedIn(a2, "VAULT_SEAL") = L
        /\ \A j \in L : a2[j].block = Cardinality({i \in L : i < j})
    BY <2>1, <1>3, <1>4
  <2> HIDE DEF L
  <2> QED
    BY <2>2, <2>3, <1>2 DEF Audited
<1>5. ASSUME NEW e, e = Entry("VAULT_DENIED", b), NEW a2, a2 = Append(a, e)
      PROVE  a2 \in Seq(LogEntry) /\ Audited(a2, n, opened, denied + 1)
  <2>1. e \in LogEntry /\ e.type = "VAULT_DENIED"
    BY <1>5 DEF Entry, LogEntry
  <2>2. /\ Cardinality(LoggedIn(a2, "VAULT_OPEN")) = opened
        /\ Cardinality(LoggedIn(a2, "VAULT_DENIED")) = denied + 1
    BY <2>1, <1>1, <1>2, <1>5, LogAppend
  <2>3. /\ a2 \in Seq(LogEntry) /\ LoggedIn(a2, "VAULT_SEAL") = L
        /\ \A j \in L : a2[j].block = Cardinality({i \in L : i < j})
    BY <2>1, <1>3, <1>5
  <2> HIDE DEF L
  <2> QED
    BY <2>2, <2>3, <1>2 DEF Audited
<1> QED
  BY <1>4, <1>5

-----------------------------------------------------------------------------
(* Every step keeps the invariant. *)
LEMMA StoreKeeps ==
    ASSUME VaultInv, NEW data \in Data, NEW required \in Clearance, vault_store(data, required)
    PROVE  VaultInv'
<1>1. PICK n \in Nat : n = Len(blocks)
  BY LenProperties DEF VaultInv, TypeInv
<1>2. SealsOne(n)
  <2>1. PICK res : /\ res = seal(engine, drawn, data, n, required)
                   /\ engine' = res.engine /\ Keeps(res.blocks, <<data>>, required) /\ drawn' = drawn + 1
    BY <1>1 DEF vault_store
  <2> QED
    BY <2>1, SealParts
<1>3. owner = "archivaris" /\ archive' = Append(archive, Entry("VAULT_SEAL", n))
  BY <1>1 DEF vault_store
<1>4. /\ \A i \in 1 .. n : blocks[i].index = i - 1
      /\ engine.sealed = n /\ Audited(archive, n, engine.opened, engine.denied)
      /\ archive \in Seq(LogEntry)
  BY <1>1, <1>3 DEF VaultInv, AuditInv, TypeInv
<1>5. archive' \in Seq(LogEntry) /\ Audited(archive', n + 1, engine.opened, engine.denied)
  BY <1>3, <1>4, AuditSeal
<1>6. /\ Len(blocks') = n + 1 /\ \A i \in 1 .. n : blocks'[i] = blocks[i]
      /\ blocks'[n + 1].index = n
      /\ engine'.sealed = n + 1 /\ engine'.opened = engine.opened /\ engine'.denied = engine.denied
  BY <1>1, <1>2, <1>4 DEF SealsOne
<1>7. \A i \in 1 .. n + 1 : blocks'[i].index = i - 1
  <2>1. \A i \in 1 .. n : blocks'[i].index = i - 1
    BY <1>4, <1>6
  <2>2. n + 1 - 1 = n /\ \A i \in 1 .. n + 1 : i \in 1 .. n \/ i = n + 1
    OBVIOUS
  <2> QED
    BY <2>1, <2>2, <1>6
<1>8. AuditInv'
  BY <1>5, <1>6, <1>7 DEF AuditInv
<1>9. TypeInv'
  BY <1>2, <1>3, <1>5 DEF SealsOne, TypeInv
<1> QED
  BY <1>2, <1>8, <1>9 DEF SealsOne, VaultInv

LEMMA SealKeeps ==
    ASSUME VaultInv, NEW data \in Data, NEW index \in Nat, NEW required \in Clearance,
           Seal(data, index, required)
    PROVE  VaultInv'
<1>1. SealsOne(index)
  <2>1. PICK res : /\ res = seal(engine, drawn, data, index, required)
                   /\ engine' = res.engine /\ Keeps(res.blocks, <<data>>, required) /\ drawn' = drawn + 1
    BY DEF Seal
  <2> QED
    BY <2>1, SealParts
<1>2. owner = "program" /\ archive' = archive /\ archive \in Seq(LogEntry)
  BY DEF Seal, VaultInv, TypeInv
<1>3. TypeInv' /\ AuditInv'
  BY <1>1, <1>2 DEF SealsOne, TypeInv, AuditInv
<1> QED
  BY <1>1, <1>3 DEF SealsOne, VaultInv

\* seal_session and seal_batch in one: all blocks under the session's key.
LEMMA SessionKeeps ==
    ASSUME VaultInv, owner = "program", NEW texts \in Seq(Data), Len(texts) <= MaxBatch,
           NEW required \in Clearance, DrawsForSession, archive' = archive,
           NEW s, s = ActiveSession(engine, drawn),
           NEW made \in Seq(Block), Len(made) = Len(texts),
           \A i \in 1 .. Len(made) :
              made[i].eph = s.eph /\ FromGiven(made[i], [text |-> texts[i], required |-> required], drawn'),
           Keeps(made, texts, required), NEW c \in Cache,
           engine' = [engine EXCEPT !.session = [s EXCEPT !.sealed = @ + Len(texts)],
                                    !.sealed = @ + Len(texts), !.cache = c]
    PROVE  VaultInv'
<1>1. /\ TypeInv /\ BlockInv /\ LimitInv /\ engine \in Engine /\ drawn \in Nat
      /\ archive \in Seq(LogEntry)
  BY DEF VaultInv, TypeInv
<1>2. /\ s \in Session /\ s.eph < drawn' /\ drawn' \in Nat /\ drawn' >= drawn
  BY <1>1, SessionParts
<1>3. /\ blocks' \in Seq(Block) /\ given' \in Seq(Given) /\ Len(given') = Len(blocks')
      /\ blocks' = blocks \o made /\ owner' = owner /\ BlockInv'
  BY <1>1, <1>2, KeptParts
<1>4. PICK m \in Nat : m = Len(texts)
  BY LenProperties
<1>5. engine'.session = [s EXCEPT !.sealed = @ + Len(made)]
  BY <1>1 DEF Engine
<1>6. Len(made) <= MaxBatch /\ \A i \in 1 .. Len(made) : made[i].eph = s.eph
  OBVIOUS
<1>7. LimitInv' /\ engine'.session \in Session
  BY <1>1, <1>3, <1>5, <1>6, SessionLimit
<1>8. engine' \in Engine
  <2>1. engine.sealed \in Nat
    BY <1>1, EngineParts
  <2>2. PICK k \in Nat : k = engine.sealed + m
    BY <2>1
  <2>3. PICK s2 \in Session : s2 = [s EXCEPT !.sealed = @ + Len(texts)]
    BY <1>5, <1>7
  <2>4. engine' = [engine EXCEPT !.session = s2, !.sealed = k, !.cache = c]
    BY <2>2, <2>3, <1>4
  <2> QED
    BY <2>4, <1>1 DEF Engine
<1>9. TypeInv' /\ AuditInv'
  BY <1>1, <1>2, <1>3, <1>8 DEF TypeInv, AuditInv
<1> QED
  BY <1>3, <1>7, <1>9 DEF VaultInv

LEMMA SealSessionKeeps ==
    ASSUME VaultInv, NEW data \in Data, NEW index \in Nat, NEW required \in Clearance,
           SealSession(data, index, required)
    PROVE  VaultInv'
<1>1. /\ TypeInv /\ BlockInv /\ LimitInv /\ engine \in Engine
      /\ owner = "program" /\ DrawsForSession /\ archive' = archive
  BY DEF VaultInv, TypeInv, SealSession
<1>2. PICK s : s = ActiveSession(engine, drawn)
  OBVIOUS
<1> DEFINE b == EncryptedBlock(s.eph, index, Key(s.eph, index), required, data)
<1> DEFINE c == put(engine.cache, s.eph, index, Key(s.eph, index))
<1> DEFINE made == <<b>>
<1>3. s \in Session /\ s.eph < drawn' /\ drawn' \in Nat
  BY <1>1, <1>2, SessionParts
<1>4. s.eph \in Nat
  BY <1>3 DEF Session
<1>5. engine.cache \in Cache
  BY <1>1, EngineParts
<1>6. c \in Cache
  BY <1>4, <1>5, PutCache
<1>7. b \in Block /\ b.eph = s.eph /\ FromGiven(b, [text |-> data, required |-> required], drawn')
  BY <1>3, <1>4, BlockMade
<1>8. /\ Keeps(made, <<data>>, required)
      /\ engine' = [engine EXCEPT !.session = [s EXCEPT !.sealed = @ + 1], !.cache = c, !.sealed = @ + 1]
  BY <1>2 DEF SealSession, seal_session
<1> HIDE DEF b, c
<1>9. /\ made \in Seq(Block) /\ Len(made) = 1 /\ made[1] = b
      /\ <<data>> \in Seq(Data) /\ Len(<<data>>) = 1 /\ <<data>>[1] = data
  BY <1>7
<1> HIDE DEF made
<1>10. \A i \in 1 .. Len(made) :
          made[i].eph = s.eph /\ FromGiven(made[i], [text |-> <<data>>[i], required |-> required], drawn')
  BY <1>7, <1>9
<1>11. Len(<<data>>) <= MaxBatch
  BY <1>9, BoundAssumption
<1>12. engine' = [engine EXCEPT !.session = [s EXCEPT !.sealed = @ + Len(<<data>>)],
                                !.sealed = @ + Len(<<data>>), !.cache = c]
  BY <1>8, <1>9
<1>13. PICK texts \in Seq(Data) : texts = <<data>>
  BY <1>9
<1>14. /\ Len(texts) <= MaxBatch /\ Len(made) = Len(texts) /\ Keeps(made, texts, required)
       /\ \A i \in 1 .. Len(made) :
            made[i].eph = s.eph /\ FromGiven(made[i], [text |-> texts[i], required |-> required], drawn')
       /\ engine' = [engine EXCEPT !.session = [s EXCEPT !.sealed = @ + Len(texts)],
                                   !.sealed = @ + Len(texts), !.cache = c]
  BY <1>8, <1>9, <1>10, <1>11, <1>12, <1>13
<1> QED
  BY <1>1, <1>2, <1>6, <1>9, <1>14, SessionKeeps

LEMMA ListParts ==
    ASSUME NEW S, NEW n \in Nat, NEW l \in [1 .. n -> S] PROVE l \in Seq(S) /\ Len(l) = n
  OBVIOUS

LEMMA BatchParts ==
    ASSUME NEW texts \in Batches
    PROVE  /\ texts \in Seq(Data) /\ Len(texts) <= MaxBatch
           /\ \A i \in 1 .. Len(texts) : texts[i] \in Data
           /\ DOMAIN texts = 1 .. Len(texts)
<1>1. PICK n \in 1 .. MaxBatch : texts \in [1 .. n -> Unused]
  BY DEF Batches
<1>2. n \in Nat /\ n <= MaxBatch
  BY <1>1, BoundAssumption
<1>3. Unused \subseteq Data
  BY DEF Unused
<1>4. texts \in [1 .. n -> Data]
  BY <1>1, <1>3
<1>5. texts \in Seq(Data) /\ Len(texts) = n
  BY <1>2, <1>4, ListParts
<1> QED
  BY <1>2, <1>4, <1>5

LEMMA SealBatchKeeps ==
    ASSUME VaultInv, NEW texts \in Batches, NEW required \in Clearance, SealBatch(texts, required)
    PROVE  VaultInv'
<1>1. /\ TypeInv /\ BlockInv /\ LimitInv /\ engine \in Engine
      /\ owner = "program" /\ DrawsForSession /\ archive' = archive
  BY DEF VaultInv, TypeInv, SealBatch
<1>2. PICK s : s = ActiveSession(engine, drawn)
  OBVIOUS
<1>3. s \in Session /\ s.eph < drawn' /\ drawn' \in Nat
  BY <1>1, <1>2, SessionParts
<1>4. s.eph \in Nat
  BY <1>3 DEF Session
<1>5. engine.cache \in Cache
  BY <1>1, EngineParts
<1>6. /\ texts \in Seq(Data) /\ Len(texts) <= MaxBatch
      /\ \A i \in 1 .. Len(texts) : texts[i] \in Data
      /\ DOMAIN texts = 1 .. Len(texts)
  BY BatchParts
<1>7. PICK n \in Nat : n = Len(texts)
  BY <1>6, LenProperties
<1> DEFINE Made(i) == EncryptedBlock(s.eph, i - 1, Key(s.eph, i - 1), required, texts[i])
<1> DEFINE made == [i \in DOMAIN texts |-> Made(i)]
<1> DEFINE c == PutAll(engine.cache, made)
<1>8. /\ Keeps(made, texts, required)
      /\ engine' = [engine EXCEPT !.session = [s EXCEPT !.sealed = @ + Len(texts)],
                                  !.sealed = @ + Len(texts), !.cache = c]
  BY <1>2 DEF SealBatch, seal_batch
<1>9. ASSUME NEW i \in 1 .. n
      PROVE  /\ Made(i) \in Block /\ Made(i).eph = s.eph /\ Made(i).eph \in Nat /\ Made(i).index \in Nat
             /\ FromGiven(Made(i), [text |-> texts[i], required |-> required], drawn')
  <2>1. PICK k \in Nat : k = i - 1
    OBVIOUS
  <2>2. texts[i] \in Data
    BY <1>6, <1>7
  <2>3. Made(i) = EncryptedBlock(s.eph, k, Key(s.eph, k), required, texts[i])
    BY <2>1
  <2> HIDE DEF Made
  <2>4. /\ Made(i) \in Block /\ Made(i).eph = s.eph /\ Made(i).index = k
        /\ FromGiven(Made(i), [text |-> texts[i], required |-> required], drawn')
    BY <2>2, <2>3, <1>3, <1>4, BlockMade
  <2> QED
    BY <2>1, <2>4, <1>4
<1> HIDE DEF Made
<1>10. made \in [1 .. n -> Block] /\ \A i \in 1 .. n : made[i] = Made(i)
  BY <1>6, <1>7, <1>9
<1> HIDE DEF made
<1>11. made \in Seq(Block) /\ Len(made) = n
  BY <1>10, ListParts
<1>12. \A i \in 1 .. n : made[i].eph \in Nat /\ made[i].index \in Nat
  BY <1>9, <1>10
<1>13. c \in Cache
  BY <1>5, <1>11, <1>12, PutAllCache
<1> HIDE DEF c
<1>14. \A i \in 1 .. Len(made) :
          made[i].eph = s.eph /\ FromGiven(made[i], [text |-> texts[i], required |-> required], drawn')
  BY <1>9, <1>10, <1>11
<1>15. Len(made) = Len(texts) /\ Len(texts) <= MaxBatch
  BY <1>6, <1>7, <1>11
<1> QED
  BY <1>1, <1>2, <1>6, <1>8, <1>11, <1>13, <1>14, <1>15, SessionKeeps

LEMMA ParallelSealKeeps ==
    ASSUME VaultInv, NEW texts \in Batches, NEW required \in Clearance, ParallelSeal(texts, required)
    PROVE  VaultInv'
<1>1. /\ TypeInv /\ BlockInv /\ LimitInv /\ engine \in Engine /\ drawn \in Nat /\ archive \in Seq(LogEntry)
      /\ owner = "program" /\ archive' = archive /\ engine' = engine
  BY DEF VaultInv, TypeInv, ParallelSeal
<1>2. /\ texts \in Seq(Data)
      /\ \A i \in 1 .. Len(texts) : texts[i] \in Data
      /\ DOMAIN texts = 1 .. Len(texts)
  BY BatchParts
<1>3. PICK n \in Nat : n = Len(texts)
  BY <1>2, LenProperties
<1>4. drawn' = drawn + n
  BY <1>3 DEF ParallelSeal
<1>5. drawn' \in Nat /\ drawn' >= drawn
  BY <1>1, <1>4
<1> DEFINE Made(i) == EncryptedBlock(drawn + i - 1, i - 1, Key(drawn + i - 1, i - 1), required, texts[i])
<1> DEFINE made == [i \in DOMAIN texts |-> Made(i)]
<1>6. Keeps(made, texts, required)
  BY DEF ParallelSeal, parallel_seal
<1>7. ASSUME NEW i \in 1 .. n
      PROVE  /\ Made(i) \in Block /\ Made(i).eph = drawn + i - 1
             /\ FromGiven(Made(i), [text |-> texts[i], required |-> required], drawn')
  <2>1. PICK k \in Nat : k = i - 1
    OBVIOUS
  <2>2. PICK key \in Nat : key = drawn + i - 1 /\ key < drawn'
    BY <1>1, <1>4
  <2>3. texts[i] \in Data
    BY <1>2, <1>3
  <2>4. Made(i) = EncryptedBlock(key, k, Key(key, k), required, texts[i])
    BY <2>1, <2>2
  <2> HIDE DEF Made
  <2>5. /\ Made(i) \in Block /\ Made(i).eph = key
        /\ FromGiven(Made(i), [text |-> texts[i], required |-> required], drawn')
    BY <2>2, <2>3, <2>4, <1>5, BlockMade
  <2> QED
    BY <2>2, <2>5
<1> HIDE DEF Made
<1>8. made \in [1 .. n -> Block] /\ \A i \in 1 .. n : made[i] = Made(i)
  BY <1>2, <1>3, <1>7
<1> HIDE DEF made
<1>9. made \in Seq(Block) /\ Len(made) = n
  BY <1>8, ListParts
<1>10. \A i \in 1 .. Len(made) :
          FromGiven(made[i], [text |-> texts[i], required |-> required], drawn')
  BY <1>7, <1>8, <1>9
<1>11. \A i \in 1 .. Len(made) : made[i].eph = drawn + i - 1
  BY <1>7, <1>8, <1>9
<1>12. Len(made) = Len(texts)
  BY <1>3, <1>9
<1>13. /\ blocks' \in Seq(Block) /\ given' \in Seq(Given) /\ Len(given') = Len(blocks')
       /\ blocks' = blocks \o made /\ owner' = owner /\ BlockInv'
  BY <1>1, <1>2, <1>5, <1>6, <1>9, <1>10, <1>12, KeptParts
<1>14. LimitInv'
  BY <1>1, <1>5, <1>9, <1>11, <1>13, FreshLimit
<1>15. TypeInv' /\ AuditInv'
  BY <1>1, <1>5, <1>13 DEF TypeInv, AuditInv
<1> QED
  BY <1>13, <1>14, <1>15 DEF VaultInv

\* Steps that change the session or the cache only.
LEMMA SessionEnds ==
    ASSUME VaultInv, RotateSession \/ SessionAges \/ Flush PROVE VaultInv'
<1>1. /\ TypeInv /\ BlockInv /\ LimitInv /\ AuditInv /\ engine \in Engine
  BY DEF VaultInv, TypeInv
<1>2. UNCHANGED <<owner, drawn, blocks, given, archive>>
  BY DEF RotateSession, SessionAges, Flush
<1>3. /\ engine.cache \in Cache /\ engine.session \in Session \cup {NoSession}
  BY <1>1, EngineParts
<1>4. /\ engine' \in Engine /\ engine'.sealed = engine.sealed
      /\ engine'.opened = engine.opened /\ engine'.denied = engine.denied
      /\ engine'.session # NoSession => /\ engine.session # NoSession
                                        /\ engine'.session.eph = engine.session.eph
                                        /\ engine'.session.sealed = engine.session.sealed
  <2>1. CASE RotateSession
    <3>1. engine' = [engine EXCEPT !.session = NoSession]
      BY <2>1 DEF RotateSession, rotate_session
    <3> QED
      BY <3>1, <1>1 DEF Engine
  <2>2. CASE SessionAges
    <3>1. engine.session \in Session /\ engine.session # NoSession
      BY <2>2, <1>3 DEF SessionAges
    <3>2. PICK s \in Session : s = [engine.session EXCEPT !.expired = TRUE]
      BY <3>1 DEF Session
    <3>3. s.eph = engine.session.eph /\ s.sealed = engine.session.sealed
      BY <3>1, <3>2 DEF Session
    <3>4. engine' = [engine EXCEPT !.session = s]
      BY <2>2, <3>2 DEF SessionAges
    <3> QED
      BY <3>1, <3>3, <3>4, <1>1 DEF Engine
  <2>3. CASE Flush
    <3>1. PICK c \in Cache : c = << >>
      BY EmptyCache
    <3>2. engine' = [engine EXCEPT !.cache = c]
      BY <2>3, <3>1 DEF Flush, flush
    <3> QED
      BY <3>2, <1>1 DEF Engine
  <2> QED
    BY <2>1, <2>2, <2>3
<1>5. TypeInv'
  BY <1>1, <1>2, <1>4 DEF TypeInv
<1>6. BlockInv'
  BY <1>1, <1>2 DEF BlockInv
<1>7. LimitInv'
  BY <1>1, <1>2, <1>4 DEF LimitInv, Under
<1>8. AuditInv'
  BY <1>1, <1>2, <1>4 DEF AuditInv
<1> QED
  BY <1>5, <1>6, <1>7, <1>8 DEF VaultInv

-----------------------------------------------------------------------------
(* Opening. *)
LEMMA KeyIsOwn ==
    ASSUME NEW e \in Engine, NEW b PROVE BlockKey(e, b) = Key(b.eph, b.index)
<1>1. e.cache \in Cache
  BY EngineParts
<1>2. \A p \in DOMAIN e.cache : e.cache[p] = p
  BY <1>1, CacheParts
<1> QED
  BY <1>2 DEF BlockKey, Cached, Key

\* What opening needs to know of a block, whatever its plaintext is.
Numbered(b) == b.eph \in Nat /\ b.index \in Nat /\ b.required \in Clearance

LEMMA BlockNumbered == ASSUME NEW b \in Block PROVE Numbered(b)
  BY DEF Block, Numbered

\* What the answer depends on, for a block that was sealed with its own key.
LEMMA OutcomeParts ==
    ASSUME NEW b, Numbered(b), NEW claim \in JisClaim, b.cipher.key = <<b.eph, b.index>>,
           NEW o, o = Outcome(b, claim, Key(b.eph, b.index))
    PROVE  /\ claim.wellFormed \in BOOLEAN
           /\ o \in {"ClaimInvalid", "AccessDenied", "Panic", "IntegrityFailed", "Opened"}
           /\ o = "ClaimInvalid" <=> ~claim.wellFormed
           /\ o = "AccessDenied" <=> claim.wellFormed /\ ~(claim.clearance >= b.required)
           /\ o = "Panic" <=> claim.wellFormed /\ claim.clearance >= b.required /\ b.cipher.text = Garbage
           /\ o = "Opened" <=> /\ claim.wellFormed /\ claim.clearance >= b.required
                               /\ b.cipher.text # Garbage /\ b.cipher.text = b.hash
<1>1. PICK w \in BOOLEAN : w = claim.wellFormed
  BY DEF JisClaim
<1>2. PICK r \in BOOLEAN : r = (claim.clearance >= b.required)
  <2>1. claim.clearance \in Nat /\ b.required \in Nat
    BY LevelAssumption DEF JisClaim, Numbered, Clearance
  <2>2. (claim.clearance >= b.required) \in BOOLEAN
    BY <2>1
  <2> QED
    BY <2>2, Zenon
<1>3. PICK g \in BOOLEAN : g = (b.cipher.text = Garbage)
  OBVIOUS
<1>4. PICK h \in BOOLEAN : h = (b.cipher.text = b.hash)
  OBVIOUS
<1>5. MayRead(b, claim) = (w /\ r)
  BY <1>1, <1>2 DEF MayRead
<1>6. Decrypts(b, Key(b.eph, b.index)) = ~g
  BY <1>3 DEF Decrypts, Key
<1>7. o = CASE ~w -> "ClaimInvalid"
            [] w /\ ~(w /\ r) -> "AccessDenied"
            [] (w /\ r) /\ ~(~g) -> "Panic"
            [] (w /\ r) /\ ~g /\ ~h -> "IntegrityFailed"
            [] OTHER -> "Opened"
  BY <1>1, <1>4, <1>5, <1>6 DEF Outcome
<1>8. /\ o \in {"ClaimInvalid", "AccessDenied", "Panic", "IntegrityFailed", "Opened"}
      /\ o = "ClaimInvalid" <=> ~w
      /\ o = "AccessDenied" <=> w /\ ~r
      /\ o = "Panic" <=> w /\ r /\ g
      /\ o = "Opened" <=> w /\ r /\ ~g /\ h
  BY <1>7
<1> QED
  BY <1>1, <1>2, <1>3, <1>4, <1>8

LEMMA OpenParts ==
    ASSUME NEW e \in Engine, NEW b, Numbered(b), NEW claim, NEW res, res = open(e, b, claim)
    PROVE  /\ res.engine \in Engine /\ res.kind = Outcome(b, claim, Key(b.eph, b.index))
           /\ res.engine.session = e.session /\ res.engine.sealed = e.sealed
           /\ res.engine.opened = IF res.kind = "Opened" THEN e.opened + 1 ELSE e.opened
           /\ res.engine.denied = IF res.kind = "AccessDenied" THEN e.denied + 1 ELSE e.denied
<1>1. BlockKey(e, b) = Key(b.eph, b.index)
  BY KeyIsOwn
<1>2. PICK o : o = Outcome(b, claim, Key(b.eph, b.index))
  OBVIOUS
<1> DEFINE c == IF o \in {"ClaimInvalid", "AccessDenied"} \/ Cached(e.cache, b)
                THEN e.cache ELSE put(e.cache, b.eph, b.index, Key(b.eph, b.index))
<1>3. /\ e.cache \in Cache /\ e.sealed \in Nat
      /\ e.opened \in Nat /\ e.denied \in Nat /\ e.invalid \in Nat /\ e.failed \in Nat
  BY EngineParts
<1>4. b.eph \in Nat /\ b.index \in Nat
  BY DEF Numbered
<1>5. c \in Cache
  BY <1>3, <1>4, PutCache
<1> DEFINE op == IF o = "Opened" THEN e.opened + 1 ELSE e.opened
<1> DEFINE de == IF o = "AccessDenied" THEN e.denied + 1 ELSE e.denied
<1> DEFINE in == IF o = "ClaimInvalid" THEN e.invalid + 1 ELSE e.invalid
<1> DEFINE fa == IF o = "IntegrityFailed" THEN e.failed + 1 ELSE e.failed
<1> DEFINE e2 == [e EXCEPT !.cache = c, !.opened = op, !.denied = de, !.invalid = in, !.failed = fa]
<1>6. res = [kind |-> o, texts |-> IF o = "Opened" THEN <<b.cipher.text>> ELSE << >>, engine |-> e2]
  BY <1>1, <1>2 DEF open
<1>7. op \in Nat /\ de \in Nat /\ in \in Nat /\ fa \in Nat
  BY <1>3
<1>8. res.kind = o /\ res.engine = e2
  <2> HIDE DEF e2
  <2> QED
    BY <1>6
<1> HIDE DEF c, op, de, in, fa
<1>9. e2 \in Engine /\ e2.session = e.session /\ e2.sealed = e.sealed /\ e2.opened = op /\ e2.denied = de
  BY <1>5, <1>7 DEF Engine
<1> HIDE DEF e2
<1> QED
  BY <1>2, <1>8, <1>9 DEF op, de

LEMMA OpenTexts ==
    ASSUME NEW e \in Engine, NEW b, NEW claim
    PROVE  open(e, b, claim).texts =
              IF Outcome(b, claim, Key(b.eph, b.index)) = "Opened" THEN <<b.cipher.text>> ELSE << >>
<1>1. BlockKey(e, b) = Key(b.eph, b.index)
  BY KeyIsOwn
<1> QED
  BY <1>1, Zenon DEF open

LEMMA RetrieveKeeps ==
    ASSUME VaultInv, NEW i \in DOMAIN blocks, NEW claim \in JisClaim,
           vault_retrieve(i, claim) \/ Open(i, claim)
    PROVE  VaultInv'
<1>1. /\ TypeInv /\ BlockInv /\ LimitInv /\ AuditInv /\ engine \in Engine
      /\ archive \in Seq(LogEntry) /\ blocks \in Seq(Block)
  BY DEF VaultInv, TypeInv
<1>2. i \in Nat /\ i >= 1 /\ blocks[i] \in Block
  BY <1>1
<1>3. PICK res : res = open(engine, blocks[i], claim) /\ engine' = res.engine
  BY DEF vault_retrieve, Open
<1>4. UNCHANGED <<owner, drawn, blocks, given>>
  BY DEF vault_retrieve, Open
<1>5. PICK n : n = Len(blocks)
  OBVIOUS
<1>6. /\ res.engine \in Engine
      /\ res.engine.session = engine.session /\ res.engine.sealed = engine.sealed
      /\ res.engine.opened = IF res.kind = "Opened" THEN engine.opened + 1 ELSE engine.opened
      /\ res.engine.denied = IF res.kind = "AccessDenied" THEN engine.denied + 1 ELSE engine.denied
  <2>1. PICK b \in Block : b = blocks[i]
    BY <1>2
  <2>2. PICK e \in Engine : e = engine
    BY <1>1
  <2>3. res = open(e, b, claim)
    BY <2>1, <2>2, <1>3
  <2>4. /\ res.engine \in Engine
        /\ res.engine.session = e.session /\ res.engine.sealed = e.sealed
        /\ res.engine.opened = IF res.kind = "Opened" THEN e.opened + 1 ELSE e.opened
        /\ res.engine.denied = IF res.kind = "AccessDenied" THEN e.denied + 1 ELSE e.denied
    BY <2>3, BlockNumbered, OpenParts
  <2> QED
    BY <2>2, <2>4
<1>7. archive' \in Seq(LogEntry) /\ AuditInv'
  <2>1. CASE owner = "program"
    <3>1. archive' = archive
      BY <2>1 DEF vault_retrieve, Open
    <3> QED
      BY <2>1, <3>1, <1>1, <1>4 DEF AuditInv
  <2>2. CASE owner # "program"
    <3>1. owner = "archivaris"
      BY <2>2, <1>1 DEF TypeInv
    <3>2. archive' = CASE res.kind = "Opened"       -> Append(archive, Entry("VAULT_OPEN", i - 1))
                       [] res.kind = "AccessDenied" -> Append(archive, Entry("VAULT_DENIED", i - 1))
                       [] OTHER                     -> archive
      BY <2>2, <1>3 DEF vault_retrieve, Open
    <3>3. Audited(archive, n, engine.opened, engine.denied)
      BY <3>1, <1>1, <1>5 DEF AuditInv
    <3>4. engine.opened \in Nat /\ engine.denied \in Nat
      BY <1>1, EngineParts
    <3>5. PICK k \in Nat : k = i - 1
      BY <1>2
    <3>6. /\ Append(archive, Entry("VAULT_OPEN", k)) \in Seq(LogEntry)
          /\ Audited(Append(archive, Entry("VAULT_OPEN", k)), n, engine.opened + 1, engine.denied)
          /\ Append(archive, Entry("VAULT_DENIED", k)) \in Seq(LogEntry)
          /\ Audited(Append(archive, Entry("VAULT_DENIED", k)), n, engine.opened, engine.denied + 1)
      BY <3>3, <3>4, <1>1, AuditRead
    <3>7. archive' \in Seq(LogEntry) /\ Audited(archive', n, engine'.opened, engine'.denied)
      <4>1. CASE res.kind = "Opened"
        <5>1. /\ archive' = Append(archive, Entry("VAULT_OPEN", k))
              /\ engine'.opened = engine.opened + 1 /\ engine'.denied = engine.denied
          BY <4>1, <3>2, <3>5, <1>3, <1>6
        <5> QED
          BY <5>1, <3>6
      <4>2. CASE res.kind = "AccessDenied"
        <5>1. /\ archive' = Append(archive, Entry("VAULT_DENIED", k))
              /\ engine'.opened = engine.opened /\ engine'.denied = engine.denied + 1
          BY <4>2, <3>2, <3>5, <1>3, <1>6
        <5> QED
          BY <5>1, <3>6
      <4>3. CASE res.kind # "Opened" /\ res.kind # "AccessDenied"
        <5>1. /\ archive' = archive
              /\ engine'.opened = engine.opened /\ engine'.denied = engine.denied
          BY <4>3, <3>2, <1>3, <1>6
        <5> QED
          BY <5>1, <3>3, <1>1
      <4> QED
        BY <4>1, <4>2, <4>3
    <3>8. \A j \in 1 .. Len(blocks') : blocks'[j].index = j - 1
      BY <3>1, <1>1, <1>4 DEF AuditInv
    <3>9. engine'.sealed = Len(blocks') /\ Len(blocks') = n
      BY <3>1, <1>1, <1>3, <1>4, <1>5, <1>6 DEF AuditInv
    <3> QED
      BY <3>7, <3>8, <3>9 DEF AuditInv
  <2> QED
    BY <2>1, <2>2
<1>8. TypeInv'
  BY <1>1, <1>3, <1>4, <1>6, <1>7 DEF TypeInv
<1>9. BlockInv'
  BY <1>1, <1>4 DEF BlockInv
<1>10. LimitInv'
  <2>1. engine'.session = engine.session
    BY <1>3, <1>6
  <2> QED
    BY <2>1, <1>1, <1>4 DEF LimitInv, Under
<1> QED
  BY <1>7, <1>8, <1>9, <1>10 DEF VaultInv

\* The places that open, and the places that stop a batch, for a well-formed claim.
Opens(bs, claim) ==
    {i \in 1 .. Len(bs) : /\ claim.clearance >= bs[i].required
                          /\ bs[i].cipher.text # Garbage /\ bs[i].cipher.text = bs[i].hash}

Stops(bs, claim) ==
    {i \in 1 .. Len(bs) : claim.clearance >= bs[i].required /\ bs[i].cipher.text = Garbage}

OwnKeys(bs) == [i \in DOMAIN bs |-> Key(bs[i].eph, bs[i].index)]

\* Each block was sealed with its own key.
Sealed(bs) == bs \in Seq(Block) /\ \A i \in 1 .. Len(bs) : bs[i].cipher.key = <<bs[i].eph, bs[i].index>>

LEMMA EngineKeys ==
    ASSUME NEW e \in Engine, NEW bs
    PROVE  [i \in DOMAIN bs |-> BlockKey(e, bs[i])] = OwnKeys(bs)
<1>1. \A b : BlockKey(e, b) = Key(b.eph, b.index)
  BY KeyIsOwn
<1> QED
  BY <1>1 DEF OwnKeys

LEMMA BatchOpenParts ==
    ASSUME NEW bs, Sealed(bs), NEW claim \in JisClaim, NEW res, res = BatchOpen(bs, claim, OwnKeys(bs))
    PROVE  /\ ~claim.wellFormed \/ Stops(bs, claim) # {} => res.texts = << >> /\ res.kind # "Opened"
           /\ claim.wellFormed /\ Stops(bs, claim) = {} =>
                 res.texts = [k \in 1 .. Cardinality(Opens(bs, claim)) |->
                                 bs[InOrder(Opens(bs, claim))[k]].cipher.text]
           /\ res.kind = "Opened" => Len(res.texts) \in Nat /\ res.denied \in Nat
<1>1. PICK n \in Nat : n = Len(bs) /\ DOMAIN bs = 1 .. n
  BY LenProperties DEF Sealed
<1> DEFINE With(r) == {i \in DOMAIN bs : Outcome(bs[i], claim, OwnKeys(bs)[i]) = r}
<1>2. ASSUME NEW i \in 1 .. n
      PROVE  /\ bs[i] \in Block
             /\ bs[i].cipher.key = <<bs[i].eph, bs[i].index>>
             /\ OwnKeys(bs)[i] = Key(bs[i].eph, bs[i].index)
  BY <1>1 DEF Sealed, OwnKeys
<1>3. IsFiniteSet(1 .. n)
  BY FS_Interval
<1>4. ASSUME NEW r PROVE Cardinality(With(r)) \in Nat
  <2>1. With(r) \in SUBSET (1 .. n)
    BY <1>1
  <2> HIDE DEF With
  <2> QED
    BY <2>1, <1>3, FS_Subset, FS_CardinalityType
<1>5. claim.wellFormed \in BOOLEAN
  BY DEF JisClaim
<1>6. CASE ~claim.wellFormed
  <2>1. res = [kind |-> "ClaimInvalid", texts |-> << >>, denied |-> Len(bs)]
    BY <1>6 DEF BatchOpen
  <2> QED
    BY <2>1, <1>6
<1>7. CASE claim.wellFormed
  <2>1. ASSUME NEW i \in 1 .. n
        PROVE  /\ Outcome(bs[i], claim, OwnKeys(bs)[i]) = "Panic" <=>
                     claim.clearance >= bs[i].required /\ bs[i].cipher.text = Garbage
               /\ Outcome(bs[i], claim, OwnKeys(bs)[i]) = "Opened" <=>
                     /\ claim.clearance >= bs[i].required
                     /\ bs[i].cipher.text # Garbage /\ bs[i].cipher.text = bs[i].hash
    <3>1. PICK o : o = Outcome(bs[i], claim, Key(bs[i].eph, bs[i].index))
      OBVIOUS
    <3>2. Outcome(bs[i], claim, OwnKeys(bs)[i]) = o
      BY <1>2, <3>1
    <3>3. PICK b \in Block : b = bs[i]
      BY <1>2
    <3>4. /\ o = "Panic" <=> claim.wellFormed /\ claim.clearance >= b.required /\ b.cipher.text = Garbage
          /\ o = "Opened" <=> /\ claim.wellFormed /\ claim.clearance >= b.required
                              /\ b.cipher.text # Garbage /\ b.cipher.text = b.hash
      BY <3>1, <3>3, <1>2, BlockNumbered, OutcomeParts
    <3> QED
      BY <3>2, <3>3, <3>4, <1>7
  <2>2. With("Panic") = Stops(bs, claim) /\ With("Opened") = Opens(bs, claim)
    BY <2>1, <1>1 DEF Stops, Opens
  <2>3. CASE With("Panic") # {}
    <3>1. res = [kind |-> "Panic", texts |-> << >>, denied |-> 0]
      BY <2>3, <1>7 DEF BatchOpen
    <3> QED
      BY <2>2, <2>3, <3>1
  <2>4. CASE With("Panic") = {}
    <3> DEFINE S == With("Opened")
    <3>1. res = [kind |-> "Opened",
                 texts |-> [k \in DOMAIN InOrder(S) |-> bs[InOrder(S)[k]].cipher.text],
                 denied |-> Cardinality(With("AccessDenied"))]
      BY <2>4, <1>7, Zenon DEF BatchOpen
    <3>2. Cardinality(S) \in Nat /\ Cardinality(With("AccessDenied")) \in Nat
      BY <1>4
    <3>3. S = Opens(bs, claim)
      BY <2>2
    <3>4. S \in SUBSET (1 .. n)
      BY <1>1
    <3> HIDE DEF With, S
    <3>5. DOMAIN InOrder(S) = 1 .. Cardinality(S)
      BY DEF InOrder
    <3> DEFINE texts == [k \in 1 .. Cardinality(S) |-> bs[InOrder(S)[k]].cipher.text]
    <3>6. res.texts = texts /\ res.denied = Cardinality(With("AccessDenied"))
      BY <3>1, <3>5
    <3>7. Len(texts) = Cardinality(S)
      BY <3>2
    <3>8. res.texts = [k \in 1 .. Cardinality(Opens(bs, claim)) |->
                          bs[InOrder(Opens(bs, claim))[k]].cipher.text]
      BY <3>3, <3>6
    <3>9. Len(res.texts) \in Nat /\ res.denied \in Nat
      <4> HIDE DEF texts
      <4> QED
        BY <3>2, <3>6, <3>7
    <3>10. Stops(bs, claim) = {}
      BY <2>2, <2>4
    <3> QED
      BY <3>8, <3>9, <3>10, <1>7, Zenon
  <2> QED
    BY <2>3, <2>4
<1> QED
  BY <1>5, <1>6, <1>7

LEMMA OpenBatchKeeps ==
    ASSUME VaultInv, NEW claim \in JisClaim, OpenBatch(claim) PROVE VaultInv'
<1>1. /\ TypeInv /\ BlockInv /\ LimitInv /\ AuditInv /\ engine \in Engine /\ blocks \in Seq(Block)
  BY DEF VaultInv, TypeInv
<1>2. UNCHANGED <<owner, drawn, blocks, given, archive>> /\ owner = "program"
  BY DEF OpenBatch
<1>3. Sealed(blocks)
  BY <1>1 DEF Sealed, BlockInv, FromGiven
<1>4. PICK res : res = BatchOpen(blocks, claim, OwnKeys(blocks))
  OBVIOUS
<1>5. engine' = IF res.kind = "Opened"
                THEN [engine EXCEPT !.opened = @ + Len(res.texts), !.denied = @ + res.denied]
                ELSE engine
  <2>1. [i \in DOMAIN blocks |-> BlockKey(engine, blocks[i])] = OwnKeys(blocks)
    BY <1>1, EngineKeys
  <2>2. res = BatchOpen(blocks, claim, [i \in DOMAIN blocks |-> BlockKey(engine, blocks[i])])
    BY <2>1, <1>4
  <2> QED
    BY <2>2, Zenon DEF OpenBatch, open_batch
<1>6. engine' \in Engine /\ engine'.session = engine.session
  <2>1. CASE res.kind # "Opened"
    BY <2>1, <1>1, <1>5
  <2>2. CASE res.kind = "Opened"
    <3>1. Len(res.texts) \in Nat /\ res.denied \in Nat
      BY <2>2, <1>3, <1>4, BatchOpenParts
    <3>2. engine.opened \in Nat /\ engine.denied \in Nat
      BY <1>1, EngineParts
    <3>3. PICK o \in Nat : o = engine.opened + Len(res.texts)
      BY <3>1, <3>2
    <3>4. PICK d \in Nat : d = engine.denied + res.denied
      BY <3>1, <3>2
    <3>5. engine' = [engine EXCEPT !.opened = o, !.denied = d]
      BY <2>2, <3>3, <3>4, <1>5
    <3> QED
      BY <3>5, <1>1 DEF Engine
  <2> QED
    BY <2>1, <2>2
<1>7. TypeInv' /\ AuditInv'
  BY <1>1, <1>2, <1>6 DEF TypeInv, AuditInv
<1>8. BlockInv'
  BY <1>1, <1>2 DEF BlockInv
<1>9. LimitInv'
  BY <1>1, <1>2, <1>6 DEF LimitInv, Under
<1> QED
  BY <1>7, <1>8, <1>9 DEF VaultInv

LEMMA DamageKeeps ==
    ASSUME VaultInv, NEW i \in DOMAIN blocks, Damage(i) PROVE VaultInv'
<1>1. /\ TypeInv /\ BlockInv /\ LimitInv /\ AuditInv /\ blocks \in Seq(Block)
  BY DEF VaultInv, TypeInv
<1>2. UNCHANGED <<owner, engine, drawn, given, archive>>
  BY DEF Damage
<1>3. PICK n \in Nat : n = Len(blocks) /\ DOMAIN blocks = 1 .. n
  BY <1>1, LenProperties
<1>4. PICK b \in Block : b = blocks[i]
  BY <1>1
<1>5. Garbage \in Text
  BY DEF Text
<1>6. PICK d \in Block : /\ blocks' = [blocks EXCEPT ![i] = d]
                         /\ d.eph = b.eph /\ d.index = b.index /\ d.required = b.required
                         /\ d.cipher.key = b.cipher.key
                         /\ d.cipher.text \in {b.cipher.text, Garbage} /\ d.hash \in {b.hash, Garbage}
  <2>1. CASE blocks' = [blocks EXCEPT ![i].cipher.text = Garbage]
    <3> DEFINE d == [b EXCEPT !.cipher.text = Garbage]
    <3>1. d \in Block
      BY <1>5 DEF Block
    <3>2. /\ d.eph = b.eph /\ d.index = b.index /\ d.required = b.required /\ d.hash = b.hash
          /\ d.cipher.key = b.cipher.key /\ d.cipher.text = Garbage
      BY DEF Block
    <3>3. blocks' = [blocks EXCEPT ![i] = d]
      BY <2>1, <1>4
    <3> QED
      BY <3>1, <3>2, <3>3
  <2>2. CASE blocks' = [blocks EXCEPT ![i].hash = Garbage]
    <3> DEFINE d == [b EXCEPT !.hash = Garbage]
    <3>1. d \in Block
      BY <1>5 DEF Block
    <3>2. /\ d.eph = b.eph /\ d.index = b.index /\ d.required = b.required /\ d.hash = Garbage
          /\ d.cipher.key = b.cipher.key /\ d.cipher.text = b.cipher.text
      BY DEF Block
    <3>3. blocks' = [blocks EXCEPT ![i] = d]
      BY <2>2, <1>4
    <3> QED
      BY <3>1, <3>2, <3>3
  <2> QED
    BY <2>1, <2>2 DEF Damage
<1>7. blocks' \in Seq(Block) /\ Len(blocks') = n
  BY <1>1, <1>3, <1>6
<1>8. \A j \in 1 .. n : blocks'[j] = IF j = i THEN d ELSE blocks[j]
  BY <1>1, <1>3, <1>6
<1>9. \A j \in 1 .. n : blocks'[j].eph = blocks[j].eph /\ blocks'[j].index = blocks[j].index
  BY <1>4, <1>6, <1>8
<1>10. TypeInv'
  BY <1>1, <1>2, <1>3, <1>7 DEF TypeInv
<1>11. BlockInv'
  <2>1. ASSUME NEW j \in 1 .. n PROVE FromGiven(blocks'[j], given[j], drawn)
    <3>1. FromGiven(blocks[j], given[j], drawn)
      BY <1>1, <1>3 DEF BlockInv
    <3>2. CASE j # i
      BY <3>1, <3>2, <1>8
    <3>3. CASE j = i
      <4>1. FromGiven(b, given[j], drawn) /\ blocks'[j] = d
        BY <3>1, <3>3, <1>4, <1>8
      <4> QED
        BY <4>1, <1>6 DEF FromGiven
    <3> QED
      BY <3>2, <3>3
  <2> QED
    BY <2>1, <1>2, <1>7 DEF BlockInv
<1>12. \A x : Under(blocks', x) = Under(blocks, x)
  BY <1>3, <1>7, <1>9 DEF Under
<1>13. LimitInv'
  <2>1. \A x : Under(blocks, x)' = Under(blocks', x)
    BY DEF Under
  <2> QED
    BY <1>1, <1>2, <1>12, <2>1 DEF LimitInv
<1>14. AuditInv'
  BY <1>1, <1>2, <1>3, <1>7, <1>9 DEF AuditInv
<1> QED
  BY <1>10, <1>11, <1>13, <1>14 DEF VaultInv

-----------------------------------------------------------------------------
LEMMA InitInv == Init => VaultInv
<1>1. SUFFICES ASSUME Init PROVE VaultInv
  OBVIOUS
<1>2. /\ owner \in {"archivaris", "program"} /\ engine = NewEngine /\ drawn = 0
      /\ blocks = << >> /\ given = << >> /\ archive = << >>
  BY <1>1 DEF Init
<1>3. PICK c \in Cache : c = << >>
  BY EmptyCache
<1>4. engine = [cache |-> c, session |-> NoSession, sealed |-> 0, opened |-> 0,
                denied |-> 0, invalid |-> 0, failed |-> 0]
  BY <1>2, <1>3 DEF NewEngine
<1>5. /\ engine \in Engine /\ engine.session = NoSession /\ engine.sealed = 0
      /\ engine.opened = 0 /\ engine.denied = 0
  <2>1. PICK zero \in Nat : zero = 0
    OBVIOUS
  <2>2. engine = [cache |-> c, session |-> NoSession, sealed |-> zero, opened |-> zero,
                  denied |-> zero, invalid |-> zero, failed |-> zero]
    BY <2>1, <1>4
  <2>3. engine \in Engine /\ engine.session = NoSession /\ engine.sealed = zero
        /\ engine.opened = zero /\ engine.denied = zero
    BY <2>2 DEF Engine
  <2> QED
    BY <2>1, <2>3
<1>6. Len(blocks) = 0 /\ Len(archive) = 0 /\ Len(given) = 0
  BY <1>2
<1>7. TypeInv
  BY <1>2, <1>5 DEF TypeInv
<1>8. BlockInv
  BY <1>6 DEF BlockInv
<1>9. LimitInv
  <2>1. \A x : Under(blocks, x) = {}
    BY <1>6 DEF Under
  <2>2. 0 <= MaxSeals + MaxBatch - 1
    BY LimitAssumption, BoundAssumption
  <2> QED
    BY <2>1, <2>2, <1>5, FS_EmptySet DEF LimitInv
<1>10. AuditInv
  <2>1. \A t : LoggedIn(archive, t) = {}
    BY <1>6 DEF LoggedIn
  <2>2. Audited(archive, 0, 0, 0)
    BY <2>1, FS_EmptySet DEF Audited
  <2> QED
    BY <2>2, <1>5, <1>6 DEF AuditInv
<1> QED
  BY <1>7, <1>8, <1>9, <1>10 DEF VaultInv

LEMMA NextInv == VaultInv /\ [Next]_vars => VaultInv'
<1>1. SUFFICES ASSUME VaultInv, [Next]_vars PROVE VaultInv'
  OBVIOUS
<1>2. Unused \subseteq Data
  BY DEF Unused
<1>3. CASE UNCHANGED vars
  <2>1. UNCHANGED <<owner, engine, drawn, blocks, given, archive>>
    BY <1>3 DEF vars
  <2> QED
    BY <2>1, <1>1 DEF VaultInv, TypeInv, BlockInv, LimitInv, AuditInv, Under
<1>4. CASE \E data \in Unused, required \in Clearance : vault_store(data, required)
  BY <1>1, <1>2, <1>4, StoreKeeps
<1>5. CASE \E data \in Unused, required \in Clearance, index \in 0..1 : Seal(data, index, required)
  <2>1. PICK data \in Unused, required \in Clearance, index \in 0..1 : Seal(data, index, required)
    BY <1>5
  <2> QED
    BY <2>1, <1>1, <1>2, SealKeeps
<1>6. CASE \E data \in Unused, required \in Clearance, index \in 0..1 : SealSession(data, index, required)
  <2>1. PICK data \in Unused, required \in Clearance, index \in 0..1 : SealSession(data, index, required)
    BY <1>6
  <2> QED
    BY <2>1, <1>1, <1>2, SealSessionKeeps
<1>7. CASE \E texts \in Batches, required \in Clearance : SealBatch(texts, required)
  BY <1>1, <1>7, SealBatchKeeps
<1>8. CASE \E texts \in Batches, required \in Clearance : ParallelSeal(texts, required)
  BY <1>1, <1>8, ParallelSealKeeps
<1>9. CASE RotateSession \/ SessionAges \/ Flush
  BY <1>1, <1>9, SessionEnds
<1>10. CASE \E claim \in JisClaim : OpenBatch(claim)
  BY <1>1, <1>10, OpenBatchKeeps
<1>11. CASE \E claim \in JisClaim, i \in DOMAIN blocks : vault_retrieve(i, claim) \/ Open(i, claim)
  BY <1>1, <1>11, RetrieveKeeps
<1>12. CASE \E i \in DOMAIN blocks : Damage(i)
  BY <1>1, <1>12, DamageKeeps
<1> QED
  BY <1>1, <1>3, <1>4, <1>5, <1>6, <1>7, <1>8, <1>9, <1>10, <1>11, <1>12, Zenon DEF Next

(***************************************************************************)
(* Whatever is sealed, opened, rotated, flushed or damaged, the key cache  *)
(* holds own keys only and keeps its limit, a block is what was given or   *)
(* damaged, the session counts the blocks under its key, and the log       *)
(* agrees with the vault.                                                  *)
(***************************************************************************)
THEOREM VaultInvariance == Spec => []VaultInv
  BY InitInv, NextInv, PTL DEF Spec

(***************************************************************************)
(* The key cache never exceeds its limit, the session counts every block   *)
(* under its key, and no key seals more than the session's limit and the   *)
(* rest of one batch (bifurcation.rs:590, :1048).                          *)
(***************************************************************************)
THEOREM LimitsAreKept == Spec => []LimitsHold
<1>1. VaultInv => LimitsHold
  <2>1. SUFFICES ASSUME VaultInv PROVE LimitsHold
    OBVIOUS
  <2>2. engine \in Engine /\ drawn \in Nat /\ blocks \in Seq(Block) /\ LimitInv
    BY <2>1 DEF VaultInv, TypeInv
  <2>3. Cardinality(DOMAIN engine.cache) <= MaxEntries
    <3>1. engine.cache \in Cache
      BY <2>2, EngineParts
    <3> QED
      BY <3>1, CacheParts DEF Small
  <2>4. \A eph : SealedUnder(eph) = Cardinality(Under(blocks, eph))
    <3>1. DOMAIN blocks = 1 .. Len(blocks)
      BY <2>2
    <3> QED
      BY <3>1 DEF SealedUnder, Under
  <2>5. \A eph \in 0 .. drawn : eph \in Nat
    BY <2>2
  <2> QED
    BY <2>2, <2>3, <2>4, <2>5 DEF LimitInv, LimitsHold
<1> QED
  BY <1>1, VaultInvariance, PTL

(***************************************************************************)
(* The log has one VAULT_SEAL for each block of the vault, in the order of *)
(* their indices, one entry for each opening and one for each denial that  *)
(* the engine counted (archivaris.rs:246, :290, :313).                     *)
(***************************************************************************)
THEOREM LogIsComplete == Spec => []AuditIsComplete
<1>1. VaultInv => AuditIsComplete
  <2>1. SUFFICES ASSUME VaultInv, owner = "archivaris" PROVE AuditIsComplete
    BY DEF AuditIsComplete
  <2>2. AuditInv /\ archive \in Seq(LogEntry) /\ blocks \in Seq(Block)
    BY <2>1 DEF VaultInv, TypeInv
  <2>3. \A t : Logged(t) = LoggedIn(archive, t)
    BY <2>2 DEF Logged, LoggedIn
  <2>4. DOMAIN blocks = 1 .. Len(blocks)
    BY <2>2
  <2> QED
    BY <2>1, <2>2, <2>3, <2>4 DEF AuditInv, Audited, AuditIsComplete
<1> QED
  BY <1>1, VaultInvariance, PTL

LEMMA PlaceParts ==
    ASSUME VaultInv, NEW i \in DOMAIN blocks
    PROVE  /\ i \in 1 .. Len(blocks) /\ blocks[i] \in Block /\ given[i] \in Given
           /\ blocks[i].cipher.key = <<blocks[i].eph, blocks[i].index>>
           /\ blocks[i].required = given[i].required
           /\ blocks[i].cipher.text \in {given[i].text, Garbage}
           /\ blocks[i].hash \in {given[i].text, Garbage}
           /\ given[i].text # Garbage /\ given[i].required \in Nat /\ given[i].required \in Clearance
<1>1. /\ blocks \in Seq(Block) /\ given \in Seq(Given) /\ Len(given) = Len(blocks) /\ BlockInv
  BY DEF VaultInv, TypeInv
<1>2. i \in 1 .. Len(blocks) /\ blocks[i] \in Block /\ given[i] \in Given
  BY <1>1
<1>3. FromGiven(blocks[i], given[i], drawn)
  BY <1>1, <1>2 DEF BlockInv
<1>4. given[i].text # Garbage /\ given[i].required \in Nat /\ given[i].required \in Clearance
  BY <1>2, ValueAssumption, LevelAssumption DEF Given, Clearance
<1> QED
  BY <1>2, <1>3, <1>4 DEF FromGiven

(***************************************************************************)
(* A claim with the level a block was sealed with opens it, by the engine  *)
(* or by parallel_open, whatever happened to cache and session since,      *)
(* unless the block was damaged (bifurcation.rs:589, :865).                *)
(***************************************************************************)
THEOREM BlocksStayReadable == Spec => []SealedStaysReadable
<1>1. VaultInv => SealedStaysReadable
  <2>1. SUFFICES ASSUME VaultInv, NEW i \in DOMAIN blocks, Intact(i),
                        NEW claim, claim = [wellFormed |-> TRUE, clearance |-> given[i].required]
                 PROVE  /\ open(engine, blocks[i], claim).texts = <<given[i].text>>
                        /\ parallel_open(<<blocks[i]>>, claim).texts = <<given[i].text>>
    BY Zenon DEF SealedStaysReadable
  <2>2. engine \in Engine
    BY <2>1 DEF VaultInv, TypeInv
  <2>3. /\ given[i].text # Garbage /\ given[i].required \in Nat /\ given[i].required \in Clearance
        /\ blocks[i].required = given[i].required /\ blocks[i] \in Block
        /\ blocks[i].cipher.key = <<blocks[i].eph, blocks[i].index>>
        /\ blocks[i].cipher.text = given[i].text /\ blocks[i].hash = given[i].text
    BY <2>1, PlaceParts DEF Intact
  <2>4. PICK b \in Block : b = blocks[i]
    BY <2>3
  <2>5. PICK text : text = given[i].text
    OBVIOUS
  <2>6. /\ claim \in JisClaim /\ claim.wellFormed /\ claim.clearance >= b.required
    BY <2>1, <2>3, <2>4 DEF JisClaim
  <2>7. b.cipher.key = <<b.eph, b.index>> /\ b.cipher.text = text /\ b.hash = text /\ text # Garbage
    BY <2>3, <2>4, <2>5
  <2>8. Outcome(b, claim, Key(b.eph, b.index)) = "Opened"
    BY <2>6, <2>7, BlockNumbered, OutcomeParts
  <2>9. open(engine, b, claim).texts = <<text>>
    BY <2>2, <2>7, <2>8, OpenTexts
  <2>10. parallel_open(<<b>>, claim).texts = <<text>>
    <3> DEFINE bs == <<b>>
    <3>1. bs \in Seq(Block) /\ Len(bs) = 1 /\ bs[1] = b /\ \A k \in 1 .. 1 : k = 1
      OBVIOUS
    <3> HIDE DEF bs
    <3>2. Sealed(bs)
      BY <3>1, <2>7 DEF Sealed
    <3>3. Opens(bs, claim) = {1} /\ Stops(bs, claim) = {}
      BY <3>1, <2>6, <2>7 DEF Opens, Stops
    <3>4. parallel_open(bs, claim) = BatchOpen(bs, claim, OwnKeys(bs))
      BY DEF parallel_open, OwnKeys
    <3>5. parallel_open(bs, claim).texts =
              [k \in 1 .. Cardinality({1}) |-> bs[InOrder({1})[k]].cipher.text]
      <4>1. PICK res : res = BatchOpen(bs, claim, OwnKeys(bs))
        OBVIOUS
      <4>2. claim.wellFormed /\ Stops(bs, claim) = {} =>
              res.texts = [k \in 1 .. Cardinality(Opens(bs, claim)) |->
                              bs[InOrder(Opens(bs, claim))[k]].cipher.text]
        BY <4>1, <3>2, <2>6, BatchOpenParts
      <4>3. res.texts = [k \in 1 .. Cardinality({1}) |-> bs[InOrder({1})[k]].cipher.text]
        BY <4>2, <3>3, <2>6
      <4> QED
        BY <4>1, <4>3, <3>4
    <3>6. Cardinality({1}) = 1 /\ IsFiniteSet({1})
      BY FS_Singleton
    <3>7. InOrder({1})[1] \in {1}
      <4>1. {1} \in SUBSET Nat
        OBVIOUS
      <4>2. \A k \in 1 .. Cardinality({1}) : InOrder({1})[k] \in {1}
        BY <4>1, <3>6, InOrderParts
      <4> QED
        BY <4>2, <3>6
    <3>8. [k \in 1 .. Cardinality({1}) |-> bs[InOrder({1})[k]].cipher.text] = [k \in 1 .. 1 |-> text]
      BY <3>1, <3>6, <3>7, <2>7
    <3>9. [k \in 1 .. 1 |-> text] = <<text>>
      OBVIOUS
    <3> QED
      BY <3>5, <3>8, <3>9 DEF bs
  <2> QED
    BY <2>4, <2>5, <2>9, <2>10
<1> QED
  BY <1>1, VaultInvariance, PTL

(***************************************************************************)
(* For every claim, open_batch and parallel_open answer with exactly the   *)
(* plaintexts that were sealed and that the claim reaches, in order, and   *)
(* with none when a damaged ciphertext stops the batch                     *)
(* (bifurcation.rs:1150, :1370).                                           *)
(***************************************************************************)
THEOREM BatchesReadWhatWasSealed == Spec => []ReadsWhatWasSealed
<1>1. VaultInv => ReadsWhatWasSealed
  <2>1. SUFFICES ASSUME VaultInv, NEW claim \in JisClaim
                 PROVE  LET Reaches(i) == claim.wellFormed /\ given[i].required <= claim.clearance
                            broken     == \E i \in DOMAIN blocks : Reaches(i) /\ blocks[i].cipher.text = Garbage
                            readable   == InOrder({i \in DOMAIN blocks : Reaches(i) /\ blocks[i].hash = given[i].text})
                            texts      == IF broken THEN << >>
                                          ELSE [i \in DOMAIN readable |-> given[readable[i]].text]
                        IN /\ open_batch(engine, blocks, claim).texts = texts
                           /\ parallel_open(blocks, claim).texts = texts
    BY DEF ReadsWhatWasSealed
  <2> DEFINE Reaches(i) == claim.wellFormed /\ given[i].required <= claim.clearance
  <2> DEFINE broken == \E i \in DOMAIN blocks : Reaches(i) /\ blocks[i].cipher.text = Garbage
  <2> DEFINE S == {i \in DOMAIN blocks : Reaches(i) /\ blocks[i].hash = given[i].text}
  <2> DEFINE texts == IF broken THEN << >> ELSE [i \in DOMAIN InOrder(S) |-> given[InOrder(S)[i]].text]
  <2>2. engine \in Engine /\ blocks \in Seq(Block) /\ BlockInv
    BY <2>1 DEF VaultInv, TypeInv
  <2>3. PICK n \in Nat : n = Len(blocks) /\ DOMAIN blocks = 1 .. n
    BY <2>2, LenProperties
  <2>4. PICK res : res = BatchOpen(blocks, claim, OwnKeys(blocks))
    OBVIOUS
  <2>5. parallel_open(blocks, claim) = res
    BY <2>4 DEF parallel_open, OwnKeys
  <2>6. open_batch(engine, blocks, claim).texts = res.texts
    <3>1. [i \in DOMAIN blocks |-> BlockKey(engine, blocks[i])] = OwnKeys(blocks)
      BY <2>2, EngineKeys
    <3>2. res = BatchOpen(blocks, claim, [i \in DOMAIN blocks |-> BlockKey(engine, blocks[i])])
      BY <3>1, <2>4
    <3> QED
      BY <3>2, Zenon DEF open_batch
  <2>7. Sealed(blocks)
    BY <2>2 DEF Sealed, BlockInv, FromGiven
  <2>8. ASSUME NEW i \in 1 .. n
        PROVE  /\ blocks[i].required = given[i].required
               /\ blocks[i].cipher.text \in {given[i].text, Garbage}
               /\ given[i].text # Garbage
               /\ (claim.clearance >= blocks[i].required) <=> given[i].required <= claim.clearance
    <3>1. /\ blocks[i].required = given[i].required
          /\ blocks[i].cipher.text \in {given[i].text, Garbage}
          /\ given[i].text # Garbage /\ given[i].required \in Nat
      BY <2>1, <2>3, PlaceParts
    <3>2. claim.clearance \in Nat
      BY LevelAssumption DEF JisClaim, Clearance
    <3> QED
      BY <3>1, <3>2
  <2>9. /\ ~claim.wellFormed \/ Stops(blocks, claim) # {} => res.texts = << >>
        /\ claim.wellFormed /\ Stops(blocks, claim) = {} =>
              res.texts = [k \in 1 .. Cardinality(Opens(blocks, claim)) |->
                              blocks[InOrder(Opens(blocks, claim))[k]].cipher.text]
    BY <2>4, <2>7, BatchOpenParts
  <2>10. claim.wellFormed \in BOOLEAN
    BY DEF JisClaim
  <2>11. res.texts = texts
    <3>1. CASE ~claim.wellFormed
      <4>1. S = {} /\ ~broken
        BY <3>1
      <4>2. DOMAIN InOrder({}) = {}
        <5>1. Cardinality({}) = 0 /\ 1 .. 0 = {}
          BY FS_EmptySet
        <5> QED
          BY <5>1 DEF InOrder
      <4>3. texts = [i \in {} |-> given[InOrder({})[i]].text]
        BY <4>1, <4>2
      <4>4. [i \in {} |-> given[InOrder({})[i]].text] = << >>
        OBVIOUS
      <4> QED
        BY <3>1, <4>3, <4>4, <2>9
    <3>2. CASE claim.wellFormed /\ Stops(blocks, claim) # {}
      <4>1. broken
        BY <3>2, <2>3, <2>8 DEF Stops
      <4> QED
        BY <3>2, <4>1, <2>9
    <3>3. CASE claim.wellFormed /\ Stops(blocks, claim) = {}
      <4>1. ~broken
        BY <3>3, <2>3, <2>8 DEF Stops
      <4>2. \A i \in S : blocks[i].cipher.text = given[i].text
        BY <4>1, <2>3, <2>8
      <4>3. Opens(blocks, claim) = S
        <5>1. ASSUME NEW i \in Opens(blocks, claim) PROVE i \in S
          BY <3>3, <2>3, <2>8 DEF Opens
        <5>2. ASSUME NEW i \in S PROVE i \in Opens(blocks, claim)
          BY <4>2, <2>3, <2>8 DEF Opens
        <5> QED
          BY <5>1, <5>2
      <4>4. S \in SUBSET Nat /\ IsFiniteSet(S)
        <5>1. S \in SUBSET (1 .. n) /\ IsFiniteSet(1 .. n)
          BY <2>3, FS_Interval
        <5> HIDE DEF S
        <5>2. IsFiniteSet(S)
          BY <5>1, FS_Subset
        <5>3. 1 .. n \subseteq Nat
          OBVIOUS
        <5> QED
          BY <5>1, <5>2, <5>3
      <4> HIDE DEF S, broken
      <4>5. DOMAIN InOrder(S) = 1 .. Cardinality(S) /\ \A k \in 1 .. Cardinality(S) : InOrder(S)[k] \in S
        BY <4>4, InOrderParts
      <4>6. res.texts = [k \in 1 .. Cardinality(S) |-> blocks[InOrder(S)[k]].cipher.text]
        BY <3>3, <4>3, <2>9
      <4>7. texts = [k \in 1 .. Cardinality(S) |-> given[InOrder(S)[k]].text]
        BY <4>1, <4>5
      <4> HIDE DEF texts
      <4>8. \A k \in 1 .. Cardinality(S) : blocks[InOrder(S)[k]].cipher.text = given[InOrder(S)[k]].text
        BY <4>2, <4>5
      <4> QED
        BY <4>6, <4>7, <4>8
    <3> QED
      BY <3>1, <3>2, <3>3, <2>10
  <2> QED
    BY <2>5, <2>6, <2>11
<1> QED
  BY <1>1, VaultInvariance, PTL

-----------------------------------------------------------------------------
(***************************************************************************)
(* The arena of store-mmu.  Its pages were sealed by one engine and are    *)
(* opened by another, under sessions and a cache that end and fill at any  *)
(* moment; what ties a page to its block is the number that is the page's, *)
(* the block's index and half of its key.                                  *)
(***************************************************************************)
PageText == {"plain", "zstd"} \X Nat

PageBlock == [index : Nat, eph : Nat, required : Clearance, hash : PageText,
              cipher : [key : Pairs, text : PageText]]

\* Block b is page p, sealed with the text given, and damaged since or not.
SealedPage(b, text, required, p) ==
    /\ b.index = p /\ b.eph \in Nat /\ b.required = required /\ b.hash = text
    /\ b.cipher.key = <<b.eph, p>> /\ b.cipher.text \in {text, Garbage}

\* What seal_pages has when n pages are sealed.
SealedUpTo(acc, mode, raw, required, n) ==
    /\ acc.engine \in Engine /\ acc.drawn \in Nat
    /\ acc.blocks \in Seq(PageBlock) /\ Len(acc.blocks) = n
    /\ \A p \in 0 .. (n - 1) : SealedPage(acc.blocks[p + 1], Stored(mode, raw, p), required, p)

LEMMA StoredType == ASSUME NEW mode, NEW raw, NEW p \in Nat PROVE Stored(mode, raw, p) \in PageText
  BY DEF Stored, Plain, PageText

LEMMA NewEngineType == NewEngine \in Engine
<1>1. << >> \in Cache
  BY EmptyCache
<1>2. PICK zero \in Nat : zero = 0
  OBVIOUS
<1> QED
  BY <1>1, <1>2 DEF NewEngine, Engine

\* One page more under the session, which may be a new one.
LEMMA SessionSeals ==
    ASSUME NEW e \in Engine, NEW fresh \in Nat, NEW text \in PageText, NEW p \in Nat,
           NEW required \in Clearance, NEW res, res = seal_session(e, fresh, text, p, required)
    PROVE  /\ res.engine \in Engine
           /\ \E b \in PageBlock : res.blocks = <<b>> /\ SealedPage(b, text, required, p)
<1>1. PICK s : s = ActiveSession(e, fresh)
  OBVIOUS
<1>2. e.cache \in Cache /\ e.session \in Session \cup {NoSession} /\ e.sealed \in Nat
  BY EngineParts
<1>3. s \in Session
  <2>1. CASE is_valid(e.session)
    BY <2>1, <1>1, <1>2 DEF ActiveSession, is_valid
  <2>2. CASE ~is_valid(e.session)
    <3>1. PICK zero \in Nat : zero = 0
      OBVIOUS
    <3>2. s = [eph |-> fresh, sealed |-> zero, expired |-> FALSE]
      BY <2>2, <3>1, <1>1 DEF ActiveSession
    <3> QED
      BY <3>2 DEF Session
  <2> QED
    BY <2>1, <2>2
<1>4. s.eph \in Nat /\ s.sealed \in Nat
  BY <1>3 DEF Session
<1>5. PICK c \in Cache : c = put(e.cache, s.eph, p, Key(s.eph, p))
  BY <1>2, <1>4, PutCache
<1>6. PICK m \in Nat : m = s.sealed + 1
  BY <1>4
<1>7. PICK k \in Nat : k = e.sealed + 1
  BY <1>2
<1>8. PICK s2 \in Session : s2 = [s EXCEPT !.sealed = m]
  BY <1>3, <1>6 DEF Session
<1> DEFINE b == EncryptedBlock(s.eph, p, Key(s.eph, p), required, text)
<1> DEFINE e2 == [e EXCEPT !.session = s2, !.cache = c, !.sealed = k]
<1>9. res = [engine |-> e2, blocks |-> <<b>>]
  BY <1>1, <1>5, <1>6, <1>7, <1>8 DEF seal_session
<1>10. e2 \in Engine
  BY <1>5, <1>7, <1>8 DEF Engine
<1>11. b = [index |-> p, eph |-> s.eph, required |-> required, hash |-> text,
            cipher |-> [key |-> <<s.eph, p>>, text |-> text]]
  BY DEF EncryptedBlock, Key
<1>12. <<s.eph, p>> \in Pairs
  BY <1>4 DEF Pairs
<1> HIDE DEF b, e2
<1>13. b \in PageBlock
  BY <1>4, <1>11, <1>12 DEF PageBlock
<1>14. SealedPage(b, text, required, p)
  BY <1>4, <1>11 DEF SealedPage
<1>15. res.engine = e2 /\ res.blocks = <<b>>
  BY <1>9
<1> QED
  BY <1>10, <1>13, <1>14, <1>15

LEMMA NoneSealedParts ==
    ASSUME NEW mode, NEW raw, NEW required PROVE SealedUpTo(NoneSealed, mode, raw, required, 0)
<1>1. NewEngine \in Engine
  BY NewEngineType
<1>2. PICK zero \in Nat : zero = 0
  OBVIOUS
<1>3. NoneSealed = [engine |-> NewEngine, blocks |-> << >>, drawn |-> zero]
  BY <1>2 DEF NoneSealed
<1>4. NoneSealed.engine = NewEngine /\ NoneSealed.blocks = << >> /\ NoneSealed.drawn = zero
  BY <1>3
<1>5. NoneSealed.blocks \in Seq(PageBlock) /\ Len(NoneSealed.blocks) = 0
  BY <1>4
<1>6. \A p \in 0 .. (0 - 1) : FALSE
  OBVIOUS
<1> QED
  BY <1>1, <1>4, <1>5, <1>6 DEF SealedUpTo

LEMMA SealNextParts ==
    ASSUME NEW n \in Nat, NEW mode, NEW raw, NEW required \in Clearance, NEW acc,
           SealedUpTo(acc, mode, raw, required, n),
           NEW next, next = SealNext(acc, Stored(mode, raw, n), n, required)
    PROVE  SealedUpTo(next, mode, raw, required, n + 1)
<1>1. PICK text \in PageText : text = Stored(mode, raw, n)
  BY StoredType
<1>2. PICK e \in Engine : e = acc.engine
  BY DEF SealedUpTo
<1>3. PICK fresh \in Nat : fresh = acc.drawn
  BY DEF SealedUpTo
<1>4. PICK bs \in Seq(PageBlock) : bs = acc.blocks
  BY DEF SealedUpTo
<1>5. Len(bs) = n /\ \A p \in 0 .. (n - 1) : SealedPage(bs[p + 1], Stored(mode, raw, p), required, p)
  BY <1>4 DEF SealedUpTo
<1>6. PICK res : res = seal_session(e, fresh, text, n, required)
  OBVIOUS
<1>7. /\ res.engine \in Engine
      /\ \E b \in PageBlock : res.blocks = <<b>> /\ SealedPage(b, text, required, n)
  BY <1>6, SessionSeals
<1>8. PICK b \in PageBlock : res.blocks = <<b>> /\ SealedPage(b, text, required, n)
  BY <1>7
<1>9. PICK d \in Nat : d = IF is_valid(e.session) THEN fresh ELSE fresh + 1
  OBVIOUS
<1>10. next = [engine |-> res.engine, blocks |-> bs \o <<b>>, drawn |-> d]
  BY <1>1, <1>2, <1>3, <1>4, <1>6, <1>8, <1>9 DEF SealNext
<1>11. next.engine = res.engine /\ next.blocks = bs \o <<b>> /\ next.drawn = d
  BY <1>10
<1>12. /\ bs \o <<b>> \in Seq(PageBlock) /\ Len(bs \o <<b>>) = n + 1
       /\ (bs \o <<b>>)[n + 1] = b /\ \A i \in 1 .. n : (bs \o <<b>>)[i] = bs[i]
  BY <1>5
<1>13. ASSUME NEW p \in 0 .. n
       PROVE  SealedPage(next.blocks[p + 1], Stored(mode, raw, p), required, p)
  <2>1. CASE p = n
    BY <2>1, <1>1, <1>8, <1>11, <1>12
  <2>2. CASE p # n
    <3>1. p \in 0 .. (n - 1) /\ p + 1 \in 1 .. n
      BY <2>2
    <3> QED
      BY <3>1, <1>5, <1>11, <1>12
  <2> QED
    BY <2>1, <2>2
<1>14. (n + 1) - 1 = n
  OBVIOUS
<1> QED
  BY <1>7, <1>11, <1>12, <1>13, <1>14 DEF SealedUpTo

\* g is the function that seal_pages defines, up to k pages.
Seals(mode, raw, required, k, g) ==
    g = [n \in 0 .. k |-> IF n = 0 THEN NoneSealed
                          ELSE SealNext(g[n - 1], Stored(mode, raw, n - 1), n - 1, required)]

LEMMA SealsExist ==
    ASSUME NEW mode, NEW raw, NEW required, NEW k \in Nat PROVE \E g : Seals(mode, raw, required, k, g)
<1> DEFINE T == {n \in Nat : ~\E g : Seals(mode, raw, required, n, g)}
<1>1. SUFFICES T = {}
  OBVIOUS
<1>2. SUFFICES ASSUME T # {} PROVE FALSE
  OBVIOUS
<1>3. PICK m \in T : \A y \in T : m <= y
  BY <1>2, HasMinimum
<1>4. m \in Nat /\ ~\E g : Seals(mode, raw, required, m, g)
  BY <1>3
<1>5. m # 0
  <2>1. SUFFICES ASSUME m = 0 PROVE FALSE
    OBVIOUS
  <2> DEFINE g0 == [n \in 0 .. 0 |-> NoneSealed]
  <2>2. Seals(mode, raw, required, 0, g0)
    <3>1. \A n \in 0 .. 0 : n = 0
      OBVIOUS
    <3>2. g0 = [n \in 0 .. 0 |-> IF n = 0 THEN NoneSealed
                  ELSE SealNext(g0[n - 1], Stored(mode, raw, n - 1), n - 1, required)]
      BY <3>1
    <3> QED
      BY <3>2 DEF Seals
  <2> QED
    BY <2>1, <2>2, <1>4
<1>6. PICK i \in Nat : m = i + 1
  BY <1>4, <1>5
<1>7. i \notin T
  BY <1>3, <1>6
<1>8. PICK g : Seals(mode, raw, required, i, g)
  BY <1>7
<1> DEFINE last == SealNext(g[i], Stored(mode, raw, m - 1), m - 1, required)
<1> DEFINE h == [n \in 0 .. m |-> IF n = m THEN last ELSE g[n]]
<1>9. h = [n \in 0 .. m |-> IF n = 0 THEN NoneSealed
              ELSE SealNext(h[n - 1], Stored(mode, raw, n - 1), n - 1, required)]
  <2> HIDE DEF last
  <2>1. SUFFICES ASSUME NEW n \in 0 .. m
                 PROVE  h[n] = IF n = 0 THEN NoneSealed
                          ELSE SealNext(h[n - 1], Stored(mode, raw, n - 1), n - 1, required)
    BY Zenon
  <2>2. CASE n = m
    <3>1. h[n] = last
      BY <2>2
    <3>2. n # 0 /\ n - 1 = i /\ i \in 0 .. m /\ i # m
      BY <2>2, <1>6
    <3>3. h[n - 1] = g[i]
      BY <3>2
    <3> QED
      BY <3>1, <3>2, <3>3, <2>2 DEF last
  <2>3. CASE n # m
    <3>1. n \in 0 .. i /\ h[n] = g[n]
      BY <2>3, <1>6
    <3>2. g[n] = IF n = 0 THEN NoneSealed
                 ELSE SealNext(g[n - 1], Stored(mode, raw, n - 1), n - 1, required)
      BY <3>1, <1>8, Zenon DEF Seals
    <3>3. n # 0 => h[n - 1] = g[n - 1]
      <4>1. n # 0 => n - 1 \in 0 .. m /\ n - 1 # m
        BY <2>3, <1>6
      <4> QED
        BY <4>1
    <3> QED
      BY <3>1, <3>2, <3>3
  <2> QED
    BY <2>2, <2>3
<1>10. Seals(mode, raw, required, m, h)
  BY <1>9 DEF Seals
<1> QED
  BY <1>10, <1>4

LEMMA PagesSealed ==
    ASSUME NEW mode, NEW raw, NEW required \in Clearance
    PROVE  /\ seal_pages(mode, raw, required) \in Seq(PageBlock)
           /\ Len(seal_pages(mode, raw, required)) = SealedPages
           /\ \A p \in 0 .. (SealedPages - 1) :
                 SealedPage(seal_pages(mode, raw, required)[p + 1], Stored(mode, raw, p), required, p)
<1>1. PICK k \in Nat : k = SealedPages
  BY ArenaAssumption
<1> DEFINE a == CHOOSE g : Seals(mode, raw, required, k, g)
<1>2. seal_pages(mode, raw, required) = a[k].blocks
  BY <1>1, Zenon DEF seal_pages, Seals
<1>3. Seals(mode, raw, required, k, a)
  BY SealsExist
<1> HIDE DEF a
<1> DEFINE T == {n \in 0 .. k : ~SealedUpTo(a[n], mode, raw, required, n)}
<1>4. T = {}
  <2>1. SUFFICES ASSUME T # {} PROVE FALSE
    OBVIOUS
  <2>2. T \in SUBSET Nat
    OBVIOUS
  <2>3. PICK m \in T : \A y \in T : m <= y
    BY <2>1, <2>2, HasMinimum
  <2>4. m \in 0 .. k /\ ~SealedUpTo(a[m], mode, raw, required, m)
    BY <2>3
  <2>5. a[m] = IF m = 0 THEN NoneSealed
               ELSE SealNext(a[m - 1], Stored(mode, raw, m - 1), m - 1, required)
    BY <2>4, <1>3, Zenon DEF Seals
  <2>6. m # 0
    BY <2>4, <2>5, NoneSealedParts
  <2>7. PICK n \in Nat : n = m - 1 /\ n + 1 = m
    BY <2>4, <2>6
  <2>8. n \in 0 .. k /\ ~(m <= n)
    BY <2>4, <2>7
  <2>9. SealedUpTo(a[n], mode, raw, required, n)
    BY <2>3, <2>8
  <2>10. a[m] = SealNext(a[n], Stored(mode, raw, n), n, required)
    BY <2>5, <2>6, <2>7
  <2> HIDE DEF T
  <2>11. SealedUpTo(a[m], mode, raw, required, n + 1)
    BY <2>9, <2>10, SealNextParts
  <2> QED
    BY <2>4, <2>7, <2>11
<1>5. SealedUpTo(a[k], mode, raw, required, k)
  BY <1>4
<1> QED
  BY <1>1, <1>2, <1>5 DEF SealedUpTo

-----------------------------------------------------------------------------
(***************************************************************************)
(* The inductive invariant of the arena.  PagesAreTheirOwn says nothing of *)
(* what the handler is about to copy, nor of the blocks it opens.          *)
(***************************************************************************)
ConfigInv ==
    /\ config.mode \in FillMode /\ config.claim \in JisClaim /\ config.required \in Clearance
    /\ config.mode \in SealedModes =>
          /\ Len(config.sealed) = SealedPages
          /\ \A p \in 0 .. (SealedPages - 1) :
                SealedPage(config.sealed[p + 1], Stored(config.mode, config.raw, p),
                           config.required, p)

HandlerInv ==
    /\ ArenaTypeOK /\ opener \in Engine
    /\ arena = "none" => handler = "none"
    /\ serving # Nobody => reads[serving] \in PageNumbers

\* What a page may be filled with.
Fills(p, x) ==
    config.mode \in SealedModes => x = IF Restorable(p) THEN Plain(p) ELSE Zero

CopyInv == handler = "copy" => Fills(reads[serving], page)

ArenaInv == ConfigInv /\ HandlerInv /\ CopyInv /\ PagesAreTheirOwn

LEMMA DamagedParts ==
    ASSUME NEW bs \in Seq(PageBlock), NEW bad, NEW k \in Nat, Len(bs) = k, NEW ds, ds = Damaged(bs, bad)
    PROVE  /\ Len(ds) = k
           /\ \A i \in 1 .. k : /\ ds[i].index = bs[i].index /\ ds[i].eph = bs[i].eph
                                /\ ds[i].required = bs[i].required /\ ds[i].hash = bs[i].hash
                                /\ ds[i].cipher.key = bs[i].cipher.key
                                /\ ds[i].cipher.text \in {bs[i].cipher.text, Garbage}
<1>1. DOMAIN bs = 1 .. k
  BY LenProperties
<1> DEFINE D(i) == IF i - 1 \in bad THEN [bs[i] EXCEPT !.cipher.text = Garbage] ELSE bs[i]
<1>2. ds = [i \in 1 .. k |-> D(i)]
  BY <1>1 DEF Damaged
<1>3. ASSUME NEW i \in 1 .. k
      PROVE  /\ D(i).index = bs[i].index /\ D(i).eph = bs[i].eph
             /\ D(i).required = bs[i].required /\ D(i).hash = bs[i].hash
             /\ D(i).cipher.key = bs[i].cipher.key
             /\ D(i).cipher.text \in {bs[i].cipher.text, Garbage}
  <2>1. PICK b \in PageBlock : b = bs[i]
    BY <1>1
  <2>2. CASE i - 1 \in bad
    <3>1. D(i) = [b EXCEPT !.cipher.text = Garbage]
      BY <2>1, <2>2
    <3> HIDE DEF D
    <3> QED
      BY <2>1, <3>1 DEF PageBlock
  <2>3. CASE i - 1 \notin bad
    BY <2>3
  <2> QED
    BY <2>2, <2>3
<1> HIDE DEF D
<1>4. \A i \in 1 .. k : ds[i] = D(i)
  BY <1>2
<1>5. Len(ds) = k
  <2>1. ds \in Seq({D(i) : i \in 1 .. k})
    BY <1>2
  <2>2. PICK n \in Nat : n = Len(ds) /\ 1 .. n = 1 .. k
    BY <1>2, <2>1, LenProperties
  <2>3. n \in 1 .. n \/ n = 0
    OBVIOUS
  <2>4. k \in 1 .. k \/ k = 0
    OBVIOUS
  <2>5. n <= k /\ k <= n
    BY <2>2, <2>3, <2>4
  <2> QED
    BY <2>2, <2>5
<1> QED
  BY <1>3, <1>4, <1>5

LEMMA ArenaInitInv == ArenaInit => ArenaInv
<1> SUFFICES ASSUME ArenaInit PROVE ArenaInv
  OBVIOUS
<1>1. PICK mode \in FillMode, claim \in JisClaim, required \in Clearance :
        \E raw \in SUBSET (0..(SealedPages - 1)), bad \in {{}, {0}} :
          config = [mode |-> mode, claim |-> claim, required |-> required, raw |-> raw,
                    sealed |-> IF mode \in SealedModes
                               THEN Damaged(seal_pages(mode, raw, required), bad) ELSE << >>]
  BY DEF ArenaInit
<1>2. PICK raw \in SUBSET (0..(SealedPages - 1)), bad \in {{}, {0}} :
          config = [mode |-> mode, claim |-> claim, required |-> required, raw |-> raw,
                    sealed |-> IF mode \in SealedModes
                               THEN Damaged(seal_pages(mode, raw, required), bad) ELSE << >>]
  BY <1>1
<1>3. PICK sealed : sealed = IF mode \in SealedModes
                             THEN Damaged(seal_pages(mode, raw, required), bad) ELSE << >>
  OBVIOUS
<1>4. config.mode = mode /\ config.claim = claim /\ config.required = required
      /\ config.raw = raw /\ config.sealed = sealed
  BY <1>2, <1>3
<1>5. ASSUME mode \in SealedModes
      PROVE  /\ Len(sealed) = SealedPages
             /\ \A p \in 0 .. (SealedPages - 1) :
                   SealedPage(sealed[p + 1], Stored(mode, raw, p), required, p)
  <2>1. PICK bs : bs = seal_pages(mode, raw, required)
    OBVIOUS
  <2>2. /\ bs \in Seq(PageBlock) /\ Len(bs) = SealedPages
        /\ \A p \in 0 .. (SealedPages - 1) : SealedPage(bs[p + 1], Stored(mode, raw, p), required, p)
    BY <2>1, PagesSealed
  <2>3. PICK k \in Nat : k = SealedPages
    BY ArenaAssumption
  <2>4. sealed = Damaged(bs, bad)
    BY <1>3, <1>5, <2>1
  <2>5. /\ Len(sealed) = k
        /\ \A i \in 1 .. k :
              /\ sealed[i].index = bs[i].index /\ sealed[i].eph = bs[i].eph
              /\ sealed[i].required = bs[i].required /\ sealed[i].hash = bs[i].hash
              /\ sealed[i].cipher.key = bs[i].cipher.key
              /\ sealed[i].cipher.text \in {bs[i].cipher.text, Garbage}
    BY <2>2, <2>3, <2>4, DamagedParts
  <2>6. ASSUME NEW p \in 0 .. (k - 1)
        PROVE  SealedPage(sealed[p + 1], Stored(mode, raw, p), required, p)
    <3>1. p + 1 \in 1 .. k
      OBVIOUS
    <3>2. SealedPage(bs[p + 1], Stored(mode, raw, p), required, p)
      BY <2>2, <2>3
    <3> QED
      BY <3>1, <3>2, <2>5 DEF SealedPage
  <2> QED
    BY <2>3, <2>5, <2>6
<1>6. ConfigInv
  BY <1>4, <1>5 DEF ConfigInv
<1>7. /\ arena = "none" /\ active = FALSE /\ handler = "none" /\ opener = NewEngine
      /\ serving = Nobody /\ mem = [p \in PageNumbers |-> Absent]
      /\ reads = [t \in Threads |-> Absent] /\ refused = {}
  BY DEF ArenaInit
<1>8. HandlerInv
  BY <1>7, NewEngineType DEF HandlerInv, ArenaTypeOK
<1>9. CopyInv
  BY <1>7 DEF CopyInv
<1>10. PagesAreTheirOwn
  BY <1>7, MarkAssumption DEF PagesAreTheirOwn
<1> QED
  BY <1>6, <1>8, <1>9, <1>10 DEF ArenaInv

LEMMA ConfigKept ==
    ASSUME ConfigInv, config' = config
    PROVE  /\ ConfigInv' /\ \A p : Restorable(p)' = Restorable(p)
           /\ \A p, x : Fills(p, x)' = Fills(p, x)
  BY DEF ConfigInv, Restorable, Fills

\* A fill at the end of a served fault, and the pages the kernel fills with zeros.
LEMMA PageFilled ==
    ASSUME ConfigInv, PagesAreTheirOwn, config' = config, NEW p \in PageNumbers, NEW x, Fills(p, x),
           DOMAIN mem = PageNumbers, mem' = [mem EXCEPT ![p] = x],
           handler # "gone"
    PROVE  PagesAreTheirOwn'
<1>1. SUFFICES ASSUME config.mode \in SealedModes, NEW q \in PageNumbers
               PROVE  /\ mem'[q] \in {Absent, Zero} \/ (mem'[q] = Plain(q) /\ Restorable(q))
                      /\ mem'[q] = Zero /\ Restorable(q) => handler' = "gone"
  BY ConfigKept DEF PagesAreTheirOwn
<1>2. /\ mem[q] \in {Absent, Zero} \/ (mem[q] = Plain(q) /\ Restorable(q))
      /\ mem[q] = Zero /\ Restorable(q) => handler = "gone"
  BY <1>1 DEF PagesAreTheirOwn
<1>3. Plain(q) # Zero
  BY MarkAssumption DEF Plain, PageNumbers
<1>4. CASE q = p
  <2>1. mem'[q] = IF Restorable(q) THEN Plain(q) ELSE Zero
    BY <1>1, <1>4 DEF Fills
  <2> QED
    BY <2>1, <1>3
<1>5. CASE q # p
  <2>1. mem'[q] = mem[q]
    BY <1>5
  <2> QED
    BY <2>1, <1>2
<1> QED
  BY <1>4, <1>5

LEMMA ZerosFilled ==
    ASSUME ConfigInv, PagesAreTheirOwn, config' = config, handler' = "gone",
           \A q \in PageNumbers : mem'[q] \in {mem[q], Absent, Zero}
    PROVE  PagesAreTheirOwn'
<1>1. SUFFICES ASSUME config.mode \in SealedModes, NEW q \in PageNumbers
               PROVE  mem'[q] \in {Absent, Zero} \/ (mem'[q] = Plain(q) /\ Restorable(q))
  BY ConfigKept DEF PagesAreTheirOwn
<1>2. mem[q] \in {Absent, Zero} \/ (mem[q] = Plain(q) /\ Restorable(q))
  BY <1>1 DEF PagesAreTheirOwn
<1> QED
  BY <1>1, <1>2

LEMMA LeaveKeeps ==
    ASSUME ArenaInv, Leave, UNCHANGED <<config, arena, active>>, opener' \in Engine, handler # "none"
    PROVE  ArenaInv'
<1>1. ConfigInv /\ HandlerInv /\ ArenaTypeOK /\ PagesAreTheirOwn
  BY DEF ArenaInv, HandlerInv
<1>2. /\ handler' = "gone" /\ serving' = Nobody /\ reads' = [t \in Threads |-> Absent] /\ refused' = {}
      /\ mem' = [p \in PageNumbers |-> IF \E t \in Threads : reads[t] = p THEN Zero ELSE mem[p]]
  BY DEF Leave
<1>3. ConfigInv'
  BY <1>1, ConfigKept
<1>4. ArenaTypeOK'
  <2>1. DOMAIN mem' = PageNumbers /\ reads' \in [Threads -> PageNumbers \cup {Absent}]
    BY <1>2
  <2> QED
    BY <1>1, <1>2, <2>1 DEF ArenaTypeOK
<1>5. HandlerInv'
  BY <1>1, <1>2, <1>4 DEF HandlerInv
<1>6. \A q \in PageNumbers : mem'[q] \in {mem[q], Absent, Zero}
  BY <1>2
<1>7. PagesAreTheirOwn'
  BY <1>1, <1>2, <1>6, ZerosFilled
<1>8. CopyInv'
  BY <1>2 DEF CopyInv
<1> QED
  BY <1>3, <1>5, <1>7, <1>8 DEF ArenaInv

\* What the handler makes of a sealed page.
LEMMA PageOpened ==
    ASSUME ConfigInv, opener \in Engine, config.mode \in SealedModes, NEW p \in PageNumbers,
           p < SealedPages, NEW res, res = open(opener, config.sealed[p + 1], config.claim)
    PROVE  res.engine \in Engine /\ (res.kind # "Panic" => Fills(p, OpenedPage(res)))
<1>1. PICK mode, raw, claim, required, b :
         /\ mode = config.mode /\ raw = config.raw /\ claim = config.claim
         /\ required = config.required /\ b = config.sealed[p + 1]
  OBVIOUS
<1>2. PICK text : text = Stored(mode, raw, p)
  OBVIOUS
<1>3. p \in 0 .. (SealedPages - 1) /\ p \in Nat /\ p \in 0 .. (Pages - 1)
  BY ArenaAssumption DEF PageNumbers
<1>4. SealedPage(b, text, required, p) /\ claim \in JisClaim /\ required \in Clearance
  BY <1>1, <1>2, <1>3 DEF ConfigInv
<1>5. Numbered(b) /\ b.cipher.key = <<b.eph, b.index>>
  BY <1>3, <1>4 DEF Numbered, SealedPage
<1>6. b.hash = text /\ b.cipher.text \in {text, Garbage} /\ b.required = required
  BY <1>4 DEF SealedPage
<1>7. text # Garbage
  BY <1>2, <1>3, MarkAssumption DEF Stored, Plain
<1>8. PICK o : o = Outcome(b, claim, Key(b.eph, b.index))
  OBVIOUS
<1>9. res = open(opener, b, claim)
  BY <1>1
<1>10. res.engine \in Engine /\ res.kind = o
  BY <1>5, <1>8, <1>9, OpenParts
<1>11. res.texts = IF o = "Opened" THEN <<b.cipher.text>> ELSE << >>
  BY <1>8, <1>9, OpenTexts
<1>12. /\ o = "Panic" <=> claim.wellFormed /\ claim.clearance >= b.required /\ b.cipher.text = Garbage
       /\ o = "Opened" <=> /\ claim.wellFormed /\ claim.clearance >= b.required
                           /\ b.cipher.text # Garbage /\ b.cipher.text = b.hash
  BY <1>4, <1>5, <1>8, OutcomeParts
<1>13. Restorable(p) <=> /\ claim.wellFormed /\ claim.clearance >= required
                         /\ b.cipher.text # Garbage
                         /\ ~(mode = "CompressedEncryptedRestore" /\ p \in raw)
  BY <1>1 DEF Restorable
<1>14. ASSUME o # "Panic" PROVE OpenedPage(res) = IF Restorable(p) THEN Plain(p) ELSE Zero
  <2>1. CASE o # "Opened"
    <3>1. OpenedPage(res) = Zero
      BY <2>1, <1>10 DEF OpenedPage
    <3>2. ~Restorable(p)
      BY <2>1, <1>6, <1>7, <1>12, <1>13, <1>14
    <3> QED
      BY <3>1, <3>2
  <2>2. CASE o = "Opened"
    <3>1. b.cipher.text = text /\ res.texts[1] = text
      BY <2>2, <1>6, <1>11, <1>12
    <3>2. Restorable(p) <=> ~(mode = "CompressedEncryptedRestore" /\ p \in raw)
      BY <2>2, <1>6, <1>12, <1>13
    <3>3. OpenedPage(res) = IF mode = "CompressedEncryptedRestore" THEN Decompressed(text) ELSE text
      BY <2>2, <3>1, <1>1, <1>10 DEF OpenedPage
    <3>4. CASE mode = "CompressedEncryptedRestore" /\ p \in raw
      <4>1. text = <<"plain", p>>
        BY <3>4, <1>2 DEF Stored, Plain
      <4>2. Decompressed(text) = Zero
        BY <4>1 DEF Decompressed
      <4> QED
        BY <3>2, <3>3, <3>4, <4>2
    <3>5. CASE mode = "CompressedEncryptedRestore" /\ p \notin raw
      <4>1. text = <<"zstd", p>>
        BY <3>5, <1>2 DEF Stored
      <4>2. Decompressed(text) = Plain(p)
        BY <4>1 DEF Decompressed
      <4> QED
        BY <3>2, <3>3, <3>5, <4>2
    <3>6. CASE mode # "CompressedEncryptedRestore"
      BY <3>2, <3>3, <3>6, <1>2 DEF Stored
    <3> QED
      BY <3>4, <3>5, <3>6
  <2> QED
    BY <2>1, <2>2
<1> QED
  BY <1>10, <1>14 DEF Fills

\* The page that is served is one that a thread waits for.
LEMMA Served ==
    ASSUME ArenaInv, handler \in {"serve", "copy"}
    PROVE  /\ serving \in Threads /\ reads[serving] \in PageNumbers
           /\ PageIndex(serving) = reads[serving]
  BY DEF ArenaInv, HandlerInv, ArenaTypeOK, PageIndex

LEMMA ServeKeeps ==
    ASSUME ArenaInv, handler = "serve", handler' = "copy", opener' \in Engine,
           UNCHANGED <<config, arena, active, serving, mem, reads, refused>>,
           Fills(reads[serving], page')
    PROVE  ArenaInv'
<1>1. ConfigInv /\ HandlerInv /\ ArenaTypeOK /\ PagesAreTheirOwn
  BY DEF ArenaInv, HandlerInv
<1>2. ConfigInv' /\ \A p, x : Fills(p, x)' = Fills(p, x)
  BY <1>1, ConfigKept
<1>3. HandlerInv'
  BY <1>1 DEF HandlerInv, ArenaTypeOK
<1>4. CopyInv'
  BY ConfigKept DEF CopyInv, Fills, Restorable
<1>5. PagesAreTheirOwn'
  BY <1>1 DEF PagesAreTheirOwn, Restorable
<1> QED
  BY <1>2, <1>3, <1>4, <1>5 DEF ArenaInv

LEMMA ServePlainKeeps == ASSUME ArenaInv, ServePlain PROVE ArenaInv'
<1>1. /\ handler = "serve" /\ handler' = "copy" /\ opener' = opener
      /\ UNCHANGED <<config, arena, active, serving, mem, reads, refused>>
  BY DEF ServePlain
<1>2. PICK p \in PageNumbers : p = reads[serving] /\ PageIndex(serving) = p
  BY <1>1, Served
<1>3. opener \in Engine /\ ConfigInv
  BY DEF ArenaInv, HandlerInv
<1>4. ASSUME config.mode \in SealedModes PROVE ~Restorable(p) /\ page' = Zero
  <2>1. config.mode \notin {"StaticData", "CompressedRestore"}
    BY <1>4 DEF SealedModes
  <2>2. page' = Zero
    BY <2>1 DEF ServePlain
  <2>3. p >= Len(config.sealed) /\ Len(config.sealed) = SealedPages
    BY <1>2, <1>3, <1>4 DEF ServePlain, ConfigInv
  <2>4. ~(p < SealedPages)
    BY <2>3, ArenaAssumption DEF PageNumbers
  <2> QED
    BY <2>2, <2>4 DEF Restorable
<1>5. Fills(p, page')
  BY <1>4 DEF Fills
<1> QED
  BY <1>1, <1>2, <1>3, <1>5, ServeKeeps

LEMMA AbortKeeps ==
    ASSUME ArenaInv, Abort, UNCHANGED <<config, active>>, opener' \in Engine PROVE ArenaInv'
<1>1. ConfigInv /\ HandlerInv /\ ArenaTypeOK /\ PagesAreTheirOwn
  BY DEF ArenaInv, HandlerInv
<1>2. /\ arena' = "aborted" /\ handler' = "gone" /\ serving' = Nobody
      /\ UNCHANGED <<mem, reads, refused>>
  BY DEF Abort
<1>3. ConfigInv'
  BY <1>1, ConfigKept
<1>4. HandlerInv'
  BY <1>1, <1>2 DEF HandlerInv, ArenaTypeOK
<1>5. PagesAreTheirOwn'
  BY <1>1, <1>2, ZerosFilled
<1>6. CopyInv'
  BY <1>2 DEF CopyInv
<1> QED
  BY <1>3, <1>4, <1>5, <1>6 DEF ArenaInv

LEMMA ServeSealedKeeps == ASSUME ArenaInv, ServeSealed PROVE ArenaInv'
<1>1. /\ handler = "serve" /\ config.mode \in SealedModes
      /\ UNCHANGED <<config, active>>
  BY DEF ServeSealed
<1>2. PICK p \in PageNumbers : p = reads[serving] /\ PageIndex(serving) = p
  BY <1>1, Served
<1>3. opener \in Engine /\ ConfigInv
  BY DEF ArenaInv, HandlerInv
<1>4. p < SealedPages
  BY <1>1, <1>2, <1>3 DEF ServeSealed, ConfigInv
<1>5. PICK res : /\ res = open(opener, config.sealed[p + 1], config.claim) /\ opener' = res.engine
                 /\ \/ res.kind = "Panic" /\ Leave /\ UNCHANGED arena
                    \/ res.kind = "Panic" /\ Abort
                    \/ /\ res.kind # "Panic" /\ page' = OpenedPage(res) /\ handler' = "copy"
                       /\ UNCHANGED <<arena, serving, mem, reads, refused>>
  BY <1>2 DEF ServeSealed
<1>6. res.engine \in Engine /\ (res.kind # "Panic" => Fills(p, OpenedPage(res)))
  BY <1>1, <1>3, <1>4, <1>5, PageOpened
<1>7. CASE res.kind = "Panic"
  BY <1>1, <1>5, <1>6, <1>7, LeaveKeeps, AbortKeeps
<1>8. CASE res.kind # "Panic"
  BY <1>1, <1>2, <1>5, <1>6, <1>8, ServeKeeps
<1> QED
  BY <1>7, <1>8

LEMMA CopyKeeps == ASSUME ArenaInv, Copy PROVE ArenaInv'
<1>1. /\ handler = "copy" /\ handler' = "poll" /\ serving' = Nobody
      /\ UNCHANGED <<config, arena, active, opener>>
  BY DEF Copy, Copied
<1>2. PICK p \in PageNumbers : p = reads[serving]
  BY <1>1, Served
<1>3. /\ mem' = [mem EXCEPT ![p] = page]
      /\ reads' = [t \in Threads |-> IF reads[t] = p THEN Absent ELSE reads[t]]
      /\ refused' \subseteq refused
  BY <1>2 DEF Copy
<1>4. /\ ConfigInv /\ HandlerInv /\ ArenaTypeOK /\ PagesAreTheirOwn /\ Fills(p, page)
      /\ DOMAIN mem = PageNumbers /\ handler # "gone"
  BY <1>1, <1>2 DEF ArenaInv, HandlerInv, CopyInv, ArenaTypeOK
<1>5. ConfigInv'
  BY <1>1, <1>4, ConfigKept
<1>6. PagesAreTheirOwn'
  BY <1>1, <1>3, <1>4, PageFilled
<1>7. reads' \in [Threads -> PageNumbers \cup {Absent}] /\ DOMAIN mem' = PageNumbers
  BY <1>3, <1>4 DEF ArenaTypeOK
<1>8. HandlerInv'
  BY <1>1, <1>3, <1>4, <1>7 DEF HandlerInv, ArenaTypeOK
<1>9. CopyInv'
  BY <1>1 DEF CopyInv
<1> QED
  BY <1>5, <1>6, <1>8, <1>9 DEF ArenaInv

LEMMA TouchKeeps ==
    ASSUME ArenaInv, NEW t \in Threads, NEW p \in PageNumbers, Touch(t, p) PROVE ArenaInv'
<1>1. /\ arena = "mapped" /\ reads[t] = Absent
      /\ UNCHANGED <<config, arena, active, handler, opener, serving, page, refused>>
  BY DEF Touch
<1>2. ConfigInv /\ HandlerInv /\ ArenaTypeOK /\ PagesAreTheirOwn /\ CopyInv
  BY DEF ArenaInv, HandlerInv
<1>3. ConfigInv' /\ (\A q : Restorable(q)' = Restorable(q))
  BY <1>1, <1>2, ConfigKept
<1>4. CASE handler = "gone"
  <2>1. mem' = [mem EXCEPT ![p] = Zero] /\ reads' = reads
    BY <1>4 DEF Touch
  <2>2. DOMAIN mem = PageNumbers
    BY <1>2 DEF ArenaTypeOK
  <2>3. \A q \in PageNumbers : mem'[q] \in {mem[q], Absent, Zero}
    BY <2>1, <2>2
  <2>4. PagesAreTheirOwn'
    BY <2>3, <1>1, <1>2, <1>4, ZerosFilled
  <2>5. HandlerInv'
    BY <2>1, <2>2, <1>1, <1>2 DEF HandlerInv, ArenaTypeOK
  <2>6. CopyInv'
    BY <1>1, <1>4 DEF CopyInv
  <2> QED
    BY <2>4, <2>5, <2>6, <1>3 DEF ArenaInv
<1>5. CASE handler # "gone"
  <2>1. mem' = mem /\ reads' = [reads EXCEPT ![t] = p]
    BY <1>5 DEF Touch
  <2>2. PagesAreTheirOwn'
    BY <2>1, <1>1, <1>2 DEF PagesAreTheirOwn, Restorable
  <2>3. reads \in [Threads -> PageNumbers \cup {Absent}] /\ Absent \notin PageNumbers
    BY <1>2, MarkAssumption DEF ArenaTypeOK, PageNumbers
  <2>4. reads' \in [Threads -> PageNumbers \cup {Absent}]
    BY <2>1, <2>3
  <2>5. serving # Nobody => serving \in Threads /\ serving # t /\ reads'[serving] = reads[serving]
    BY <2>1, <2>3, <1>1, <1>2 DEF HandlerInv, ArenaTypeOK
  <2>6. HandlerInv'
    BY <2>1, <2>4, <2>5, <1>1, <1>2 DEF HandlerInv, ArenaTypeOK
  <2>7. CopyInv'
    <3>1. SUFFICES ASSUME handler = "copy" PROVE Fills(reads[serving], page)'
      BY <1>1 DEF CopyInv
    <3>2. Fills(reads[serving], page) /\ serving # Nobody
      BY <3>1, <1>2 DEF CopyInv, HandlerInv, ArenaTypeOK
    <3> QED
      BY <3>2, <2>5, <1>1 DEF Fills, Restorable
  <2> QED
    BY <2>2, <2>6, <2>7, <1>3 DEF ArenaInv
<1> QED
  BY <1>4, <1>5

\* A step that fills and serves nothing keeps the pages, or unmaps them all.
LEMMA QuietKeeps ==
    ASSUME ArenaInv, UNCHANGED <<config, opener, reads>>, HandlerInv',
           mem' = mem \/ mem' = [p \in PageNumbers |-> Absent],
           handler' = handler \/ (handler # "gone" /\ handler' # "copy"),
           handler' = "copy" => UNCHANGED <<serving, page>>
    PROVE  ArenaInv'
<1>1. ConfigInv /\ PagesAreTheirOwn /\ CopyInv
  BY DEF ArenaInv
<1>2. ConfigInv'
  BY <1>1, ConfigKept
<1>3. PagesAreTheirOwn'
  <2>1. CASE mem' = mem
    BY <2>1, <1>1 DEF PagesAreTheirOwn, Restorable
  <2>2. CASE mem' = [p \in PageNumbers |-> Absent]
    <3>1. \A p \in PageNumbers : mem'[p] = Absent
      BY <2>2
    <3> QED
      BY <3>1, MarkAssumption DEF PagesAreTheirOwn
  <2> QED
    BY <2>1, <2>2
<1>4. CopyInv'
  BY <1>1 DEF CopyInv, Fills, Restorable
<1> QED
  BY <1>2, <1>3, <1>4 DEF ArenaInv

LEMMA ArenaNextInv == ArenaInv /\ [ArenaNext]_arenaVars => ArenaInv'
<1> SUFFICES ASSUME ArenaInv, [ArenaNext]_arenaVars PROVE ArenaInv'
  OBVIOUS
<1>1. HandlerInv /\ ArenaTypeOK /\ opener \in Engine
  BY DEF ArenaInv, HandlerInv
<1>2. CASE new
  <2>1. HandlerInv'
    BY <1>1, <1>2 DEF new, HandlerInv, ArenaTypeOK
  <2> QED
    BY <2>1, <1>1, <1>2, QuietKeeps DEF new, HandlerInv
<1>3. CASE NewFails
  <2>1. HandlerInv'
    BY <1>1, <1>3 DEF NewFails, HandlerInv, ArenaTypeOK
  <2> QED
    BY <2>1, <1>3, QuietKeeps DEF NewFails
<1>4. CASE HandlerReady
  <2>1. HandlerInv'
    BY <1>1, <1>4 DEF HandlerReady, HandlerInv, ArenaTypeOK
  <2> QED
    BY <2>1, <1>4, QuietKeeps DEF HandlerReady
<1>5. CASE Stop
  BY <1>1, <1>5, LeaveKeeps DEF Stop
<1>6. ASSUME NEW t \in Threads, ReadEvent(t) PROVE ArenaInv'
  <2>1. reads[t] \in PageNumbers /\ t # Nobody
    BY <1>1, <1>6, MarkAssumption DEF ReadEvent, ArenaTypeOK
  <2>2. HandlerInv'
    BY <2>1, <1>1, <1>6 DEF ReadEvent, HandlerInv, ArenaTypeOK
  <2> QED
    BY <2>2, <1>6, QuietKeeps DEF ReadEvent
<1>7. CASE ServePlain
  BY <1>7, ServePlainKeeps
<1>8. CASE ServeSealed
  BY <1>8, ServeSealedKeeps
<1>9. CASE Copy \/ CopyFails
  <2>1. CASE CopyFails
    <3>1. serving \in Threads
      BY <2>1, Served DEF CopyFails
    <3>2. HandlerInv'
      BY <2>1, <3>1, <1>1 DEF CopyFails, Copied, HandlerInv, ArenaTypeOK
    <3> QED
      BY <2>1, <3>2, QuietKeeps DEF CopyFails, Copied
  <2> QED
    BY <1>9, <2>1, CopyKeeps
<1>10. ASSUME NEW t \in Threads, NEW p \in PageNumbers, Touch(t, p) PROVE ArenaInv'
  BY <1>10, TouchKeeps
<1>11. CASE shutdown
  <2>1. HandlerInv'
    BY <1>1, <1>11 DEF shutdown, HandlerInv, ArenaTypeOK
  <2> QED
    BY <2>1, <1>11, QuietKeeps DEF shutdown
<1>12. CASE Join
  <2>1. DOMAIN mem' = PageNumbers
    BY <1>12 DEF Join, Unmapped
  <2>2. HandlerInv'
    BY <2>1, <1>1, <1>12 DEF Join, HandlerInv, ArenaTypeOK
  <2> QED
    BY <2>2, <1>12, QuietKeeps DEF Join, Unmapped
<1>13. CASE drop
  <2>1. DOMAIN mem' = PageNumbers
    BY <1>13 DEF drop, Unmapped
  <2>2. HandlerInv'
    BY <2>1, <1>1, <1>13 DEF drop, HandlerInv, ArenaTypeOK
  <2> QED
    BY <2>2, <1>13, QuietKeeps DEF drop, Unmapped
<1>14. CASE UNCHANGED arenaVars
  <2>1. HandlerInv'
    BY <1>1, <1>14 DEF arenaVars, HandlerInv, ArenaTypeOK
  <2> QED
    BY <2>1, <1>14, QuietKeeps DEF arenaVars
<1> QED
  BY <1>2, <1>3, <1>4, <1>5, <1>6, <1>7, <1>8, <1>9, <1>10, <1>11, <1>12, <1>13, <1>14
     DEF ArenaNext, Handler

\* The arena keeps its inductive invariant: blocks sealed in order under their
\* own numbers, and a handler that holds what belongs to the page it serves.
THEOREM ArenaInvariance == ArenaSpec => []ArenaInv
<1>1. ArenaInit => ArenaInv
  BY ArenaInitInv
<1>2. ArenaInv /\ [ArenaNext]_arenaVars => ArenaInv'
  BY ArenaNextInv
<1> QED
  BY <1>1, <1>2, PTL DEF ArenaSpec

\* For any number of pages and threads, and whichever limits sessions and cache
\* have: a page shows its own plaintext or zeros, never another page's; a
\* plaintext the claim reaches is withheld only after the handler has ended,
\* and one it does not reach never appears (store-mmu/src/lib.rs:280, :301).
THEOREM PagesNeverMix == ArenaSpec => []PagesAreTheirOwn
<1>1. ArenaInv => PagesAreTheirOwn
  BY DEF ArenaInv
<1> QED
  BY <1>1, ArenaInvariance, PTL
=============================================================================
