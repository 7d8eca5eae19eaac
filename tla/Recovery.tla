------------------------------ MODULE Recovery ------------------------------
(***************************************************************************)
(* Snapshots and recovery: capture (snapshot.rs), the commit log           *)
(* (git_store.rs), the index of snapshots and the fallback order of        *)
(* recover (recovery.rs).  Tasks capture, register and commit in separate  *)
(* calls, so that those of two tasks mix; a scan of the disk may register  *)
(* files whose signature or hash is wrong.                                 *)
(*                                                                         *)
(* A snapshot is the bus sequence number it was captured at.  Compression, *)
(* header layout and messages are left out; what is kept of them is        *)
(* whether signature and hash hold.                                        *)
(***************************************************************************)
EXTENDS Integers, Sequences, FiniteSets, SequencesExt

CONSTANTS Intents,
          Prefix,          \* pairs of intents: the first is a prefix of the second
          AutoPush,        \* auto_push is on and there is a remote
          None,
          MaxScans,        \* bound: files found at the start
          MaxSnapshots,    \* bound: snapshots captured and files found
          MaxTime,         \* bound: clock
          MaxRecoveries    \* bound: calls of recover

ASSUME PrefixAssumption == /\ Prefix \subseteq Intents \X Intents
                           /\ \A i \in Intents : <<i, i>> \in Prefix
ASSUME PushAssumption == AutoPush \in BOOLEAN
ASSUME CountAssumption == {MaxScans, MaxSnapshots, MaxTime, MaxRecoveries} \subseteq Nat

\* SnapshotCandidate: at is captured_at_ns, the time of registration.
SnapshotCandidate == [intent : Intents, seq : Nat, at : Nat, sig : BOOLEAN, hash : BOOLEAN]

Strategy == [name : {"LastGood", "GitRecover", "CleanBoot"}, target : {0}]
            \cup [name : {"Checkpoint"}, target : 0..MaxSnapshots]

ASSUME NoneAssumption == None \notin SnapshotCandidate /\ None \notin Strategy

VARIABLES index,     \* SnapshotIndex.snapshots, newest first
          commits,   \* GitStore.commits, in the order of commit
          held,      \* snapshots captured and not yet committed
          seq,       \* the bus sequence number of the next snapshot
          clock,
          recoveries \* attempted, succeeded, failed

recoveryVars == <<index, commits, held, seq, clock, recoveries>>

RecoveryInit == /\ index = << >> /\ commits = << >> /\ held = {}
                /\ seq = 0 /\ clock = 0
                /\ recoveries = [attempted |-> 0, succeeded |-> 0, failed |-> 0]

Candidate(intent, s, at, sig, hash) ==
    [intent |-> intent, seq |-> s, at |-> at, sig |-> sig, hash |-> hash]

\* register: push, then a stable sort by time, newest first.  The list is sorted already, so
\* that the new entry comes behind those that are not older.
Register(candidates, c) ==
    InsertAt(candidates, Cardinality({i \in DOMAIN candidates : candidates[i].at >= c.at}) + 1, c)

(* Capture, store, register, commit. *)
Tick == /\ clock < MaxTime
        /\ clock' = clock + 1
        /\ UNCHANGED <<index, commits, held, seq, recoveries>>

\* capture_region: an empty region is skipped, any other becomes a sealed snapshot.
capture_region(intent, bytes) ==
    /\ bytes > 0 /\ seq < MaxSnapshots
    /\ held' = held \cup {[intent |-> intent, seq |-> seq, registered |-> FALSE]}
    /\ seq' = seq + 1
    /\ UNCHANGED <<index, commits, clock, recoveries>>

register_from_snapshot(s) ==
    /\ ~s.registered
    /\ index' = Register(index, Candidate(s.intent, s.seq, clock, TRUE, TRUE))
    /\ held' = (held \ {s}) \cup {[s EXCEPT !.registered = TRUE]}
    /\ UNCHANGED <<commits, seq, clock, recoveries>>

commit_snapshot(s) ==
    /\ s.registered
    /\ commits' = Append(commits, [intent |-> s.intent, seq |-> s.seq, pushed |-> AutoPush])
    /\ held' = held \ {s}
    /\ UNCHANGED <<index, seq, clock, recoveries>>

\* External: register is public, and whoever has found files of an earlier run at the start
\* (recovery.rs:117 speaks of a scan of the disk, of which there is no code) calls it with
\* what their check gave.
Scan(intent, at, sig, hash) ==
    /\ held = {} /\ commits = << >> /\ seq < MaxScans
    /\ index' = Register(index, Candidate(intent, seq, at, sig, hash))
    /\ seq' = seq + 1
    /\ UNCHANGED <<commits, held, clock, recoveries>>

(* recover. *)
Matches(c, intent) == <<c.intent, intent>> \in Prefix

Valid(c) == c.sig /\ c.hash

\* iter().find: the first entry at one of these places of the index.
Find(places) == IF places = {} THEN None ELSE index[Min(places)]

\* MUTANT: the candidate farthest from the target.
Closest_Farthest(places) ==
    Find({i \in places : \A j \in places : index[j].seq >= index[i].seq})

\* min_by_key: among the places of candidates up to the target, the first of the closest.
Closest(places) ==
    Find({i \in places : \A j \in places : index[j].seq <= index[i].seq})

Places(Test(_)) == {i \in DOMAIN index : Test(index[i])}

resolve(intent, strategy) ==
    CASE strategy.name = "LastGood" ->
            Find(Places(LAMBDA c : Matches(c, intent) /\ Valid(c)))
      [] strategy.name = "Checkpoint" ->
            Closest(Places(LAMBDA c : Matches(c, intent) /\ c.seq <= strategy.target /\ c.sig))
      [] strategy.name = "GitRecover" -> Find(Places(LAMBDA c : Matches(c, intent)))
      [] strategy.name = "CleanBoot"  -> None

Named(name) == [name |-> name, target |-> 0]

\* MUTANT: a clean boot before the last two strategies.
Strategies_CleanBootEarly(preferred) ==
    IF preferred # None THEN <<preferred>>
    ELSE <<Named("Checkpoint"), Named("CleanBoot"), Named("LastGood"), Named("GitRecover")>>

Strategies(preferred) ==
    IF preferred # None THEN <<preferred>>
    ELSE <<Named("LastGood"), Named("Checkpoint"), Named("GitRecover"), Named("CleanBoot")>>

\* A strategy ends the search when it is CleanBoot or finds a candidate that is valid.
Ends(intent, strategy) ==
    \/ strategy.name = "CleanBoot"
    \/ LET c == resolve(intent, strategy) IN c # None /\ Valid(c)

Recovered(intent, preferred) ==
    LET strategies == Strategies(preferred)
        ending     == {k \in DOMAIN strategies : Ends(intent, strategies[k])}
        first      == strategies[Min(ending)]
    IN  IF ending = {} THEN [kind |-> "Failed", snapshot |-> None]
        ELSE IF first.name = "CleanBoot" THEN [kind |-> "CleanBooted", snapshot |-> None]
        ELSE [kind |-> "Restored", snapshot |-> resolve(intent, first)]

recover(intent, preferred) ==
    LET failed == Recovered(intent, preferred).kind = "Failed"
    IN /\ recoveries.attempted < MaxRecoveries
       /\ recoveries' = [attempted |-> recoveries.attempted + 1,
                         succeeded |-> recoveries.succeeded + (IF failed THEN 0 ELSE 1),
                         failed    |-> recoveries.failed + (IF failed THEN 1 ELSE 0)]
       /\ UNCHANGED <<index, commits, held, seq, clock>>

\* GitStore::find_latest: the last commit on the branch of the intent.
find_latest(intent) ==
    LET branch == SelectSeq(commits, LAMBDA c : Matches([intent |-> intent], c.intent))
    IN IF branch = << >> THEN None ELSE branch[Len(branch)]

RecoveryNext ==
    \/ Tick
    \/ \E s \in held : register_from_snapshot(s) \/ commit_snapshot(s)
    \/ \E intent \in Intents, at \in 0..MaxTime, sig \in BOOLEAN, hash \in BOOLEAN :
          Scan(intent, at, sig, hash)
    \/ \E intent \in Intents, preferred \in Strategy \cup {None} : recover(intent, preferred)

-----------------------------------------------------------------------------

ValidFor(intent) == Places(LAMBDA c : Matches(c, intent) /\ Valid(c))

(***************************************************************************)
(* Without a preference, recover gives up the state of an intent only when *)
(* no valid snapshot of it is indexed, and otherwise restores a valid one  *)
(* that no other valid one is newer than, whatever order tasks and scans   *)
(* registered them in (recovery.rs:242).                                   *)
(***************************************************************************)
CleanBootIsLastResort ==
    \A intent \in Intents :
        LET res == Recovered(intent, None)
        IN IF ValidFor(intent) = {} THEN res.kind = "CleanBooted"
           ELSE /\ res.kind = "Restored"
                /\ \E i \in ValidFor(intent) : res.snapshot = index[i]
                /\ \A i \in ValidFor(intent) : index[i].at <= res.snapshot.at

(***************************************************************************)
(* A checkpoint that is restored is valid, not after the target, and no    *)
(* valid one lies between it and the target (recovery.rs:173).             *)
(***************************************************************************)
CheckpointIsClosest ==
    \A intent \in Intents, target \in 0..MaxSnapshots :
        LET res == Recovered(intent, [name |-> "Checkpoint", target |-> target])
        IN res.kind = "Restored" =>
              /\ \E i \in ValidFor(intent) : res.snapshot = index[i]
              /\ res.snapshot.seq <= target
              /\ \A i \in ValidFor(intent) : index[i].seq <= target => index[i].seq <= res.snapshot.seq

\* "LastGood: Restore the most recent successful snapshot" (recovery.rs:17): time is taken
\* when a snapshot is registered, so that one captured earlier may count as more recent.
LastGoodIsLatest ==
    \A intent \in Intents :
        LET res == Recovered(intent, Named("LastGood"))
        IN res.kind = "Restored" => \A i \in ValidFor(intent) : index[i].seq <= res.snapshot.seq

\* "Recovery failed — no valid snapshot found" (recovery.rs:87): Checkpoint looks at the
\* signature of the closest candidate only, and stops there when its hash is wrong.
FailedMeansNone ==
    \A intent \in Intents, target \in 0..MaxSnapshots :
        Recovered(intent, [name |-> "Checkpoint", target |-> target]).kind = "Failed" =>
            \A i \in ValidFor(intent) : index[i].seq > target

\* "GitRecover: Pull from git if local .tza is corrupted" (recovery.rs:20): the index is
\* searched again, and never the commits.
GitRescues ==
    \A intent \in Intents :
        find_latest(intent) # None => Recovered(intent, Named("GitRecover")).kind = "Restored"

=============================================================================
