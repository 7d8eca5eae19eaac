-------------------------------- MODULE Mmu --------------------------------
(***************************************************************************)
(* The userfaultfd arena of src/crates/store-mmu/src/lib.rs: threads that  *)
(* touch pages, the handler thread that fills them, and shutdown or drop.  *)
(* In the sealed modes the pages were sealed by an engine of seal_pages,   *)
(* and the handler opens them with an engine of its own (:239): engines    *)
(* and blocks are those of Bifurcation.                                    *)
(*                                                                         *)
(* The kernel side of userfaultfd is external: a thread that touches an    *)
(* absent page waits and an event is queued; filling a page wakes every    *)
(* thread that waits for it; when the descriptor is closed, which happens  *)
(* when the handler thread ends for whatever reason, absent pages become   *)
(* zero pages and the threads that wait go on.  An event is read once, and *)
(* the kernel may refuse to fill a page.  A panic ends the thread or, in   *)
(* the release profile (src/Cargo.toml:13), the process.  Latencies and    *)
(* byte counts are left out.                                               *)
(***************************************************************************)
EXTENDS Bifurcation

CONSTANTS Threads,       \* application threads that read the arena
          Pages,         \* pages of the arena, numbered from 0
          SealedPages,   \* pages that were sealed; the arena may be larger
          Absent, Zero, Nobody

ASSUME ArenaAssumption == Pages \in Nat \ {0} /\ SealedPages \in 0..Pages
ASSUME MarkAssumption ==
    /\ Absent # Zero /\ Nobody \notin Threads /\ Absent \notin 0..(Pages - 1)
    /\ \A p \in 0..(Pages - 1) :
          {Absent, Zero, Garbage} \cap {<<"plain", p>>, <<"zstd", p>>} = {}

VARIABLES config,    \* fill mode, claim and sealed pages, fixed by MmuArena::new
          arena,     \* "none", "mapped", "closing" (join), "unmapped", "aborted"
          active,    \* handler_active
          handler,   \* "none", "starting", "poll", "serve", "copy", "gone"
          opener,    \* the handler's engine
          serving,   \* the thread whose event the handler read
          page,      \* what the handler is about to copy
          mem,       \* contents of the pages
          reads,     \* the page each thread waits for, or Absent
          refused    \* threads that wait although their event was read and done with

arenaVars == <<config, arena, active, handler, opener, serving, page, mem, reads,
               refused>>

PageNumbers == 0..(Pages - 1)

Plain(p) == <<"plain", p>>

SealedModes == {"EncryptedRestore", "CompressedEncryptedRestore"}
FillMode == SealedModes \cup {"ZeroFill", "StaticData", "CompressedRestore"}

\* What seal_pages(_compressed) hands to seal_session: zstd falls back to the raw page.
Stored(mode, raw, p) == IF mode = "CompressedEncryptedRestore" /\ p \notin raw
                        THEN <<"zstd", p>> ELSE Plain(p)

\* seal_pages: one engine, one session after the other, the page's number as index.
NoneSealed == [engine |-> NewEngine, blocks |-> << >>, drawn |-> 0]

SealNext(acc, text, p, required) ==
    LET res == seal_session(acc.engine, acc.drawn, text, p, required)
    IN [engine |-> res.engine, blocks |-> acc.blocks \o res.blocks,
        drawn |-> IF is_valid(acc.engine.session) THEN acc.drawn ELSE acc.drawn + 1]

seal_pages(mode, raw, required) ==
    LET after[n \in 0..SealedPages] ==
            IF n = 0 THEN NoneSealed
            ELSE SealNext(after[n - 1], Stored(mode, raw, n - 1), n - 1, required)
    IN  after[SealedPages].blocks

Damaged(blocks, bad) == [i \in DOMAIN blocks |->
    IF i - 1 \in bad THEN [blocks[i] EXCEPT !.cipher.text = Garbage] ELSE blocks[i]]

\* ArenaInit also chooses what was sealed: at what level, which pages zstd failed on, one damaged.
ArenaInit ==
    /\ \E mode \in FillMode, claim \in JisClaim, required \in Clearance :
       \E raw \in SUBSET (0..(SealedPages - 1)), bad \in {{}, {0}} :
          /\ raw # {} => mode = "CompressedEncryptedRestore"
          /\ config = [mode |-> mode, claim |-> claim, required |-> required, raw |-> raw,
                       sealed |-> IF mode \in SealedModes
                                  THEN Damaged(seal_pages(mode, raw, required), bad) ELSE << >>]
    /\ arena = "none" /\ active = FALSE /\ handler = "none"
    /\ opener = NewEngine /\ serving = Nobody /\ page = Absent
    /\ mem = [p \in PageNumbers |-> Absent]
    /\ reads = [t \in Threads |-> Absent] /\ refused = {}

(* MmuArena::new: mmap, userfaultfd and register may fail, which leaves nothing behind. *)
new ==
    /\ arena = "none"
    /\ arena' = "mapped" /\ active' = TRUE /\ handler' = "starting"
    /\ UNCHANGED <<config, opener, serving, page, mem, reads, refused>>

NewFails ==
    /\ arena = "none"
    /\ arena' = "unmapped"
    /\ UNCHANGED <<config, active, handler, opener, serving, page, mem, reads, refused>>

HandlerReady ==
    /\ handler = "starting"
    /\ handler' = "poll"
    /\ UNCHANGED <<config, arena, active, opener, serving, page, mem, reads, refused>>

(* Threads read through a borrow of the arena: none is under way once it is shut down. *)
Present(p) == mem[p] # Absent

\* A thread touches an absent page: it waits, or gets a zero page when the descriptor is closed.
Touch(t, p) ==
    /\ arena = "mapped" /\ handler # "starting" /\ reads[t] = Absent /\ ~Present(p)
    /\ IF handler = "gone"
       THEN mem' = [mem EXCEPT ![p] = Zero] /\ UNCHANGED reads
       ELSE reads' = [reads EXCEPT ![t] = p] /\ UNCHANGED mem
    /\ UNCHANGED <<config, arena, active, handler, opener, serving, page, refused>>

(* The handler thread. *)
Leave ==
    /\ handler' = "gone"
    /\ mem' = [p \in PageNumbers |-> IF \E t \in Threads : reads[t] = p THEN Zero ELSE mem[p]]
    /\ reads' = [t \in Threads |-> Absent]
    /\ serving' = Nobody /\ page' = Absent /\ refused' = {}

\* MUTANT: the thread blocks until there is a fault before it looks at the flag.
Stop_Blocking ==
    /\ handler = "poll" /\ ~active /\ \E t \in Threads : reads[t] # Absent
    /\ Leave
    /\ UNCHANGED <<config, arena, active, opener>>

Stop ==
    /\ handler = "poll" /\ ~active
    /\ Leave
    /\ UNCHANGED <<config, arena, active, opener>>

ReadEvent(t) ==
    /\ handler = "poll" /\ active
    /\ reads[t] # Absent /\ t \notin refused
    /\ handler' = "serve" /\ serving' = t
    /\ UNCHANGED <<config, arena, active, opener, page, mem, reads, refused>>

\* MUTANT: the page behind the one that faulted.
PageIndex_Next(t) == reads[t] + 1

\* The page a fault is about, counted from the arena's base.
PageIndex(t) == reads[t]

Decompressed(text) == IF text[1] = "zstd" THEN Plain(text[2]) ELSE Zero

\* A sealed page: beyond the sealed ones, denied or failed, it becomes a zero page.
OpenedPage(res) ==
    IF res.kind # "Opened" THEN Zero
    ELSE IF config.mode = "CompressedEncryptedRestore" THEN Decompressed(res.texts[1])
    ELSE res.texts[1]

ServePlain ==
    /\ handler = "serve"
    /\ config.mode \notin SealedModes \/ PageIndex(serving) >= Len(config.sealed)
    /\ page' = CASE config.mode = "StaticData"        -> <<"static">>
                 [] config.mode = "CompressedRestore" -> <<"marker", PageIndex(serving)>>
                 [] OTHER                             -> Zero
    /\ handler' = "copy"
    /\ UNCHANGED <<config, arena, active, opener, serving, mem, reads, refused>>

\* MUTANT: a page that cannot be decrypted is not copied in.
ServeSealed_Skips ==
    /\ handler = "serve"
    /\ config.mode \in SealedModes /\ PageIndex(serving) < Len(config.sealed)
    /\ LET res == open(opener, config.sealed[PageIndex(serving) + 1], config.claim)
       IN /\ opener' = res.engine
          /\ page' = OpenedPage(res)
          /\ handler' = IF res.kind = "Opened" THEN "copy" ELSE "poll"
          /\ serving' = IF res.kind = "Opened" THEN serving ELSE Nobody
    /\ UNCHANGED <<config, arena, active, mem, reads, refused>>

\* The process ends, whatever its threads are waiting for.
Abort ==
    /\ arena' = "aborted" /\ handler' = "gone"
    /\ serving' = Nobody /\ page' = Absent
    /\ UNCHANGED <<mem, reads, refused>>

\* A panic in open ends the handler thread, and with it the descriptor, in a
\* build that unwinds, and the process in one that aborts.
ServeSealed ==
    /\ handler = "serve"
    /\ config.mode \in SealedModes /\ PageIndex(serving) < Len(config.sealed)
    /\ LET res == open(opener, config.sealed[PageIndex(serving) + 1], config.claim)
       IN /\ opener' = res.engine
          /\ \/ res.kind = "Panic" /\ Leave /\ UNCHANGED arena
             \/ res.kind = "Panic" /\ Abort
             \/ /\ res.kind # "Panic"
                /\ page' = OpenedPage(res)
                /\ handler' = "copy"
                /\ UNCHANGED <<arena, serving, mem, reads, refused>>
    /\ UNCHANGED <<config, active>>

Copied ==
    /\ handler' = "poll" /\ serving' = Nobody /\ page' = Absent
    /\ UNCHANGED <<config, arena, active, opener>>

Copy ==
    /\ handler = "copy"
    /\ LET p == reads[serving]
       IN /\ mem' = [mem EXCEPT ![p] = page]
          /\ reads' = [t \in Threads |-> IF reads[t] = p THEN Absent ELSE reads[t]]
          /\ refused' = {t \in refused : reads[t] # p}
    /\ Copied

\* uffd.copy returns an error: it is counted, and nobody is woken.
CopyFails ==
    /\ handler = "copy"
    /\ refused' = refused \cup {serving}
    /\ Copied
    /\ UNCHANGED <<mem, reads>>

(* shutdown takes the arena by value, and drop its last owner: no thread is reading. *)
NoReader == \A t \in Threads : reads[t] = Absent

Unmapped == mem' = [p \in PageNumbers |-> Absent]

shutdown ==
    /\ arena = "mapped" /\ handler # "starting" /\ NoReader
    /\ active' = FALSE /\ arena' = "closing"
    /\ UNCHANGED <<config, handler, opener, serving, page, mem, reads, refused>>

Join ==
    /\ arena = "closing" /\ handler = "gone"
    /\ arena' = "unmapped" /\ Unmapped
    /\ UNCHANGED <<config, active, handler, opener, serving, page, reads, refused>>

\* drop does not wait for the handler thread.
drop ==
    /\ arena = "mapped" /\ handler # "starting" /\ NoReader
    /\ active' = FALSE /\ arena' = "unmapped" /\ Unmapped
    /\ UNCHANGED <<config, handler, opener, serving, page, reads, refused>>

Handler == \/ HandlerReady \/ Stop \/ ServePlain \/ ServeSealed \/ Copy \/ CopyFails
           \/ \E t \in Threads : ReadEvent(t)

ArenaNext == \/ new \/ NewFails \/ Handler
             \/ \E t \in Threads, p \in PageNumbers : Touch(t, p)
             \/ shutdown \/ Join \/ drop

(***************************************************************************)
(* The handler thread polls without blocking (:249) and is scheduled by    *)
(* the system; the thread in shutdown goes on when it has ended.  The      *)
(* queue of events is served in order: no waiting thread is passed over.   *)
(***************************************************************************)
ArenaFairness == /\ WF_arenaVars(Handler) /\ WF_arenaVars(Join)
                 /\ \A t \in Threads : SF_arenaVars(ReadEvent(t))

ArenaSpec == ArenaInit /\ [][ArenaNext]_arenaVars /\ ArenaFairness

-----------------------------------------------------------------------------

\* Arena, handler, pages and waiting threads keep their types.
ArenaTypeOK ==
    /\ arena \in {"none", "mapped", "closing", "unmapped", "aborted"} /\ active \in BOOLEAN
    /\ handler \in {"none", "starting", "poll", "serve", "copy", "gone"}
    /\ reads \in [Threads -> PageNumbers \cup {Absent}]
    /\ serving \in Threads \cup {Nobody} /\ refused \subseteq Threads
    /\ handler \in {"serve", "copy"} <=> serving # Nobody
    /\ DOMAIN mem = PageNumbers

\* The plaintext of page p can be had: sealed, in reach of the claim, undamaged, decompressible.
Restorable(p) == /\ config.mode \in SealedModes /\ p < SealedPages
                 /\ config.claim.wellFormed /\ config.claim.clearance >= config.required
                 /\ config.sealed[p + 1].cipher.text # Garbage
                 /\ ~(config.mode = "CompressedEncryptedRestore" /\ p \in config.raw)

(***************************************************************************)
(* A page shows its own plaintext or zeros, whichever engines, sessions    *)
(* and cached keys were involved; zeros instead of a plaintext that can be *)
(* had come only after the handler thread has ended; and without a claim   *)
(* that reaches the page, no plaintext appears (lib.rs:280, :301).         *)
(***************************************************************************)
PagesAreTheirOwn ==
    config.mode \in SealedModes =>
        \A p \in PageNumbers :
            /\ mem[p] \in {Absent, Zero} \/ (mem[p] = Plain(p) /\ Restorable(p))
            /\ mem[p] = Zero /\ Restorable(p) => handler = "gone"

(***************************************************************************)
(* Every read of the arena returns: the handler fills the page whatever    *)
(* open answers, and a panic that ends the thread closes the descriptor it *)
(* owned (lib.rs:345).  The exceptions: a panic may end the process, and   *)
(* when the kernel refuses the copy nobody tries again (lib.rs:371), so    *)
(* the readers of the page wait until another thread reads it too.         *)
(***************************************************************************)
EveryReadReturns ==
    \A t \in Threads :
        reads[t] # Absent ~> \/ reads[t] = Absent \/ arena = "aborted"
                             \/ \A u \in Threads : reads[u] = reads[t] => u \in refused

(***************************************************************************)
(* After shutdown or drop the handler thread ends, and shutdown returns    *)
(* (lib.rs:470, :511).                                                     *)
(***************************************************************************)
HandlerEnds == arena \in {"closing", "unmapped"} ~> arena = "unmapped" /\ handler \in {"none", "gone"}

=============================================================================
