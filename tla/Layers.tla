------------------------------- MODULE Layers -------------------------------
(***************************************************************************)
(* The layers that judge a connection.  It comes in one of two ways:       *)
(* through a wrapped port, where its intent is inferred (Ingress), or as a *)
(* frame that states any intent and carries any payload (`native').  A     *)
(* native payload grows one pattern at a time up to MaxPatterns.           *)
(***************************************************************************)
EXTENDS Ingress, Seccomp

CONSTANT MaxPatterns   \* bound: patterns in a native payload

ASSUME MaxPatternsAssumption == MaxPatterns \in Nat

Plain(start, size) ==
    [start |-> start, word |-> {}, size |-> size, path |-> {}, patterns |-> {},
     whole |-> TRUE, exploit |-> FALSE]

-----------------------------------------------------------------------------
InitNative ==
    /\ packet = [parsed |-> TRUE, lists |-> {}, port |-> 4430, protocol |-> "tcp",
                 flags |-> {"PSH", "ACK"}]
    /\ data = Plain("json", 12)
    /\ config = [require_intent |-> TRUE, check_exploits |-> TRUE]
    /\ xdp_active = TRUE /\ bus_open = TRUE
    /\ stage = "native" /\ marked = FALSE /\ accepted = FALSE
    /\ intent \in Intents /\ payload = {}

Grow(p) ==
    /\ stage = "native" /\ Cardinality(payload) < MaxPatterns
    /\ payload' = payload \cup {p}
    /\ UNCHANGED <<packet, data, config, xdp_active, bus_open, stage, marked, intent, accepted>>

LayersInit == IngressInit \/ InitNative

LayersNext == IngressNext \/ \E p \in Patterns \ payload : Grow(p)

LayersSpec == LayersInit /\ [][LayersNext]_ingressVars

-----------------------------------------------------------------------------
\* What the tables and the scan of evaluate add up to: the full dry-run kills a
\* frame exactly when its payload contains a pattern other than mmap, or mmap
\* under an intent that does not allow it (voorproever.rs:176).  In particular
\* the calls simulated for a clean run never count against a frame, even when
\* the intent only continues a known one.
DryRunReference ==
    stage \in {"native", "judged"} /\ is_known_intent(intent) =>
        (Verdict(TRUE, intent, payload) = "Kill"
            <=> \E p \in payload :
                   p # "mmap" \/ intent.name \notin {"call:video", "ai:inference"})

\* The profiles are ordered: what fast mode kills, the full dry-run kills
\* (voorproever.rs:148, 278).
DryRunIsStricter ==
    stage \in {"native", "judged"} /\ Verdict(FALSE, intent, payload) = "Kill"
        => Verdict(TRUE, intent, payload) = "Kill"

\* The program does what the list says, which is also what simulation does
\* (seccomp.rs:321, 377): run by the kernel on x86_64 it allows exactly the
\* calls validate_syscall allows, and it kills every call of another machine.
FilterRunsAsListed ==
    stage = "native" /\ payload = {} =>
        LET allowed == compile_filter(intent)
            program == generate_bpf(allowed)
        IN  \A nr \in Syscalls :
               /\ Executed(program, "x86_64", nr)
                    = IF validate_syscall(allowed, nr) THEN "allow" ELSE "kill"
               /\ Executed(program, "other", nr) = "kill"

\* The two tables of an intent agree on what Kernel A passes: every call seen
\* in the dry-run of a payload that passes is a call its filter lets through
\* (voorproever.rs:176, seccomp.rs:199).  Only the execve that starts the run
\* is in no filter.
FilterServesPassed ==
    stage = "native" /\ Verdict(TRUE, intent, payload) = "Pass" =>
        \A call \in Observed(TRUE, intent, payload) \ {"sys_execve"} :
            validate_syscall(compile_filter(intent), SnaftName[call])
=============================================================================
