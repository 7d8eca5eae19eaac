------------------------------- MODULE Snaft -------------------------------
(***************************************************************************)
(* The decision Kernel A takes about one frame, as pure operators:         *)
(* intent routing and payload scan (voorproever.rs) and the SNAFT syscall  *)
(* policy (snaft.rs).                                                      *)
(*                                                                         *)
(* An intent string is a record: the entry of the intent table it starts   *)
(* with, and whether it is exactly that entry (`exact') or continues after *)
(* it ("file:scan/home").  The difference matters: is_known_intent matches *)
(* prefixes, while some arms of intent_allowlist match whole strings.  A   *)
(* payload is the set of dangerous patterns it contains.                   *)
(***************************************************************************)


(***************************************************************************)
(* is_known_intent: the intents with an execution path.                    *)
(***************************************************************************)
ShellIntents   == {"shell:session", "shell:command"}
HttpIntents    == {"http:get", "http:post", "http:put", "http:delete",
                   "http:patch", "http:head", "http:options", "http:api",
                   "http:auth", "http:upload", "http:webhook", "http:admin"}
DbIntents      == {"db:connect", "db:query", "db:redis"}
DnsIntents     == {"dns:query", "dns:resolve"}

KnownIntents ==
    {"code:execute", "analyze_malware_sample", "file:scan", "call:voice",
     "call:video", "math_calculation", "data:transform", "data:validate",
     "tls:handshake", "mail:send", "ai:inference", "metrics:scrape",
     "mux:native"}
    \cup ShellIntents \cup HttpIntents \cup DbIntents \cup DnsIntents

\* Any string that starts with none of the known intents.
UnknownIntent == "unknown"

Intents == [name : KnownIntents \cup {UnknownIntent}, exact : BOOLEAN]

is_known_intent(intent) == intent.name \in KnownIntents

(***************************************************************************)
(* intent_allowlist and ALWAYS_DANGEROUS.                                  *)
(***************************************************************************)
\* MUTANT: the base allowlist forgets that a clean run ends with sys_exit.
BaseAllowlist_NoExit == {"sys_execve", "sys_write", "sys_read", "sys_brk",
                         "sys_mprotect"}

BaseAllowlist == {"sys_execve", "sys_write", "sys_read", "sys_exit",
                  "sys_brk", "sys_mprotect"}

FileCalls == {"sys_open", "sys_stat", "sys_close"}
NetCalls  == {"sys_sendto", "sys_recvfrom"}

\* The extra calls of the arms that compare the whole intent string.
ExactExtra(name) ==
    CASE name \in {"analyze_malware_sample", "mux:native"} -> FileCalls
      [] name = "code:execute" -> FileCalls \cup {"sys_getpid"}
      [] name = "file:scan"    -> FileCalls \cup {"sys_getdents"}
      [] OTHER -> {}

\* The extra calls of the arms that compare a prefix.
PrefixExtra(name) ==
    CASE name = "call:voice"      -> NetCalls \cup {"sys_ioctl"}
      [] name = "call:video"      -> NetCalls \cup {"sys_ioctl", "sys_mmap"}
      [] name \in ShellIntents    -> FileCalls \cup {"sys_getpid", "sys_ioctl"}
      [] name \in HttpIntents \cup DbIntents -> FileCalls \cup NetCalls
      [] name = "tls:handshake"   -> FileCalls
      [] name \in DnsIntents      -> NetCalls
      [] name = "mail:send"       -> NetCalls \cup {"sys_open"}
      [] name = "ai:inference"    -> FileCalls \cup NetCalls \cup {"sys_mmap"}
      [] name = "metrics:scrape"  -> {"sys_open", "sys_stat", "sys_sendto"}
      [] OTHER -> {}

intent_allowlist(intent) ==
    BaseAllowlist \cup PrefixExtra(intent.name)
        \cup (IF intent.exact THEN ExactExtra(intent.name) ELSE {})

ALWAYS_DANGEROUS ==
    {"sys_ptrace", "sys_socket", "sys_connect", "sys_dlopen", "sys_fork",
     "sys_clone", "sys_mount", "sys_reboot", "sys_kexec_load"}

\* log_syscall: the calls of a set that are recorded as violations.
Violations(intent, calls) ==
    {c \in calls : c \in ALWAYS_DANGEROUS \/ c \notin intent_allowlist(intent)}

(***************************************************************************)
(* The payload scan.  PatternCall maps each pattern to the syscall it is   *)
(* taken to stand for; the names abbreviate the literals of the table.     *)
(***************************************************************************)
PatternCall ==
    [os_system |-> "sys_socket", subprocess |-> "sys_socket",
     curl |-> "sys_socket", wget |-> "sys_socket", bash |-> "sys_socket",
     bin_sh |-> "sys_socket", eval |-> "sys_ptrace", exec |-> "sys_ptrace",
     ptrace |-> "sys_ptrace", mmap |-> "sys_mmap", dlopen |-> "sys_dlopen",
     ld_preload |-> "sys_dlopen", fork |-> "sys_fork", clone |-> "sys_clone",
     mount |-> "sys_mount", reboot |-> "sys_reboot",
     kexec |-> "sys_kexec_load", import_socket |-> "sys_socket",
     import_os |-> "sys_fork", dunder_import |-> "sys_dlopen"]

Patterns == DOMAIN PatternCall

\* The patterns that fast mode looks for, with the same syscalls.
CriticalPatterns == {"os_system", "subprocess", "eval", "ptrace", "ld_preload"}

CleanRun == {"sys_read", "sys_write", "sys_brk", "sys_exit"}

\* MUTANT: the dry-run leaves the critical patterns to the pattern check.
dry_run_syscalls_NotCritical(intent, payload) ==
    {"sys_execve"} \cup {PatternCall[p] : p \in payload \ CriticalPatterns}

\* dry_run_syscalls: the calls logged for a payload.  The calls of a clean run
\* are simulated only when nothing has violated the policy so far.
dry_run_syscalls(intent, payload) ==
    LET scanned == {"sys_execve"} \cup {PatternCall[p] : p \in payload}
    IN  IF Violations(intent, scanned) = {} THEN scanned \cup CleanRun
                                            ELSE scanned

pattern_check_only(payload) ==
    {"sys_execve"} \cup {PatternCall[p] : p \in payload \cap CriticalPatterns}

(***************************************************************************)
(* The verdict of Voorproever::evaluate on a frame, before its effects on  *)
(* the bus and the watchdog (module Airlock).  `dryrun' is the profile's   *)
(* voorproever_dryrun.                                                     *)
(***************************************************************************)
Observed(dryrun, intent, payload) ==
    IF dryrun THEN dry_run_syscalls(intent, payload)
              ELSE pattern_check_only(payload)

Verdict(dryrun, intent, payload) ==
    IF ~is_known_intent(intent) THEN "Reject"
    ELSE IF Violations(intent, Observed(dryrun, intent, payload)) # {}
         THEN "Kill"
         ELSE "Pass"
=============================================================================
