------------------------------- MODULE Seccomp -------------------------------
(***************************************************************************)
(* The syscall filter of an intent (seccomp.rs): the list of allowed       *)
(* calls, the BPF program made of it, and the check that stands in for the *)
(* program in simulation.  The machine that runs the program is the Linux  *)
(* kernel's.                                                               *)
(*                                                                         *)
(* A syscall is its name; from_nr and name are inverse tables.  An intent  *)
(* is that of Snaft; one that Kernel A does not know is taken to start     *)
(* with none of the prefixes here either.                                  *)
(***************************************************************************)
EXTENDS Snaft, Naturals, SequencesExt

BASE_ALLOWED ==
    <<"read", "write", "close", "fstat", "brk", "mprotect", "exit", "exit_group", "getcwd",
      "access", "fcntl", "dup", "dup2", "sched_yield", "getuid", "getpid">>

ALWAYS_DENIED == {"ptrace", "mount", "reboot", "kexec_load", "syslog", "setuid"}

\* Every other call of the enumeration, and one number that is none of its.
Syscalls ==
    Range(BASE_ALLOWED) \cup ALWAYS_DENIED
    \cup {"open", "openat", "stat", "mmap", "pipe", "select", "poll", "ioctl", "getdents",
          "socket", "connect", "accept", "bind", "listen", "sendto", "recvfrom", "clone",
          "fork", "execve", "chdir", "mkdir", "rmdir", "unlink", "chmod", "chown", "unlisted"}

OpenCalls == <<"open", "openat", "stat">>
Exchange  == <<"sendto", "recvfrom">>

\* The arms that compare the whole intent string.
ExactSyscalls(name) ==
    CASE name = "code:execute"     -> OpenCalls \o <<"mmap", "pipe", "select">>
      [] name = "file:scan"        -> OpenCalls \o <<"getdents">>
      [] name = "math_calculation" -> <<"mmap">>
      [] name = "mux:native"       -> OpenCalls \o <<"socket">> \o Exchange
      [] OTHER -> <<>>

\* MUTANT: voice and video calls may not map memory.
PrefixSyscalls_CallNoMmap(name) ==
    CASE name \in {"call:voice", "call:video"} ->
            <<"socket", "connect", "bind">> \o Exchange \o <<"ioctl", "poll">>
      [] name = "ai:inference" ->
            OpenCalls \o <<"socket", "connect">> \o Exchange \o <<"mmap", "poll">>
      [] OTHER -> <<>>

\* The arms that compare a prefix.
PrefixSyscalls(name) ==
    CASE name \in ShellIntents -> OpenCalls \o <<"ioctl", "pipe", "select", "poll">>
      [] name \in HttpIntents ->
            OpenCalls \o <<"socket", "connect", "bind", "listen", "accept">> \o Exchange
                      \o <<"mmap", "poll", "select">>
      [] name = "tls:handshake" -> OpenCalls \o <<"socket", "connect">> \o Exchange \o <<"mmap">>
      [] name \in DbIntents ->
            OpenCalls \o <<"socket", "connect">> \o Exchange \o <<"poll", "select">>
      [] name \in DnsIntents -> <<"socket">> \o Exchange
      [] name = "ai:inference" ->
            OpenCalls \o <<"socket", "connect">> \o Exchange \o <<"mmap", "poll">>
      [] name \in {"call:voice", "call:video"} ->
            <<"socket", "connect", "bind">> \o Exchange \o <<"ioctl", "mmap", "poll">>
      [] name \in {"data:transform", "data:validate"} -> OpenCalls \o <<"mmap">>
      [] name = "metrics:scrape" -> <<"open", "stat", "socket", "sendto">>
      [] OTHER -> <<>>

Extra(intent) ==
    PrefixSyscalls(intent.name) \o (IF intent.exact THEN ExactSyscalls(intent.name) ELSE <<>>)

\* compile_filter: its list of allowed calls; a call that is there already is not pushed again.
compile_filter(intent) ==
    LET extra == Extra(intent)
        pushed[n \in 0 .. Len(extra)] ==
            IF n = 0 THEN BASE_ALLOWED
            ELSE IF extra[n] \in Range(pushed[n - 1]) THEN pushed[n - 1]
            ELSE Append(pushed[n - 1], extra[n])
    IN  pushed[Len(extra)]

(***************************************************************************)
(* The program.  Jumps are relative to the next instruction and held in a  *)
(* byte.                                                                   *)
(***************************************************************************)
Load(field)    == [code |-> "load", k |-> field, jt |-> 0, jf |-> 0]
Jeq(k, jt, jf) == [code |-> "jeq", k |-> k, jt |-> jt, jf |-> jf]
Ret(action)    == [code |-> "ret", k |-> action, jt |-> 0, jf |-> 0]

\* MUTANT: the jump to ALLOW forgets the KILL before it.
generate_bpf_ForgetsKill(allowed) ==
    LET n == Len(allowed)
    IN  <<Load("arch"), Jeq("x86_64", 0, (n + 1) % 256), Load("nr")>>
        \o [i \in 1..n |-> Jeq(allowed[i], (n - i) % 256, 0)]
        \o <<Ret("kill"), Ret("allow")>>

generate_bpf(allowed) ==
    LET n == Len(allowed)
    IN  <<Load("arch"), Jeq("x86_64", 0, (n + 1) % 256), Load("nr")>>
        \o [i \in 1..n |-> Jeq(allowed[i], (n - i + 1) % 256, 0)]
        \o <<Ret("kill"), Ret("allow")>>

\* What the kernel makes of the program for a call: field is what was loaded last, run what
\* it answers from each place.
Fields == {"none", "arch", "nr"}

Loaded(field, arch, nr) == IF field = "arch" THEN arch ELSE nr

Instruction(run, i, place, field, arch, nr) ==
    CASE i.code = "ret"  -> i.k
      [] i.code = "load" -> run[place + 1][i.k]
      [] i.code = "jeq"  -> run[place + 1 + IF Loaded(field, arch, nr) = i.k THEN i.jt ELSE i.jf][field]

Executed(program, arch, nr) ==
    LET run[place \in 1 .. Len(program)] ==
            [field \in Fields |-> Instruction(run, program[place], place, field, arch, nr)]
    IN  run[1]["none"]

validate_syscall(allowed, nr) == nr \notin ALWAYS_DENIED /\ nr \in Range(allowed)

\* The name Snaft has for a call.
SnaftName ==
    [sys_execve |-> "execve", sys_read |-> "read", sys_write |-> "write", sys_brk |-> "brk",
     sys_exit |-> "exit", sys_mmap |-> "mmap"]
=============================================================================
