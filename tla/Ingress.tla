------------------------------ MODULE Ingress ------------------------------
(***************************************************************************)
(* A connection on its way in.  The XDP filter looks at its first data     *)
(* packet (xdp.rs); PortMux infers an intent from its first bytes, has     *)
(* Kernel A judge it, shows it to Kernel B and joins it to the backend     *)
(* (portmux.rs).                                                           *)
(*                                                                         *)
(* Bytes are reduced to what the code tells apart: what they start with,   *)
(* what the two words tested behind that say, the marks of an HTTP path,   *)
(* the dangerous patterns in the part that becomes the preview, whether    *)
(* the cut of the preview falls between two characters, whether an exploit *)
(* signature is in the first 512 bytes.                                    *)
(* The first read gets the first packet.  Of the bus only whether it is    *)
(* open is kept: numbers and watchdog are the subject of Airlock.          *)
(***************************************************************************)
EXTENDS Snaft, Naturals, FiniteSets

CONSTANTS
    Ports,        \* the ports that are wrapped, or that packets are sent to
    FirstBytes    \* the first bytes that clients send

ASSUME PortAssumption == Ports \subseteq Nat

VARIABLES
    packet,     \* the first data packet: source, port, flags
    data,       \* its bytes
    config,     \* XdpConfig: the two switches
    xdp_active, \* of the XDP filter
    bus_open,
    stage,      \* where the connection is
    marked,     \* the filter asked for an intent marker and found it
    intent,     \* inferred by PortMux
    payload,    \* the patterns in the preview
    accepted    \* Kernel B took the payload from the bus

ingressVars == <<packet, data, config, xdp_active, bus_open, stage, marked, intent, payload, accepted>>

-----------------------------------------------------------------------------
(***************************************************************************)
(* What bytes may start with                                               *)
(***************************************************************************)
Methods    == {"GET", "POST", "PUT", "DELETE", "PATCH", "HEAD", "OPTIONS"}
RespStarts == {"*", "PING", "AUTH", "INFO"}

\* tls: 0x16 0x03 and a third byte.  json: a brace and more.  redis_reply: $ or
\* +.  length: the first four bytes are a number between 9 and 1023.
\* raw: none of these.  No two of them agree on their first byte.
Starts == Methods \cup RespStarts
          \cup {"SSH", "CONNECT", "tls", "json", "redis_reply", "QUIT", "length", "raw"}

\* What bytes 4 to 7 say, whatever comes before them.  v3: version 3.0 of
\* PostgreSQL.  ssl: its SSLRequest.  lf: byte 4 is 0x0a.  hello: byte 5 is 0x01.
Words == {{}, {"v3"}, {"ssl"}, {"lf"}, {"hello"}, {"lf", "hello"}}

Marks == {"api", "admin", "auth", "upload", "webhook"}

\* size: 3 for fewer than 4 bytes; 12 for at least 12, the third below 0x80.
\* patterns: in what the preview would show of them as text.
\* whole: the preview is not cut inside a character.
Bytes == [start : Starts, word : Words, size : {3, 4, 12}, path : SUBSET Marks,
          patterns : SUBSET Patterns, whole : BOOLEAN, exploit : BOOLEAN]

\* The longer beginnings fix bytes 4 and 5 themselves.
ASSUME BytesAssumption ==
    \A d \in FirstBytes :
        /\ d \in Bytes
        /\ d.size = 3 => d.word = {} /\ d.start \in {"tls", "json", "*", "redis_reply", "raw"}
        /\ d.path # {} => d.start \in Methods
        /\ d.start \in {"DELETE", "PATCH", "OPTIONS", "CONNECT"} => d.word = {}
        /\ d.start \in {"POST", "HEAD"} => d.word \subseteq {"hello"}

-----------------------------------------------------------------------------
(***************************************************************************)
(* The XDP filter                                                          *)
(***************************************************************************)
protected_ports == {22, 80, 443, 4430, 5432, 3306, 6379, 8000, 8080, 11434}
WebPorts        == {80, 443, 8000, 8080}

\* lists: which of the two lists the source address is on.  Nothing is read of
\* a packet that does not parse.
Packets == {p \in [parsed : BOOLEAN, lists : SUBSET {"allow", "deny"}, port : Ports,
                    protocol : {"tcp", "udp"}, flags : SUBSET {"PSH", "ACK"}] :
              /\ p.protocol = "udp" => p.flags = {}
              /\ ~p.parsed => p.lists = {} /\ p.protocol = "tcp" /\ p.flags = {}}

has_intent_marker(d, port) ==
    CASE port = 4430       -> d.start = "json"
      [] port = 22         -> d.start = "SSH"
      [] port \in WebPorts -> d.start \in Methods \cup {"CONNECT", "tls"}
      [] port = 5432       -> d.word \cap {"v3", "ssl"} # {}
      [] port = 3306       -> d.size >= 4
      [] port = 6379       -> d.start \in RespStarts \cup {"redis_reply", "QUIT"}
      [] port = 11434      -> d.start \in {"GET", "POST", "DELETE"}
      [] OTHER             -> FALSE

Pushes == packet.protocol = "tcp" /\ "PSH" \in packet.flags

\* classify asks for a marker, if it gets that far.
AsksForMarker == config.require_intent /\ Pushes /\ "ACK" \in packet.flags

\* The verdict of an active filter: Pass, or why the packet is dropped.
classify ==
    IF ~packet.parsed THEN "Malformed"
    ELSE IF "allow" \in packet.lists THEN "Pass"
    ELSE IF "deny" \in packet.lists THEN "DenyListedIp"
    ELSE IF packet.port \notin protected_ports THEN "UnprotectedPort"
    ELSE IF config.check_exploits /\ Pushes /\ data.exploit THEN "ExploitSignature"
    ELSE IF AsksForMarker /\ ~has_intent_marker(data, packet.port) THEN "NoIntent"
    ELSE "Pass"

Classify ==
    /\ stage = "wire"
    /\ stage' = IF xdp_active /\ classify # "Pass" THEN "dropped" ELSE "arrived"
    /\ marked' = (xdp_active /\ classify = "Pass" /\ AsksForMarker /\ "allow" \notin packet.lists)
    /\ UNCHANGED <<packet, data, config, xdp_active, bus_open, intent, payload, accepted>>

\* TCP sends again what was dropped.
Retransmit ==
    /\ stage = "dropped" /\ packet.protocol = "tcp"
    /\ stage' = "wire"
    /\ UNCHANGED <<packet, data, config, xdp_active, bus_open, marked, intent, payload, accepted>>

\* pause and resume; once the packet is through they make no difference to it.
SwitchFilter ==
    /\ stage \in {"wire", "dropped"} /\ xdp_active' = ~xdp_active
    /\ UNCHANGED <<packet, data, config, bus_open, stage, marked, intent, payload, accepted>>

-----------------------------------------------------------------------------
(***************************************************************************)
(* PortMux                                                                 *)
(***************************************************************************)
NoIntent == [name |-> UnknownIntent, exact |-> TRUE]

Whole(name)     == IF name \in KnownIntents THEN [name |-> name, exact |-> TRUE] ELSE NoIntent
Continued(name) == [name |-> name, exact |-> FALSE]

\* default_port_map.  "http:request" is no intent that Kernel A knows.
ShellPorts == {22, 2222}
HttpPorts  == WebPorts \cup {8443, 5000, 3000}
DbPorts    == {5432, 3306, 6379, 27017}

default_port_map ==
    [p \in ShellPorts \cup HttpPorts \cup DbPorts \cup {4430, 25, 53, 11434, 9090} |->
        CASE p \in ShellPorts -> "shell:command"
          [] p \in HttpPorts  -> "http:request"
          [] p \in DbPorts    -> "db:query"
          [] p = 4430         -> "mux:native"
          [] p = 25           -> "mail:send"
          [] p = 53           -> "dns:resolve"
          [] p = 11434        -> "ai:inference"
          [] p = 9090         -> "metrics:scrape"]

default_intent(port) ==
    IF port \in DOMAIN default_port_map THEN Whole(default_port_map[port]) ELSE NoIntent

MethodIntent == [GET |-> "http:get", POST |-> "http:post", PUT |-> "http:put",
                 DELETE |-> "http:delete", PATCH |-> "http:patch", HEAD |-> "http:head",
                 OPTIONS |-> "http:options"]

\* MUTANT: a path without a mark leaves the intent to the port.
HttpIntent_Default(port, d) ==
    IF d.path = {} THEN default_intent(port) ELSE Continued("http:api")

\* The first mark that fits decides.
HttpIntent(port, d) ==
    IF "api" \in d.path THEN Continued("http:api")
    ELSE IF "admin" \in d.path THEN Continued("http:admin")
    ELSE IF "auth" \in d.path THEN Whole("http:auth")
    ELSE IF "upload" \in d.path THEN Whole("http:upload")
    ELSE IF "webhook" \in d.path THEN Whole("http:webhook")
    ELSE Continued(MethodIntent[d.start])

\* The tests that look at the bytes alone, whatever the port.  One packet may
\* meet several: the first decides.
Startup(d)    == d.start = "length" /\ "v3" \in d.word
Hello(d)      == d.start = "tls" /\ "hello" \in d.word
Recognised(d) == \/ d.start \in Methods \cup RespStarts \cup {"SSH"}
                 \/ Hello(d) \/ Startup(d) \/ "lf" \in d.word

infer_intent(port, d) ==
    IF d.start = "SSH" THEN Whole("shell:session")
    ELSE IF d.start \in Methods THEN HttpIntent(port, d)
    ELSE IF Hello(d) THEN Whole("tls:handshake")
    ELSE IF Startup(d) THEN Whole("db:connect")
    ELSE IF d.start \in RespStarts THEN Continued("db:redis")
    ELSE IF "lf" \in d.word THEN Whole("db:connect")
    ELSE IF port = 53 /\ d.size = 12 THEN Whole("dns:query")
    ELSE default_intent(port)

\* The patterns a preview shows: the others give a length, or bytes in hex.
preview(d) ==
    IF d.start \in Methods \cup RespStarts \cup {"SSH"} \/ Startup(d) THEN d.patterns ELSE {}

\* A preview is cut by bytes, and the cut panics inside a character.
CutPanics(d) == ~d.whole /\ d.start \in Methods \cup RespStarts \cup {"SSH"}

\* The task of a connection: read, infer, make a frame.
Peek ==
    /\ stage = "arrived" /\ packet.parsed /\ packet.protocol = "tcp" /\ ~CutPanics(data)
    /\ stage' = "judged"
    /\ intent' = infer_intent(packet.port, data)
    /\ payload' = preview(data)
    /\ UNCHANGED <<packet, data, config, xdp_active, bus_open, marked, accepted>>

\* The read gets nothing.
PeekFails ==
    /\ stage = "arrived"
    /\ stage' = "closed"
    /\ UNCHANGED <<packet, data, config, xdp_active, bus_open, marked, intent, payload, accepted>>

\* The cut panics.  The release profile aborts on panic, so that this ends the
\* process and every other connection with it; in other builds, the task.
PeekPanics ==
    /\ stage = "arrived" /\ packet.parsed /\ packet.protocol = "tcp" /\ CutPanics(data)
    /\ stage' = "crashed"
    /\ UNCHANGED <<packet, data, config, xdp_active, bus_open, marked, intent, payload, accepted>>

\* Reject and Kill close the connection.
Evaluate(dryrun) ==
    /\ stage = "judged"
    /\ stage' = IF Verdict(dryrun, intent, payload) = "Pass" THEN "passed" ELSE "closed"
    /\ UNCHANGED <<packet, data, config, xdp_active, bus_open, marked, intent, payload, accepted>>

\* Archivaris::process: identity and seal are in order, so only a closed bus
\* refuses.  What it returns is not looked at.
Process ==
    /\ stage = "passed"
    /\ accepted' = bus_open
    /\ stage' = "processed"
    /\ UNCHANGED <<packet, data, config, xdp_active, bus_open, marked, intent, payload>>

\* The backend is reached and given the first bytes, then both directions are copied.
Forward ==
    /\ stage = "processed"
    /\ stage' \in {"forwarding", "closed"}
    /\ UNCHANGED <<packet, data, config, xdp_active, bus_open, marked, intent, payload, accepted>>

Finish ==
    /\ stage = "forwarding"
    /\ stage' = "closed"
    /\ UNCHANGED <<packet, data, config, xdp_active, bus_open, marked, intent, payload, accepted>>

\* The watchdog shuts the bus, at any time; a connection is told apart by it
\* only between its verdict and Process.
shutdown ==
    /\ stage \in {"judged", "passed"}
    /\ bus_open /\ bus_open' = FALSE
    /\ UNCHANGED <<packet, data, config, xdp_active, stage, marked, intent, payload, accepted>>

-----------------------------------------------------------------------------
IngressInit ==
    /\ packet \in Packets /\ data \in FirstBytes
    /\ config \in [require_intent : BOOLEAN, check_exploits : BOOLEAN]
    /\ xdp_active = TRUE /\ bus_open = TRUE
    /\ stage = "wire" /\ marked = FALSE
    /\ intent = NoIntent /\ payload = {} /\ accepted = FALSE

IngressNext ==
    \/ Classify \/ Retransmit \/ SwitchFilter
    \/ Peek \/ PeekFails \/ PeekPanics \/ Process \/ Forward \/ Finish \/ shutdown
    \/ \E dryrun \in BOOLEAN : Evaluate(dryrun)

-----------------------------------------------------------------------------
(***************************************************************************)
(* Properties                                                              *)
(***************************************************************************)
\* What only the filter takes for the beginning of a web request: CONNECT, and a
\* TLS record that is neither a ClientHello nor, its fifth byte being 0x0a,
\* taken for a greeting of MySQL.
OnlyMarked(d) == d.start = "CONNECT" \/ (d.start = "tls" /\ d.word \cap {"hello", "lf"} = {})

\* The two recognisers and the table of Kernel A fit together: a connection
\* that the filter let in for its marker is not rejected for want of an intent
\* by the layers behind it, but on the web ports for CONNECT and for TLS records
\* that no test of PortMux knows
\* (xdp.rs:342, portmux.rs:66, voorproever.rs:207).
MarkedIsRouted ==
    marked /\ stage = "judged" =>
        (Verdict(TRUE, intent, payload) = "Reject"
            <=> packet.port \in WebPorts /\ OnlyMarked(data))

\* "only PASS traffic is forwarded to the real backend" (portmux.rs:251), and
\* the bus is what a payload passes by: a connection is joined to the backend
\* only if Kernel B took its payload.
OnlyAcceptedIsForwarded == stage = "forwarding" => accepted

\* "Unknown ports get "unknown:raw" intent - which the Voorproever will
\* REJECT" (portmux.rs:16).
UnknownPortIsRejected ==
    stage = "passed" => packet.port \in DOMAIN default_port_map
=============================================================================
