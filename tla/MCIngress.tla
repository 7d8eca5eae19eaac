----------------------------- MODULE MCIngress -----------------------------
(* The ports and first bytes with which the layers are model-checked. *)
EXTENDS Layers

\* Every port the filter has a rule for, one of which is a web port, one with
\* a rule in PortMux alone, and one that neither knows.
SomePorts == {22, 53, 80, 3306, 4430, 5432, 6379, 9999, 11434}

Short == {"tls", "json", "*", "redis_reply", "raw"}

\* Every beginning in every size, every word behind the beginnings that leave
\* room for it, every single mark of a path and one pair, and a pattern, a cut
\* preview and a signature in each kind of protocol.
SomeBytes ==
    {Plain(s, 12) : s \in Starts} \cup {Plain(s, 4) : s \in Short \cup {"length"}}
    \cup {Plain(s, 3) : s \in Short}
    \cup {[Plain(s, 12) EXCEPT !.word = w] : s \in Short \cup {"GET", "SSH", "length"}, w \in Words}
    \cup {[Plain(s, 4) EXCEPT !.word = {"lf"}] : s \in {"tls", "raw"}}
    \cup {[Plain("GET", 12) EXCEPT !.path = {m}] : m \in Marks}
    \cup {[Plain("POST", 12) EXCEPT !.path = {"api", "auth"}]}
    \cup {[Plain(s, 12) EXCEPT !.patterns = {"bash"}, !.word = w] :
              s \in {"GET", "*", "SSH", "length"}, w \in {{}, {"v3"}}}
    \cup {[Plain(s, 12) EXCEPT !.patterns = {"eval"}] : s \in {"POST", "SSH", "raw"}}
    \cup {[Plain(s, 12) EXCEPT !.whole = FALSE] : s \in {"GET", "*", "SSH"}}
    \cup {[Plain(s, 12) EXCEPT !.exploit = TRUE] : s \in {"GET", "json", "length", "raw"}}
=============================================================================
