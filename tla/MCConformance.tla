---- MODULE MCConformance ----
EXTENDS Conformance

\* Every SKU in both modes, and each configuration with one thing out of the
\* ordinary.
Usual == [missing |-> FALSE, mode |-> "async", sku |-> "text", schema |-> "registered",
          input |-> "default", certificate |-> TRUE, key |-> "ed25519"]
MCConfigs ==
    {[Usual EXCEPT !.mode = m, !.sku = s] : m \in {"async", "stream"}, s \in SKUs}
    \cup {[Usual EXCEPT !.missing = TRUE], [Usual EXCEPT !.mode = "other"],
          [Usual EXCEPT !.sku = "other"], [Usual EXCEPT !.schema = "override"],
          [Usual EXCEPT !.certificate = FALSE]}
    \cup {[Usual EXCEPT !.input = i, !.sku = s] :
            i \in {"fraction", "garbage"}, s \in {"text", "moderation"}}
    \cup {[Usual EXCEPT !.key = k] : k \in {"sec1 p256", "p384", "rsa", "no pem"}}
====
