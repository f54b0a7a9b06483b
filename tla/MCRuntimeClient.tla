--------------------------- MODULE MCRuntimeClient ---------------------------
(* RuntimeClient on a small instance: a second call with the same message, *)
(* one code of each kind in each form.                                     *)
EXTENDS RuntimeClient, TLC

MCFaults ==
    {err \in Fault : /\ err.code \in {"runtime_unauthenticated", "other",
                                      "registration_unavailable",
                                      "registration_code_invalid"}
                     /\ (err.carrier \in {"metadata", "hidden"} =>
                            err.code = "runtime_unauthenticated")
                     /\ (Metadata(err) = "absent" => err.retryable = "absent")}

\* Actors, and what is asked for, are interchangeable.
Symmetry == Permutations(Actors) \cup Permutations(Contents)
=============================================================================
