------------------------------ MODULE MCIOCache ------------------------------
(* The I/O cache for TLC. *)
EXTENDS IOCache, TLC

\* Clients are interchangeable, and so are the keys but File.
Interchangeable == Permutations(Clients) \cup Permutations(Keys \ {File})
=============================================================================
