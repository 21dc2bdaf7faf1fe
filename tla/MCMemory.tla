------------------------------ MODULE MCMemory ------------------------------
(***************************************************************************)
(* Memory for TLC with the vector store alone: one caller stores two       *)
(* entries and asks for their erasure, and nothing fails.                  *)
(***************************************************************************)
EXTENDS Memory

VectorOnly == {[provider |-> "vector", encrypting |-> FALSE]}
StoreAndErase == {[op |-> "store", n |-> 2, q |-> "words", limit |-> 0],
                  [op |-> "erase", n |-> 0, q |-> "words", limit |-> 0]}
NothingFails == {[calls |-> 2, failures |-> 0, keys |-> 0]}
=============================================================================
