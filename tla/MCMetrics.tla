------------------------------ MODULE MCMetrics ------------------------------
(* Two interchangeable workers. *)
EXTENDS Metrics, TLC

Interchangeable == Permutations(Writers)

=============================================================================
