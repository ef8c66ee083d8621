------------------------------ MODULE MCWorker ------------------------------
(* An instance of Worker with just enough descriptors for its clients. *)
EXTENDS Worker

MCFds == 1..3

=============================================================================
