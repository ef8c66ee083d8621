------------------------------ MODULE WorkerLife ------------------------------
(***************************************************************************)
(* What one worker promises the server and its clients: it takes           *)
(* connections only while it serves, a drain is never taken back, and when *)
(* its thread ends it leaves no connection open.                           *)
(***************************************************************************)
CONSTANT Clients

VARIABLES life, open

Init == life = "serving" /\ open = {}

Admit(c) ==
  /\ life = "serving" /\ c \notin open
  /\ open' = open \cup {c} /\ UNCHANGED life

Release(S) ==
  /\ life # "gone" /\ S # {} /\ S \subseteq open
  /\ open' = open \ S /\ UNCHANGED life

Drain ==
  /\ life = "serving" /\ life' = "draining" /\ UNCHANGED open

End ==
  /\ life = "draining" /\ life' = "gone" /\ open' = {}

Next ==
  \/ \E c \in Clients : Admit(c)
  \/ \E S \in SUBSET Clients : Release(S)
  \/ Drain \/ End

Spec == Init /\ [][Next]_<<life, open>>

=============================================================================
