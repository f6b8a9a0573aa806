--------------------------- MODULE MCSessionQueue ---------------------------
(* Instances of SessionQueue for TLC. *)
EXTENDS SessionQueue

CONSTANTS a, b, m1, m2, m3, m4, m5, m6, m7

\* The first four turns belong to one topic, the others to another.
TopicOf == [m \in Msg |-> IF m \in {m1, m2, m3, m4} THEN a ELSE b]

=============================================================================
