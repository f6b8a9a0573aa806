-------------------------- MODULE MCApprovalLedger --------------------------
(* Instances of ApprovalLedger for TLC: two profiles with an adapter each,   *)
(* two sessions of the first profile that share a route, as the users of one *)
(* topic do, and a session of another platform.                              *)
EXTENDS ApprovalLedger, TLC

CONSTANTS a1, a2, s1, s2, s3, u1, u2

MCProfile(a) == IF a = a1 THEN "p1" ELSE "p2"
MCHomeOf(s) == IF s = s3 THEN "elsewhere" ELSE "p1"
MCRouteOf(s) == IF s = s3 THEN "r2" ELSE "r1"

\* Behind an outcome that was dropped, one decision is enough.
MCBound == dropped # {} => sent <= 1

\* The two sessions of the first profile differ in nothing but their name.
MCSymmetry == Permutations({s1, s2})

=============================================================================
