-------------------------- MODULE MCSessionManager --------------------------
(* TLC instance of SessionManager: three session ids on two nodes.  Only   *)
(* users and session ids are interchangeable, Guest is not.                *)
EXTENDS SessionManager, TLC

CONSTANTS guest, alice, s1, s2, s3

SidSymmetry == Permutations(Sids)
=============================================================================
