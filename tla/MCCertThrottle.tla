--------------------------- MODULE MCCertThrottle ---------------------------
(***************************************************************************)
(* The sessions are alike: TLC may treat them so.                          *)
(***************************************************************************)
EXTENDS CertThrottle, TLC

Alike == Permutations(Child)
=============================================================================
