--------------------------- MODULE MCIdentities ----------------------------
(* Small instances of the identity tables for TLC.  The probe Mac m1 holds *)
(* p3; the other Mac holds p1, which stays, and p2, which comes and goes.  *)
(* s is a session of p1, which an earlier version recorded under m2.       *)
EXTENDS Identities, TLC

CONSTANTS p1, p2, p3, m1, m2, h1, h2, h3, s

MCPidOf == (h1 :> p1) @@ (h2 :> p2) @@ (h3 :> p3) @@ (s :> p1)
MCKeyOf == (p1 :> m2) @@ (p2 :> m2) @@ (p3 :> m1)
MCLegacy == {<<s, m2>>}

\* The instances with two providers, no session and nothing recorded before.
MCPairPidOf == (h1 :> p1) @@ (h2 :> p2)
MCPairKeyOf == (p1 :> m2) @@ (p2 :> m2)
MCNone == {}
=============================================================================
