--------------------------- MODULE MCSingleSignOn ---------------------------
(* SingleSignOn for TLC: two tenants, two logins and two callbacks, two    *)
(* issuers and two clients that any tenant may name, one email, one        *)
(* operator that may hold it, one administrator at work.                   *)
EXTENDS SingleSignOn, TLC

CONSTANTS t1, t2, s1, s2, c1, c2, i1, i2, k1, k2

Symmetry == Permutations({t1, t2}) \cup Permutations({s1, s2}) \cup Permutations({c1, c2})
              \cup Permutations({i1, i2}) \cup Permutations({k1, k2})
=============================================================================
