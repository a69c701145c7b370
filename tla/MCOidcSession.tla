--------------------------- MODULE MCOidcSession ---------------------------
(* Instances of OidcSession for TLC. *)
EXTENDS OidcSession, TLC

Symmetry == Permutations(Requests) \cup Permutations(Ids) \cup Permutations(Keys)

Weight(happened, w) == IF happened THEN w ELSE 0

\* Logins, answers of the token endpoint, writes that failed in a login and expired
\* tokens have weight 1; a replaced key of the issuer, lapsed records and records
\* under another deployment's key have weight 2.
Events ==
    Cardinality({n \in Logins : codes[n] # "none"}) + Len(grants)
    + Weight(torn # {}, 1) + Weight(stale # {}, 1) + Weight(distrusted # {}, 2)
    + Weight(\E i \in Ids : store[i].expired, 2)
    + Weight(\E i \in Ids : store[i] # Absent /\ store[i].seal # key, 2)

\* Bound.
MaxEvents == 4

FewEvents == Events <= MaxEvents
=============================================================================
