------------------------------- MODULE MCJwks -------------------------------
(***************************************************************************)
(* An instance of Jwks for TLC: the issuer adds a second key, then drops   *)
(* the first; one key has no declared algorithm and one does not parse.    *)
(***************************************************************************)
EXTENDS Jwks

k1 == [kid |-> "k1", key |-> "m1", alg |-> "RS256", parses |-> TRUE]
k2 == [kid |-> "k2", key |-> "m2", alg |-> "none", parses |-> TRUE]
anonymous == [kid |-> NoKid, key |-> "m3", alg |-> "ES256", parses |-> TRUE]
broken == [kid |-> "k4", key |-> "m4", alg |-> "ES256", parses |-> FALSE]

Rotation == <<{k1, anonymous}, {k1, k2, broken}, {k2}>>

\* Tokens of both keys, good but for what the validation tolerates or with one flaw;
\* the last is another issuer's.
good(kid, key) == [kid |-> kid, key |-> key, alg |-> "RS256", iss |-> Issuer,
                   aud |-> "api", exp |-> "live", sub |-> TRUE]
t1 == good("k1", "m1")
t2 == good("k2", "m2")

TokenSet ==
    {[t1 EXCEPT !.exp = "leeway", !.sub = FALSE],
     [t2 EXCEPT !.iss = Absent, !.aud = Absent],
     [t1 EXCEPT !.kid = NoKid],
     [t1 EXCEPT !.exp = "past"],
     [t2 EXCEPT !.exp = Absent],
     [t1 EXCEPT !.aud = "other"],
     [t2 EXCEPT !.key = "m9", !.iss = "other"]}
=============================================================================
