--------------------------- MODULE MCIdempotency ---------------------------
EXTENDS Idempotency, TLC

CONSTANTS r1, r2, r3, r4, k1, k2

(* Three attempts of one call and an unrelated one.                        *)
MCKeyOf == r1 :> k1 @@ r2 :> k1 @@ r3 :> k1 @@ r4 :> k2
=============================================================================
