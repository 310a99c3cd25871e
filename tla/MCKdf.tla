-------------------------------- MODULE MCKdf --------------------------------
(***************************************************************************)
(* Kdf with chunks below 17, N up to 8, r and p up to 2.  Salsa is a       *)
(* permutation without regularity, Xor is addition: it does not commute    *)
(* with Salsa, so that every wrong order of blocks shows.                  *)
(***************************************************************************)
EXTENDS Kdf
MCSalsa(x) == ((x * x * x) + 5 * (x % 3) + 3) % M
MCXor(x, y) == (x + y) % M
MCExpand(q, k, c) == (q.pw * 7 + k * 5 + c * 3 + 1) % M
MCRequests == [pw : {0, 1}, N : {2, 4, 8}, r : {1, 2}, p : {1, 2}]
MCTestCase == [pw |-> 2, N |-> 4, r |-> 1, p |-> 1]
=============================================================================
