------------------------------ MODULE MCParams ------------------------------
(***************************************************************************)
(* Params with the code's floors (2^20 bytes, 2^15 operations) and with    *)
(* limits of 64 bits scaled down so that every one of them is reached and  *)
(* TLC's integers hold every product.                                      *)
(***************************************************************************)
EXTENDS Params
MCPow2 == [n \in 0..15 |-> 2^n]
MCMemories == {1000, 1048576, 1048577, 2097151, 2097152, 3000000, 33000000}
MCSpeeds == {0, 1048575, 1048576, 1048577, 2097151, 2097152, 3000000, 3000001, 16777216,
             300000000}
MCMaxMems == {0, 1, 1500000}
MCLogNs == {0, 1, 2, 10, 11, 15, 16, 255}
MCRs == {0, 1, 8, 9, 255, 256}
MCPs == {0, 1, 2, 31, 32, 300}
=============================================================================
