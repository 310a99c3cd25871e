--------------------------------- MODULE Widths ---------------------------------
(* The integer types that CommandLine and Measure share.                     *)
EXTENDS Integers

CONSTANTS UINT64_MAX, SIZE_MAX

ASSUME WidthsAssumption == UINT64_MAX \in Nat /\ SIZE_MAX \in 0..UINT64_MAX
=============================================================================
