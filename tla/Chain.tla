-------------------------------- MODULE Chain --------------------------------
(* What every contract of the chain shares: who sends transactions, and the  *)
(* value an unset mapping entry reads as.                                    *)

CONSTANTS
    Accounts,   \* addresses that send transactions, none of them Zero
    Zero        \* bytes32(0) / address(0)
=============================================================================
