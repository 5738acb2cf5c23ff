------------------------------ MODULE Accounts ------------------------------
(***************************************************************************)
(* What the modules that restrict sends have in common.                    *)
(***************************************************************************)
EXTENDS Integers, KVStore

CONSTANT Address     \* every address
=============================================================================
