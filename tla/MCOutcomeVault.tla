--------------------------- MODULE MCOutcomeVault ---------------------------
(***************************************************************************)
(* Small instances of OutcomeVault.  Amounts are in quote units of which   *)
(* one is 10 Core wei; 95 basis points of 100 units leave 99 units and one *)
(* wei of dust, just above the 99% the vault tolerates.                    *)
(***************************************************************************)
EXTENDS OutcomeVault
=============================================================================
