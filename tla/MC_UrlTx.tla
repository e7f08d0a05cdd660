------------------------------ MODULE MC_UrlTx ------------------------------
(* Instances of UrlTx for TLC. *)
EXTENDS UrlTx, TLC

CONSTANTS c1, a, b, r1, r2

MCTagLists == {<<>>, <<b, a>>}
=============================================================================
