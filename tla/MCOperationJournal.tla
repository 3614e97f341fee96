-------------------------- MODULE MCOperationJournal --------------------------
(***************************************************************************)
(* A sponsored transaction and a signature that compete for the executor   *)
(* of a wallet.                                                            *)
(***************************************************************************)
EXTENDS OperationJournal

CONSTANTS t1, s1

MCIds == {t1, s1}
MCSigningIds == {s1}
===============================================================================
