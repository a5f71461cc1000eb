-------------------------- MODULE MCSharedNamespace --------------------------
(***************************************************************************)
(* Instance of SharedNamespace for TLC.                                    *)
(***************************************************************************)
EXTENDS SharedNamespace
=============================================================================
