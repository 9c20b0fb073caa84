------------------------------- MODULE MCHttp -------------------------------
(***************************************************************************)
(* The service for TLC.                                                    *)
(***************************************************************************)
EXTENDS HttpProperties

=============================================================================
