---------------------------- MODULE MCSmsWindow -----------------------------
(***************************************************************************)
(* SmsWindow on small instances.                                           *)
(***************************************************************************)
EXTENDS SmsWindow
=============================================================================
