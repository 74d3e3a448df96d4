---------------------------- MODULE MCAdminLedger ----------------------------
(* Instances of AdminLedger for TLC. *)
EXTENDS AdminLedger, MCAdmin

=============================================================================
