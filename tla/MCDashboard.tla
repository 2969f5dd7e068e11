---------------------------- MODULE MCDashboard ----------------------------
(***************************************************************************)
(* Two rows, of which a page and the table of the dashboard hold one.      *)
(***************************************************************************)
EXTENDS Dashboard

MCIds == 1..2
MCCreatedAt == <<1, 2>>
MCReceivedAt == <<1, 2>>

=============================================================================
