-------------------------- MODULE MCRealtimeGateway ---------------------------
(***************************************************************************)
(* One page, three transitions and three faults.                           *)
(***************************************************************************)
EXTENDS RealtimeGateway
=============================================================================
