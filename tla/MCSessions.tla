----------------------------- MODULE MCSessions ------------------------------
(* Two tabs of a browser that share its cookies. *)
EXTENDS Sessions
=============================================================================
