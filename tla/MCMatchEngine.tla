--------------------------- MODULE MCMatchEngine ----------------------------
(***************************************************************************)
(* The engine on a small board, with the two players of a solo debug       *)
(* match.  The counters only ever grow and no guard reads them, so the     *)
(* view leaves them (and the events of the last step, which only action    *)
(* properties read) out of the fingerprint: every placement and every turn *)
(* state is still explored, and the action properties are evaluated on     *)
(* every step.                                                             *)
(***************************************************************************)
EXTENDS DebugSkip

MCView == <<boardVars, skip>>
=============================================================================
