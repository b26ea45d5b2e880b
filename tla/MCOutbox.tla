------------------------------ MODULE MCOutbox ------------------------------
(* Instances of Outbox for TLC. *)
EXTENDS Outbox

TwoPids == {"pid1", "pid2"}

=============================================================================
