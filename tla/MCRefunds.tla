------------------------------ MODULE MCRefunds ------------------------------
(***************************************************************************)
(* An instance of Refunds for TLC: two refunds of one kurus each would     *)
(* give a payment of two back, a third is one too many.                    *)
(***************************************************************************)
EXTENDS Refunds, TLC

CONSTANT Refunded  \* the payment that is refunded

OfRefunded == [r \in Refunds |-> Refunded]

OneCent == [r \in Refunds |-> 1]

=============================================================================
