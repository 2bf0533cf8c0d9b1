-------------------------- MODULE MCChannelDelivery --------------------------
(***************************************************************************)
(* Instances of ChannelDelivery for TLC.                                   *)
(***************************************************************************)
EXTENDS ChannelDelivery, TLC

CONSTANTS a, b, w1, w2

\* A recipient, a blank, another recipient, and the first one again.
List == <<a, Blank, b, a>>
TwoAddresses == {a, b}

WorkerSymmetry == Permutations(Workers)

=============================================================================
