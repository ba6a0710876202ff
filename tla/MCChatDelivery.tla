--------------------------- MODULE MCChatDelivery ---------------------------
(***************************************************************************)
(* Small instances of ChatDelivery for TLC.                                *)
(***************************************************************************)
EXTENDS ChatDelivery, TLC

CONSTANTS buyer, seller, m1, m2, m3, BuyerTries

\* The buyer's one message and the seller's others.
MCAuthor == [i \in Messages |-> IF i = m1 THEN buyer ELSE seller]

\* Only the buyer may retry.
MCTries == [i \in Messages |-> IF i = m1 THEN BuyerTries ELSE 1]
=============================================================================
