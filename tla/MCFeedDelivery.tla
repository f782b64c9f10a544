--------------------------- MODULE MCFeedDelivery ---------------------------
(***************************************************************************)
(* FeedDelivery on small instances: model values for items, content hashes  *)
(* and the hash-blind part of a row.                                        *)
(***************************************************************************)
EXTENDS FeedDelivery

CONSTANTS e1, r1, r2, m1, m2

OneItem == {e1}
OneFeedOneItem == {{e1}}

=============================================================================
