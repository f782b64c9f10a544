--------------------------- MODULE MCFeedHandoff ----------------------------
(* FeedHandoff on small instances: the facts of each. *)
EXTENDS FeedHandoff

CONSTANT e1

\* In the inventory's order, acks come before items.
AckThenItem == <<"ack", "item">>
SameEvent == <<e1, e1>>
=============================================================================
