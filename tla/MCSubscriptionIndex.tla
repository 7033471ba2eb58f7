-------------------------- MODULE MCSubscriptionIndex --------------------------
(* The index with two subscriptions and the three hints they may share.      *)
EXTENDS SubscriptionIndex

CONSTANTS sub1, sub2, byDocument, row1, row2

MCSubscriptionId == {sub1, sub2}
MCQueryHint == {byDocument, row1, row2}
================================================================================
