---------------------------- MODULE SubscriptionMap ----------------------------
(***************************************************************************)
(* What SubscriptionIndex promises its caller: a map from the live         *)
(* subscriptions to their hints, in which the subscriptions a hint affects *)
(* are those that registered it last.  There is no second index to keep in *)
(* step; `answer` is what the latest call returned.                        *)
(***************************************************************************)
CONSTANTS SubscriptionId, QueryHint

VARIABLES hints, answer

vars == <<hints, answer>>

Init == hints = [s \in {} |-> {}] /\ answer = [ok |-> TRUE]

Registered(h) == {s \in DOMAIN hints : h \in hints[s]}

With(s, H) == [t \in DOMAIN hints \cup {s} |-> IF t = s THEN H ELSE hints[t]]

Subscribe(s, H) ==
  \/ s \notin DOMAIN hints /\ hints' = With(s, H) /\ answer' = [ok |-> TRUE]
  \/ s \in DOMAIN hints /\ answer' = [alreadySubscribed |-> s] /\ UNCHANGED hints

Unsubscribe(s) ==
  \/ /\ s \in DOMAIN hints
     /\ hints' = [t \in DOMAIN hints \ {s} |-> hints[t]]
     /\ answer' = [removed |-> hints[s]]
  \/ s \notin DOMAIN hints /\ answer' = [unknown |-> s] /\ UNCHANGED hints

UpdateHints(s, H) ==
  \/ s \in DOMAIN hints /\ hints' = With(s, H) /\ answer' = [ok |-> TRUE]
  \/ s \notin DOMAIN hints /\ answer' = [unknown |-> s] /\ UNCHANGED hints

Lookup(h) == answer' = [affected |-> Registered(h)] /\ UNCHANGED hints

HintsOf(s) ==
  \/ s \in DOMAIN hints /\ answer' = [hints |-> hints[s]] /\ UNCHANGED hints
  \/ s \notin DOMAIN hints /\ answer' = [unknown |-> s] /\ UNCHANGED hints

IsEmpty == answer' = [empty |-> (DOMAIN hints = {})] /\ UNCHANGED hints

Next ==
  \/ \E s \in SubscriptionId : \E H \in SUBSET QueryHint :
       Subscribe(s, H) \/ UpdateHints(s, H)
  \/ \E s \in SubscriptionId : Unsubscribe(s) \/ HintsOf(s)
  \/ \E h \in QueryHint : Lookup(h)
  \/ IsEmpty

Spec == Init /\ [][Next]_vars
================================================================================
