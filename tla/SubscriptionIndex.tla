--------------------------- MODULE SubscriptionIndex ---------------------------
(***************************************************************************)
(* The SubscriptionIndex of src/edge/subscription_index.rs: which          *)
(* subscriptions a hint of the invalidator affects, kept as two indexes    *)
(* that are converse of one another.  Every method borrows the index       *)
(* mutably or reads it, so one call is one step.  `answer` is the value    *)
(* the latest call returned.                                               *)
(***************************************************************************)
CONSTANTS SubscriptionId, QueryHint

VARIABLES
  inverted,           \* inverted_index: hint -> its subscriptions
  subscriptionHints,  \* subscription_hints: subscription -> its hints
  answer

vars == <<inverted, subscriptionHints, answer>>

Init ==
  /\ inverted = [h \in {} |-> {}]
  /\ subscriptionHints = [s \in {} |-> {}]
  /\ answer = [ok |-> TRUE]

-----------------------------------------------------------------------------
(* The loops over a set of hints.                                          *)

\* An operator named F_Something is F with a mistake that some property
\* has to notice; the specification does not use it.
Unregister_KeepsKey(s, H) ==
  [h \in DOMAIN inverted |-> IF h \in H THEN inverted[h] \ {s} ELSE inverted[h]]

\* inverted after s is removed from the entries of H, emptied entries with it
Unregister(s, H) ==
  [h \in {h \in DOMAIN inverted : h \in H => inverted[h] \ {s} # {}} |->
     IF h \in H THEN inverted[h] \ {s} ELSE inverted[h]]

\* index after s is added to the entries of H, missing entries made first
Register(index, s, H) ==
  [h \in DOMAIN index \cup H |->
     (IF h \in DOMAIN index THEN index[h] ELSE {}) \cup (IF h \in H THEN {s} ELSE {})]

SetHints(s, H) ==
  subscriptionHints' =
    [t \in DOMAIN subscriptionHints \cup {s} |->
       IF t = s THEN H ELSE subscriptionHints[t]]

-----------------------------------------------------------------------------
AlreadySubscribed(s) ==
  /\ s \in DOMAIN subscriptionHints
  /\ answer' = [alreadySubscribed |-> s]
  /\ UNCHANGED <<inverted, subscriptionHints>>

UnknownSubscription(s) ==
  /\ s \notin DOMAIN subscriptionHints
  /\ answer' = [unknown |-> s]
  /\ UNCHANGED <<inverted, subscriptionHints>>

Subscribe_Again(s, H) ==
  /\ inverted' = Register(inverted, s, H)
  /\ SetHints(s, H)
  /\ answer' = [ok |-> TRUE]

Subscribe(s, H) ==
  \/ AlreadySubscribed(s)
  \/ /\ s \notin DOMAIN subscriptionHints
     /\ inverted' = Register(inverted, s, H)
     /\ SetHints(s, H)
     /\ answer' = [ok |-> TRUE]

Unsubscribe(s) ==
  \/ UnknownSubscription(s)
  \/ /\ s \in DOMAIN subscriptionHints
     /\ inverted' = Unregister(s, subscriptionHints[s])
     /\ subscriptionHints' =
          [t \in DOMAIN subscriptionHints \ {s} |-> subscriptionHints[t]]
     /\ answer' = [removed |-> subscriptionHints[s]]

UpdateHints_AddOnly(s, H) ==
  \/ UnknownSubscription(s)
  \/ /\ s \in DOMAIN subscriptionHints
     /\ inverted' = Register(inverted, s, H)
     /\ SetHints(s, H)
     /\ answer' = [ok |-> TRUE]

UpdateHints(s, H) ==
  \/ UnknownSubscription(s)
  \/ /\ s \in DOMAIN subscriptionHints
     /\ LET removed == subscriptionHints[s] \ H
            added == H \ subscriptionHints[s]
        IN inverted' = Register(Unregister(s, removed), s, added)
     /\ SetHints(s, H)
     /\ answer' = [ok |-> TRUE]

SubscriptionsForHint(h) ==
  /\ answer' = [affected |-> IF h \in DOMAIN inverted THEN inverted[h] ELSE {}]
  /\ UNCHANGED <<inverted, subscriptionHints>>

HintsForSubscription(s) ==
  \/ UnknownSubscription(s)
  \/ /\ s \in DOMAIN subscriptionHints
     /\ answer' = [hints |-> subscriptionHints[s]]
     /\ UNCHANGED <<inverted, subscriptionHints>>

IsEmpty ==
  /\ answer' = [empty |-> (DOMAIN inverted = {} /\ DOMAIN subscriptionHints = {})]
  /\ UNCHANGED <<inverted, subscriptionHints>>

Next ==
  \/ \E s \in SubscriptionId : \E H \in SUBSET QueryHint : Subscribe(s, H)
  \/ \E s \in SubscriptionId : \E H \in SUBSET QueryHint : UpdateHints(s, H)
  \/ \E s \in SubscriptionId : Unsubscribe(s)
  \/ \E s \in SubscriptionId : HintsForSubscription(s)
  \/ \E h \in QueryHint : SubscriptionsForHint(h)
  \/ IsEmpty

Spec == Init /\ [][Next]_vars

-----------------------------------------------------------------------------
TypeOK ==
  /\ DOMAIN inverted \subseteq QueryHint
  /\ inverted \in [DOMAIN inverted -> SUBSET SubscriptionId]
  /\ DOMAIN subscriptionHints \subseteq SubscriptionId
  /\ subscriptionHints \in [DOMAIN subscriptionHints -> SUBSET QueryHint]

\* The two indexes are converse: a subscription stands in the entry of a hint
\* exactly when that hint is among its own.  A pair only in inverted_index is
\* a "ghost" invalidation, a pair only in subscription_hints a missed one
\* (subscription_index.rs:53-55).
IndexesAgree ==
  \A h \in QueryHint : \A s \in SubscriptionId :
    (h \in DOMAIN inverted /\ s \in inverted[h])
      <=> (s \in DOMAIN subscriptionHints /\ h \in subscriptionHints[s])

\* No hint keeps an entry after its last subscription is gone: the map would
\* grow with every hint ever registered, and is_empty() would never answer
\* true again.
NoEmptyEntries == \A h \in DOMAIN inverted : inverted[h] # {}

Map == INSTANCE SubscriptionMap WITH hints <- subscriptionHints

\* Every call answers, and changes the index, as one map from subscriptions
\* to hints would: lookups by hint are computed from one index and calls that
\* change it diff the other, so this holds only while the two agree.
ImplementsMap == Map!Spec
================================================================================
