------------------------ MODULE SubscriptionIndexProofs ------------------------
(***************************************************************************)
(* The two indexes of SubscriptionIndex stay converse, keep no empty entry *)
(* and together implement one map, for every set of subscriptions and      *)
(* hints.  The three invariants are inductive together: update_hints diffs *)
(* against one index to change the other, so neither is right alone.       *)
(***************************************************************************)
EXTENDS SubscriptionIndex, TLAPS

IndexInv == TypeOK /\ IndexesAgree /\ NoEmptyEntries

\* What the loop that removes s from the entries of H leaves behind.
LEMMA UnregisterEntries ==
  ASSUME NEW s \in SubscriptionId, NEW H \in SUBSET QueryHint, NEW index,
         TypeOK, NoEmptyEntries, index = Unregister(s, H)
  PROVE  /\ DOMAIN index \subseteq QueryHint
         /\ index \in [DOMAIN index -> SUBSET SubscriptionId]
         /\ \A h \in DOMAIN index : index[h] # {}
         /\ \A h \in QueryHint : \A t \in SubscriptionId :
              (h \in DOMAIN index /\ t \in index[h])
                <=> (h \in DOMAIN inverted /\ t \in inverted[h] /\ ~(t = s /\ h \in H))
  BY DEF TypeOK, NoEmptyEntries, Unregister

\* Every call keeps the three invariants.
LEMMA IndexNext == IndexInv /\ [Next]_vars => IndexInv'
<1> SUFFICES ASSUME IndexInv, [Next]_vars PROVE IndexInv'
  OBVIOUS
<1> USE DEF IndexInv
<1>same. ASSUME UNCHANGED <<inverted, subscriptionHints>> PROVE IndexInv'
  BY <1>same DEF TypeOK, IndexesAgree, NoEmptyEntries
<1>1. ASSUME NEW s \in SubscriptionId, NEW H \in SUBSET QueryHint, Subscribe(s, H)
      PROVE IndexInv'
  <2>1. CASE AlreadySubscribed(s)
    BY <2>1, <1>same DEF AlreadySubscribed
  <2>2. CASE s \notin DOMAIN subscriptionHints /\ inverted' = Register(inverted, s, H)
             /\ SetHints(s, H)
    <3>1. /\ DOMAIN inverted' \subseteq QueryHint
          /\ inverted' \in [DOMAIN inverted' -> SUBSET SubscriptionId]
          /\ \A h \in DOMAIN inverted' : inverted'[h] # {}
          /\ \A h \in QueryHint : \A t \in SubscriptionId :
               (h \in DOMAIN inverted' /\ t \in inverted'[h])
                 <=> ((h \in DOMAIN inverted /\ t \in inverted[h])
                        \/ (t = s /\ h \in H))
      <4>1. /\ DOMAIN inverted \subseteq QueryHint
            /\ inverted \in [DOMAIN inverted -> SUBSET SubscriptionId]
            /\ \A h \in DOMAIN inverted : inverted[h] # {}
            /\ inverted' = Register(inverted, s, H)
        BY <2>2 DEF TypeOK, NoEmptyEntries
      <4> QED BY <4>1 DEF Register
    <3>2. TypeOK' /\ NoEmptyEntries'
      BY <2>2, <3>1 DEF TypeOK, NoEmptyEntries, SetHints
    <3>3. IndexesAgree'
      BY <2>2, <3>1 DEF TypeOK, IndexesAgree, SetHints
    <3> QED BY <3>2, <3>3
  <2> QED BY <1>1, <2>1, <2>2 DEF Subscribe
<1>2. ASSUME NEW s \in SubscriptionId, NEW H \in SUBSET QueryHint, UpdateHints(s, H)
      PROVE IndexInv'
  <2>1. CASE UnknownSubscription(s)
    BY <2>1, <1>same DEF UnknownSubscription
  <2>2. CASE ~ UnknownSubscription(s)
    <3> DEFINE removed == subscriptionHints[s] \ H
               added == H \ subscriptionHints[s]
               middle == Unregister(s, removed)
    <3>1. /\ s \in DOMAIN subscriptionHints
          /\ inverted' = Register(middle, s, added)
          /\ SetHints(s, H)
      BY <1>2, <2>2 DEF UpdateHints
    <3>2. removed \in SUBSET QueryHint /\ added \in SUBSET QueryHint
      BY <3>1 DEF TypeOK
    <3>3. /\ DOMAIN middle \subseteq QueryHint
          /\ middle \in [DOMAIN middle -> SUBSET SubscriptionId]
          /\ \A h \in DOMAIN middle : middle[h] # {}
          /\ \A h \in QueryHint : \A t \in SubscriptionId :
               (h \in DOMAIN middle /\ t \in middle[h])
                 <=> (h \in DOMAIN inverted /\ t \in inverted[h]
                        /\ ~(t = s /\ h \in removed))
      BY <3>2, UnregisterEntries
    <3> HIDE DEF middle
    <3>4. /\ DOMAIN inverted' \subseteq QueryHint
          /\ inverted' \in [DOMAIN inverted' -> SUBSET SubscriptionId]
          /\ \A h \in DOMAIN inverted' : inverted'[h] # {}
          /\ \A h \in QueryHint : \A t \in SubscriptionId :
               (h \in DOMAIN inverted' /\ t \in inverted'[h])
                 <=> ((h \in DOMAIN middle /\ t \in middle[h])
                        \/ (t = s /\ h \in added))
      BY <3>1, <3>2, <3>3 DEF Register
    <3>5. TypeOK' /\ NoEmptyEntries'
      BY <3>1, <3>4 DEF TypeOK, NoEmptyEntries, SetHints
    <3>6. IndexesAgree'
      BY <3>1, <3>3, <3>4 DEF IndexesAgree, TypeOK, SetHints
    <3> QED BY <3>5, <3>6
  <2> QED BY <2>1, <2>2
<1>3. ASSUME NEW s \in SubscriptionId, Unsubscribe(s) PROVE IndexInv'
  <2>1. CASE UnknownSubscription(s)
    BY <2>1, <1>same DEF UnknownSubscription
  <2>2. CASE ~ UnknownSubscription(s)
    <3>1. /\ s \in DOMAIN subscriptionHints
          /\ inverted' = Unregister(s, subscriptionHints[s])
          /\ subscriptionHints' =
               [t \in DOMAIN subscriptionHints \ {s} |-> subscriptionHints[t]]
      BY <1>3, <2>2 DEF Unsubscribe
    <3>2. TypeOK' /\ NoEmptyEntries'
      BY <3>1, UnregisterEntries DEF TypeOK, NoEmptyEntries
    <3>3. IndexesAgree'
      BY <3>1, UnregisterEntries DEF TypeOK, NoEmptyEntries, IndexesAgree
    <3> QED BY <3>2, <3>3
  <2> QED BY <2>1, <2>2
<1>4. ASSUME NEW s \in SubscriptionId, HintsForSubscription(s) PROVE IndexInv'
  BY <1>4, <1>same DEF HintsForSubscription, UnknownSubscription
<1>5. ASSUME NEW h \in QueryHint, SubscriptionsForHint(h) PROVE IndexInv'
  BY <1>5, <1>same DEF SubscriptionsForHint
<1>6. CASE IsEmpty
  BY <1>6, <1>same DEF IsEmpty
<1>7. CASE UNCHANGED vars
  BY <1>7, <1>same DEF vars
<1> QED BY <1>1, <1>2, <1>3, <1>4, <1>5, <1>6, <1>7 DEF Next

\* In every state the program reaches the two indexes have their types, are
\* converse and hold no empty entry.
THEOREM IndexCorrect == Spec => [](TypeOK /\ IndexesAgree /\ NoEmptyEntries)
<1>1. Init => IndexInv
  BY DEF Init, IndexInv, TypeOK, IndexesAgree, NoEmptyEntries
<1> QED BY <1>1, IndexNext, PTL DEF Spec, IndexInv

\* The index does not grow with hints that nobody is registered under any more
\* (subscription_index.rs:138-145).
THEOREM IndexStaysSmall == Spec => []NoEmptyEntries
<1>1. TypeOK /\ IndexesAgree /\ NoEmptyEntries => NoEmptyEntries
  OBVIOUS
<1> QED BY <1>1, IndexCorrect, PTL

\* One call of the index is one call of the map.
LEMMA MapNext == IndexInv /\ [Next]_vars => [Map!Next]_(Map!vars)
<1> SUFFICES ASSUME IndexInv, [Next]_vars PROVE [Map!Next]_(Map!vars)
  OBVIOUS
<1>1. ASSUME NEW s \in SubscriptionId, NEW H \in SUBSET QueryHint, Subscribe(s, H)
      PROVE Map!Subscribe(s, H)
  BY <1>1 DEF Subscribe, AlreadySubscribed, SetHints, Map!Subscribe, Map!With
<1>2. ASSUME NEW s \in SubscriptionId, NEW H \in SUBSET QueryHint, UpdateHints(s, H)
      PROVE Map!UpdateHints(s, H)
  BY <1>2 DEF UpdateHints, UnknownSubscription, SetHints, Map!UpdateHints, Map!With
<1>3. ASSUME NEW s \in SubscriptionId, Unsubscribe(s) PROVE Map!Unsubscribe(s)
  BY <1>3 DEF Unsubscribe, UnknownSubscription, Map!Unsubscribe
<1>4. ASSUME NEW s \in SubscriptionId, HintsForSubscription(s) PROVE Map!HintsOf(s)
  BY <1>4 DEF HintsForSubscription, UnknownSubscription, Map!HintsOf
<1>5. ASSUME NEW h \in QueryHint, SubscriptionsForHint(h) PROVE Map!Lookup(h)
  <2>1. (IF h \in DOMAIN inverted THEN inverted[h] ELSE {}) = Map!Registered(h)
    BY DEF IndexInv, TypeOK, IndexesAgree, Map!Registered
  <2> QED BY <1>5, <2>1 DEF SubscriptionsForHint, Map!Lookup
<1>6. ASSUME IsEmpty PROVE Map!IsEmpty
  <2>1. DOMAIN subscriptionHints = {} => DOMAIN inverted = {}
    BY DEF IndexInv, TypeOK, IndexesAgree, NoEmptyEntries
  <2> QED BY <1>6, <2>1 DEF IsEmpty, Map!IsEmpty
<1>7. ASSUME UNCHANGED vars PROVE UNCHANGED Map!vars
  BY <1>7 DEF vars, Map!vars
<1> QED BY <1>1, <1>2, <1>3, <1>4, <1>5, <1>6, <1>7 DEF Next, Map!Next

\* The pair of indexes implements one map: a lookup by hint never returns a
\* subscription that is gone or no longer registered under it, and never
\* misses one that is.
THEOREM MapRefined == Spec => ImplementsMap
<1>1. Init => Map!Init
  BY DEF Init, Map!Init
<1>2. Init => IndexInv
  BY DEF Init, IndexInv, TypeOK, IndexesAgree, NoEmptyEntries
<1> QED BY <1>1, <1>2, IndexNext, MapNext, PTL DEF Spec, ImplementsMap, Map!Spec
================================================================================
