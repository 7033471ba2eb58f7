------------------------------ MODULE SetupProofs ------------------------------
(***************************************************************************)
(* Setup, for every set of servers and slots: a slot comes after all it    *)
(* relies on, a server that is ready has its own, and nothing that was     *)
(* there when a setup began ends it.                                       *)
(***************************************************************************)
EXTENDS Setup, TLAPS

\* Each statement's successor needs what it needed and what it has made.
LEMMA ThenNeeds ==
  ASSUME NEW p \in Objects
  PROVE  /\ Then[p] \in Place
         /\ Then[p] \notin {"ready", "exited", "createSlot"}
         /\ Before[Then[p]] \subseteq Before[p] \cup {p}
         /\ Needs(p) \subseteq Before[p]
  BY DEF Objects, Place, Then, Before, Needs

\* No server has begun and nothing exists.
LEMMA InitInv == Init => SetupInv
  BY SetupAssumption
     DEF Init, SetupInv, TypeOK, SlotComesLast, Before, Place, Missing, Nothing

\* A step of one server moves that server only and undoes nothing, so the
\* others stay no further than the database is, and what they have not found
\* at their beginning is still not of their beginning.
LEMMA ServerMoves ==
  ASSUME SetupInv, NEW s \in Server, NEW p \in Place, NEW b,
         b \in [objects : SUBSET Objects, slots : SUBSET Slot],
         at' = [at EXCEPT ![s] = p], begun' = [begun EXCEPT ![s] = b],
         creating' \subseteq Server, creating' \ {s} = creating \ {s},
         database \subseteq database', slots \subseteq slots',
         database' \subseteq Objects, slots' \subseteq Slot, faults' \in 0..MaxFaults,
         Before[p] \subseteq database', p = "ready" => SlotName[s] \in slots',
         slots' # {} => database' = Objects,
         b.objects \subseteq database', b.slots \subseteq slots',
         s \in creating' => /\ p \in Objects \ {"identity"} /\ p \notin b.objects
                           /\ Needs(p) \subseteq database',
         p = "createSlot" => SlotName[s] \notin b.slots
  PROVE  SetupInv'
<1>1. at' \in [Server -> Place] /\ begun' \in [Server -> [objects : SUBSET Objects, slots : SUBSET Slot]]
  BY DEF SetupInv, TypeOK
<1>2. ASSUME NEW t \in Server
      PROVE  /\ Before[at'[t]] \subseteq database'
             /\ at'[t] = "ready" => SlotName[t] \in slots'
             /\ begun'[t].objects \subseteq database' /\ begun'[t].slots \subseteq slots'
             /\ t \in creating' => /\ at'[t] \in Objects \ {"identity"}
                                  /\ at'[t] \notin begun'[t].objects
                                  /\ Needs(at'[t]) \subseteq database'
             /\ at'[t] = "createSlot" => SlotName[t] \notin begun'[t].slots
  <2>1. CASE t = s
    <3>1. at'[t] = p /\ begun'[t] = b
      BY <2>1 DEF SetupInv, TypeOK
    <3> QED BY <2>1, <3>1
  <2>2. CASE t # s
    <3>1. at'[t] = at[t] /\ begun'[t] = begun[t] /\ (t \in creating' <=> t \in creating)
      BY <2>2 DEF SetupInv, TypeOK
    <3> QED BY <3>1 DEF SetupInv, Missing
  <2> QED BY <2>1, <2>2
<1>3. Missing'
  BY <1>2 DEF Missing, Needs
<1> QED BY <1>1, <1>2, <1>3 DEF SetupInv, TypeOK, SlotComesLast

\* The same for a step within an attempt or at its end, which is what Go makes.
LEMMA Goes ==
  ASSUME SetupInv, NEW s \in Server, NEW p \in Place, Go(s, p),
         creating' = creating \ {s},
         database \subseteq database', slots \subseteq slots',
         database' \subseteq Objects, slots' \subseteq Slot, faults' \in 0..MaxFaults,
         Before[p] \subseteq database', p = "ready" => SlotName[s] \in slots',
         slots' # {} => database' = Objects,
         p = "createSlot" => SlotName[s] \notin slots
  PROVE  SetupInv'
<1> DEFINE b == IF p \in {"ready", "exited"} THEN Nothing ELSE begun[s]
<1>1. b \in [objects : SUBSET Objects, slots : SUBSET Slot]
  BY DEF SetupInv, TypeOK, Nothing
<1>2. begun' = [begun EXCEPT ![s] = b] /\ at' = [at EXCEPT ![s] = p]
  BY DEF Go, SetupInv, TypeOK
<1>3. b.objects \subseteq database' /\ b.slots \subseteq slots'
  BY DEF SetupInv, Missing, Nothing
<1>4. p = "createSlot" => SlotName[s] \notin b.slots
  BY DEF SetupInv, Missing, Nothing
<1>5. creating' \subseteq Server /\ creating' \ {s} = creating \ {s} /\ s \notin creating'
  BY DEF SetupInv, TypeOK
<1> HIDE DEF b
<1> QED BY <1>1, <1>2, <1>3, <1>4, <1>5, ServerMoves

\* Every step preserves the invariant.
LEMMA NextInv == SetupInv /\ [Next]_vars => SetupInv'
<1> SUFFICES ASSUME SetupInv, [Next]_vars PROVE SetupInv'
  OBVIOUS
<1> USE DEF ServerStep
<1>0. ASSUME NEW s \in Server, s \notin creating PROVE creating = creating \ {s}
  BY <1>0
<1>1. CASE UNCHANGED vars
  BY <1>1 DEF vars, SetupInv, TypeOK, SlotComesLast, Missing, Needs
<1>2. ASSUME NEW s \in Server, Connect(s) PROVE SetupInv'
  <2> DEFINE b == [objects |-> database, slots |-> slots]
  <2>1. Then["connect"] \in Place \ {"ready", "createSlot"} /\ Before[Then["connect"]] = {}
    BY DEF Then, Place, Objects, Before
  <2>2. b \in [objects : SUBSET Objects, slots : SUBSET Slot]
    BY DEF SetupInv, TypeOK
  <2>3. s \notin creating
    BY <1>2 DEF Connect, SetupInv, Missing, Objects
  <2>4. /\ at' = [at EXCEPT ![s] = Then["connect"]] /\ begun' = [begun EXCEPT ![s] = b]
        /\ creating' = creating /\ UNCHANGED <<database, slots, faults>>
    BY <1>2 DEF Connect
  <2>5. b.objects = database /\ b.slots = slots
    OBVIOUS
  <2>6. database' \subseteq Objects /\ slots' \subseteq Slot /\ faults' \in 0..MaxFaults
        /\ creating' \subseteq Server /\ (slots' # {} => database' = Objects)
    BY <2>4 DEF SetupInv, TypeOK, SlotComesLast
  <2> HIDE DEF b
  <2> QED BY <2>1, <2>2, <2>3, <2>4, <2>5, <2>6, ServerMoves
<1>3. ASSUME NEW s \in Server, LookUp(s) PROVE SetupInv'
  <2>1. at[s] \in Objects \ {"identity"} /\ s \notin creating /\ Needs(at[s]) \subseteq database
    BY <1>3, ThenNeeds DEF LookUp, SetupInv
  <2>2. CASE at[s] \in database
    <3>1. Go(s, Then[at[s]]) /\ creating' = creating
      BY <1>3, <2>1, <2>2 DEF LookUp
    <3>2. Then[at[s]] \in Place \ {"ready", "createSlot"} /\ Before[Then[at[s]]] \subseteq database'
      BY <1>3, <2>1, <2>2, ThenNeeds DEF LookUp, SetupInv
    <3> QED BY <1>0, <1>3, <2>1, <3>1, <3>2, Goes, SMTT(30)
            DEF LookUp, SetupInv, TypeOK, SlotComesLast
  <2>3. CASE at[s] \notin database
    <3>1. creating' = creating \cup {s} /\ UNCHANGED <<database, slots, at, faults, begun>>
      BY <1>3, <2>1, <2>3 DEF LookUp
    <3>2. at' = [at EXCEPT ![s] = at[s]] /\ begun' = [begun EXCEPT ![s] = begun[s]]
      BY <3>1 DEF SetupInv, TypeOK
    <3>3. at[s] \in Place /\ at[s] # "createSlot" /\ at[s] # "ready"
      BY <2>1 DEF Place, Objects
    <3>4. begun[s].objects \subseteq database /\ begun[s].slots \subseteq slots
      BY DEF SetupInv, Missing
    <3>5. begun[s] \in [objects : SUBSET Objects, slots : SUBSET Slot]
      BY DEF SetupInv, TypeOK
    <3>6. creating' \subseteq Server /\ creating' \ {s} = creating \ {s}
      BY <3>1 DEF SetupInv, TypeOK
    <3>7. /\ database' \subseteq Objects /\ slots' \subseteq Slot /\ faults' \in 0..MaxFaults
          /\ Before[at[s]] \subseteq database' /\ (slots' # {} => database' = Objects)
      BY <3>1 DEF SetupInv, TypeOK, SlotComesLast
    <3> QED BY <2>1, <2>3, <3>1, <3>2, <3>3, <3>4, <3>5, <3>6, <3>7, ServerMoves
  <2> QED BY <2>2, <2>3
<1>4. ASSUME NEW s \in Server, Create(s) PROVE SetupInv'
  <2>1. at[s] \in Objects
    BY <1>4 DEF Create, SetupInv, Missing
  <2>2. /\ Then[at[s]] \in Place \ {"ready", "createSlot"}
        /\ Before[Then[at[s]]] \subseteq database'
    BY <1>4, <2>1, ThenNeeds DEF Create, SetupInv
  <2>3. "exited" \in Place /\ Before["exited"] = {}
    BY DEF Before, Place
  <2>4. database \subseteq database' /\ database' \subseteq Objects
    BY <1>4, <2>1 DEF Create, SetupInv, TypeOK
  <2>5. slots' # {} => database' = Objects
    BY <1>4, <2>4 DEF Create, SetupInv, SlotComesLast
  <2>6. CASE at[s] \in database
    BY <1>4, <2>3, <2>4, <2>5, <2>6, Goes DEF Create, SetupInv, TypeOK
  <2>7. CASE at[s] \notin database
    BY <1>4, <2>2, <2>4, <2>5, <2>7, Goes DEF Create, SetupInv, TypeOK
  <2> QED BY <2>6, <2>7
<1>5. ASSUME NEW s \in Server, Alter(s) PROVE SetupInv'
  <2>1. "identity" \in Objects /\ at[s] = "identity"
    BY <1>5 DEF Objects, Alter
  <2>2. Needs("identity") \subseteq database /\ s \notin creating
    BY <1>5, <2>1, ThenNeeds DEF SetupInv, Missing
  <2>3. Go(s, Then["identity"]) /\ database' = database \cup {"identity"}
    BY <1>5, <2>2 DEF Alter
  <2>4. /\ Then["identity"] \in Place \ {"ready", "createSlot"}
        /\ Before[Then["identity"]] \subseteq database'
    BY <2>1, <2>3, ThenNeeds DEF SetupInv
  <2>5. database \subseteq database' /\ database' \subseteq Objects
    BY <2>1, <2>3 DEF SetupInv, TypeOK
  <2> QED BY <1>0, <1>5, <2>2, <2>3, <2>4, <2>5, Goes DEF Alter, SetupInv, TypeOK, SlotComesLast
<1>6. ASSUME NEW s \in Server, FindSlot(s) PROVE SetupInv'
  <2>1. database = Objects /\ Before["ready"] = Objects /\ Before["createSlot"] = Objects
    <3>1. /\ Before["findSlot"] = Objects
          /\ Before["ready"] = Objects /\ Before["createSlot"] = Objects
      BY DEF Before
    <3> QED BY <1>6, <3>1 DEF FindSlot, SetupInv, TypeOK
  <2>2. "ready" \in Place /\ "createSlot" \in Place /\ s \notin creating
    BY <1>6 DEF Place, FindSlot, SetupInv, Missing, Objects
  <2> QED BY <1>0, <1>6, <2>1, <2>2, Goes DEF FindSlot, SetupInv, TypeOK, SlotComesLast
<1>7. ASSUME NEW s \in Server, CreateSlot(s) PROVE SetupInv'
  <2>1. database = Objects /\ Before["ready"] = Objects /\ Before["exited"] = {}
    <3>1. Before["createSlot"] = Objects /\ Before["ready"] = Objects /\ Before["exited"] = {}
      BY DEF Before
    <3> QED BY <1>7, <3>1 DEF CreateSlot, SetupInv, TypeOK
  <2>2. /\ "ready" \in Place /\ "exited" \in Place /\ SlotName[s] \in Slot
        /\ s \notin creating
    BY <1>7, SetupAssumption DEF Place, CreateSlot, SetupInv, Missing, Objects
  <2> QED BY <1>0, <1>7, <2>1, <2>2, Goes DEF CreateSlot, SetupInv, TypeOK, SlotComesLast
<1>8. ASSUME NEW s \in Server, Fail(s) PROVE SetupInv'
  <2>1. Before["exited"] = {} /\ "exited" \in Place /\ SlotName[s] \in Slot
    BY SetupAssumption DEF Before, Place
  <2>2. faults' \in 0..MaxFaults
    BY <1>8, SetupAssumption DEF Fail, SetupInv, TypeOK
  <2>3. at[s] = "createSlot" => database = Objects
    <3>1. Before["createSlot"] = Objects
      BY DEF Before
    <3> QED BY <3>1 DEF SetupInv, TypeOK
  <2>4. s \in creating \/ at[s] = "identity" => at[s] \in Objects
    BY DEF SetupInv, Missing, Objects
  <2>5. /\ database \subseteq database' /\ slots \subseteq slots'
        /\ database' \subseteq Objects /\ slots' \subseteq Slot
        /\ (slots' # {} => database' = Objects)
    BY <1>8, <2>1, <2>3, <2>4 DEF Fail, SetupInv, TypeOK, SlotComesLast
  <2> QED BY <1>8, <2>1, <2>2, <2>5, Goes DEF Fail
<1>9. ASSUME NEW s \in Server, Start(s) PROVE SetupInv'
  <2>1. Before["connect"] = {} /\ "connect" \in Place /\ s \notin creating
    BY <1>9 DEF Before, Place, Start, SetupInv, Missing, Objects
  <2> QED BY <1>0, <1>9, <2>1, Goes DEF Start, SetupInv, TypeOK, SlotComesLast
<1> QED BY <1>1, <1>2, <1>3, <1>4, <1>5, <1>6, <1>7, <1>8, <1>9 DEF Next

\* However far each server has got, all that comes before its statement has been
\* carried out by somebody, and no slot is older than what it relies on
\* (setup.rs:57-114).
THEOREM SetupInvCorrect == Spec => []SetupInv
  BY InitInv, NextInv, PTL DEF Spec

\* In every state each object a slot's decoding relies on is older than the
\* slot, for any number of servers, names and failures (setup.rs:64-113).
THEOREM SlotLast == Spec => []SlotComesLast
<1>1. SetupInv => SlotComesLast
  BY DEF SetupInv
<1> QED BY <1>1, SetupInvCorrect, PTL

\* Whatever earlier attempts left behind and others do meanwhile, a server
\* whose setup returned Ok has all it needs (setup.rs:49-55, lib.rs:19-27).
THEOREM ReadyComplete == Spec => []ReadyMeansComplete
<1>1. SetupInv => ReadyMeansComplete
  <2>1. Before["ready"] = Objects
    BY DEF Before
  <2> QED BY <2>1 DEF SetupInv, ReadyMeansComplete, TypeOK
<1> QED BY <1>1, SetupInvCorrect, PTL

\* Nothing that existed when an attempt connected ends the attempt: only a
\* failure does, or what another server has made since (setup.rs:94-123, 134-156,
\* requirements.md:121 AC-9.4).
THEOREM SafeToRepeat == Spec => NothingOlderEndsSetup
<1> DEFINE Excused(s) == at[s] # "exited" /\ at'[s] = "exited" =>
             \/ faults' > faults
             \/ at[s] \in database \ begun[s].objects
             \/ at[s] = "createSlot" /\ SlotName[s] \in slots \ begun[s].slots
<1>1. SetupInv /\ [Next]_vars => [\A s \in Server : Excused(s)]_vars
  <2> SUFFICES ASSUME SetupInv, Next, NEW t \in Server PROVE Excused(t)
    OBVIOUS
  <2>1. PICK s \in Server : ServerStep(s) \/ Fail(s) \/ Start(s)
    BY DEF Next
  <2>2. CASE t # s
    BY <2>1, <2>2 DEF ServerStep, Connect, LookUp, Create, Alter, FindSlot, CreateSlot, Fail,
                      Start, Go, SetupInv, TypeOK
  <2>3. CASE t = s
    <3>1. CASE LookUp(s)
      \* what it needs is there, as is what it finds
      <4>1. at[s] \in Objects /\ Needs(at[s]) \subseteq database
        BY <3>1, ThenNeeds DEF LookUp, SetupInv
      <4>2. at'[s] = Then[at[s]] \/ at'[s] = at[s]
        BY <3>1, <4>1 DEF LookUp, Go, SetupInv, TypeOK
      <4> QED BY <2>3, <4>1, <4>2, ThenNeeds
    <3>2. CASE Create(s)
      <4>1. at[s] \in Objects /\ at[s] \notin begun[s].objects
        BY <3>2 DEF Create, SetupInv, Missing
      <4>2. at'[s] = IF at[s] \in database THEN "exited" ELSE Then[at[s]]
        BY <3>2 DEF Create, Go, SetupInv, TypeOK
      <4> QED BY <2>3, <4>1, <4>2, ThenNeeds
    <3>3. CASE Alter(s)
      <4>1. "identity" \in Objects /\ at[s] = "identity"
        BY <3>3 DEF Objects, Alter
      <4>2. Needs("identity") \subseteq database
        BY <4>1, ThenNeeds DEF SetupInv
      <4>3. at'[s] = Then["identity"]
        BY <3>3, <4>2 DEF Alter, Go, SetupInv, TypeOK
      <4> QED BY <2>3, <4>1, <4>3, ThenNeeds
    <3>4. CASE CreateSlot(s)
      BY <2>3, <3>4 DEF CreateSlot, Go, SetupInv, TypeOK, Missing
    <3>5. CASE Fail(s)
      BY <3>5 DEF Fail, SetupInv, TypeOK
    <3>6. CASE Connect(s)
      BY <2>3, <3>6 DEF Connect, SetupInv, TypeOK, Then
    <3>7. CASE FindSlot(s) \/ Start(s)
      BY <2>3, <3>7 DEF FindSlot, Start, Go, SetupInv, TypeOK
    <3> QED BY <2>1, <3>1, <3>2, <3>3, <3>4, <3>5, <3>6, <3>7 DEF ServerStep
  <2> QED BY <2>2, <2>3
<1> QED BY <1>1, SetupInvCorrect, PTL DEF Spec, NothingOlderEndsSetup
================================================================================
