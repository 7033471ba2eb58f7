--------------------------------- MODULE Setup ---------------------------------
(***************************************************************************)
(* setup_postgres (src/postgres/setup.rs) as run by servers that start on  *)
(* one database: statement after statement, each committed by itself, with *)
(* the failures between them, the starts after those, and what Postgres    *)
(* makes of each statement (external).                                     *)
(***************************************************************************)
EXTENDS Naturals

CONSTANTS
  Server,      \* the server processes
  Slot,        \* names of replication slots
  SlotName,    \* server -> PostgresConfig::slot_name of its configuration
  MaxFaults    \* bound: failed statements, lost connections and crashes

ASSUME SetupAssumption ==
  /\ SlotName \in [Server -> Slot]
  /\ MaxFaults \in Nat

VARIABLES
  database,   \* what the statements have made so far: a subset of Objects
  slots,      \* the replication slots that exist
  at,         \* server -> the statement it executes next, "ready" or "exited"
  creating,   \* servers whose CREATE has found no such object and makes it now
  faults,     \* failures so far
  begun       \* history: server -> what existed when this attempt connected

vars == <<database, slots, at, creating, faults, begun>>

\* The tables, the extension, REPLICA IDENTITY FULL of comments, and the
\* publication of the two tables; each is named as the statement that makes it.
Objects == {"documents", "pgcrypto", "comments", "identity", "publication"}

Place == Objects \cup {"connect", "findSlot", "createSlot", "ready", "exited"}

Then_NoAlter ==
  [connect |-> "documents", documents |-> "pgcrypto", pgcrypto |-> "comments",
   comments |-> "publication", identity |-> "publication", publication |-> "findSlot"]

\* the order of run_setup_queries
Then ==
  [connect |-> "documents", documents |-> "pgcrypto", pgcrypto |-> "comments",
   comments |-> "identity", identity |-> "publication", publication |-> "findSlot"]

Needs(statement) ==
  CASE statement = "identity" -> {"comments"}
    [] statement = "publication" -> {"documents", "comments"}
    [] OTHER -> {}

Nothing == [objects |-> {}, slots |-> {}]

Init ==
  /\ database = {}
  /\ slots = {}
  /\ at = [s \in Server |-> "connect"]
  /\ creating = {}
  /\ faults = 0
  /\ begun = [s \in Server |-> Nothing]

-----------------------------------------------------------------------------
\* The history is that of the attempt under way.
Go(s, place) ==
  /\ at' = [at EXCEPT ![s] = place]
  /\ begun' = IF place \in {"ready", "exited"} THEN [begun EXCEPT ![s] = Nothing] ELSE begun

Connect(s) ==
  /\ at[s] = "connect"
  /\ at' = [at EXCEPT ![s] = Then["connect"]]
  /\ begun' = [begun EXCEPT ![s] = [objects |-> database, slots |-> slots]]
  /\ UNCHANGED <<database, slots, creating, faults>>

LookUp_Strict(s) ==
  /\ at[s] \in Objects \ {"identity"}
  /\ s \notin creating
  /\ IF Needs(at[s]) \subseteq database /\ at[s] \notin database
     THEN creating' = creating \cup {s} /\ UNCHANGED <<at, begun>>
     ELSE Go(s, "exited") /\ UNCHANGED creating
  /\ UNCHANGED <<database, slots, faults>>

\* A CREATE looks for its object.  One that is there is as good as made: IF NOT
\* EXISTS, or the duplicate_object (42710) of the publication taken for success.
LookUp(s) ==
  /\ at[s] \in Objects \ {"identity"}
  /\ s \notin creating
  /\ \/ ~ (Needs(at[s]) \subseteq database) /\ Go(s, "exited") /\ UNCHANGED creating
     \/ Needs(at[s]) \subseteq database /\ at[s] \in database
          /\ Go(s, Then[at[s]]) /\ UNCHANGED creating
     \/ Needs(at[s]) \subseteq database /\ at[s] \notin database
          /\ creating' = creating \cup {s} /\ UNCHANGED <<at, begun>>
  /\ UNCHANGED <<database, slots, faults>>

\* It makes the object.  If another server has made it since the look-up, the
\* insertion into the catalog is a unique_violation (23505): an error of exec,
\* which run_setup_queries returns, for the publication as for the others.
Create(s) ==
  /\ s \in creating
  /\ creating' = creating \ {s}
  /\ database' = database \cup {at[s]}
  /\ Go(s, IF at[s] \in database THEN "exited" ELSE Then[at[s]])
  /\ UNCHANGED <<slots, faults>>

\* ALTER TABLE waits for the table's lock and does no harm when repeated.
Alter(s) ==
  /\ at[s] = "identity"
  /\ IF Needs("identity") \subseteq database
     THEN Go(s, Then["identity"]) /\ database' = database \cup {"identity"}
     ELSE Go(s, "exited") /\ UNCHANGED database
  /\ UNCHANGED <<slots, creating, faults>>

FindSlot_Any(s) ==
  /\ at[s] = "findSlot"
  /\ Go(s, IF slots # {} THEN "ready" ELSE "createSlot")
  /\ UNCHANGED <<database, slots, creating, faults>>

FindSlot_Skipped(s) ==
  /\ at[s] = "findSlot"
  /\ Go(s, "createSlot")
  /\ UNCHANGED <<database, slots, creating, faults>>

\* ensure_replication_slot asks ...
FindSlot(s) ==
  /\ at[s] = "findSlot"
  /\ Go(s, IF SlotName[s] \in slots THEN "ready" ELSE "createSlot")
  /\ UNCHANGED <<database, slots, creating, faults>>

\* ... and creates, which fails if another server has done so in between
CreateSlot(s) ==
  /\ at[s] = "createSlot"
  /\ slots' = slots \cup {SlotName[s]}
  /\ Go(s, IF SlotName[s] \in slots THEN "exited" ELSE "ready")
  /\ UNCHANGED <<database, creating, faults>>

Fail_Ignored(s) ==
  /\ at[s] \in Objects
  /\ faults < MaxFaults
  /\ faults' = faults + 1
  /\ Go(s, Then[at[s]])
  /\ creating' = creating \ {s}
  /\ UNCHANGED <<database, slots>>

\* The connection or the process dies, or the statement at hand fails, at any
\* point: run_server exits.  A statement whose answer is lost may have been
\* carried out.
Fail(s) ==
  /\ at[s] # "exited"
  /\ faults < MaxFaults
  /\ faults' = faults + 1
  /\ Go(s, "exited")
  /\ creating' = creating \ {s}
  /\ \/ UNCHANGED <<database, slots>>
     \/ /\ s \in creating \/ at[s] = "identity"
        /\ Needs(at[s]) \subseteq database
        /\ database' = database \cup {at[s]}
        /\ UNCHANGED slots
     \/ /\ at[s] = "createSlot"
        /\ slots' = slots \cup {SlotName[s]}
        /\ UNCHANGED database

\* the operator starts the server again
Start(s) ==
  /\ at[s] = "exited"
  /\ Go(s, "connect")
  /\ UNCHANGED <<database, slots, creating, faults>>

ServerStep(s) ==
  \/ Connect(s) \/ LookUp(s) \/ Create(s) \/ Alter(s)
  \/ FindSlot(s) \/ CreateSlot(s)

Next == \E s \in Server : ServerStep(s) \/ Fail(s) \/ Start(s)

Spec == Init /\ [][Next]_vars

\* Statements are answered, and a server that has exited is started again.
FairSpec == Spec /\ \A s \in Server : WF_vars(ServerStep(s)) /\ WF_vars(Start(s))

-----------------------------------------------------------------------------
TypeOK ==
  /\ database \subseteq Objects
  /\ slots \subseteq Slot
  /\ at \in [Server -> Place]
  /\ creating \subseteq Server
  /\ faults \in 0..MaxFaults
  /\ begun \in [Server -> [objects : SUBSET Objects, slots : SUBSET Slot]]

\* A slot only exists once everything its decoding relies on does: Postgres
\* looks up the publication and the replica identity as of each change, so a
\* change between the slot's creation and theirs would stop the stream or
\* arrive without its old row (setup.rs:64-113).
SlotComesLast == slots # {} => database = Objects

\* A server that goes on to start its WAL reader (lib.rs:19-27) has its own
\* slot and all the rest, whoever made them and however often setup failed.
ReadyMeansComplete ==
  \A s \in Server : at[s] = "ready" => database = Objects /\ SlotName[s] \in slots

\* What has to be there before a server comes to a statement: the places of
\* all the servers, taken together, are never ahead of the database.
Before ==
  [connect |-> {}, documents |-> {}, pgcrypto |-> {"documents"},
   comments |-> {"documents", "pgcrypto"},
   identity |-> {"documents", "pgcrypto", "comments"},
   publication |-> {"documents", "pgcrypto", "comments", "identity"},
   findSlot |-> Objects, createSlot |-> Objects, ready |-> Objects, exited |-> {}]

\* What a server is about to make was not there when it connected: nothing is
\* dropped, and it has looked since.
Missing ==
  \A s \in Server :
    /\ begun[s].objects \subseteq database /\ begun[s].slots \subseteq slots
    /\ s \in creating => /\ at[s] \in Objects \ {"identity"}
                        /\ at[s] \notin begun[s].objects
                        /\ Needs(at[s]) \subseteq database
    /\ at[s] = "createSlot" => SlotName[s] \notin begun[s].slots

\* SlotComesLast and ReadyMeansComplete made inductive, and what lies behind
\* NothingOlderEndsSetup.
SetupInv ==
  /\ TypeOK
  /\ \A s \in Server : Before[at[s]] \subseteq database
  /\ \A s \in Server : at[s] = "ready" => SlotName[s] \in slots
  /\ SlotComesLast
  /\ Missing

\* Setup is safe to run again: nothing that existed when an attempt connected
\* ends it, only a failure of its surroundings or what another server has made
\* while it ran (setup.rs:64-113, 94-109; requirements.md:121 AC-9.4).
NothingOlderEndsSetup ==
  [][\A s \in Server :
       at[s] # "exited" /\ at'[s] = "exited" =>
         \/ faults' > faults
         \/ at[s] \in database \ begun[s].objects
         \/ at[s] = "createSlot" /\ SlotName[s] \in slots \ begun[s].slots]_vars

\* From whatever prefix of the statements earlier attempts and other servers
\* have left, every server gets through in the end.
SetupSucceeds == \A s \in Server : []<>(at[s] = "ready")
================================================================================
