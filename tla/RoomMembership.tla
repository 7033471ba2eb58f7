--------------------------- MODULE RoomMembership ---------------------------
(***************************************************************************)
(* What the rooms coordinator promises its sessions, with no channel, task *)
(* or timeout: who is a member of which room.  A room is only ever left by *)
(* clients whose session has ended, and a session that ended stays so.     *)
(***************************************************************************)
CONSTANTS ClientId, DocumentId

VARIABLES
  members,   \* the clients of each room
  ended      \* the clients whose session is over or being torn down

Init ==
  /\ members = [room \in DocumentId |-> {}]
  /\ ended = {}

\* late joins of an ended session are possible
Join(c, room) ==
  /\ members' = [members EXCEPT ![room] = @ \cup {c}]
  /\ UNCHANGED ended

End(c) ==
  /\ ended' = ended \cup {c}
  /\ UNCHANGED members

Evict(room, gone) ==
  /\ gone \subseteq ended
  /\ members' = [members EXCEPT ![room] = @ \ gone]
  /\ UNCHANGED ended

Next ==
  \/ \E c \in ClientId : End(c)
  \/ \E room \in DocumentId :
       \/ \E c \in ClientId : Join(c, room)
       \/ \E gone \in SUBSET ClientId : Evict(room, gone)

Spec == Init /\ [][Next]_<<members, ended>>
=============================================================================
