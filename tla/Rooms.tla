------------------------------- MODULE Rooms -------------------------------
(***************************************************************************)
(* What the game promises to a client, whatever sessions, dogs and ticks   *)
(* are made of: it enters one room that is not full, stays there, leaves   *)
(* once, and leaves at most one row in the table of records, written as it *)
(* leaves.  Application.tla is shown to implement this.                    *)
(***************************************************************************)
EXTENDS Integers, FiniteSets

CONSTANTS Clients, RoomIds, RoomSize, Nowhere

VARIABLES
  entered,   \* the clients that have ever entered
  room,      \* the room a client is in
  rows       \* its rows in the table of records

roomVars == <<entered, room, rows>>

Members(r) == {c \in Clients : room[c] = r}

RoomsInit ==
  /\ entered = {}
  /\ room = [c \in Clients |-> Nowhere]
  /\ rows = [c \in Clients |-> 0]

Enter(c, r) ==
  /\ c \notin entered /\ Cardinality(Members(r)) < RoomSize
  /\ entered' = entered \cup {c}
  /\ room' = [room EXCEPT ![c] = r]
  /\ UNCHANGED rows

Leave(c, written) ==
  /\ room[c] # Nowhere
  /\ room' = [room EXCEPT ![c] = Nowhere]
  /\ rows' = IF written THEN [rows EXCEPT ![c] = 1] ELSE rows
  /\ UNCHANGED entered

RoomsNext ==
  \/ \E c \in Clients, r \in RoomIds : Enter(c, r)
  \/ \E c \in Clients, written \in BOOLEAN : Leave(c, written)

RoomsSpec == RoomsInit /\ [][RoomsNext]_roomVars
=============================================================================
