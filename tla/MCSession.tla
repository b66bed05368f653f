------------------------------ MODULE MCSession ------------------------------
(***************************************************************************)
(* A server with two channels, linked or not, with and without texts, or   *)
(* three channels in a row, and two users.                                 *)
(***************************************************************************)
EXTENDS Session

AChannel(parent, name, text) ==
  [Parent |-> parent, fields |-> [f \in ChannelFields |-> IF f = "Name" THEN name ELSE Unset],
   Description |-> text]
AUser(channel, text) ==
  [ChannelId |-> channel, UserID |-> Unset, fields |-> [f \in UserFields |-> Unset],
   Comment |-> text, Texture |-> Unset]

Name1 == CHOOSE v \in Values : TRUE
Text1 == CHOOSE t \in Texts : TRUE

World(last, links, text) ==
  [channels |-> [i \in ChannelIDs |->
     IF i = Root THEN AChannel(Nil, Name1, text)
     ELSE IF i <= last THEN AChannel(i - 1, Name1, Unset) ELSE Nil],
   links |-> links,
   users |-> [s \in Sessions |-> AUser(IF s = Me THEN Root ELSE last, text)]]

MCWorlds ==
  {World(1, {}, Unset), World(1, {{Root, 1}}, Text1), World(2, {{Root, 2}}, Unset)}

MCServers == <<>>

\* The addresses are interchangeable; they are given out in order.
InOrder ==
  /\ \A c, d \in ChanRefs : c < d /\ ID'[d] # Nil => ID'[c] # Nil
  /\ \A u, v \in UserRefs : u < v /\ Session'[v] # Nil => Session'[u] # Nil

MCNext == SessionNext /\ InOrder

MCSpec == SessionInit /\ [][MCNext]_<<vars, sessionVars>>
=============================================================================
