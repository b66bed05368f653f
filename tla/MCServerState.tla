--------------------------- MODULE MCServerState ---------------------------
(***************************************************************************)
(* Servers for the model checker.  Each of them varies one aspect of the   *)
(* packets, and the client of a behaviour has one of them.                 *)
(***************************************************************************)
EXTENDS ServerState, TLC

VARIABLE server

NoBlobUpdate == [text |-> Nil, hash |-> Nil]
NoChannelFields == [f \in ChannelFields |-> Nil]
NoUserFields == [f \in UserFields |-> Nil]

ChannelPacket(id, parent, links, add, remove) ==
  [ChannelId |-> id, Parent |-> parent, Links |-> links, LinksAdd |-> add,
   LinksRemove |-> remove, fields |-> NoChannelFields, Description |-> NoBlobUpdate]

UserPacket(s, actor, channel) ==
  [Session |-> s, Actor |-> actor, ChannelId |-> channel, UserId |-> Nil,
   fields |-> NoUserFields, Comment |-> NoBlobUpdate, Texture |-> NoBlobUpdate]

-----------------------------------------------------------------------------
\* Channels that are created and removed, without a tree.
FlatPackets == {ChannelPacket(id, Nil, {}, {}, {}) : id \in ChannelIDs}

\* The channel tree: any parent, no links.
TreePackets ==
  {ChannelPacket(id, p, {}, {}, {}) : id \in Opt(ChannelIDs), p \in Opt(ChannelIDs)}

\* A link added, or removed, or both.
LinkPackets ==
  LET one == {{}} \cup {{i} : i \in ChannelIDs} IN
  {ChannelPacket(id, Nil, {}, add, {}) : id \in ChannelIDs, add \in one}
  \cup {ChannelPacket(id, Nil, {}, {}, remove) : id \in ChannelIDs, remove \in one}
  \cup {ChannelPacket(id, Nil, {}, both, both) : id \in ChannelIDs, both \in one}

\* Users that appear and move, with and without an actor.
UserPackets ==
  {UserPacket(s, a, c) : s \in Sessions, a \in Opt(Sessions), c \in Opt(ChannelIDs)}
  \cup {UserPacket(Nil, Nil, Nil)}

-----------------------------------------------------------------------------
\* One field, or one blob, per packet.
OneField(none, names) ==
  {[none EXCEPT ![f] = v] : f \in names, v \in Values \cup {Unset}} \cup {none}

FieldChannelPackets ==
  {[ChannelPacket(Root, Nil, {}, {}, {}) EXCEPT !.fields = fs] :
     fs \in OneField(NoChannelFields, {"Name"})}
  \cup {[ChannelPacket(Root, Nil, {}, {}, {}) EXCEPT !.Description = b] : b \in BlobUpdate}

FieldUserPackets ==
  LET base == {UserPacket(s, Nil, Nil) : s \in Sessions}
  IN  {[p EXCEPT !.fields = fs] :
         p \in base, fs \in OneField(NoUserFields, {"Name", "Audio"})}
      \cup {[p EXCEPT !.UserId = id] : p \in base, id \in UserIDs}
      \cup {[p EXCEPT !.Comment = b] : p \in base, b \in BlobUpdate}
      \cup {[p EXCEPT !.Texture = b] : p \in base, b \in BlobUpdate}
      \* a field and a channel that is not there
      \cup {[p EXCEPT !.ChannelId = 1, !.fields["Name"] = v] : p \in base, v \in Values}

-----------------------------------------------------------------------------
AllUserRemove ==
  {pkt \in UserRemovePacket : pkt.Session = Nil => pkt.Actor = Nil /\ ~pkt.Ban}
AllChannelRemove == Opt(ChannelIDs)

TreeServer ==
  [ChannelState |-> TreePackets, ChannelRemove |-> AllChannelRemove,
   UserState |-> {}, UserRemove |-> {}, types |-> {}]
LinksServer == [TreeServer EXCEPT !.ChannelState = LinkPackets]
UsersServer ==
  [ChannelState |-> FlatPackets, ChannelRemove |-> AllChannelRemove,
   UserState |-> UserPackets, UserRemove |-> AllUserRemove, types |-> {}]
EventsServer ==
  [UsersServer EXCEPT !.UserRemove = {pkt \in AllUserRemove : ~pkt.Ban},
                      !.types = {"PermissionQuery", "TextMessage", "UserList",
                                 "PermissionDenied", "ACL", "ContextActionModify"}]
FieldsServer ==
  [ChannelState |-> FieldChannelPackets, ChannelRemove |-> {},
   UserState |-> FieldUserPackets, UserRemove |-> {}, types |-> {}]
ActionsServer == [UsersServer EXCEPT !.types = {"ContextActionModify"}]

ChannelServers == "tree" :> TreeServer @@ "links" :> LinksServer
EventServers ==
  "events" :> EventsServer @@ "fields" :> FieldsServer @@ "tree" :> TreeServer
OnlyUsers == "users" :> UsersServer
OnlyActions == "actions" :> ActionsServer

MCInit == Init /\ server \in DOMAIN Servers

MCNext ==
  /\ Receive(Servers[server])
  /\ UNCHANGED server

MCSpec == MCInit /\ [][MCNext]_<<vars, server>>

Symmetry ==
  Permutations(ChanRefs) \cup Permutations(UserRefs) \cup Permutations(Sessions)
=============================================================================
