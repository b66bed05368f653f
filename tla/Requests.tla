------------------------------ MODULE Requests ------------------------------
(***************************************************************************)
(* What the methods of User, Channel, TextMessage, VoiceTarget,            *)
(* ContextAction and AccessTokens send to the server.  A method has no     *)
(* effect on the replica: it makes a packet of the session or the ID of    *)
(* its object, and the server answers with the packets that the handlers   *)
(* of ServerState apply.  So an operator here is the packet of a method.   *)
(***************************************************************************)
EXTENDS ServerState

NoBlobUpdate == [text |-> Nil, hash |-> Nil]
TextOf(text) == [text |-> text, hash |-> Nil]

UserPacket(s) ==
  [type |-> "UserState", Session |-> s, Actor |-> Nil, ChannelId |-> Nil, UserId |-> Nil,
   fields |-> [f \in UserFields |-> Nil], Comment |-> NoBlobUpdate, Texture |-> NoBlobUpdate]

ChannelPacket(id) ==
  [type |-> "ChannelState", ChannelId |-> id, Parent |-> Nil, Links |-> {}, LinksAdd |-> {},
   LinksRemove |-> {}, fields |-> [f \in ChannelFields |-> Nil], Description |-> NoBlobUpdate]

-----------------------------------------------------------------------------
(* Methods of a user.                                                      *)

SetPrioritySpeaker(s, v) == [UserPacket(s) EXCEPT !.fields["PrioritySpeaker"] = v]
SetRecording(s, v) == [UserPacket(s) EXCEPT !.fields["Recording"] = v]
\* SetMuted, SetSuppressed, SetDeafened, SetSelfMuted, SetSelfDeafened
SetAudio(s, v) == [UserPacket(s) EXCEPT !.fields["Audio"] = v]
SetTexture(s, text) == [UserPacket(s) EXCEPT !.Texture = TextOf(text)]
SetComment(s, text) == [UserPacket(s) EXCEPT !.Comment = TextOf(text)]
\* User ID 0 asks for one.
Register(s) == [UserPacket(s) EXCEPT !.UserId = Unset]
Move(s, id) == [UserPacket(s) EXCEPT !.ChannelId = id]
\* The plugin's data are for the server alone.
SetPlugin(s) == UserPacket(s)

Kick(s) == [type |-> "UserRemove", Session |-> s, Actor |-> Nil, Ban |-> FALSE]
Ban(s) == [Kick(s) EXCEPT !.Ban = TRUE]

RequestStats(s) == [type |-> "UserStats", Session |-> s]
RequestTexture(s) == [type |-> "RequestBlob", key |-> s, of |-> "Texture"]
RequestComment(s) == [type |-> "RequestBlob", key |-> s, of |-> "Comment"]

-----------------------------------------------------------------------------
(* Methods of a channel.                                                   *)

\* A packet without an ID creates a channel.
Add(id, name, temporary) ==
  [ChannelPacket(Nil) EXCEPT !.Parent = id, !.fields["Name"] = name,
                             !.fields["Temporary"] = temporary]
Remove(id) == [type |-> "ChannelRemove", ChannelId |-> id]
SetName(id, name) == [ChannelPacket(id) EXCEPT !.fields["Name"] = name]
SetPosition(id, v) == [ChannelPacket(id) EXCEPT !.fields["Position"] = v]
SetMaxUsers(id, v) == [ChannelPacket(id) EXCEPT !.fields["MaxUsers"] = v]
SetDescription(id, text) == [ChannelPacket(id) EXCEPT !.Description = TextOf(text)]
Link(id, ids) == [ChannelPacket(id) EXCEPT !.LinksAdd = ids]
\* Without arguments it is for all the links the channel has in the replica.
UnlinkChannels(id, ids) ==
  [ChannelPacket(id) EXCEPT !.LinksRemove =
     IF ids # {} THEN ids ELSE {i \in ChannelIDs : Links[Channels[id]][i] # Nil}]

RequestDescription(id) == [type |-> "RequestBlob", key |-> id, of |-> "Description"]
RequestACL(id) == [type |-> "ACL", ChannelId |-> id]
RequestPermission(id) == [type |-> "PermissionQuery", ChannelId |-> id]

-----------------------------------------------------------------------------
(* Messages for Client.Send, User.Send and Channel.Send.                   *)

TextMessage(sessions, ids, trees) ==
  [type |-> "TextMessage", sessions |-> sessions, ids |-> ids, trees |-> trees]
SendToUser(s) == TextMessage({s}, {}, {})
SendToChannel(id, recursive) ==
  IF recursive THEN TextMessage({}, {}, {id}) ELSE TextMessage({}, {id}, {})

\* The sessions and IDs of the users and channels that were added to it.
VoiceTarget(sessions, ids) == [type |-> "VoiceTarget", sessions |-> sessions, ids |-> ids]
\* Trigger, TriggerUser and TriggerChannel
Trigger(s, id) == [type |-> "ContextAction", Session |-> s, ChannelId |-> id]
AccessTokens(tokens) == [type |-> "Authenticate", tokens |-> tokens]

-----------------------------------------------------------------------------
\* All requests about some users and channels that a program may make.
UserRequests(s, ids) ==
  {SetPrioritySpeaker(s, v) : v \in Values} \cup {SetRecording(s, v) : v \in Values}
  \cup {SetAudio(s, v) : v \in Values}
  \cup {SetTexture(s, t) : t \in Texts} \cup {SetComment(s, t) : t \in Texts \cup {Unset}}
  \cup {Register(s), SetPlugin(s), Kick(s), Ban(s)}
  \cup {RequestStats(s), RequestTexture(s), RequestComment(s), SendToUser(s), Trigger(s, Nil)}
  \cup {Move(s, i) : i \in ids}

ChannelRequests(id, ids) ==
  {Add(id, n, t) : n \in Values, t \in {Unset}}
  \cup {SetName(id, v) : v \in Values} \cup {SetPosition(id, v) : v \in Values}
  \cup {SetMaxUsers(id, v) : v \in Values} \cup {SetDescription(id, t) : t \in Texts}
  \cup {Remove(id), Trigger(Nil, id), UnlinkChannels(id, {})}
  \cup {Link(id, {i}) : i \in ids} \cup {UnlinkChannels(id, {i}) : i \in ids}
  \cup {RequestDescription(id), RequestACL(id), RequestPermission(id)}
  \cup {SendToChannel(id, r) : r \in BOOLEAN}

Requests(sessions, ids) ==
  UNION {UserRequests(s, ids) : s \in sessions}
  \cup UNION {ChannelRequests(i, ids) : i \in ids}
  \cup {VoiceTarget(sessions, ids), Trigger(Nil, Nil), AccessTokens(Values)}
=============================================================================
