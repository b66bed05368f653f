----------------------------- MODULE ServerState -----------------------------
(***************************************************************************)
(* The client's replica of the server: the users and channels that the     *)
(* packet handlers of gumble/handlers.go create, relate to each other and  *)
(* remove, and the events they report to the listeners.                    *)
(*                                                                         *)
(* Users and channels are heap objects that outlive their removal: the     *)
(* program may hold on to one, and other objects may still point to it.    *)
(* ChanRefs and UserRefs are the addresses; an address not yet allocated   *)
(* has ID (or Session) Nil.  The handlers run one after the other in the   *)
(* read routine, and each one modifies the objects under Client.volatile,  *)
(* so a handler is one step.  The packets a handler may receive are a      *)
(* parameter: nothing is assumed about the order or the sense of what the  *)
(* server sends.                                                           *)
(***************************************************************************)
CONSTANTS ChannelIDs, Root,        \* channel IDs; Root is ID 0
          Sessions,                \* session IDs of users
          ChanRefs, UserRefs,      \* addresses of Channel and User objects
          UserIDs, MaxUint32,      \* registration IDs; MaxUint32 unregisters
          Unset,                   \* the zero value of a field
          Values, Texts, Hashes,   \* field contents other than Unset
          Nil,
          Servers                  \* for each server the packets that it may send

Opt(S) == S \cup {Nil}

\* A key that is present in a packet and in the table.
Known(table, key) == key # Nil /\ table[key] # Nil

(***************************************************************************)
(* The fields of a user and of a channel that are copied one by one.  The  *)
(* five mute and deafen flags are one field, "Audio".                      *)
(***************************************************************************)
UserFields == {"Name", "Audio", "PrioritySpeaker", "Recording", "Hash"}
ChannelFields == {"Name", "Position", "MaxUsers", "Temporary"}

(***************************************************************************)
(* A comment, texture or description: its text, or the hash by which the   *)
(* text can be requested.                                                  *)
(***************************************************************************)
Blob == [text : Texts \cup {Unset}, hash : Opt(Hashes)]
NoBlob == [text |-> Unset, hash |-> Nil]

\* A packet field that is absent is Nil; an absent list is the empty one.
BlobUpdate == [text : Opt(Texts \cup {Unset}), hash : Opt(Hashes)]

ChannelStatePacket ==
  [ChannelId : Opt(ChannelIDs), Parent : Opt(ChannelIDs),
   Links : SUBSET ChannelIDs, LinksAdd : SUBSET ChannelIDs,
   LinksRemove : SUBSET ChannelIDs,
   fields : [ChannelFields -> Opt(Values \cup {Unset})], Description : BlobUpdate]

UserStatePacket ==
  [Session : Opt(Sessions), Actor : Opt(Sessions), ChannelId : Opt(ChannelIDs),
   UserId : Opt(UserIDs),
   fields : [UserFields -> Opt(Values \cup {Unset})],
   Comment : BlobUpdate, Texture : BlobUpdate]

UserRemovePacket ==
  [Session : Opt(Sessions), Actor : Opt(Sessions), Ban : BOOLEAN]

ASSUME ConstantsAssumption ==
  /\ Root \in ChannelIDs
  /\ Nil \notin ChannelIDs \cup Sessions \cup ChanRefs \cup UserRefs
  /\ Nil \notin UserIDs \cup Values \cup Texts \cup Hashes \cup {Unset}
  /\ Unset \in UserIDs /\ MaxUint32 \in UserIDs /\ MaxUint32 # Unset
  /\ Unset \notin Texts
  /\ ChanRefs \cap UserRefs = {}

\* The packets of the types that carry more than a session or an ID, and the
\* other types that the server uses.
ASSUME ServersAssumption ==
  \A s \in DOMAIN Servers :
    /\ Servers[s].ChannelState \subseteq ChannelStatePacket
    /\ Servers[s].ChannelRemove \subseteq Opt(ChannelIDs)
    /\ Servers[s].UserState \subseteq UserStatePacket
    /\ Servers[s].UserRemove \subseteq UserRemovePacket

VARIABLES
  state,           \* Client.state: StateConnected or StateSynced
  reader,          \* the read routine: running, blocked for ever or panicked
  Users, Channels, \* Client.Users, Client.Channels
  permissions,     \* the channel IDs with an entry in Client.permissions
  Self,            \* Client.Self
  disconnectType,  \* Client.disconnectEvent.Type
  tmpACL,          \* the channel of Client.tmpACL
  \* the fields of the channel objects
  ID, Parent, Children, Links, Members, chanClient, chanData,
  \* the fields of the user objects
  Session, Channel, userClient, userData,
  \* what the listeners were told
  events,          \* by the last handler
  seenUsers, seenChannels, \* a listener's own list of users and channels
  halfDone         \* a handler gave up after it had created a user

chanVars == <<ID, Parent, Children, Links, Members, chanClient, chanData>>
userVars == <<Session, Channel, userClient, userData>>
clientVars == <<Users, Channels, permissions, Self, disconnectType, tmpACL>>
seenVars == <<seenUsers, seenChannels>>
vars == <<state, reader, clientVars, chanVars, userVars, events, seenVars, halfDone>>

NoChannels == [i \in ChannelIDs |-> Nil]
NoUsers == [s \in Sessions |-> Nil]

ChannelData == [fields : [ChannelFields -> Values \cup {Unset}], Description : Blob]
UserData == [fields : [UserFields -> Values \cup {Unset}], UserID : UserIDs,
             Comment : Blob, Texture : Blob]

NewChannelData ==
  [fields |-> [f \in ChannelFields |-> Unset], Description |-> NoBlob]
NewUserData ==
  [fields |-> [f \in UserFields |-> Unset], UserID |-> Unset,
   Comment |-> NoBlob, Texture |-> NoBlob]

Init ==
  /\ state = "Connected" /\ reader = "running"
  /\ Users = NoUsers /\ Channels = NoChannels
  /\ permissions = {} /\ Self = Nil /\ disconnectType = "Error" /\ tmpACL = Nil
  /\ ID = [c \in ChanRefs |-> Nil]
  /\ Parent = [c \in ChanRefs |-> Nil]
  /\ Children = [c \in ChanRefs |-> NoChannels]
  /\ Links = [c \in ChanRefs |-> NoChannels]
  /\ Members = [c \in ChanRefs |-> NoUsers]
  /\ chanClient = [c \in ChanRefs |-> FALSE]
  /\ chanData = [c \in ChanRefs |-> NewChannelData]
  /\ Session = [u \in UserRefs |-> Nil]
  /\ Channel = [u \in UserRefs |-> Nil]
  /\ userClient = [u \in UserRefs |-> FALSE]
  /\ userData = [u \in UserRefs |-> NewUserData]
  /\ events = {} /\ seenUsers = {} /\ seenChannels = {} /\ halfDone = FALSE

-----------------------------------------------------------------------------
(* Copying packet fields into an object, and the change flags of an event. *)

SetFields(old, new, only) ==
  [f \in DOMAIN old |-> IF f \in only /\ new[f] # Nil THEN new[f] ELSE old[f]]

Changed(old, new) == {f \in DOMAIN old : new[f] # Nil /\ new[f] # old[f]}

\* Faulty: the text outlives the hash.
SetBlob_KeepsText(old, new) ==
  IF new.hash # Nil THEN [old EXCEPT !.hash = new.hash]
  ELSE IF new.text # Nil THEN [text |-> new.text, hash |-> Nil]
  ELSE old

\* The text of a blob makes its hash obsolete, and then the hash its text.
SetBlob(old, new) ==
  IF new.hash # Nil THEN [text |-> Unset, hash |-> new.hash]
  ELSE IF new.text # Nil THEN [text |-> new.text, hash |-> Nil]
  ELSE old

Flag(name, condition) == IF condition THEN {name} ELSE {}

\* Comments and descriptions: a new hash counts as a change.
BlobFlag(name, old, new) ==
  Flag(name, new.hash # Nil \/ (new.text # Nil /\ new.text # old.text))

-----------------------------------------------------------------------------
(* Events.  A listener that keeps lists of its own copies the client's     *)
(* when it is connected and follows the change events from then on.        *)

UserEvent(type, u, actor) ==
  [kind |-> "UserChange", Type |-> type, about |-> u, others |-> {actor}]
ChannelEvent(type, c) ==
  [kind |-> "ChannelChange", Type |-> type, about |-> c, others |-> {}]

OnUserChange(type, u, actor) ==
  /\ events' = IF state = "Synced" THEN {UserEvent(type, u, actor)} ELSE {}
  /\ seenUsers' = IF state # "Synced" THEN seenUsers
                  ELSE (seenUsers \cup {x \in {u} : "Connected" \in type})
                       \ {x \in {u} : "Disconnected" \in type}
  /\ UNCHANGED seenChannels

OnChannelChange(type, c) ==
  /\ events' = IF state = "Synced" THEN {ChannelEvent(type, c)} ELSE {}
  /\ seenChannels' = IF state # "Synced" THEN seenChannels
                     ELSE (seenChannels \cup {x \in {c} : "Created" \in type})
                          \ {x \in {c} : "Removed" \in type}
  /\ UNCHANGED seenUsers

OnNothing == events' = {} /\ UNCHANGED seenVars

\* A handler that returns an error before it has changed anything; so it does
\* with a packet that cannot be unmarshalled.
Refuse == /\ OnNothing
          /\ UNCHANGED <<state, reader, clientVars, chanVars, userVars, halfDone>>

-----------------------------------------------------------------------------
(* handleChannelState                                                      *)

\* The object a packet is about: the one in the table, or a new one.
ChannelFor(c, id) == Channels[id] = c \/ (Channels[id] = Nil /\ ID[c] = Nil)

\* Faulty: the old parent keeps the child.
MoveChild_Keeps(c, id, old, new) ==
  [p \in ChanRefs |-> IF p = new THEN [Children[p] EXCEPT ![id] = c] ELSE Children[p]]

\* Faulty: channel.Parent is set before the child is deleted from its Children.
MoveChild_Late(c, id, old, new) ==
  [p \in ChanRefs |->
     IF p = new THEN [Children[p] EXCEPT ![id] = IF old = Nil THEN c ELSE Nil] ELSE Children[p]]

\* Parent.Children of the old parent and of the new one (Nil: none).
MoveChild(c, id, old, new) ==
  [p \in ChanRefs |->
     IF p = new THEN [Children[p] EXCEPT ![id] = c]
     ELSE IF p = old THEN [Children[p] EXCEPT ![id] = Nil] ELSE Children[p]]

\* packet.Links replaces the links of c alone; LinksAdd and LinksRemove
\* change both ends.  IDs without a channel in the table are skipped.
Relink(c, id, table, pkt) ==
  LET ends(ids) == {table[i] : i \in {j \in ids : table[j] # Nil}}
      replaced(i) == IF i \in pkt.Links THEN table[i] ELSE Nil
      link(x, i) ==
        IF \/ x = c /\ i \in pkt.LinksRemove /\ table[i] # Nil
           \/ i = id /\ x \in ends(pkt.LinksRemove) THEN Nil
        ELSE IF i = id /\ x \in ends(pkt.LinksAdd) THEN c
        ELSE IF x = c /\ i \in pkt.LinksAdd /\ table[i] # Nil THEN table[i]
        ELSE IF x = c /\ pkt.Links # {} THEN replaced(i)
        ELSE Links[x][i]
  IN  [x \in ChanRefs |-> [i \in ChannelIDs |-> link(x, i)]]

\* Faulty: naming the parent counts as a move.
ChannelStateType_AnyParent(c, created, new, table, pkt) ==
  Flag("Created", created) \cup Flag("Moved", pkt.Parent # Nil)

ChannelStateType(c, created, new, table, pkt) ==
  LET old == chanData[c]
      known(ids) == \E i \in ids : table[i] # Nil
  IN  Flag("Created", created)
      \cup Flag("Moved", new # Parent[c])
      \cup Flag("Links", pkt.Links # {} \/ known(pkt.LinksAdd \cup pkt.LinksRemove))
      \cup (Changed(old.fields, pkt.fields) \ {"MaxUsers", "Temporary"})
      \cup Flag("MaxUsers", pkt.fields["MaxUsers"] # Nil)
      \cup BlobFlag("Description", old.Description, pkt.Description)

ApplyChannelState(c, pkt) ==
  LET id == pkt.ChannelId
      table == [Channels EXCEPT ![id] = c]
      new == IF pkt.Parent = Nil THEN Parent[c] ELSE table[pkt.Parent]
  IN  /\ Channels' = table
      /\ ID' = [ID EXCEPT ![c] = id]
      /\ chanClient' = [chanClient EXCEPT ![c] = TRUE]
      /\ Parent' = [Parent EXCEPT ![c] = new]
      /\ Children' = IF pkt.Parent = Nil THEN Children
                     ELSE MoveChild(c, id, Parent[c], new)
      /\ Links' = Relink(c, id, table, pkt)
      /\ chanData' = [chanData EXCEPT ![c] =
           [fields |-> SetFields(@.fields, pkt.fields, ChannelFields),
            Description |-> SetBlob(@.Description, pkt.Description)]]
      /\ OnChannelChange(ChannelStateType(c, Channels[id] = Nil, new, table, pkt), c)
      /\ UNCHANGED <<state, reader, Users, permissions, Self, disconnectType,
                     tmpACL, Members, userVars, halfDone>>

HandleChannelState(pkt) ==
  /\ reader = "running"
  /\ \/ pkt.ChannelId = Nil /\ Refuse
     \/ /\ pkt.ChannelId # Nil
        /\ \E c \in ChanRefs :
             ChannelFor(c, pkt.ChannelId) /\ ApplyChannelState(c, pkt)

-----------------------------------------------------------------------------
(* handleChannelRemove.  The users of the channel and the channels under   *)
(* it are left alone: they keep pointing to it.                            *)

\* Faulty: the linked channels keep their links.
Unlink_Keeps(c, id) == Links

\* The links of the channels that c is linked to.
Unlink(c, id) ==
  [x \in ChanRefs |-> IF \E i \in ChannelIDs : Links[c][i] = x
                      THEN [Links[x] EXCEPT ![id] = Nil] ELSE Links[x]]

RemoveChannel(c, id) ==
  /\ chanClient' = [chanClient EXCEPT ![c] = FALSE]
  /\ Channels' = [Channels EXCEPT ![id] = Nil]
  /\ permissions' = permissions \ {id}
  /\ Children' = [p \in ChanRefs |->
       IF p = Parent[c] THEN [Children[p] EXCEPT ![ID[c]] = Nil] ELSE Children[p]]
  /\ Links' = Unlink(c, id)
  /\ OnChannelChange({"Removed"}, c)
  /\ UNCHANGED <<state, reader, Users, Self, disconnectType, tmpACL,
                 ID, Parent, Members, chanData, userVars, halfDone>>

HandleChannelRemove(id) ==
  /\ reader = "running"
  /\ \/ ~Known(Channels, id) /\ Refuse
     \/ Known(Channels, id) /\ RemoveChannel(Channels[id], id)

-----------------------------------------------------------------------------
(* handleUserRemove                                                        *)

\* Faulty: any removal counts as the client's own.
DisconnectReason_Anyone(u, pkt) == IF pkt.Ban THEN "Banned" ELSE "Kicked"

DisconnectReason(u, pkt) ==
  IF u # Self THEN disconnectType ELSE IF pkt.Ban THEN "Banned" ELSE "Kicked"

RemoveUser(u, pkt) ==
  LET s == pkt.Session IN
  /\ userClient' = [userClient EXCEPT ![u] = FALSE]
  /\ Members' = [c \in ChanRefs |->
       IF c = Channel[u] THEN [Members[c] EXCEPT ![s] = Nil] ELSE Members[c]]
  /\ Users' = [Users EXCEPT ![s] = Nil]
  /\ disconnectType' = DisconnectReason(u, pkt)
  /\ OnUserChange({"Disconnected"} \cup Flag("Kicked", pkt.Actor # Nil)
                                   \cup Flag("Banned", pkt.Ban),
                  u, IF pkt.Actor = Nil THEN Nil ELSE Users[pkt.Actor])
  /\ UNCHANGED <<state, reader, Channels, permissions, Self, tmpACL, ID, Parent,
                 Children, Links, chanClient, chanData, Session, Channel,
                 userData, halfDone>>

UnknownActor(table, actor) == actor # Nil /\ table[actor] = Nil

HandleUserRemove(pkt) ==
  LET good == Known(Users, pkt.Session) /\ ~UnknownActor(Users, pkt.Actor)
  IN  /\ reader = "running"
      /\ \/ ~good /\ Refuse
         \/ good /\ RemoveUser(Users[pkt.Session], pkt)

-----------------------------------------------------------------------------
(* handleUserState.  It has four outcomes, in the order of its checks.     *)

\* Faulty: the object of a removed user is used again.
UserFor_Recycles(u, s) == Users[s] = u \/ (Users[s] = Nil /\ Session[u] \in {Nil, s})

UserFor(u, s) == Users[s] = u \/ (Users[s] = Nil /\ Session[u] = Nil)

\* The channel of a user before packet.ChannelId is looked at.
Home(u, created) == IF created THEN Channels[Root] ELSE Channel[u]

\* Faulty: the client pointer is not set.
Enrol_NoClient(u, s) ==
  /\ Users' = [Users EXCEPT ![s] = u]
  /\ Session' = [Session EXCEPT ![u] = s]
  /\ UNCHANGED userClient

\* The entry of a user that is new; one that is in the table has it already.
Enrol(u, s) ==
  /\ Users' = [Users EXCEPT ![s] = u]
  /\ Session' = [Session EXCEPT ![u] = s]
  /\ userClient' = [userClient EXCEPT ![u] = TRUE]

\* Faulty: the channel that is left keeps the user.
MoveUser_Keeps(u, s, from, to) ==
  [c \in ChanRefs |-> IF c = to THEN [Members[c] EXCEPT ![s] = u] ELSE Members[c]]

\* Channel.Users when u leaves from and enters to (Nil: none).
MoveUser(u, s, from, to) ==
  [c \in ChanRefs |->
     IF c = to THEN [Members[c] EXCEPT ![s] = u]
     ELSE IF c = from THEN [Members[c] EXCEPT ![s] = Nil] ELSE Members[c]]

SetUserID(old, created, new) ==
  IF new = Nil THEN old
  ELSE IF new = MaxUint32 /\ new # old /\ ~created THEN Unset ELSE new

\* Everything but Name and UserID is copied after the channel was found.
EarlyUserData(u, created, pkt) ==
  [userData[u] EXCEPT !.fields = SetFields(@, pkt.fields, {"Name"}),
                      !.UserID = SetUserID(@, created, pkt.UserId)]
AllUserData(u, created, pkt) ==
  [fields |-> SetFields(userData[u].fields, pkt.fields, UserFields),
   UserID |-> SetUserID(userData[u].UserID, created, pkt.UserId),
   Comment |-> SetBlob(userData[u].Comment, pkt.Comment),
   Texture |-> SetBlob(userData[u].Texture, pkt.Texture)]

\* Faulty: a user that appears is not flagged.
UserStateType_Silent(u, created, to, pkt) == Flag("Channel", created \/ to # Channel[u])

UserStateType(u, created, to, pkt) ==
  LET old == userData[u]
      registration == pkt.UserId # Nil /\ pkt.UserId # old.UserID /\ ~created
  IN  Flag("Connected", created)
      \cup Flag("Channel", created \/ to # Channel[u])
      \cup (Changed(old.fields, pkt.fields) \ {"Hash"})
      \cup Flag("Registered", registration /\ pkt.UserId # MaxUint32)
      \cup Flag("Unregistered", registration /\ pkt.UserId = MaxUint32)
      \cup Flag("Texture", pkt.Texture.text # Nil \/ pkt.Texture.hash # Nil)
      \cup BlobFlag("Comment", old.Comment, pkt.Comment)

\* A new user, and no root channel to put it in: an error, but the user
\* stays in the table.
UserWithoutRoot(u, pkt) ==
  /\ Users[pkt.Session] = Nil /\ Channels[Root] = Nil
  /\ Enrol(u, pkt.Session)
  /\ halfDone' = TRUE
  /\ OnNothing
  /\ UNCHANGED <<state, reader, Channels, permissions, Self, disconnectType,
                 tmpACL, chanVars, Channel, userData>>

\* The actor is unknown: an error, but a new user stays in the table and in
\* the root channel.
UserWithUnknownActor(u, pkt) ==
  LET s == pkt.Session
      created == Users[s] = Nil
  IN  /\ created => Channels[Root] # Nil
      /\ UnknownActor([Users EXCEPT ![s] = u], pkt.Actor)
      /\ Enrol(u, s)
      /\ Channel' = [Channel EXCEPT ![u] = Home(u, created)]
      /\ Members' = IF created THEN MoveUser(u, s, Nil, Channels[Root]) ELSE Members
      /\ halfDone' = (halfDone \/ created)
      /\ OnNothing
      /\ UNCHANGED <<state, reader, Channels, permissions, Self, disconnectType,
                     tmpACL, ID, Parent, Children, Links, chanClient, chanData,
                     userData>>

\* The user's new channel is unknown: it has left the old one, and the read
\* routine locks volatile, which it holds, a second time.
UserToUnknownChannel(u, pkt) ==
  LET s == pkt.Session
      created == Users[s] = Nil
      home == Home(u, created)
  IN  /\ created => Channels[Root] # Nil
      /\ ~UnknownActor([Users EXCEPT ![s] = u], pkt.Actor)
      /\ pkt.ChannelId # Nil /\ Channels[pkt.ChannelId] = Nil
      /\ Enrol(u, s)
      /\ Channel' = [Channel EXCEPT ![u] = home]
      /\ Members' = MoveUser(u, s, home, Nil)
      /\ userData' = [userData EXCEPT ![u] = EarlyUserData(u, created, pkt)]
      /\ reader' = "blocked"
      /\ OnNothing
      /\ UNCHANGED <<state, Channels, permissions, Self, disconnectType, tmpACL,
                     ID, Parent, Children, Links, chanClient, chanData, halfDone>>

ApplyUserState(u, pkt) ==
  LET s == pkt.Session
      created == Users[s] = Nil
      home == Home(u, created)
      to == IF pkt.ChannelId = Nil THEN home ELSE Channels[pkt.ChannelId]
  IN  /\ created => Channels[Root] # Nil
      /\ ~UnknownActor([Users EXCEPT ![s] = u], pkt.Actor)
      /\ pkt.ChannelId # Nil => Channels[pkt.ChannelId] # Nil
      /\ Enrol(u, s)
      /\ Channel' = [Channel EXCEPT ![u] = to]
      /\ Members' = IF created \/ pkt.ChannelId # Nil
                    THEN MoveUser(u, s, home, to) ELSE Members
      /\ userData' = [userData EXCEPT ![u] = AllUserData(u, created, pkt)]
      /\ OnUserChange(UserStateType(u, created, to, pkt), u,
                      IF pkt.Actor = Nil THEN Nil ELSE Users'[pkt.Actor])
      /\ UNCHANGED <<state, reader, Channels, permissions, Self, disconnectType,
                     tmpACL, ID, Parent, Children, Links, chanClient, chanData,
                     halfDone>>

HandleUserState(pkt) ==
  /\ reader = "running"
  /\ \/ pkt.Session = Nil /\ Refuse
     \/ /\ pkt.Session # Nil
        /\ \E u \in UserRefs :
             /\ UserFor(u, pkt.Session)
             /\ \/ UserWithoutRoot(u, pkt)
                \/ UserWithUnknownActor(u, pkt)
                \/ UserToUnknownChannel(u, pkt)
                \/ ApplyUserState(u, pkt)

-----------------------------------------------------------------------------
(* The other handlers that touch the tables.                               *)

\* handleServerSync; closing Client.connect a second time is a panic.
HandleServerSync(session) ==
  /\ reader = "running"
  /\ Self' = IF session = Nil THEN Self ELSE Users[session]
  /\ state' = "Synced"
  /\ events' = {[kind |-> "Connect", Type |-> {}, about |-> Nil, others |-> {}]}
  /\ seenUsers' = {u \in UserRefs : \E s \in Sessions : Users[s] = u}
  /\ seenChannels' = {c \in ChanRefs : \E i \in ChannelIDs : Channels[i] = c}
  /\ reader' = IF state = "Synced" THEN "panicked" ELSE reader
  /\ UNCHANGED <<Users, Channels, permissions, disconnectType, tmpACL,
                 chanVars, userVars, halfDone>>

\* handlePermissionQuery; id is Nil unless the packet carries both a channel
\* and its permissions.  The listeners are called also before the sync.
HandlePermissionQuery(id, flush) ==
  LET flushed == IF flush THEN permissions ELSE {}
      single == {id} \ {Nil}
  IN  /\ reader = "running"
      /\ \/ id # Nil /\ Channels[id] = Nil /\ Refuse
         \/ /\ id # Nil => Channels[id] # Nil
            /\ permissions' = (permissions \ flushed) \cup single
            /\ events' = {ChannelEvent({"Permission"}, Channels[i]) :
                            i \in flushed \cup single}
            /\ UNCHANGED <<state, reader, Users, Channels, Self, disconnectType,
                           tmpACL, chanVars, userVars, seenVars, halfDone>>

Lookup(table, keys) == {table[k] : k \in keys} \ {Nil}

\* A handler that only looks objects up and reports them.
Report(kind, about, others) ==
  /\ events' = {[kind |-> kind, Type |-> {}, about |-> about, others |-> others]}
  /\ UNCHANGED <<state, reader, Users, Channels, permissions, Self,
                 disconnectType, chanVars, userVars, seenVars, halfDone>>

\* handleTextMessage, handleUserList
HandleTextMessage(sessions, ids) ==
  /\ reader = "running"
  /\ Report("TextMessage", Nil, Lookup(Users, sessions) \cup Lookup(Channels, ids))
  /\ UNCHANGED tmpACL

HandleUserList(ids) ==
  /\ reader = "running"
  /\ Report("UserList", Nil, Lookup(Channels, ids))
  /\ UNCHANGED tmpACL

\* typed: the packet has a type that is not H9K.
HandlePermissionDenied(typed, session, id) ==
  LET good == /\ typed
              /\ session # Nil => Known(Users, session)
              /\ id # Nil => Known(Channels, id)
  IN  /\ reader = "running"
      /\ \/ ~good /\ Refuse
         \/ /\ good
            /\ Report("PermissionDenied", Nil,
                      Lookup(Users, {session} \ {Nil}) \cup Lookup(Channels, {id} \ {Nil}))
            /\ UNCHANGED tmpACL

\* handleACL keeps the ACL until handleQueryUsers has the users' names.
HandleACL(id) ==
  /\ reader = "running"
  /\ \/ ~Known(Channels, id) /\ Refuse
     \/ /\ Known(Channels, id)
        /\ tmpACL' = Channels[id]
        /\ OnNothing
        /\ UNCHANGED <<state, reader, Users, Channels, permissions, Self,
                       disconnectType, chanVars, userVars, halfDone>>

HandleQueryUsers ==
  /\ reader = "running"
  /\ \/ tmpACL = Nil /\ Refuse
     \/ tmpACL # Nil /\ Report("ACL", tmpACL, {}) /\ tmpACL' = Nil

\* handleContextActionModify: Client.ContextActions is never made, so that
\* adding to it is a panic and nothing is found in it.
HandleContextActionModify(op) ==
  /\ reader = "running"
  /\ \/ op # "Add" /\ Refuse
     \/ /\ op = "Add"
        /\ reader' = "panicked"
        /\ OnNothing
        /\ UNCHANGED <<state, clientVars, chanVars, userVars, halfDone>>

-----------------------------------------------------------------------------
Receive(srv) ==
  \/ \E pkt \in srv.ChannelState : HandleChannelState(pkt)
  \/ \E id \in srv.ChannelRemove : HandleChannelRemove(id)
  \/ \E pkt \in srv.UserState : HandleUserState(pkt)
  \/ \E pkt \in srv.UserRemove : HandleUserRemove(pkt)
  \/ \E session \in Opt(Sessions) : HandleServerSync(session)
  \/ /\ "PermissionQuery" \in srv.types
     /\ \E id \in Opt(ChannelIDs), flush \in BOOLEAN :
          HandlePermissionQuery(id, flush)
  \/ /\ "TextMessage" \in srv.types
     /\ \E sessions \in SUBSET Sessions, ids \in SUBSET ChannelIDs :
          HandleTextMessage(sessions, ids)
  \/ /\ "UserList" \in srv.types
     /\ \E ids \in SUBSET ChannelIDs : HandleUserList(ids)
  \/ /\ "PermissionDenied" \in srv.types
     /\ \E typed \in BOOLEAN, session \in Opt(Sessions), id \in Opt(ChannelIDs) :
          HandlePermissionDenied(typed, session, id)
  \/ /\ "ACL" \in srv.types
     /\ (\E id \in Opt(ChannelIDs) : HandleACL(id)) \/ HandleQueryUsers
  \/ /\ "ContextActionModify" \in srv.types
     /\ \E op \in {"Add", "Remove", "Unknown"} : HandleContextActionModify(op)

Next == \E s \in DOMAIN Servers : Receive(Servers[s])

Spec == Init /\ [][Next]_vars

-----------------------------------------------------------------------------
ChangeFlags ==
  UserFields \cup ChannelFields \cup
  {"Created", "Removed", "Moved", "Links", "Description", "Permission",
   "Connected", "Disconnected", "Kicked", "Banned", "Registered", "Unregistered",
   "Channel", "Comment", "Texture"}

EventType ==
  [kind : {"UserChange", "ChannelChange", "Connect", "TextMessage", "UserList",
           "PermissionDenied", "ACL"},
   Type : SUBSET ChangeFlags,
   about : Opt(UserRefs \cup ChanRefs),
   others : SUBSET Opt(UserRefs \cup ChanRefs)]

TypeOK ==
  /\ state \in {"Connected", "Synced"}
  /\ reader \in {"running", "blocked", "panicked"}
  /\ Users \in [Sessions -> Opt(UserRefs)]
  /\ Channels \in [ChannelIDs -> Opt(ChanRefs)]
  /\ permissions \subseteq ChannelIDs
  /\ Self \in Opt(UserRefs)
  /\ disconnectType \in {"Error", "Kicked", "Banned"}
  /\ tmpACL \in Opt(ChanRefs)
  /\ ID \in [ChanRefs -> Opt(ChannelIDs)]
  /\ Parent \in [ChanRefs -> Opt(ChanRefs)]
  /\ Children \in [ChanRefs -> [ChannelIDs -> Opt(ChanRefs)]]
  /\ Links \in [ChanRefs -> [ChannelIDs -> Opt(ChanRefs)]]
  /\ Members \in [ChanRefs -> [Sessions -> Opt(UserRefs)]]
  /\ chanClient \in [ChanRefs -> BOOLEAN]
  /\ chanData \in [ChanRefs -> ChannelData]
  /\ Session \in [UserRefs -> Opt(Sessions)]
  /\ Channel \in [UserRefs -> Opt(ChanRefs)]
  /\ userClient \in [UserRefs -> BOOLEAN]
  /\ userData \in [UserRefs -> UserData]
  /\ events \subseteq EventType
  /\ seenUsers \subseteq UserRefs
  /\ seenChannels \subseteq ChanRefs
  /\ halfDone \in BOOLEAN

ChannelLive(c) == \E i \in ChannelIDs : Channels[i] = c
UserLive(u) == \E s \in Sessions : Users[s] = u

(***************************************************************************)
(* The tables and the objects agree: an object is in the table under its   *)
(* own ID exactly as long as its client pointer is set, through which all  *)
(* its methods send (channel.go:50, user.go:60, handlers.go:300, 458).     *)
(***************************************************************************)
ClientPointers ==
  /\ \A i \in ChannelIDs, c \in ChanRefs :
       Channels[i] = c => chanClient[c] /\ ID[c] = i
  /\ \A c \in ChanRefs : chanClient[c] => ChannelLive(c)
  /\ \A s \in Sessions, u \in UserRefs :
       Users[s] = u => userClient[u] /\ Session[u] = s
  /\ \A u \in UserRefs : userClient[u] => UserLive(u)

(***************************************************************************)
(* Channel.Parent and Channel.Children mirror each other: a channel on the *)
(* server is among the children of its parent, and every child of a        *)
(* channel, a removed one included, is on the server and has it as parent  *)
(* (channel.go:16-19; handlers.go:303-305, 349-361).                       *)
(***************************************************************************)
TreeConsistent ==
  /\ \A c, p \in ChanRefs :
       chanClient[c] /\ Parent[c] = p => Children[p][ID[c]] = c
  /\ \A p, c \in ChanRefs, i \in ChannelIDs :
       Children[p][i] = c => chanClient[c] /\ ID[c] = i /\ Parent[c] = p

(***************************************************************************)
(* User.Channel and Channel.Users mirror each other whenever Client.Do can *)
(* look at them (users.go:5-8; handlers.go:459-461, 506-516, 547-561).     *)
(***************************************************************************)
MembersConsistent ==
  /\ reader # "blocked" =>
       \A u \in UserRefs, c \in ChanRefs :
         userClient[u] /\ Channel[u] = c => Members[c][Session[u]] = u
  /\ \A c \in ChanRefs, u \in UserRefs, s \in Sessions :
       Members[c][s] = u => userClient[u] /\ Session[u] = s /\ Channel[u] = c

(***************************************************************************)
(* Permissions are cached only for channels on the server, so that a flush *)
(* never reports a nil channel (handlers.go:302, 1015-1028).               *)
(***************************************************************************)
PermissionsKnown == \A i \in permissions : Channels[i] # Nil

(***************************************************************************)
(* If links are only ever added and removed (packet.Links sets one end     *)
(* alone), they are mutual and never lead to a removed channel             *)
(* (handlers.go:306-308, 377-390).                                         *)
(***************************************************************************)
LinksMutual ==
  (\A s \in DOMAIN Servers : \A pkt \in Servers[s].ChannelState : pkt.Links = {}) =>
    \A c, d \in ChanRefs, i \in ChannelIDs :
      chanClient[c] /\ Links[c][i] = d =>
        chanClient[d] /\ ID[d] = i /\ Links[d][ID[c]] = c

(***************************************************************************)
(* The client's own user leaves the table exactly when the reason that the *)
(* disconnect event will give is set (handlers.go:469-475).                *)
(***************************************************************************)
SelfRemovalRecorded ==
  reader # "panicked" /\ Self # Nil =>
    (userClient[Self] <=> disconnectType = "Error")

(***************************************************************************)
(* A listener that copies the client's tables in OnConnect and follows the *)
(* change events has the right lists of channels and, unless a handler has *)
(* given up half-way, of users (handlers.go:420, 480, 633).                *)
(***************************************************************************)
ListenersFollow ==
  state = "Synced" =>
    /\ seenChannels = {c \in ChanRefs : chanClient[c]}
    /\ reader # "blocked" /\ ~halfDone => seenUsers = {u \in UserRefs : userClient[u]}

(***************************************************************************)
(* A listener can use the objects it is handed: but for the object whose   *)
(* removal is reported they are on the server.  (The channel of an ACL may *)
(* be gone by the time the users' names have arrived: handlers.go:862.)    *)
(***************************************************************************)
EventObjectsUsable ==
  LET usable(x) == (x \in UserRefs /\ userClient[x]) \/ (x \in ChanRefs /\ chanClient[x])
      removal(e) == e.Type \cap {"Removed", "Disconnected"} # {}
  IN  \A e \in events :
        /\ e.kind \in {"UserChange", "ChannelChange"} /\ ~removal(e) => usable(e.about)
        /\ \A x \in e.others \ {Nil, e.about} : usable(x)

(***************************************************************************)
(* An object that was removed stays removed and keeps its identity: a      *)
(* program that holds on to it never sees it turn into another user or     *)
(* channel (channels.go:8-17, users.go:12-19).                             *)
(***************************************************************************)
RemovedForGood ==
  [][/\ \A c \in ChanRefs : ID[c] # Nil =>
          ID'[c] = ID[c] /\ (~chanClient[c] => ~chanClient'[c] /\ Parent'[c] = Parent[c])
     /\ \A u \in UserRefs : Session[u] # Nil =>
          /\ Session'[u] = Session[u]
          /\ ~userClient[u] => ~userClient'[u] /\ Channel'[u] = Channel[u]]_vars

(***************************************************************************)
(* The read routine does not lock volatile while it holds it, so that the  *)
(* lock is free again once a packet has been handled (client.go:82-83).    *)
(***************************************************************************)
NeverSelfLocked == reader # "blocked"

(***************************************************************************)
(* A context action the server adds ends up in Client.ContextActions       *)
(* (client.go:69-70); the read routine goes on after it.                   *)
(***************************************************************************)
ContextActionsKept ==
  [][HandleContextActionModify("Add") => reader' = "running"]_vars

(***************************************************************************)
(* The flags of a change event name exactly the plain fields, the parent   *)
(* and the channel that the handler changed (event.go:65, 101; the         *)
(* comparisons of handlers.go:354-406, 529-628 come before the copies).    *)
(***************************************************************************)
EventsTellChanges ==
  [][\A e \in events' :
       /\ e.kind = "UserChange" =>
            LET u == e.about IN
            /\ \A f \in UserFields \ {"Hash"} :
                 f \in e.Type <=> userData'[u].fields[f] # userData[u].fields[f]
            /\ "Channel" \in e.Type <=> Channel'[u] # Channel[u]
       /\ e.kind = "ChannelChange" =>
            LET c == e.about IN
            /\ \A f \in {"Name", "Position"} :
                 f \in e.Type <=> chanData'[c].fields[f] # chanData[c].fields[f]
            /\ "Moved" \in e.Type <=> Parent'[c] # Parent[c]]_vars
=============================================================================
