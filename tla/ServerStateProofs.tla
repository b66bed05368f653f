------------------------- MODULE ServerStateProofs --------------------------
(***************************************************************************)
(* The types of the replica, the kinds of steps that there are, and that   *)
(* the disconnect event tells whether the client's own user was removed:   *)
(* for any sets of IDs, objects and packets.                               *)
(***************************************************************************)
EXTENDS ServerGraphProofs

-----------------------------------------------------------------------------
(* Types.  GraphInv has those of the graph; these are the others.          *)

DataTypes ==
  /\ state \in {"Connected", "Synced"}
  /\ reader \in {"running", "blocked", "panicked"}
  /\ permissions \subseteq ChannelIDs
  /\ Self \in Opt(UserRefs)
  /\ disconnectType \in {"Error", "Kicked", "Banned"}
  /\ tmpACL \in Opt(ChanRefs)
  /\ Links \in [ChanRefs -> [ChannelIDs -> Opt(ChanRefs)]]
  /\ chanData \in [ChanRefs -> ChannelData]
  /\ userData \in [UserRefs -> UserData]
  /\ events \subseteq EventType
  /\ seenUsers \subseteq UserRefs
  /\ seenChannels \subseteq ChanRefs
  /\ halfDone \in BOOLEAN

\* Copying the fields of a packet gives fields again.
LEMMA SetFieldsType ==
  ASSUME NEW F, NEW old \in [F -> Values \cup {Unset}],
         NEW new \in [F -> Opt(Values \cup {Unset})], NEW only
  PROVE  /\ SetFields(old, new, only) \in [F -> Values \cup {Unset}]
         /\ Changed(old, new) \subseteq F
  BY DEF SetFields, Changed, Opt

\* Applying the text or hash of a packet to a blob gives a blob.
LEMMA SetBlobType ==
  ASSUME NEW old \in Blob, NEW new \in BlobUpdate
  PROVE  SetBlob(old, new) \in Blob
  BY DEF SetBlob, Blob, BlobUpdate, Opt

\* handleChannelState makes typed data and a typed event.
LEMMA ChannelStateData ==
  ASSUME GraphInv, DataTypes, NEW pkt \in ChannelStatePacket, NEW c \in ChanRefs,
         pkt.ChannelId # Nil, ApplyChannelState(c, pkt)
  PROVE  DataTypes'
<1> DEFINE id == pkt.ChannelId
           table == [Channels EXCEPT ![id] = c]
           new == IF pkt.Parent = Nil THEN Parent[c] ELSE table[pkt.Parent]
           type == ChannelStateType(c, Channels[id] = Nil, new, table, pkt)
<1>1. /\ id \in ChannelIDs /\ pkt.Parent \in Opt(ChannelIDs)
      /\ pkt.fields \in [ChannelFields -> Opt(Values \cup {Unset})]
      /\ pkt.Description \in BlobUpdate
  BY DEF ChannelStatePacket, Opt
<1>2. table \in [ChannelIDs -> Opt(ChanRefs)]
  BY <1>1 DEF GraphInv, GraphTypes, Opt
<1>3. /\ chanData[c].fields \in [ChannelFields -> Values \cup {Unset}]
      /\ chanData[c].Description \in Blob
  BY DEF DataTypes, ChannelData
<1>4. chanData' \in [ChanRefs -> ChannelData]
  <2>1. chanData' = [chanData EXCEPT ![c] =
          [fields |-> SetFields(chanData[c].fields, pkt.fields, ChannelFields),
           Description |-> SetBlob(chanData[c].Description, pkt.Description)]]
    BY DEF ApplyChannelState
  <2>2. /\ SetFields(chanData[c].fields, pkt.fields, ChannelFields)
             \in [ChannelFields -> Values \cup {Unset}]
        /\ SetBlob(chanData[c].Description, pkt.Description) \in Blob
    BY ZenonT(30), <1>1, <1>3, SetFieldsType, SetBlobType
  <2> QED
    BY <2>1, <2>2 DEF DataTypes, ChannelData
<1>5. Links' \in [ChanRefs -> [ChannelIDs -> Opt(ChanRefs)]]
  <2>1. Links' = Relink(c, id, table, pkt)
    BY DEF ApplyChannelState
  <2> HIDE DEF table, id
  <2> QED
    BY <1>2, <2>1 DEF Relink, DataTypes, Opt
<1>6. type \subseteq ChangeFlags
  <2>1. Changed(chanData[c].fields, pkt.fields) \subseteq ChannelFields
    BY ZenonT(30), <1>1, <1>3, SetFieldsType
  <2>2. type \subseteq Changed(chanData[c].fields, pkt.fields)
                      \cup {"Created", "Moved", "Links", "MaxUsers", "Description"}
    <3> HIDE DEF id, table, new
    <3> QED
      BY Zenon DEF ChannelStateType, Flag, BlobFlag
  <2> HIDE DEF type
  <2> QED
    BY <2>1, <2>2 DEF ChangeFlags, ChannelFields
<1>7. events' \subseteq EventType /\ seenChannels' \subseteq ChanRefs
      /\ seenUsers' = seenUsers
  <2>1. OnChannelChange(type, c)
    BY DEF ApplyChannelState
  <2> HIDE DEF type
  <2> QED
    BY <1>6, <2>1 DEF OnChannelChange, ChannelEvent, EventType, DataTypes, Opt
<1>8. UNCHANGED <<state, reader, permissions, Self, disconnectType, tmpACL,
                  userData, halfDone>>
  BY DEF ApplyChannelState, userVars
<1> QED
  BY <1>4, <1>5, <1>7, <1>8 DEF DataTypes

\* handleChannelRemove makes a typed event.
LEMMA ChannelRemoveData ==
  ASSUME GraphInv, DataTypes, NEW id \in ChannelIDs, NEW c \in ChanRefs,
         RemoveChannel(c, id)
  PROVE  DataTypes'
<1>1. Links' \in [ChanRefs -> [ChannelIDs -> Opt(ChanRefs)]]
  BY DEF RemoveChannel, Unlink, DataTypes, Opt
<1>2. events' \subseteq EventType /\ seenChannels' \subseteq ChanRefs
      /\ seenUsers' = seenUsers
  <2>1. OnChannelChange({"Removed"}, c)
    BY DEF RemoveChannel
  <2>2. {"Removed"} \subseteq ChangeFlags
    BY DEF ChangeFlags
  <2> QED
    BY <2>1, <2>2 DEF OnChannelChange, ChannelEvent, EventType, DataTypes, Opt
<1>3. /\ permissions' \subseteq ChannelIDs
      /\ UNCHANGED <<state, reader, Self, disconnectType, tmpACL, chanData,
                     userData, halfDone>>
  BY DEF RemoveChannel, userVars, DataTypes
<1> QED
  BY <1>1, <1>2, <1>3 DEF DataTypes

\* A change event about a user, by an actor or by nobody, is typed.
LEMMA UserEventTyped ==
  ASSUME DataTypes, NEW type \in SUBSET ChangeFlags, NEW u \in UserRefs,
         NEW actor \in Opt(UserRefs), OnUserChange(type, u, actor)
  PROVE  /\ events' \subseteq EventType /\ seenUsers' \subseteq UserRefs
         /\ seenChannels' = seenChannels
  BY DEF OnUserChange, UserEvent, EventType, DataTypes, Opt

\* handleUserRemove makes a typed event.
LEMMA UserRemoveData ==
  ASSUME GraphInv, DataTypes, NEW pkt \in UserRemovePacket, NEW u \in UserRefs,
         RemoveUser(u, pkt)
  PROVE  DataTypes'
<1> DEFINE type == {"Disconnected"} \cup Flag("Kicked", pkt.Actor # Nil)
                                    \cup Flag("Banned", pkt.Ban)
           actor == IF pkt.Actor = Nil THEN Nil ELSE Users[pkt.Actor]
<1>1. type \in SUBSET ChangeFlags
  BY DEF Flag, ChangeFlags
<1>2. actor \in Opt(UserRefs)
  BY DEF UserRemovePacket, GraphInv, GraphTypes, Opt
<1>3. OnUserChange(type, u, actor)
  BY DEF RemoveUser
<1>4. /\ disconnectType' \in {"Error", "Kicked", "Banned"}
      /\ UNCHANGED <<state, reader, permissions, Self, tmpACL, Links, chanData,
                     userData, halfDone>>
  BY DEF RemoveUser, DisconnectReason, DataTypes
<1> HIDE DEF type, actor
<1>5. /\ events' \subseteq EventType /\ seenUsers' \subseteq UserRefs
      /\ seenChannels' = seenChannels
  BY <1>1, <1>2, <1>3, UserEventTyped
<1> QED
  BY <1>4, <1>5 DEF DataTypes

\* The data that handleUserState copies is typed, on both of its paths.
LEMMA UserDataTyped ==
  ASSUME DataTypes, NEW pkt \in UserStatePacket, NEW u \in UserRefs,
         NEW created \in BOOLEAN
  PROVE  /\ EarlyUserData(u, created, pkt) \in UserData
         /\ AllUserData(u, created, pkt) \in UserData
         /\ Changed(userData[u].fields, pkt.fields) \subseteq UserFields
<1>1. /\ userData[u].fields \in [UserFields -> Values \cup {Unset}]
      /\ userData[u].UserID \in UserIDs
      /\ userData[u].Comment \in Blob /\ userData[u].Texture \in Blob
      /\ userData[u] \in UserData
  BY DEF DataTypes, UserData
<1>2. /\ pkt.fields \in [UserFields -> Opt(Values \cup {Unset})]
      /\ pkt.UserId \in Opt(UserIDs)
      /\ pkt.Comment \in BlobUpdate /\ pkt.Texture \in BlobUpdate
  BY DEF UserStatePacket
<1>3. SetUserID(userData[u].UserID, created, pkt.UserId) \in UserIDs
  BY <1>1, <1>2, ConstantsAssumption DEF SetUserID, Opt
<1>4. /\ SetFields(userData[u].fields, pkt.fields, {"Name"})
           \in [UserFields -> Values \cup {Unset}]
      /\ SetFields(userData[u].fields, pkt.fields, UserFields)
           \in [UserFields -> Values \cup {Unset}]
      /\ Changed(userData[u].fields, pkt.fields) \subseteq UserFields
  BY ZenonT(30), <1>1, <1>2, SetFieldsType
<1>5. /\ SetBlob(userData[u].Comment, pkt.Comment) \in Blob
      /\ SetBlob(userData[u].Texture, pkt.Texture) \in Blob
  BY <1>1, <1>2, SetBlobType
<1>6. EarlyUserData(u, created, pkt) \in UserData
  BY ZenonT(30), <1>1, <1>3, <1>4 DEF EarlyUserData, UserData
<1>7. AllUserData(u, created, pkt) \in UserData
  BY <1>3, <1>4, <1>5 DEF AllUserData, UserData
<1> QED
  BY <1>4, <1>6, <1>7

\* handleUserState makes typed data and a typed event, whatever its outcome.
LEMMA UserStateData ==
  ASSUME GraphInv, DataTypes, NEW pkt \in UserStatePacket, NEW u \in UserRefs,
         pkt.Session # Nil,
         \/ UserWithoutRoot(u, pkt)
         \/ UserWithUnknownActor(u, pkt)
         \/ UserToUnknownChannel(u, pkt)
         \/ ApplyUserState(u, pkt)
  PROVE  DataTypes'
<1> DEFINE s == pkt.Session
           created == Users[s] = Nil
           home == Home(u, created)
           to == IF pkt.ChannelId = Nil THEN home ELSE Channels[pkt.ChannelId]
           type == UserStateType(u, created, to, pkt)
           actor == IF pkt.Actor = Nil THEN Nil ELSE Users'[pkt.Actor]
<1>1. /\ EarlyUserData(u, created, pkt) \in UserData
      /\ AllUserData(u, created, pkt) \in UserData
      /\ Changed(userData[u].fields, pkt.fields) \subseteq UserFields
  <2> HIDE DEF created
  <2>1. created \in BOOLEAN
    BY DEF created
  <2> QED
    BY <2>1, UserDataTyped
<1>2. CASE UserWithoutRoot(u, pkt)
  BY <1>2 DEF UserWithoutRoot, OnNothing, DataTypes, chanVars, seenVars
<1>3. CASE UserWithUnknownActor(u, pkt)
  BY <1>3 DEF UserWithUnknownActor, OnNothing, DataTypes, seenVars
<1>4. CASE UserToUnknownChannel(u, pkt)
  <2>1. userData' = [userData EXCEPT ![u] = EarlyUserData(u, created, pkt)]
    BY <1>4 DEF UserToUnknownChannel
  <2>2. userData' \in [UserRefs -> UserData]
    BY <1>1, <2>1 DEF DataTypes
  <2> QED
    BY <1>4, <2>2, Zenon DEF UserToUnknownChannel, OnNothing, DataTypes, seenVars
<1>5. CASE ApplyUserState(u, pkt)
  <2>1. userData' = [userData EXCEPT ![u] = AllUserData(u, created, pkt)]
    BY ZenonT(30), <1>5 DEF ApplyUserState
  <2>2. userData' \in [UserRefs -> UserData]
    BY ZenonT(30), <1>1, <2>1 DEF DataTypes
  <2>3. type \in SUBSET ChangeFlags
    <3>1. type \subseteq Changed(userData[u].fields, pkt.fields)
            \cup {"Connected", "Channel", "Registered", "Unregistered", "Texture",
                  "Comment"}
      <4> HIDE DEF created, to
      <4> QED
        BY Zenon DEF UserStateType, Flag, BlobFlag
    <3> HIDE DEF type
    <3> QED
      BY <1>1, <3>1 DEF ChangeFlags
  <2>4. actor \in Opt(UserRefs)
    <3>1. Users' = [Users EXCEPT ![s] = u]
      BY ZenonT(30), <1>5 DEF ApplyUserState, Enrol
    <3>2. Users' \in [Sessions -> Opt(UserRefs)] /\ pkt.Actor \in Opt(Sessions)
      BY <3>1 DEF UserStatePacket, GraphInv, GraphTypes, Opt
    <3> QED
      BY <3>2 DEF Opt
  <2>5. OnUserChange(type, u, actor)
    BY ZenonT(30), <1>5 DEF ApplyUserState
  <2>6. UNCHANGED <<state, reader, permissions, Self, disconnectType, tmpACL,
                    Links, chanData, halfDone>>
    BY ZenonT(30), <1>5 DEF ApplyUserState
  <2> HIDE DEF type, actor
  <2>7. /\ events' \subseteq EventType /\ seenUsers' \subseteq UserRefs
        /\ seenChannels' = seenChannels
    BY <2>3, <2>4, <2>5, UserEventTyped
  <2> QED
    BY <2>2, <2>6, <2>7 DEF DataTypes
<1> QED
  BY <1>2, <1>3, <1>4, <1>5

\* Looking keys up in a table gives objects of the table.
LEMMA LookupTyped ==
  ASSUME NEW K, NEW R, NEW table \in [K -> Opt(R)], NEW keys \in SUBSET K
  PROVE  Lookup(table, keys) \subseteq R
  BY DEF Lookup, Opt

\* Reporting typed objects makes a typed event.
LEMMA ReportData ==
  ASSUME DataTypes, NEW others \in SUBSET (UserRefs \cup ChanRefs),
         NEW about \in Opt(ChanRefs), NEW kind \in {"TextMessage", "UserList",
                                                    "PermissionDenied", "ACL"},
         Report(kind, about, others), tmpACL' \in Opt(ChanRefs)
  PROVE  DataTypes'
<1>1. events' \subseteq EventType
  BY DEF Report, EventType, Opt
<1> QED
  BY <1>1 DEF Report, DataTypes, chanVars, userVars, seenVars

\* A handler that changes nothing, or only the state of the read routine,
\* keeps the types.
LEMMA NothingData ==
  ASSUME DataTypes, OnNothing,
         reader' \in {"running", "blocked", "panicked"}, tmpACL' \in Opt(ChanRefs),
         UNCHANGED <<state, permissions, Self, disconnectType, chanVars, userVars,
                     halfDone>>
  PROVE  DataTypes'
  BY DEF DataTypes, OnNothing, chanVars, userVars, seenVars

-----------------------------------------------------------------------------
(* The types, for the whole next-state relation.                           *)

\* Every step keeps the types of everything.
LEMMA DataStep ==
  ASSUME GraphInv, DataTypes, [Next]_vars
  PROVE  DataTypes'
<1>t. /\ Users \in [Sessions -> Opt(UserRefs)]
      /\ Channels \in [ChannelIDs -> Opt(ChanRefs)]
  BY DEF GraphInv, GraphTypes
<1>r. CASE Refuse
  BY <1>r, NothingData DEF Refuse, DataTypes, clientVars
<1>u. CASE UNCHANGED vars
  BY <1>u DEF vars, DataTypes, clientVars, chanVars, userVars, seenVars
<1>1. ASSUME NEW pkt \in ChannelStatePacket, HandleChannelState(pkt)
      PROVE  DataTypes'
  BY <1>1, <1>r, ChannelStateData DEF HandleChannelState
<1>2. ASSUME NEW id \in Opt(ChannelIDs), HandleChannelRemove(id)
      PROVE  DataTypes'
  <2>1. CASE Known(Channels, id) /\ RemoveChannel(Channels[id], id)
    <3>1. id \in ChannelIDs /\ Channels[id] \in ChanRefs
      BY <1>t, <2>1 DEF Known, Opt
    <3> QED
      BY <2>1, <3>1, ChannelRemoveData
  <2> QED
    BY <1>2, <1>r, <2>1 DEF HandleChannelRemove
<1>3. ASSUME NEW pkt \in UserStatePacket, HandleUserState(pkt)
      PROVE  DataTypes'
  BY <1>3, <1>r, UserStateData DEF HandleUserState
<1>4. ASSUME NEW pkt \in UserRemovePacket, HandleUserRemove(pkt)
      PROVE  DataTypes'
  <2>1. CASE Known(Users, pkt.Session) /\ RemoveUser(Users[pkt.Session], pkt)
    <3>1. pkt \in UserRemovePacket /\ Users[pkt.Session] \in UserRefs
      BY <1>t, <2>1 DEF Known, Opt, UserRemovePacket
    <3> QED
      BY <2>1, <3>1, UserRemoveData
  <2> QED
    BY <1>4, <1>r, <2>1 DEF HandleUserRemove
<1>5. ASSUME NEW session \in Opt(Sessions), HandleServerSync(session)
      PROVE  DataTypes'
  <2>1. Self' \in Opt(UserRefs)
    BY <1>5, <1>t DEF HandleServerSync, DataTypes, Opt
  <2>2. events' \subseteq EventType
    <3>1. [kind |-> "Connect", Type |-> {}, about |-> Nil, others |-> {}] \in EventType
      BY DEF EventType, Opt
    <3> QED
      BY <1>5, <3>1 DEF HandleServerSync
  <2> QED
    BY <1>5, <2>1, <2>2 DEF HandleServerSync, DataTypes, chanVars, userVars
<1>6. ASSUME NEW id \in Opt(ChannelIDs), NEW flush \in BOOLEAN,
             HandlePermissionQuery(id, flush)
      PROVE  DataTypes'
  <2>1. CASE ~Refuse
    <3> DEFINE told == (IF flush THEN permissions ELSE {}) \cup ({id} \ {Nil})
    <3>1. /\ permissions' \subseteq permissions \cup ({id} \ {Nil})
          /\ events' = {ChannelEvent({"Permission"}, Channels[i]) : i \in told}
          /\ UNCHANGED <<state, reader, Self, disconnectType, tmpACL, chanVars,
                         userVars, seenVars, halfDone>>
      BY <1>6, <2>1 DEF HandlePermissionQuery
    <3>2. told \subseteq ChannelIDs /\ permissions' \subseteq ChannelIDs
      BY <3>1 DEF DataTypes, Opt
    <3> HIDE DEF told
    <3>3. \A i \in told : ChannelEvent({"Permission"}, Channels[i]) \in EventType
      BY <1>t, <3>2 DEF ChannelEvent, EventType, ChangeFlags, Opt
    <3> QED
      BY <3>1, <3>2, <3>3 DEF DataTypes, chanVars, userVars, seenVars
  <2> QED
    BY <1>r, <2>1
<1>7. ASSUME NEW sessions \in SUBSET Sessions, NEW ids \in SUBSET ChannelIDs,
             HandleTextMessage(sessions, ids)
      PROVE  DataTypes'
  <2>1. Lookup(Users, sessions) \cup Lookup(Channels, ids)
          \in SUBSET (UserRefs \cup ChanRefs)
    BY <1>t, LookupTyped
  <2>2. /\ Report("TextMessage", Nil, Lookup(Users, sessions) \cup Lookup(Channels, ids))
        /\ tmpACL' \in Opt(ChanRefs) /\ Nil \in Opt(ChanRefs)
    BY <1>7 DEF HandleTextMessage, DataTypes, Opt
  <2> QED
    BY <2>1, <2>2, ReportData
<1>8. ASSUME NEW ids \in SUBSET ChannelIDs, HandleUserList(ids)
      PROVE  DataTypes'
  <2>1. Lookup(Channels, ids) \in SUBSET (UserRefs \cup ChanRefs)
    BY <1>t, LookupTyped
  <2>2. /\ Report("UserList", Nil, Lookup(Channels, ids))
        /\ tmpACL' \in Opt(ChanRefs) /\ Nil \in Opt(ChanRefs)
    BY <1>8 DEF HandleUserList, DataTypes, Opt
  <2> QED
    BY <2>1, <2>2, ReportData
<1>9. ASSUME NEW typed \in BOOLEAN, NEW session \in Opt(Sessions),
             NEW id \in Opt(ChannelIDs), HandlePermissionDenied(typed, session, id)
      PROVE  DataTypes'
  <2> DEFINE found == Lookup(Users, {session} \ {Nil}) \cup Lookup(Channels, {id} \ {Nil})
  <2>1. found \in SUBSET (UserRefs \cup ChanRefs)
    <3>1. {session} \ {Nil} \in SUBSET Sessions /\ {id} \ {Nil} \in SUBSET ChannelIDs
      BY DEF Opt
    <3> QED
      BY <1>t, <3>1, LookupTyped
  <2>2. CASE ~Refuse
    <3>1. /\ Report("PermissionDenied", Nil, found)
          /\ tmpACL' \in Opt(ChanRefs) /\ Nil \in Opt(ChanRefs)
      BY <1>9, <2>2 DEF HandlePermissionDenied, DataTypes, Opt
    <3> HIDE DEF found
    <3> QED
      BY <2>1, <3>1, ReportData
  <2> QED
    BY <1>r, <2>2
<1>10. ASSUME NEW id \in Opt(ChannelIDs), HandleACL(id)
       PROVE  DataTypes'
  <2>1. CASE ~Refuse
    <3>1. tmpACL' \in Opt(ChanRefs)
      BY <1>10, <1>t, <2>1 DEF HandleACL, Known, Opt
    <3> QED
      BY <1>10, <2>1, <3>1, NothingData DEF HandleACL, DataTypes
  <2> QED
    BY <1>r, <2>1
<1>11. CASE HandleQueryUsers
  <2>1. CASE ~Refuse
    <3>1. Report("ACL", tmpACL, {}) /\ tmpACL' \in Opt(ChanRefs)
      BY <1>11, <2>1 DEF HandleQueryUsers, Opt
    <3> QED
      BY ZenonT(30), <3>1, ReportData DEF DataTypes
  <2> QED
    BY <1>r, <2>1
<1>12. ASSUME NEW op, HandleContextActionModify(op)
       PROVE  DataTypes'
  <2>1. CASE ~Refuse
    BY <1>12, <2>1, NothingData DEF HandleContextActionModify, DataTypes, clientVars
  <2> QED
    BY <1>r, <2>1
<1> QED
  BY <1>u, <1>1, <1>2, <1>3, <1>4, <1>5, <1>6, <1>7, <1>8, <1>9, <1>10, <1>11,
     <1>12, ServersAssumption DEF Next, Receive

\* Every variable keeps its type, whatever the server sends.
THEOREM TypeCorrect == Spec => []TypeOK
<1>1. Init => DataTypes
  <2>1. NewChannelData \in ChannelData /\ NewUserData \in UserData
    BY ConstantsAssumption DEF NewChannelData, NewUserData, ChannelData, UserData,
       NoBlob, Blob, Opt
  <2> SUFFICES ASSUME Init PROVE DataTypes
    OBVIOUS
  <2>2. Links \in [ChanRefs -> [ChannelIDs -> Opt(ChanRefs)]]
    BY DEF Init, NoChannels, Opt
  <2>3. chanData \in [ChanRefs -> ChannelData] /\ userData \in [UserRefs -> UserData]
    BY <2>1 DEF Init
  <2>4. /\ state = "Connected" /\ reader = "running" /\ permissions = {}
        /\ Self = Nil /\ disconnectType = "Error" /\ tmpACL = Nil
        /\ events = {} /\ seenUsers = {} /\ seenChannels = {} /\ halfDone = FALSE
    BY DEF Init
  <2> QED
    BY ZenonT(30), <2>2, <2>3, <2>4 DEF DataTypes, Opt
<1>2. GraphInv /\ DataTypes /\ [Next]_vars => DataTypes'
  BY DataStep
<1>3. GraphInv /\ DataTypes => TypeOK
  BY DEF GraphInv, GraphTypes, DataTypes, TypeOK
<1> QED
  BY <1>1, <1>2, <1>3, GraphInvariance, PTL DEF Spec

-----------------------------------------------------------------------------
(* The steps that change something that a program can see.                 *)

Present(x) ==
  (x \in UserRefs /\ \E k \in Sessions : Users[k] = x)
    \/ (x \in ChanRefs /\ \E k \in ChannelIDs : Channels[k] = x)

\* Events that name objects of the tables and tell of no change in them.
Harmless(es) ==
  \A e \in es :
    /\ e.Type \subseteq {"Permission"}
    /\ \A x \in e.others : Present(x)
    /\ e.kind \in {"UserChange", "ChannelChange"} => Present(e.about)

\* A step that changes none of it; a handler may panic.
Quiet ==
  /\ UNCHANGED <<state, Users, Channels, Self, disconnectType, chanVars, userVars,
                 seenVars, halfDone>>
  /\ reader' # reader => reader = "running" /\ reader' = "panicked"
  /\ UNCHANGED vars \/ Harmless(events')

\* The steps that change the table of channels.
SomeChannelState(pkt, c) ==
  /\ pkt \in ChannelStatePacket /\ \E s \in DOMAIN Servers : pkt \in Servers[s].ChannelState
  /\ c \in ChanRefs /\ pkt.ChannelId \in ChannelIDs
  /\ ChannelFor(c, pkt.ChannelId) /\ ApplyChannelState(c, pkt)

SomeChannelRemove(id, c) ==
  /\ id \in ChannelIDs /\ c \in ChanRefs /\ Channels[id] = c
  /\ RemoveChannel(c, id)

SomeUserState(pkt, u) ==
  /\ reader = "running"
  /\ pkt \in UserStatePacket /\ u \in UserRefs /\ pkt.Session \in Sessions
  /\ UserFor(u, pkt.Session)
  /\ \/ UserWithoutRoot(u, pkt) \/ UserWithUnknownActor(u, pkt)
     \/ UserToUnknownChannel(u, pkt) \/ ApplyUserState(u, pkt)

SomeUserRemove(pkt, u) ==
  /\ pkt \in UserRemovePacket /\ pkt.Session \in Sessions /\ u \in UserRefs
  /\ Users[pkt.Session] = u /\ RemoveUser(u, pkt)

\* Every packet is handled by one of these steps.
LEMMA StepKinds ==
  ASSUME GraphInv, TypeOK, [Next]_vars
  PROVE  \/ Quiet
         \/ \E session \in Opt(Sessions) : HandleServerSync(session)
         \/ \E pkt, c : SomeChannelState(pkt, c)
         \/ \E id, c : SomeChannelRemove(id, c)
         \/ \E pkt, u : SomeUserState(pkt, u)
         \/ \E pkt, u : SomeUserRemove(pkt, u)
<1>t. /\ Users \in [Sessions -> Opt(UserRefs)]
      /\ Channels \in [ChannelIDs -> Opt(ChanRefs)]
  BY DEF GraphInv, GraphTypes
<1>n. Harmless({})
  BY DEF Harmless
<1>r. Refuse => Quiet
  BY <1>n DEF Refuse, Quiet, OnNothing, clientVars
<1>u. UNCHANGED vars => Quiet
  BY DEF vars, Quiet, clientVars
<1>p. ASSUME NEW kind \in {"TextMessage", "UserList", "PermissionDenied", "ACL"},
             NEW about, NEW others, Report(kind, about, others), \A x \in others : Present(x)
      PROVE  Quiet
  <2>1. Harmless(events')
    BY <1>p DEF Report, Harmless
  <2> QED
    BY <1>p, <2>1 DEF Report, Quiet
<1>l. /\ \A keys \in SUBSET Sessions : \A x \in Lookup(Users, keys) : Present(x)
      /\ \A keys \in SUBSET ChannelIDs : \A x \in Lookup(Channels, keys) : Present(x)
  BY <1>t DEF Lookup, Present, Opt
<1>1. ASSUME NEW s \in DOMAIN Servers, NEW pkt \in Servers[s].ChannelState,
             HandleChannelState(pkt)
      PROVE  Quiet \/ \E c : SomeChannelState(pkt, c)
  <2>1. pkt \in ChannelStatePacket /\ pkt.ChannelId \in Opt(ChannelIDs)
    BY ServersAssumption, Zenon DEF ChannelStatePacket
  <2> QED
    BY <1>1, <1>r, <2>1 DEF HandleChannelState, SomeChannelState, Opt
<1>2. ASSUME NEW id \in Opt(ChannelIDs), HandleChannelRemove(id)
      PROVE  Quiet \/ \E c : SomeChannelRemove(id, c)
  BY <1>2, <1>r, <1>t DEF HandleChannelRemove, SomeChannelRemove, Known, Opt
<1>3. ASSUME NEW pkt \in UserStatePacket, HandleUserState(pkt)
      PROVE  Quiet \/ \E u : SomeUserState(pkt, u)
  <2>1. pkt.Session \in Opt(Sessions)
    BY DEF UserStatePacket
  <2> QED
    BY <1>3, <1>r, <2>1 DEF HandleUserState, SomeUserState, Opt
<1>4. ASSUME NEW pkt \in UserRemovePacket, HandleUserRemove(pkt)
      PROVE  Quiet \/ \E u : SomeUserRemove(pkt, u)
  <2>1. pkt.Session \in Opt(Sessions)
    BY DEF UserRemovePacket
  <2> QED
    BY <1>4, <1>r, <1>t, <2>1 DEF HandleUserRemove, SomeUserRemove, Known, Opt
<1>5. ASSUME NEW id \in Opt(ChannelIDs), NEW flush \in BOOLEAN,
             HandlePermissionQuery(id, flush)
      PROVE  Quiet
  <2> DEFINE named == (IF flush THEN permissions ELSE {}) \cup ({id} \ {Nil})
  <2>1. CASE Refuse
    BY <2>1, <1>r
  <2>2. CASE ~Refuse
    <3>1. /\ id # Nil => Channels[id] # Nil
          /\ events' = {ChannelEvent({"Permission"}, Channels[i]) : i \in named}
      BY <1>5, <2>2 DEF HandlePermissionQuery
    <3>2. \A i \in named : i \in ChannelIDs /\ Channels[i] # Nil
      BY <3>1 DEF GraphInv, PermissionsKnown, TypeOK, Opt
    <3>3. \A i \in named : Present(Channels[i])
      BY <1>t, <3>2 DEF Present, Opt
    <3> HIDE DEF named
    <3>4. Harmless(events')
      BY <3>1, <3>3 DEF Harmless, ChannelEvent
    <3> QED
      BY <1>5, <2>2, <3>4 DEF HandlePermissionQuery, Quiet
  <2> QED
    BY <2>1, <2>2
<1>6. ASSUME NEW sessions \in SUBSET Sessions, NEW ids \in SUBSET ChannelIDs,
             HandleTextMessage(sessions, ids)
      PROVE  Quiet
  BY <1>6, <1>p, <1>l DEF HandleTextMessage
<1>7. ASSUME NEW ids \in SUBSET ChannelIDs, HandleUserList(ids)
      PROVE  Quiet
  BY <1>7, <1>p, <1>l DEF HandleUserList
<1>8. ASSUME NEW typed, NEW session \in Opt(Sessions), NEW id \in Opt(ChannelIDs),
             HandlePermissionDenied(typed, session, id)
      PROVE  Quiet
  <2>1. {session} \ {Nil} \in SUBSET Sessions /\ {id} \ {Nil} \in SUBSET ChannelIDs
    BY DEF Opt
  <2> QED
    BY <1>8, <1>p, <1>l, <1>r, <2>1 DEF HandlePermissionDenied
<1>9. ASSUME NEW id, HandleACL(id)
      PROVE  Quiet
  BY <1>9, <1>n, <1>r DEF HandleACL, Quiet, OnNothing
<1>10. HandleQueryUsers => Quiet
  BY <1>p, <1>r DEF HandleQueryUsers
<1>11. ASSUME NEW op, HandleContextActionModify(op)
       PROVE  Quiet
  BY <1>11, <1>n, <1>r DEF HandleContextActionModify, Quiet, OnNothing, clientVars
<1>12. CASE UNCHANGED vars
  BY <1>12, <1>u
<1>13. CASE Next
  <2>1. PICK s \in DOMAIN Servers : Receive(Servers[s])
    BY <1>13 DEF Next
  <2>2. /\ Servers[s].ChannelRemove \subseteq Opt(ChannelIDs)
        /\ Servers[s].UserState \subseteq UserStatePacket
        /\ Servers[s].UserRemove \subseteq UserRemovePacket
    BY ServersAssumption
  <2> QED
    BY <2>1, <2>2, <1>1, <1>2, <1>3, <1>4, <1>5, <1>6, <1>7, <1>8, <1>9, <1>10, <1>11
       DEF Receive
<1> QED
  BY <1>12, <1>13

\* A user that is handled is the one in the table or a new object.
LEMMA UserStateEffect ==
  ASSUME GraphInv, NEW pkt, NEW u, SomeUserState(pkt, u)
  PROVE  /\ u \in UserRefs /\ pkt.Session \in Sessions
         /\ Session' = [Session EXCEPT ![u] = pkt.Session]
         /\ userClient' = [userClient EXCEPT ![u] = TRUE]
         /\ Channel' = [Channel EXCEPT ![u] = Channel'[u]]
         /\ userClient[u] <=> Users[pkt.Session] # Nil
         /\ Session[u] # Nil => userClient[u] /\ Session[u] = pkt.Session
         /\ UNCHANGED <<state, Self, disconnectType, ID, Parent, Links, chanClient,
                        seenChannels>>
<1>1. /\ u \in UserRefs /\ pkt.Session \in Sessions /\ Enrol(u, pkt.Session)
      /\ UNCHANGED <<state, Self, disconnectType, ID, Parent, Links, chanClient,
                     seenChannels>>
  BY ZenonT(30) DEF SomeUserState, UserWithoutRoot, UserWithUnknownActor, UserToUnknownChannel,
         ApplyUserState, OnNothing, OnUserChange, seenVars, chanVars
<1>2. Channel' = [Channel EXCEPT ![u] = Channel'[u]]
  BY <1>1, Zenon DEF SomeUserState, UserWithoutRoot, UserWithUnknownActor, UserToUnknownChannel,
         ApplyUserState, GraphInv, GraphTypes
<1>3. UserFor(u, pkt.Session)
  BY DEF SomeUserState
<1>4. /\ userClient[u] <=> Users[pkt.Session] # Nil
      /\ Session[u] # Nil => userClient[u] /\ Session[u] = pkt.Session
  BY <1>1, <1>3, MembersBefore, ConstantsAssumption, Zenon
     DEF UserFor, GraphInv, GraphTypes, ClientPointers, Opt
<1> QED
  BY <1>1, <1>2, <1>4 DEF Enrol

-----------------------------------------------------------------------------
(* The client's own user.                                                  *)

\* Self is set once, by the packet that ends the handshake, and no reason to
\* disconnect is known before.
SelfInv ==
  /\ state # "Synced" => Self = Nil
  /\ reader # "panicked" /\ Self = Nil => disconnectType = "Error"
  /\ Self # Nil => Session[Self] # Nil
  /\ SelfRemovalRecorded

\* Only the removal of the client's own user gives a reason.
LEMMA SelfStep ==
  ASSUME GraphInv, TypeOK, SelfInv, [Next]_vars
  PROVE  SelfInv'
<1>t. /\ Users \in [Sessions -> Opt(UserRefs)] /\ Self \in Opt(UserRefs)
      /\ Session \in [UserRefs -> Opt(Sessions)] /\ userClient \in [UserRefs -> BOOLEAN]
      /\ disconnectType \in {"Error", "Kicked", "Banned"}
  BY Zenon DEF TypeOK
<1>p. \A s \in Sessions, u \in UserRefs : Users[s] = u => userClient[u] /\ Session[u] = s
  BY DEF GraphInv, ClientPointers
<1>1. CASE Quiet
  BY <1>1 DEF Quiet, userVars, SelfInv, SelfRemovalRecorded
<1>2. ASSUME NEW session \in Opt(Sessions), HandleServerSync(session)
      PROVE  SelfInv'
  <2>1. /\ state' = "Synced" /\ UNCHANGED <<Session, userClient, disconnectType>>
        /\ reader = "running" /\ (state = "Synced" => reader' = "panicked")
        /\ Self' = IF session = Nil THEN Self ELSE Users[session]
    BY <1>2 DEF HandleServerSync, userVars
  <2>2. Self' # Nil => Session'[Self'] # Nil
    BY <1>t, <1>p, <2>1, ConstantsAssumption DEF SelfInv, Opt
  <2>3. CASE state = "Synced"
    BY <2>1, <2>2, <2>3, Zenon DEF SelfInv, SelfRemovalRecorded
  <2>4. CASE state # "Synced"
    <3>1. Self = Nil /\ disconnectType = "Error"
      BY <2>1, <2>4 DEF SelfInv
    <3>2. Self' # Nil => userClient[Self']
      BY <1>t, <1>p, <2>1, <3>1 DEF Opt
    <3> QED
      BY <2>1, <2>2, <3>1, <3>2, Zenon DEF SelfInv, SelfRemovalRecorded
  <2> QED
    BY <2>3, <2>4
<1>3. ASSUME NEW pkt, NEW c, SomeChannelState(pkt, c)
      PROVE  SelfInv'
  BY <1>3 DEF SomeChannelState, ApplyChannelState, userVars, SelfInv, SelfRemovalRecorded
<1>4. ASSUME NEW id, NEW c, SomeChannelRemove(id, c)
      PROVE  SelfInv'
  BY <1>4 DEF SomeChannelRemove, RemoveChannel, userVars, SelfInv, SelfRemovalRecorded
<1>5. ASSUME NEW pkt, NEW u, SomeUserState(pkt, u)
      PROVE  SelfInv'
  <2>1. reader = "running"
    BY <1>5 DEF SomeUserState
  <2>2. /\ u \in UserRefs /\ pkt.Session \in Sessions
        /\ Session' = [Session EXCEPT ![u] = pkt.Session]
        /\ userClient' = [userClient EXCEPT ![u] = TRUE]
        /\ Session[u] # Nil => userClient[u]
        /\ UNCHANGED <<state, Self, disconnectType>>
    BY <1>5, UserStateEffect, Zenon
  <2> QED
    BY <1>t, <2>1, <2>2, ConstantsAssumption DEF SelfInv, SelfRemovalRecorded, Opt
<1>6. ASSUME NEW pkt, NEW u, SomeUserRemove(pkt, u)
      PROVE  SelfInv'
  <2>1. /\ u \in UserRefs /\ pkt.Session \in Sessions /\ Users[pkt.Session] = u
        /\ userClient' = [userClient EXCEPT ![u] = FALSE]
        /\ disconnectType' = DisconnectReason(u, pkt)
        /\ UNCHANGED <<state, reader, Self, Session>>
    BY <1>6, Zenon DEF SomeUserRemove, RemoveUser
  <2>2. userClient[u]
    BY <1>p, <2>1
  <2> QED
    BY <1>t, <2>1, <2>2, ConstantsAssumption
       DEF SelfInv, SelfRemovalRecorded, DisconnectReason, Opt
<1> QED
  BY <1>1, <1>2, <1>3, <1>4, <1>5, <1>6, StepKinds

\* Whatever the server sends, the disconnect event of a client whose own user
\* was removed says kicked or banned, and no other does (handlers.go:469-475).
THEOREM SelfRemoval == Spec => []SelfRemovalRecorded
<1>1. Init => SelfInv
  BY DEF Init, SelfInv, SelfRemovalRecorded
<1>2. GraphInv /\ TypeOK /\ SelfInv /\ [Next]_vars => SelfInv'
  BY SelfStep
<1>3. SelfInv => SelfRemovalRecorded
  BY DEF SelfInv
<1> QED
  BY <1>1, <1>2, <1>3, GraphInvariance, TypeCorrect, PTL DEF Spec
=============================================================================
