------------------------- MODULE ServerGraphProofs --------------------------
(***************************************************************************)
(* The inductive invariant of the graph of users and channels; that users  *)
(* and channels being updated and removed keep it on all paths of their    *)
(* handlers; and that with this every step does: the graph stays           *)
(* consistent, for any sets of IDs, objects and packets.                   *)
(***************************************************************************)
EXTENDS ServerState, TLAPS

-----------------------------------------------------------------------------
(* The inductive invariant.                                                *)

\* An object that has not been allocated is blank.
Blank ==
  /\ \A c \in ChanRefs : ID[c] = Nil =>
       /\ ~chanClient[c] /\ Parent[c] = Nil
       /\ \A i \in ChannelIDs : Children[c][i] = Nil
       /\ \A s \in Sessions : Members[c][s] = Nil
  /\ \A u \in UserRefs : Session[u] = Nil => ~userClient[u] /\ Channel[u] = Nil

\* The types of the variables that relate objects to each other.
GraphTypes ==
  /\ Users \in [Sessions -> Opt(UserRefs)]
  /\ Channels \in [ChannelIDs -> Opt(ChanRefs)]
  /\ ID \in [ChanRefs -> Opt(ChannelIDs)]
  /\ Parent \in [ChanRefs -> Opt(ChanRefs)]
  /\ Children \in [ChanRefs -> [ChannelIDs -> Opt(ChanRefs)]]
  /\ Members \in [ChanRefs -> [Sessions -> Opt(UserRefs)]]
  /\ chanClient \in [ChanRefs -> BOOLEAN]
  /\ Session \in [UserRefs -> Opt(Sessions)]
  /\ Channel \in [UserRefs -> Opt(ChanRefs)]
  /\ userClient \in [UserRefs -> BOOLEAN]

GraphInv ==
  /\ GraphTypes /\ ClientPointers /\ Blank
  /\ TreeConsistent /\ MembersConsistent /\ PermissionsKnown

\* Everything GraphInv is about.
graphVars == <<reader, Users, Channels, permissions, ID, Parent, Children,
               Members, chanClient, Session, Channel, userClient>>

-----------------------------------------------------------------------------
\* An object whose client pointer is set is in the table under its own key.
LEMMA InTable ==
  ASSUME GraphInv
  PROVE  /\ \A c \in ChanRefs : chanClient[c] =>
              ID[c] \in ChannelIDs /\ Channels[ID[c]] = c
         /\ \A u \in UserRefs : userClient[u] =>
              Session[u] \in Sessions /\ Users[Session[u]] = u
  BY DEF GraphInv, GraphTypes, ClientPointers, ChannelLive, UserLive, Opt

\* The tables are empty and all objects blank at first.
LEMMA GraphInit == Init => GraphInv
  BY ConstantsAssumption
     DEF Init, GraphInv, GraphTypes, ClientPointers, Blank, TreeConsistent,
         MembersConsistent, PermissionsKnown, ChannelLive, UserLive,
         NoChannels, NoUsers, Opt

\* A step that leaves the graph alone keeps the invariant.
LEMMA GraphStutter == GraphInv /\ UNCHANGED graphVars => GraphInv'
  BY DEF GraphInv, graphVars, GraphTypes, ClientPointers, Blank, TreeConsistent,
         MembersConsistent, PermissionsKnown, ChannelLive, UserLive

-----------------------------------------------------------------------------
(* Where handleUserState starts.                                           *)

\* Before the handler runs, nobody but the user in the table under session
\* s is a member of a channel under s, and only of its own channel.
LEMMA MembersBefore ==
  ASSUME GraphInv, NEW u \in UserRefs, NEW s \in Sessions, UserFor(u, s)
  PROVE  /\ \A c \in ChanRefs : Members[c][s] # Nil =>
              Members[c][s] = u /\ Channel[u] = c /\ Users[s] = u
         /\ Users[s] = Nil => Channel[u] = Nil /\ ~userClient[u]
         /\ Users[s] # Nil => userClient[u] /\ Session[u] = s
         /\ \A t \in Sessions : Users[t] = u => t = s
         /\ \A x \in UserRefs : x # u /\ userClient[x] => Session[x] # s
<1>1. ASSUME NEW c \in ChanRefs, Members[c][s] # Nil
      PROVE  Members[c][s] = u /\ Channel[u] = c /\ Users[s] = u
  <2>1. PICK x \in UserRefs : Members[c][s] = x
    BY <1>1 DEF GraphInv, GraphTypes, Opt
  <2>2. userClient[x] /\ Session[x] = s /\ Channel[x] = c
    BY <2>1 DEF GraphInv, MembersConsistent
  <2>3. Users[s] = x
    BY <2>2, InTable
  <2> QED
    BY <2>1, <2>2, <2>3, ConstantsAssumption DEF UserFor
<1> QED
  BY <1>1, InTable, ConstantsAssumption
     DEF UserFor, GraphInv, GraphTypes, Blank, ClientPointers

-----------------------------------------------------------------------------
(* handleUserState                                                         *)

\* The common effect of the four outcomes: u is in the table under s and in
\* the channel to, where it is listed unless the read routine is stuck.
LEMMA EnrolGraph ==
  ASSUME GraphInv, reader = "running",
         NEW u \in UserRefs, NEW s \in Sessions, UserFor(u, s), Enrol(u, s),
         NEW to \in Opt(ChanRefs), to # Nil => ID[to] # Nil,
         Channel' = [Channel EXCEPT ![u] = to],
         Members' \in [ChanRefs -> [Sessions -> Opt(UserRefs)]],
         \A c \in ChanRefs, t \in Sessions : t # s => Members'[c][t] = Members[c][t],
         \A c \in ChanRefs : Members'[c][s] =
           IF c = to /\ reader' # "blocked" THEN u ELSE Nil,
         UNCHANGED <<Channels, permissions, ID, Parent, Children, chanClient>>
  PROVE  GraphInv'
<1>1. /\ Users' = [Users EXCEPT ![s] = u]
      /\ Session' = [Session EXCEPT ![u] = s]
      /\ userClient' = [userClient EXCEPT ![u] = TRUE]
  BY DEF Enrol
<1>2. /\ \A t \in Sessions : Users[t] = u => t = s
      /\ \A x \in UserRefs : x # u /\ userClient[x] => Session[x] # s
  BY MembersBefore
<1>3. GraphTypes'
  BY <1>1 DEF GraphInv, GraphTypes, Opt
<1>4. ClientPointers'
  <2>1. ASSUME NEW t \in Sessions, NEW x \in UserRefs, Users'[t] = x
        PROVE  userClient'[x] /\ Session'[x] = t
    BY <1>1, <1>2, <2>1 DEF GraphInv, GraphTypes, ClientPointers
  <2>2. ASSUME NEW x \in UserRefs, userClient'[x]
        PROVE  UserLive(x)'
    <3>1. CASE x = u
      BY <1>1, <3>1 DEF GraphInv, GraphTypes, UserLive
    <3>2. CASE x # u
      BY <1>1, <1>2, <2>2, <3>2, InTable DEF GraphInv, GraphTypes, UserLive
    <3> QED
      BY <3>1, <3>2
  <2> QED
    BY <2>1, <2>2 DEF GraphInv, ClientPointers, ChannelLive
<1>5. Blank'
  <2>1. ASSUME NEW c \in ChanRefs, ID'[c] = Nil
        PROVE  /\ ~chanClient'[c] /\ Parent'[c] = Nil
               /\ \A i \in ChannelIDs : Children'[c][i] = Nil
               /\ \A t \in Sessions : Members'[c][t] = Nil
    <3>1. c # to /\ \A t \in Sessions : Members[c][t] = Nil
      BY <2>1, ConstantsAssumption DEF GraphInv, Blank
    <3> QED
      BY <2>1, <3>1 DEF GraphInv, Blank
  <2>2. ASSUME NEW x \in UserRefs, Session'[x] = Nil
        PROVE  ~userClient'[x] /\ Channel'[x] = Nil
    BY <1>1, <2>2, ConstantsAssumption DEF GraphInv, GraphTypes, Blank
  <2> QED
    BY <2>1, <2>2 DEF Blank
<1>6. TreeConsistent' /\ PermissionsKnown'
  BY DEF GraphInv, TreeConsistent, PermissionsKnown
<1>7. MembersConsistent'
  <2>1. ASSUME NEW x \in UserRefs, NEW c \in ChanRefs,
               reader' # "blocked", userClient'[x], Channel'[x] = c
        PROVE  Members'[c][Session'[x]] = x
    <3>1. CASE x = u
      BY <1>1, <2>1, <3>1 DEF GraphInv, GraphTypes
    <3>2. CASE x # u
      <4>1. userClient[x] /\ Channel[x] = c /\ Session'[x] = Session[x]
        BY <1>1, <2>1, <3>2 DEF GraphInv, GraphTypes
      <4>2. Session[x] \in Sessions /\ Session[x] # s
        BY <1>2, <3>2, <4>1, InTable
      <4> QED
        BY <4>1, <4>2 DEF GraphInv, MembersConsistent
    <3> QED
      BY <3>1, <3>2
  <2>2. ASSUME NEW c \in ChanRefs, NEW x \in UserRefs, NEW t \in Sessions,
               Members'[c][t] = x
        PROVE  userClient'[x] /\ Session'[x] = t /\ Channel'[x] = c
    <3>1. CASE t = s
      BY <1>1, <2>2, <3>1, ConstantsAssumption DEF GraphInv, GraphTypes
    <3>2. CASE t # s
      <4>1. userClient[x] /\ Session[x] = t /\ Channel[x] = c
        BY <2>2, <3>2 DEF GraphInv, MembersConsistent
      <4>2. x # u
        BY <3>2, <4>1, MembersBefore, InTable DEF UserFor
      <4> QED
        BY <1>1, <4>1, <4>2 DEF GraphInv, GraphTypes
    <3> QED
      BY <3>1, <3>2
  <2> QED
    BY <2>1, <2>2 DEF MembersConsistent
<1> QED
  BY <1>3, <1>4, <1>5, <1>6, <1>7 DEF GraphInv

\* Every outcome of the handler keeps the invariant, the one included in
\* which the read routine locks itself out.
LEMMA UserStateGraph ==
  ASSUME GraphInv, reader = "running", NEW pkt \in UserStatePacket,
         NEW u \in UserRefs, pkt.Session # Nil, UserFor(u, pkt.Session),
         \/ UserWithoutRoot(u, pkt) \/ UserWithUnknownActor(u, pkt)
         \/ UserToUnknownChannel(u, pkt) \/ ApplyUserState(u, pkt)
  PROVE  GraphInv'
<1> DEFINE s == pkt.Session
           created == Users[s] = Nil
           home == Home(u, created)
<1>1. s \in Sessions /\ pkt.ChannelId \in Opt(ChannelIDs)
  BY DEF UserStatePacket, Opt
<1>2. /\ \A c \in ChanRefs : Members[c][s] # Nil =>
           Members[c][s] = u /\ Channel[u] = c /\ Users[s] = u
      /\ Users[s] = Nil => Channel[u] = Nil
      /\ Users[s] # Nil => userClient[u] /\ Session[u] = s
  BY <1>1, MembersBefore
<1>3. ASSUME NEW i \in ChannelIDs, Channels[i] # Nil
      PROVE  Channels[i] \in ChanRefs /\ ID[Channels[i]] # Nil
  BY SMTT(60), <1>3, ConstantsAssumption DEF GraphInv, GraphTypes, ClientPointers, Opt
<1>4. /\ Channel[u] \in Opt(ChanRefs)
      /\ Channel[u] # Nil => ID[Channel[u]] # Nil /\ Members[Channel[u]][s] = u
  <2>1. CASE Channel[u] = Nil
    BY <2>1 DEF Opt
  <2>2. CASE Channel[u] # Nil
    <3>1. Channel[u] \in ChanRefs
      BY <2>2 DEF GraphInv, GraphTypes, Opt
    <3>2. Members[Channel[u]][s] = u
      BY <1>2, <2>2, <3>1 DEF GraphInv, MembersConsistent
    <3> QED
      BY <1>1, <3>1, <3>2, ConstantsAssumption DEF GraphInv, Blank, Opt
  <2> QED
    BY SMTT(90), <2>1, <2>2
<1>5. home \in Opt(ChanRefs) /\ (home # Nil => ID[home] # Nil)
  BY <1>3, <1>4, ConstantsAssumption DEF Home, GraphInv, GraphTypes
<1>6. ASSUME NEW from \in Opt(ChanRefs), NEW to \in Opt(ChanRefs),
             Channel[u] \in {Nil, from}
      PROVE  /\ MoveUser(u, s, from, to) \in [ChanRefs -> [Sessions -> Opt(UserRefs)]]
             /\ \A c \in ChanRefs, t \in Sessions :
                  t # s => MoveUser(u, s, from, to)[c][t] = Members[c][t]
             /\ \A c \in ChanRefs :
                  MoveUser(u, s, from, to)[c][s] = IF c = to THEN u ELSE Nil
  BY SMTT(60), <1>1, <1>2, <1>6, ConstantsAssumption DEF MoveUser, GraphInv, GraphTypes, Opt
<1>7. ~created =>
        \A c \in ChanRefs : Members[c][s] = IF c = Channel[u] THEN u ELSE Nil
  BY SMTT(60), <1>1, <1>2, <1>4, ConstantsAssumption DEF GraphInv, GraphTypes, Opt
<1>m. Members \in [ChanRefs -> [Sessions -> Opt(UserRefs)]]
      /\ Channel \in [UserRefs -> Opt(ChanRefs)]
  BY DEF GraphInv, GraphTypes
<1>u. UserFor(u, s)
  OBVIOUS
<1>h. /\ created => home = Channels[Root] /\ Channel[u] = Nil
      /\ ~created => home = Channel[u]
      /\ Channel[u] \in {Nil, home}
      /\ Nil \in Opt(ChanRefs) /\ \A c \in ChanRefs : c # Nil
  BY <1>2, ConstantsAssumption DEF Home, Opt
\* The graph after an outcome that leaves u in the channel to.
<1>e. ASSUME NEW to \in Opt(ChanRefs), to # Nil => ID[to] # Nil, Enrol(u, s),
             Channel' = [Channel EXCEPT ![u] = to],
             UNCHANGED <<Channels, permissions, ID, Parent, Children, chanClient>>,
             \/ /\ reader' # "blocked"
                /\ \E from \in Opt(ChanRefs) :
                     Channel[u] \in {Nil, from} /\ Members' = MoveUser(u, s, from, to)
             \/ reader' # "blocked" /\ ~created /\ to = Channel[u] /\ Members' = Members
             \/ reader' # "blocked" /\ created /\ to = Nil /\ Members' = Members
             \/ /\ reader' = "blocked"
                /\ \E from \in Opt(ChanRefs) :
                     Channel[u] \in {Nil, from} /\ Members' = MoveUser(u, s, from, Nil)
      PROVE  GraphInv'
  <2> HIDE DEF s, created, home
  <2>1. Members' \in [ChanRefs -> [Sessions -> Opt(UserRefs)]]
    BY SMTT(30), <1>6, <1>m, <1>h, <1>e
  <2>2. \A c \in ChanRefs, t \in Sessions : t # s => Members'[c][t] = Members[c][t]
    BY SMTT(90), <1>6, <1>h, <1>e
  <2>3. created => \A c \in ChanRefs : Members[c][s] = Nil
    BY <1>2, ConstantsAssumption, Zenon DEF created
  <2>4. \A c \in ChanRefs :
          Members'[c][s] = IF c = to /\ reader' # "blocked" THEN u ELSE Nil
    BY SMTT(60), <1>6, <1>7, <1>h, <1>e, <2>3
  <2> QED
    BY ZenonT(30), <1>1, <1>u, <1>e, <2>1, <2>2, <2>4, EnrolGraph
<1>8. CASE UserWithoutRoot(u, pkt)
  <2>1. /\ created /\ Enrol(u, s) /\ reader' = reader
        /\ Members' = Members /\ Channel' = Channel
        /\ UNCHANGED <<Channels, permissions, ID, Parent, Children, chanClient>>
    BY ZenonT(30), <1>8 DEF UserWithoutRoot, chanVars
  <2>2. Channel' = [Channel EXCEPT ![u] = Nil]
    BY <1>h, <1>m, <2>1
  <2> HIDE DEF s, created, home
  <2> QED
    BY ZenonT(30), <1>e, <1>h, <2>1, <2>2
<1>9. CASE UserWithUnknownActor(u, pkt)
  <2>1. /\ Enrol(u, s) /\ reader' = reader
        /\ Channel' = [Channel EXCEPT ![u] = home]
        /\ Members' = IF created THEN MoveUser(u, s, Nil, Channels[Root]) ELSE Members
        /\ UNCHANGED <<Channels, permissions, ID, Parent, Children, chanClient>>
    BY ZenonT(30), <1>9 DEF UserWithUnknownActor
  <2> HIDE DEF s, created, home
  <2> QED
    BY ZenonT(30), <1>5, <1>e, <1>h, <2>1
<1>10. CASE UserToUnknownChannel(u, pkt)
  <2>1. /\ Enrol(u, s) /\ reader' = "blocked"
        /\ Channel' = [Channel EXCEPT ![u] = home]
        /\ Members' = MoveUser(u, s, home, Nil)
        /\ UNCHANGED <<Channels, permissions, ID, Parent, Children, chanClient>>
    BY ZenonT(30), <1>10 DEF UserToUnknownChannel
  <2> HIDE DEF s, created, home
  <2> QED
    BY ZenonT(30), <1>5, <1>e, <1>h, <2>1
<1>11. CASE ApplyUserState(u, pkt)
  <2> DEFINE to == IF pkt.ChannelId = Nil THEN home ELSE Channels[pkt.ChannelId]
  <2>1. /\ Enrol(u, s) /\ reader' = reader
        /\ Channel' = [Channel EXCEPT ![u] = to]
        /\ Members' = IF created \/ pkt.ChannelId # Nil
                      THEN MoveUser(u, s, home, to) ELSE Members
        /\ pkt.ChannelId # Nil => Channels[pkt.ChannelId] # Nil
        /\ UNCHANGED <<Channels, permissions, ID, Parent, Children, chanClient>>
    BY ZenonT(30), <1>11 DEF ApplyUserState
  <2>2. to \in Opt(ChanRefs) /\ (to # Nil => ID[to] # Nil)
    BY ZenonT(30), <1>1, <1>3, <1>5, <2>1 DEF Opt
  <2>3. ~(created \/ pkt.ChannelId # Nil) => to = Channel[u]
    BY <1>h
  <2> HIDE DEF s, created, home, to
  <2> QED
    BY ZenonT(30), <1>5, <1>e, <1>h, <2>1, <2>2, <2>3
<1> QED
  BY <1>8, <1>9, <1>10, <1>11

-----------------------------------------------------------------------------
(* handleUserRemove                                                        *)

\* Removing a user from the table and from its channel keeps the invariant.
LEMMA UserRemoveGraph ==
  ASSUME GraphInv, NEW pkt \in UserRemovePacket, Known(Users, pkt.Session),
         RemoveUser(Users[pkt.Session], pkt)
  PROVE  GraphInv'
<1> DEFINE s == pkt.Session
           u == Users[s]
<1>1. s \in Sessions /\ u \in UserRefs /\ userClient[u] /\ Session[u] = s
  BY SMTT(30) DEF Known, UserRemovePacket, GraphInv, GraphTypes, ClientPointers, Opt
<1>2. /\ userClient' = [userClient EXCEPT ![u] = FALSE]
      /\ Members' = [c \in ChanRefs |->
           IF c = Channel[u] THEN [Members[c] EXCEPT ![s] = Nil] ELSE Members[c]]
      /\ Users' = [Users EXCEPT ![s] = Nil]
      /\ UNCHANGED <<reader, Channels, permissions, ID, Parent, Children,
                     chanClient, Session, Channel>>
  BY DEF RemoveUser
<1>3. \A x \in UserRefs : x # u /\ userClient[x] => Session[x] # s
  BY InTable
<1>4. u = Users[s]
  OBVIOUS
<1> HIDE DEF s, u
<1>5. GraphTypes'
  BY <1>1, <1>2 DEF GraphInv, GraphTypes, Opt
<1>6. ClientPointers'
  <2>1. ASSUME NEW t \in Sessions, NEW x \in UserRefs, Users'[t] = x
        PROVE  userClient'[x] /\ Session'[x] = t
    BY SMTT(90), <1>1, <1>2, <2>1, ConstantsAssumption
       DEF GraphInv, GraphTypes, ClientPointers
  <2>2. ASSUME NEW x \in UserRefs, userClient'[x]
        PROVE  UserLive(x)'
    BY SMTT(90), <1>1, <1>2, <1>3, <2>2, InTable DEF GraphInv, GraphTypes, UserLive
  <2> QED
    BY SMTT(90), <1>2, <2>1, <2>2 DEF GraphInv, ClientPointers, ChannelLive
<1>7. Blank'
  BY SMTT(30), <1>1, <1>2 DEF GraphInv, GraphTypes, Blank
<1>8. TreeConsistent' /\ PermissionsKnown'
  <2>1. UNCHANGED <<Channels, permissions, ID, Parent, Children, chanClient>>
    BY <1>2
  <2> QED
    BY SMTT(60), <2>1 DEF GraphInv, TreeConsistent, PermissionsKnown
<1>9. MembersConsistent'
  <2>1. ASSUME NEW x \in UserRefs, NEW c \in ChanRefs,
               reader' # "blocked", userClient'[x], Channel'[x] = c
        PROVE  Members'[c][Session'[x]] = x
    <3>1. x # u /\ userClient[x] /\ Session[x] \in Sessions /\ Session[x] # s
      BY <1>1, <1>2, <1>3, <2>1, InTable DEF GraphInv, GraphTypes
    <3>2. Members[c][Session[x]] = x
      BY ZenonT(30), <1>2, <2>1, <3>1 DEF GraphInv, MembersConsistent
    <3> QED
      BY SMTT(90), <1>1, <1>2, <3>1, <3>2 DEF GraphInv, GraphTypes
  <2>2. ASSUME NEW c \in ChanRefs, NEW x \in UserRefs, NEW t \in Sessions,
               Members'[c][t] = x
        PROVE  userClient'[x] /\ Session'[x] = t /\ Channel'[x] = c
    <3>1. Members[c][t] = x /\ ~(c = Channel[u] /\ t = s)
      BY SMTT(90), <1>1, <1>2, <2>2, ConstantsAssumption DEF GraphInv, GraphTypes
    <3>2. userClient[x] /\ Session[x] = t /\ Channel[x] = c
      BY SMTT(60), <3>1 DEF GraphInv, MembersConsistent
    <3>3. x # u
      BY <1>1, <3>1, <3>2
    <3> QED
      BY SMTT(30), <1>2, <3>2, <3>3 DEF GraphInv, GraphTypes
  <2> QED
    BY SMTT(30), <2>1, <2>2 DEF MembersConsistent
<1> QED
  BY <1>5, <1>6, <1>7, <1>8, <1>9 DEF GraphInv

-----------------------------------------------------------------------------
(* handleChannelState                                                      *)

\* What the handler does to the graph: c, found or new, is in the table
\* under id and has the parent new.
LEMMA ChannelStateGraph ==
  ASSUME GraphInv, NEW pkt \in ChannelStatePacket, NEW c \in ChanRefs,
         pkt.ChannelId # Nil, ChannelFor(c, pkt.ChannelId),
         ApplyChannelState(c, pkt)
  PROVE  GraphInv'
<1> DEFINE id == pkt.ChannelId
           table == [Channels EXCEPT ![id] = c]
           new == IF pkt.Parent = Nil THEN Parent[c] ELSE table[pkt.Parent]
<1>1. id \in ChannelIDs /\ pkt.Parent \in Opt(ChannelIDs)
  BY DEF ChannelStatePacket, Opt
<1>2. new \in Opt(ChanRefs)
  BY <1>1 DEF GraphInv, GraphTypes, Opt
<1>3. /\ Channels' = table
      /\ ID' = [ID EXCEPT ![c] = id]
      /\ chanClient' = [chanClient EXCEPT ![c] = TRUE]
      /\ Parent' = [Parent EXCEPT ![c] = new]
      /\ Children' = IF pkt.Parent = Nil THEN Children
                     ELSE MoveChild(c, id, Parent[c], new)
      /\ UNCHANGED <<reader, Users, permissions, Members, Session, Channel, userClient>>
  BY Zenon DEF ApplyChannelState, userVars
<1>4. /\ ID[c] = Nil \/ (ID[c] = id /\ chanClient[c])
      /\ \A i \in ChannelIDs : Channels[i] = c => i = id
      /\ \A x \in ChanRefs : x # c /\ chanClient[x] => ID[x] # id
  BY <1>1, InTable, ConstantsAssumption
     DEF ChannelFor, GraphInv, ClientPointers, GraphTypes
<1> HIDE DEF id, new
<1>5. GraphTypes'
  BY <1>1, <1>2, <1>3, Zenon DEF GraphInv, GraphTypes, MoveChild, Opt
<1>6. ClientPointers'
  <2>1. ASSUME NEW i \in ChannelIDs, NEW x \in ChanRefs, Channels'[i] = x
        PROVE  chanClient'[x] /\ ID'[x] = i
    BY <1>1, <1>3, <1>4, <2>1 DEF GraphInv, GraphTypes, ClientPointers
  <2>2. ASSUME NEW x \in ChanRefs, chanClient'[x]
        PROVE  ChannelLive(x)'
    <3>1. CASE x = c
      BY <1>1, <1>3, <3>1, Zenon DEF GraphInv, GraphTypes, ChannelLive
    <3>2. CASE x # c
      BY <1>1, <1>3, <1>4, <2>2, <3>2, InTable, Zenon DEF GraphInv, GraphTypes, ChannelLive
    <3> QED
      BY <3>1, <3>2
  <2> QED
    BY <1>3, <2>1, <2>2, Zenon DEF GraphInv, ClientPointers, UserLive
<1>7. Blank'
  <2>1. pkt.Parent # Nil => new = Nil \/ new = c \/ ID[new] # Nil
    BY <1>1, <1>2, ConstantsAssumption
       DEF GraphInv, GraphTypes, ClientPointers, Opt, new
  <2> QED
    BY <1>1, <1>2, <1>3, <2>1, ConstantsAssumption
       DEF GraphInv, GraphTypes, Blank, MoveChild
<1>8. TreeConsistent'
  <2>1. ASSUME NEW x \in ChanRefs, NEW p \in ChanRefs,
               chanClient'[x], Parent'[x] = p
        PROVE  Children'[p][ID'[x]] = x
    <3>1. CASE x = c /\ pkt.Parent # Nil
      BY <1>1, <1>2, <1>3, <2>1, <3>1, Zenon DEF GraphInv, GraphTypes, MoveChild
    <3>2. CASE x = c /\ pkt.Parent = Nil
      BY <1>1, <1>3, <1>4, <2>1, <3>2, ConstantsAssumption
         DEF GraphInv, GraphTypes, Blank, TreeConsistent, new
    <3>3. CASE x # c
      <4>1. ID'[x] = ID[x] /\ ID[x] \in ChannelIDs /\ ID[x] # id
        BY <1>3, <1>4, <2>1, <3>3, InTable, Zenon DEF GraphInv, GraphTypes
      <4>2. Children[p][ID[x]] = x
        BY <1>3, <2>1, <3>3 DEF GraphInv, GraphTypes, TreeConsistent
      <4> QED
        BY <1>1, <1>2, <1>3, <4>1, <4>2, ZenonT(30) DEF GraphInv, GraphTypes, MoveChild
    <3> QED
      BY <3>1, <3>2, <3>3, Zenon
  <2>2. ASSUME NEW p \in ChanRefs, NEW x \in ChanRefs, NEW i \in ChannelIDs,
               Children'[p][i] = x
        PROVE  chanClient'[x] /\ ID'[x] = i /\ Parent'[x] = p
    <3>1. CASE pkt.Parent # Nil /\ p = new /\ i = id
      BY <1>1, <1>2, <1>3, <2>2, <3>1, Zenon DEF GraphInv, GraphTypes, MoveChild
    <3>2. CASE ~(pkt.Parent # Nil /\ p = new /\ i = id)
      <4>1. /\ Children[p][i] = x
            /\ ~(pkt.Parent # Nil /\ p = Parent[c] /\ i = id)
        BY <1>1, <1>2, <1>3, <2>2, <3>2, ConstantsAssumption, Zenon
           DEF GraphInv, GraphTypes, MoveChild
      <4>2. chanClient[x] /\ ID[x] = i /\ Parent[x] = p
        BY <4>1 DEF GraphInv, TreeConsistent
      <4>3. CASE x # c
        BY <1>3, <4>2, <4>3, Zenon DEF GraphInv, GraphTypes
      <4>4. CASE x = c
        <5>1. i = id /\ pkt.Parent = Nil
          BY <1>4, <4>1, <4>2, <4>4, ConstantsAssumption, Zenon
        <5> QED
          BY <1>3, <4>2, <4>4, <5>1, Zenon DEF GraphInv, GraphTypes, new
      <4> QED
        BY <4>3, <4>4, Zenon
    <3> QED
      BY <3>1, <3>2, Zenon
  <2> QED
    BY <2>1, <2>2 DEF TreeConsistent
<1>9. MembersConsistent'
  BY <1>3 DEF GraphInv, MembersConsistent
<1>10. PermissionsKnown'
  BY <1>1, <1>3, ConstantsAssumption DEF GraphInv, GraphTypes, PermissionsKnown
<1> QED
  BY <1>5, <1>6, <1>7, <1>8, <1>9, <1>10 DEF GraphInv

-----------------------------------------------------------------------------
(* handleChannelRemove                                                     *)

\* Removing a channel from the table, from its parent's children and from
\* the permissions keeps the invariant; its users keep pointing to it, and
\* it to them.
LEMMA ChannelRemoveGraph ==
  ASSUME GraphInv, NEW id \in ChannelIDs, Channels[id] # Nil,
         RemoveChannel(Channels[id], id)
  PROVE  GraphInv'
<1> DEFINE c == Channels[id]
<1>1. c \in ChanRefs /\ chanClient[c] /\ ID[c] = id
  BY DEF GraphInv, GraphTypes, ClientPointers, Opt
<1>2. /\ chanClient' = [chanClient EXCEPT ![c] = FALSE]
      /\ Channels' = [Channels EXCEPT ![id] = Nil]
      /\ permissions' = permissions \ {id}
      /\ Children' = [p \in ChanRefs |->
           IF p = Parent[c] THEN [Children[p] EXCEPT ![ID[c]] = Nil]
           ELSE Children[p]]
      /\ UNCHANGED <<reader, Users, ID, Parent, Members, Session, Channel, userClient>>
  BY DEF RemoveChannel, userVars
<1>3. \A x \in ChanRefs : x # c /\ chanClient[x] => ID[x] # id
  BY InTable
<1>4. c = Channels[id]
  OBVIOUS
<1> HIDE DEF c
<1>5. GraphTypes'
  BY SMTT(30), <1>1, <1>2 DEF GraphInv, GraphTypes, Opt
<1>6. ClientPointers'
  <2>1. ASSUME NEW i \in ChannelIDs, NEW x \in ChanRefs, Channels'[i] = x
        PROVE  chanClient'[x] /\ ID'[x] = i
    BY <1>1, <1>2, <2>1, ConstantsAssumption
       DEF GraphInv, GraphTypes, ClientPointers
  <2>2. ASSUME NEW x \in ChanRefs, chanClient'[x]
        PROVE  ChannelLive(x)'
    BY <1>1, <1>2, <1>3, <2>2, InTable DEF GraphInv, GraphTypes, ChannelLive
  <2> QED
    BY <1>2, <2>1, <2>2, Zenon DEF GraphInv, ClientPointers, UserLive
<1>7. Blank'
  BY <1>1, <1>2, Zenon DEF GraphInv, GraphTypes, Blank
<1>8. TreeConsistent'
  <2>1. ASSUME NEW x \in ChanRefs, NEW p \in ChanRefs,
               chanClient'[x], Parent'[x] = p
        PROVE  Children'[p][ID'[x]] = x
    <3>1. x # c /\ chanClient[x] /\ ID'[x] = ID[x] /\ ID[x] \in ChannelIDs
      BY <1>1, <1>2, <2>1, InTable, Zenon DEF GraphInv, GraphTypes
    <3>2. Children[p][ID[x]] = x /\ ID[x] # ID[c]
      BY <1>1, <1>2, <1>3, <2>1, <3>1 DEF GraphInv, TreeConsistent
    <3> QED
      BY <1>1, <1>2, <3>1, <3>2, Zenon DEF GraphInv, GraphTypes
  <2>2. ASSUME NEW p \in ChanRefs, NEW x \in ChanRefs, NEW i \in ChannelIDs,
               Children'[p][i] = x
        PROVE  chanClient'[x] /\ ID'[x] = i /\ Parent'[x] = p
    <3>1. Children[p][i] = x /\ ~(p = Parent[c] /\ i = ID[c])
      BY SMTT(30), <1>1, <1>2, <2>2, ConstantsAssumption DEF GraphInv, GraphTypes
    <3>2. chanClient[x] /\ ID[x] = i /\ Parent[x] = p
      BY SMTT(60), <3>1 DEF GraphInv, TreeConsistent
    <3>3. x # c
      BY <3>1, <3>2
    <3> QED
      BY <1>2, <3>2, <3>3 DEF GraphInv, GraphTypes
  <2> QED
    BY <2>1, <2>2 DEF TreeConsistent
<1>9. MembersConsistent'
  BY SMTT(60), <1>2 DEF GraphInv, MembersConsistent
<1>10. PermissionsKnown'
  BY <1>1, <1>2, ConstantsAssumption DEF GraphInv, GraphTypes, PermissionsKnown
<1> QED
  BY <1>5, <1>6, <1>7, <1>8, <1>9, <1>10 DEF GraphInv

-----------------------------------------------------------------------------
(* The whole next-state relation.                                          *)

\* A refused packet, a report or a packet of another kind leaves the graph
\* alone, but for the permissions.
LEMMA OtherGraph ==
  ASSUME GraphInv,
         \/ Refuse
         \/ \E session \in Opt(Sessions) : HandleServerSync(session)
         \/ \E id \in Opt(ChannelIDs), flush \in BOOLEAN : HandlePermissionQuery(id, flush)
         \/ \E sessions, ids : HandleTextMessage(sessions, ids)
         \/ \E ids : HandleUserList(ids)
         \/ \E typed, session, id : HandlePermissionDenied(typed, session, id)
         \/ \E id : HandleACL(id)
         \/ HandleQueryUsers
         \/ \E op : HandleContextActionModify(op)
         \/ UNCHANGED vars
  PROVE  GraphInv'
<1>1. ASSUME UNCHANGED <<Users, Channels, ID, Parent, Children, Members,
                         chanClient, Session, Channel, userClient>>,
             PermissionsKnown', reader # "blocked", reader' # "blocked"
      PROVE  GraphInv'
  BY <1>1 DEF GraphInv, GraphTypes, ClientPointers, Blank, TreeConsistent,
              MembersConsistent, ChannelLive, UserLive
<1>r. CASE Refuse
  BY <1>r, GraphStutter DEF Refuse, graphVars, clientVars, chanVars, userVars
<1>2. ASSUME NEW session, HandleServerSync(session)
      PROVE  GraphInv'
  <2>1. /\ UNCHANGED <<Users, Channels, permissions, chanVars, userVars>>
        /\ reader = "running" /\ reader' \in {"running", "panicked"}
    BY <1>2 DEF HandleServerSync
  <2> QED
    BY <1>1, <2>1, Zenon DEF GraphInv, PermissionsKnown, chanVars, userVars
<1>3. ASSUME NEW id \in Opt(ChannelIDs), NEW flush, HandlePermissionQuery(id, flush)
      PROVE  GraphInv'
  <2>1. CASE ~Refuse
    <3>1. /\ UNCHANGED <<reader, Users, Channels, chanVars, userVars>>
          /\ reader = "running"
          /\ permissions' \subseteq permissions \cup ({id} \ {Nil})
          /\ id # Nil => Channels[id] # Nil
      BY <1>3, <2>1, Zenon DEF HandlePermissionQuery
    <3>2. PermissionsKnown'
      BY <3>1 DEF GraphInv, PermissionsKnown
    <3> QED
      BY <1>1, <3>1, <3>2, Zenon DEF chanVars, userVars
  <2> QED
    BY <1>r, <2>1, Zenon
<1>4. ASSUME NEW kind, NEW about, NEW others, Report(kind, about, others)
      PROVE  GraphInv'
  BY <1>4, GraphStutter DEF Report, graphVars, chanVars, userVars
<1>5. ASSUME NEW sessions, NEW ids, HandleTextMessage(sessions, ids)
      PROVE  GraphInv'
  BY <1>4, <1>5 DEF HandleTextMessage
<1>6. ASSUME NEW ids, HandleUserList(ids)
      PROVE  GraphInv'
  BY <1>4, <1>6 DEF HandleUserList
<1>7. ASSUME NEW typed, NEW session, NEW id, HandlePermissionDenied(typed, session, id)
      PROVE  GraphInv'
  BY <1>4, <1>7, <1>r DEF HandlePermissionDenied
<1>8. ASSUME NEW id, HandleACL(id)
      PROVE  GraphInv'
  <2>1. CASE ~Refuse
    BY <1>8, <2>1, GraphStutter DEF HandleACL, graphVars, chanVars, userVars
  <2> QED
    BY <1>r, <2>1
<1>9. CASE HandleQueryUsers
  BY <1>4, <1>9, <1>r DEF HandleQueryUsers
<1>10. ASSUME NEW op, HandleContextActionModify(op)
       PROVE  GraphInv'
  <2>1. CASE ~Refuse
    <3>1. /\ UNCHANGED <<clientVars, chanVars, userVars>>
          /\ reader = "running" /\ reader' = "panicked"
      BY <1>10, <2>1 DEF HandleContextActionModify
    <3> QED
      BY <1>1, <3>1 DEF GraphInv, PermissionsKnown, clientVars, chanVars, userVars
  <2> QED
    BY <1>r, <2>1
<1>11. CASE UNCHANGED vars
  BY <1>11, GraphStutter, Zenon DEF vars, graphVars, clientVars, chanVars, userVars
<1> QED
  BY <1>r, <1>2, <1>3, <1>5, <1>6, <1>7, <1>8, <1>9, <1>10, <1>11

\* Every packet keeps the invariant.
LEMMA GraphStep == GraphInv /\ [Next]_vars => GraphInv'
<1> SUFFICES ASSUME GraphInv, [Next]_vars PROVE GraphInv'
  OBVIOUS
<1>1. ASSUME NEW pkt \in ChannelStatePacket, HandleChannelState(pkt)
      PROVE  GraphInv'
  BY <1>1, ChannelStateGraph, OtherGraph DEF HandleChannelState
<1>2. ASSUME NEW id \in Opt(ChannelIDs), HandleChannelRemove(id)
      PROVE  GraphInv'
  BY <1>2, ChannelRemoveGraph, OtherGraph
     DEF HandleChannelRemove, Known, Opt
<1>3. ASSUME NEW pkt \in UserStatePacket, HandleUserState(pkt)
      PROVE  GraphInv'
  BY <1>3, UserStateGraph, OtherGraph DEF HandleUserState
<1>4. ASSUME NEW pkt \in UserRemovePacket, HandleUserRemove(pkt)
      PROVE  GraphInv'
  BY <1>4, UserRemoveGraph, OtherGraph DEF HandleUserRemove
<1> QED
  BY <1>1, <1>2, <1>3, <1>4, OtherGraph, ServersAssumption, Zenon DEF Next, Receive

\* The inductive invariant holds in every reachable state.
THEOREM GraphInvariance == Spec => []GraphInv
  BY GraphInit, GraphStep, PTL DEF Spec

\* Whatever the server sends, the client pointer of an object is set exactly
\* while the object is in its table (handlers.go:300-301, 458-462).
THEOREM ClientPointersHold == Spec => []ClientPointers
<1>1. GraphInv => ClientPointers
  BY DEF GraphInv
<1> QED
  BY <1>1, GraphInvariance, PTL

\* Whatever the server sends, Parent and Children mirror each other, also
\* after channels were moved, removed and created again
\* (handlers.go:303-305, 349-361).
THEOREM TreeHolds == Spec => []TreeConsistent
<1>1. GraphInv => TreeConsistent
  BY DEF GraphInv
<1> QED
  BY <1>1, GraphInvariance, PTL

\* Whatever the server sends, and on every error path of the handlers,
\* User.Channel and Channel.Users mirror each other while Client.Do can run
\* (handlers.go:459-461, 506-516, 547-561).
THEOREM MembersHold == Spec => []MembersConsistent
<1>1. GraphInv => MembersConsistent
  BY DEF GraphInv
<1> QED
  BY <1>1, GraphInvariance, PTL

\* No permission is cached for a channel that is not there
\* (handlers.go:302, 1019-1026).
THEOREM PermissionsHold == Spec => []PermissionsKnown
<1>1. GraphInv => PermissionsKnown
  BY DEF GraphInv
<1> QED
  BY <1>1, GraphInvariance, PTL
=============================================================================
