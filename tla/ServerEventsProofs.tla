------------------------- MODULE ServerEventsProofs -------------------------
(***************************************************************************)
(* That links are mutual, and what a program sees of the replica: the      *)
(* objects it holds on to, the lists it keeps from the events, and what    *)
(* the events say; for any sets of IDs, objects and packets.               *)
(***************************************************************************)
EXTENDS ServerStateProofs

-----------------------------------------------------------------------------
(* The links between channels.                                             *)

OnlyAdded == \A s \in DOMAIN Servers : \A pkt \in Servers[s].ChannelState : pkt.Links = {}

\* A channel that is not allocated has no links, and links are mutual.
Mutual(ids, present, links) ==
  /\ \A c \in ChanRefs, i \in ChannelIDs : ids[c] = Nil => links[c][i] = Nil
  /\ \A c, d \in ChanRefs, i \in ChannelIDs :
       present[c] /\ links[c][i] = d =>
         present[d] /\ ids[d] = i /\ links[d][ids[c]] = c
LinkInv == Mutual(ID, chanClient, Links)

\* Both ends of a link are added and removed together.
LEMMA ChannelStateLinks ==
  ASSUME GraphInv, TypeOK, LinkInv, OnlyAdded, NEW pkt, NEW c, SomeChannelState(pkt, c)
  PROVE  LinkInv'
<1> DEFINE id == pkt.ChannelId
           table == [Channels EXCEPT ![id] = c]
           added(i) == i \in pkt.LinksAdd /\ table[i] # Nil
           removed(i) == i \in pkt.LinksRemove /\ table[i] # Nil
<1>1. /\ c \in ChanRefs /\ id \in ChannelIDs /\ ChannelFor(c, id)
      /\ ID' = [ID EXCEPT ![c] = id] /\ chanClient' = [chanClient EXCEPT ![c] = TRUE]
      /\ Links' = Relink(c, id, table, pkt)
      /\ pkt.Links = {} /\ pkt.LinksAdd \subseteq ChannelIDs /\ pkt.LinksRemove \subseteq ChannelIDs
  BY DEF SomeChannelState, ApplyChannelState, OnlyAdded, ChannelStatePacket
<1>t. /\ Channels \in [ChannelIDs -> Opt(ChanRefs)] /\ ID \in [ChanRefs -> Opt(ChannelIDs)]
      /\ Links \in [ChanRefs -> [ChannelIDs -> Opt(ChanRefs)]]
      /\ chanClient \in [ChanRefs -> BOOLEAN]
  BY DEF TypeOK
<1> HIDE DEF id
<1>n. Nil \notin ChanRefs \cup ChannelIDs
  BY ConstantsAssumption
<1>c. (ID[c] = Nil /\ ~chanClient[c]) \/ (ID[c] = id /\ chanClient[c])
  BY <1>1 DEF ChannelFor, GraphInv, ClientPointers, Blank
<1>k. table \in [ChannelIDs -> Opt(ChanRefs)] /\ table[id] = c
  BY <1>1, <1>t DEF Opt
<1>e. ASSUME NEW x \in ChanRefs, NEW i \in ChannelIDs, table[i] = x
      PROVE  ID'[x] = i /\ chanClient'[x]
  BY <1>1, <1>t, <1>c, <1>e, <1>n DEF GraphInv, ClientPointers
<1>l. ASSUME NEW x \in ChanRefs, chanClient'[x]
      PROVE  ID'[x] \in ChannelIDs /\ table[ID'[x]] = x
  <2>1. CASE x = c
    BY <1>1, <1>t, <2>1
  <2>2. CASE x # c
    BY <1>1, <1>t, <1>l, <1>n, <2>2, InTable DEF ChannelFor
  <2> QED
    BY <2>1, <2>2
<1>i. ID'[c] = id /\ chanClient'[c]
  BY <1>1, <1>t
<1>o. ASSUME NEW x \in ChanRefs, x # c
      PROVE  ID'[x] = ID[x] /\ chanClient'[x] = chanClient[x]
  BY <1>1, <1>t, <1>o
<1> HIDE DEF table
<1>3. \* what the packet does to one end
      ASSUME NEW x \in ChanRefs, NEW i \in ChannelIDs
      PROVE  Links'[x][i] =
               IF \/ x = c /\ removed(i)
                  \/ i = id /\ \E j \in ChannelIDs : removed(j) /\ table[j] = x THEN Nil
               ELSE IF i = id /\ \E j \in ChannelIDs : added(j) /\ table[j] = x THEN c
               ELSE IF x = c /\ added(i) THEN table[i]
               ELSE Links[x][i]
  BY <1>1 DEF Relink
<1>4. ASSUME NEW x \in ChanRefs, chanClient'[x]
      PROVE  /\ (\E j \in ChannelIDs : added(j) /\ table[j] = x) <=> added(ID'[x])
             /\ (\E j \in ChannelIDs : removed(j) /\ table[j] = x) <=> removed(ID'[x])
  BY <1>e, <1>l, <1>n, <1>4
<1>g. \A i : added(i) => i \in ChannelIDs /\ table[i] \in ChanRefs
  BY <1>1, <1>k DEF Opt
<1> HIDE DEF added, removed
<1>5. ASSUME NEW i \in ChannelIDs
      PROVE  Links'[c][i] = IF removed(i) THEN Nil
                            ELSE IF added(i) THEN table[i] ELSE Links[c][i]
  <2>1. c \in ChanRefs /\ (i = id => table[i] = c)
    BY <1>1, <1>k
  <2> QED
    BY <1>3, <1>4, <1>i, <2>1
<1>6. ASSUME NEW x \in ChanRefs, NEW i \in ChannelIDs, chanClient'[x], x # c
      PROVE  Links'[x][i] = IF i = id /\ removed(ID'[x]) THEN Nil
                            ELSE IF i = id /\ added(ID'[x]) THEN c ELSE Links[x][i]
  BY <1>3, <1>4, <1>6
<1>7. ASSUME NEW x \in ChanRefs, NEW i \in ChannelIDs, ID'[x] = Nil
      PROVE  Links'[x][i] = Nil
  <2>1. x # c /\ ID[x] = Nil /\ \A j \in ChannelIDs : table[j] # x
    BY <1>1, <1>e, <1>i, <1>n, <1>o, <1>7
  <2>2. Links[x][i] = Nil
    BY <2>1 DEF LinkInv, Mutual
  <2> QED
    BY <1>3, <2>1, <2>2
<1>8. ASSUME NEW x \in ChanRefs, NEW y \in ChanRefs, NEW i \in ChannelIDs,
             chanClient'[x], Links'[x][i] = y
      PROVE  chanClient'[y] /\ ID'[y] = i /\ Links'[y][ID'[x]] = x
  <2>1. CASE x = c /\ added(i) /\ ~removed(i)
    <3>1. y = table[i]
      BY <1>5, <1>8, <2>1
    <3>2. ID'[y] = i /\ chanClient'[y] /\ ID'[x] = id /\ id \in ChannelIDs
      BY <1>1, <1>e, <1>i, <2>1, <3>1
    <3>3. CASE y = c
      BY <1>5, <1>i, <2>1, <3>1, <3>2, <3>3, Zenon
    <3>4. CASE y # c
      BY <1>6, <2>1, <3>2, <3>4
    <3> QED
      BY <3>2, <3>3, <3>4
  <2>2. CASE x # c /\ i = id /\ added(ID'[x]) /\ ~removed(ID'[x])
    <3>1. y = c /\ ID'[x] \in ChannelIDs /\ table[ID'[x]] = x
      BY <1>6, <1>8, <1>l, <2>2
    <3> QED
      BY <1>5, <1>i, <2>2, <3>1
  <2>3. CASE ~(x = c /\ added(i)) /\ ~(x # c /\ i = id /\ added(ID'[x]))
    <3>1. /\ Links[x][i] = y
          /\ x = c => ~removed(i)
          /\ x # c => ~(i = id /\ removed(ID'[x]))
      BY <1>5, <1>6, <1>8, <1>n, <2>3
    <3>2. ID[x] # Nil
      BY <1>n, <3>1 DEF LinkInv, Mutual
    <3>3. chanClient[x] /\ ID[x] = ID'[x] /\ ID[x] \in ChannelIDs
      BY <1>8, <1>c, <1>i, <1>l, <1>o, <3>2
    <3>4. chanClient[y] /\ ID[y] = i /\ Links[y][ID[x]] = x
      BY <3>1, <3>3 DEF LinkInv, Mutual
    <3>5. chanClient'[y] /\ ID'[y] = i
      BY <1>c, <1>i, <1>n, <1>o, <3>4
    <3>6. CASE y = c
      <4>1. x = c => i = id /\ ID'[x] = i
        BY <1>i, <3>5, <3>6
      <4>2. x # c => i = id
        BY <1>i, <3>5, <3>6
      <4> QED
        BY <1>5, <2>3, <3>1, <3>3, <3>4, <3>5, <3>6, <4>1, <4>2
    <3>7. CASE y # c
      <4>1. ID'[x] = id => x = c
        BY <1>8, <1>k, <1>l
      <4> QED
        BY <1>6, <2>3, <3>1, <3>3, <3>4, <3>5, <3>7, <4>1
    <3> QED
      BY <3>6, <3>7
  <2>4. CASE (x = c /\ removed(i)) \/ (x # c /\ i = id /\ removed(ID'[x]))
    BY <1>5, <1>6, <1>8, <1>n, <2>4
  <2> QED
    BY <2>1, <2>2, <2>3, <2>4
<1> QED
  BY <1>7, <1>8 DEF LinkInv, Mutual

\* A channel that is removed is taken out of the links of all that it has.
LEMMA ChannelRemoveLinks ==
  ASSUME GraphInv, TypeOK, LinkInv, NEW id, NEW c, SomeChannelRemove(id, c)
  PROVE  LinkInv'
<1>1. /\ c \in ChanRefs /\ id \in ChannelIDs /\ chanClient[c] /\ ID[c] = id
      /\ chanClient' = [chanClient EXCEPT ![c] = FALSE]
      /\ Links' = Unlink(c, id) /\ ID' = ID
  BY DEF SomeChannelRemove, RemoveChannel, GraphInv, ClientPointers
<1>t. /\ ID \in [ChanRefs -> Opt(ChannelIDs)] /\ chanClient \in [ChanRefs -> BOOLEAN]
      /\ Links \in [ChanRefs -> [ChannelIDs -> Opt(ChanRefs)]]
  BY DEF TypeOK
<1>2. ASSUME NEW x \in ChanRefs, NEW i \in ChannelIDs
      PROVE  Links'[x][i] = IF i = id /\ \E j \in ChannelIDs : Links[c][j] = x
                            THEN Nil ELSE Links[x][i]
  BY <1>1, <1>t DEF Unlink
<1>3. ASSUME NEW x \in ChanRefs, NEW i \in ChannelIDs, ID'[x] = Nil
      PROVE  Links'[x][i] = Nil
  BY <1>1, <1>2, <1>3 DEF LinkInv, Mutual
<1>4. ASSUME NEW x \in ChanRefs, NEW y \in ChanRefs, NEW i \in ChannelIDs,
             chanClient'[x], Links'[x][i] = y
      PROVE  chanClient'[y] /\ ID'[y] = i /\ Links'[y][ID'[x]] = x
  <2>1. chanClient[x] /\ x # c /\ Links[x][i] = y
    BY <1>1, <1>2, <1>4, <1>t, ConstantsAssumption
  <2>2. chanClient[y] /\ ID[y] = i /\ Links[y][ID[x]] = x
    BY <2>1 DEF LinkInv, Mutual
  <2>3. ID[x] \in ChannelIDs /\ ID[x] # id
    BY <1>1, <2>1, InTable
  <2>4. y # c
    <3> SUFFICES ASSUME y = c PROVE FALSE
      OBVIOUS
    <3>1. i = id /\ Links[c][ID[x]] = x
      BY <1>1, <2>2
    <3>2. Links'[x][i] = Nil
      BY <1>2, <2>3, <3>1
    <3> QED
      BY <1>4, <3>2, ConstantsAssumption
  <2> QED
    BY <1>1, <1>2, <1>t, <2>2, <2>3, <2>4
<1> QED
  BY <1>3, <1>4 DEF LinkInv, Mutual

\* A step on users leaves the links alone.
LEMMA LinkStep ==
  ASSUME GraphInv, TypeOK, LinkInv, OnlyAdded, [Next]_vars
  PROVE  LinkInv'
<1>0. UNCHANGED <<ID, chanClient, Links>> => LinkInv'
  BY DEF LinkInv
<1>1. CASE Quiet
  BY <1>0, <1>1 DEF Quiet, chanVars
<1>2. ASSUME NEW session, HandleServerSync(session)
      PROVE  LinkInv'
  BY <1>0, <1>2 DEF HandleServerSync, chanVars
<1>3. ASSUME NEW pkt, NEW u, SomeUserState(pkt, u)
      PROVE  LinkInv'
  BY <1>0, <1>3, UserStateEffect
<1>4. ASSUME NEW pkt, NEW u, SomeUserRemove(pkt, u)
      PROVE  LinkInv'
  BY <1>0, <1>4 DEF SomeUserRemove, RemoveUser
<1> QED
  BY <1>1, <1>2, <1>3, <1>4, ChannelStateLinks, ChannelRemoveLinks, StepKinds

\* If a server only adds and removes links, they are mutual and lead to
\* channels that are there, also when one packet adds and removes the same
\* link or removes a linked channel (handlers.go:306-308, 377-390).
THEOREM LinksHold == Spec => []LinksMutual
<1>1. OnlyAdded /\ Init => LinkInv
  BY ConstantsAssumption DEF Init, LinkInv, Mutual, NoChannels
<1>2. OnlyAdded /\ GraphInv /\ TypeOK /\ LinkInv /\ [Next]_vars => LinkInv'
  BY LinkStep
<1>3. LinkInv => LinksMutual
  BY DEF LinkInv, Mutual, LinksMutual
<1>4. CASE OnlyAdded
  BY <1>1, <1>2, <1>3, <1>4, GraphInvariance, TypeCorrect, PTL DEF Spec
<1>5. CASE ~OnlyAdded
  <2>1. LinksMutual
    BY <1>5 DEF OnlyAdded, LinksMutual
  <2> QED
    BY <2>1, PTL
<1> QED
  BY <1>4, <1>5

-----------------------------------------------------------------------------
(* Objects that were removed.                                              *)

\* An object that was removed stays removed and keeps its identity, so that a
\* program may hold on to it (channels.go:8-17, users.go:12-19).
THEOREM Removed == Spec => RemovedForGood
<1> DEFINE Step ==
      /\ \A c \in ChanRefs : ID[c] # Nil =>
           ID'[c] = ID[c] /\ (~chanClient[c] => ~chanClient'[c] /\ Parent'[c] = Parent[c])
      /\ \A u \in UserRefs : Session[u] # Nil =>
           /\ Session'[u] = Session[u]
           /\ ~userClient[u] => ~userClient'[u] /\ Channel'[u] = Channel[u]
<1>1. ASSUME GraphInv, TypeOK, [Next]_vars
      PROVE  Step
  <2>t. GraphTypes
    BY <1>1 DEF GraphInv
  <2>1. CASE Quiet
    BY <2>1, Zenon DEF Quiet, chanVars, userVars
  <2>2. ASSUME NEW session, HandleServerSync(session)
        PROVE  Step
    BY <2>2 DEF HandleServerSync, chanVars, userVars
  <2>3. ASSUME NEW pkt, NEW c, SomeChannelState(pkt, c)
        PROVE  Step
    <3>1. /\ c \in ChanRefs /\ pkt.ChannelId \in ChannelIDs /\ ChannelFor(c, pkt.ChannelId)
          /\ ID' = [ID EXCEPT ![c] = pkt.ChannelId]
          /\ chanClient' = [chanClient EXCEPT ![c] = TRUE]
          /\ Parent' = [Parent EXCEPT ![c] = Parent'[c]]
          /\ UNCHANGED <<Session, Channel, userClient>>
      BY <2>3, <2>t DEF SomeChannelState, ApplyChannelState, userVars, GraphTypes
    <3>2. ID[c] = Nil \/ (ID[c] = pkt.ChannelId /\ chanClient[c])
      BY <1>1, <3>1 DEF ChannelFor, GraphInv, ClientPointers
    <3> QED
      BY <2>t, <3>1, <3>2, Zenon DEF GraphTypes
  <2>4. ASSUME NEW id, NEW c, SomeChannelRemove(id, c)
        PROVE  Step
    BY <2>4, <2>t DEF SomeChannelRemove, RemoveChannel, userVars, GraphTypes
  <2>5. ASSUME NEW pkt, NEW u, SomeUserState(pkt, u)
        PROVE  Step
    BY <1>1, <2>5, <2>t, UserStateEffect DEF GraphTypes
  <2>6. ASSUME NEW pkt, NEW u, SomeUserRemove(pkt, u)
        PROVE  Step
    BY <2>6, <2>t, Zenon DEF SomeUserRemove, RemoveUser, GraphTypes
  <2> QED
    BY <1>1, <2>1, <2>2, <2>3, <2>4, <2>5, <2>6, StepKinds
<1>2. GraphInv /\ TypeOK /\ [Next]_vars => [Step]_vars
  BY <1>1
<1> QED
  BY <1>2, GraphInvariance, TypeCorrect, PTL DEF Spec, RemovedForGood

-----------------------------------------------------------------------------
(* The lists of a listener.                                                *)

\* No field of a channel is named like the flags for objects that come and go.
LEMMA ChannelFlags ==
  ASSUME TypeOK, NEW c \in ChanRefs, NEW created \in BOOLEAN, NEW new, NEW table, NEW pkt
  PROVE  /\ "Created" \in ChannelStateType(c, created, new, table, pkt) <=> created
         /\ "Removed" \notin ChannelStateType(c, created, new, table, pkt)
<1>1. DOMAIN chanData[c].fields = ChannelFields
  BY DEF TypeOK, ChannelData
<1>2. Changed(chanData[c].fields, pkt.fields) \subseteq ChannelFields
  BY <1>1 DEF Changed
<1> QED
  BY <1>2 DEF ChannelStateType, ChannelFields, Flag, BlobFlag

\* Nor is one of a user.
LEMMA UserFlags ==
  ASSUME TypeOK, NEW u \in UserRefs, NEW created \in BOOLEAN, NEW to, NEW pkt
  PROVE  /\ "Connected" \in UserStateType(u, created, to, pkt) <=> created
         /\ "Disconnected" \notin UserStateType(u, created, to, pkt)
<1>1. DOMAIN userData[u].fields = UserFields
  BY DEF TypeOK, UserData
<1>2. Changed(userData[u].fields, pkt.fields) \subseteq UserFields
  BY <1>1 DEF Changed
<1> QED
  BY <1>2 DEF UserStateType, UserFields, Flag, BlobFlag

\* Every step changes the listener's lists the way it changes the tables.
LEMMA FollowStep ==
  ASSUME GraphInv, TypeOK, ListenersFollow, [Next]_vars
  PROVE  ListenersFollow'
<1>t. GraphTypes /\ ClientPointers
  BY DEF GraphInv
<1>1. CASE Quiet
  BY <1>1 DEF Quiet, chanVars, userVars, seenVars, ListenersFollow
<1>2. ASSUME NEW session, HandleServerSync(session)
      PROVE  ListenersFollow'
  <2>1. /\ seenUsers' = {u \in UserRefs : userClient[u]}
        /\ seenChannels' = {c \in ChanRefs : chanClient[c]}
    BY <1>2, <1>t DEF HandleServerSync, ClientPointers, ChannelLive, UserLive
  <2> QED
    BY <1>2, <2>1 DEF HandleServerSync, chanVars, userVars, ListenersFollow
<1>3. ASSUME NEW pkt, NEW c, SomeChannelState(pkt, c)
      PROVE  ListenersFollow'
  <2> DEFINE id == pkt.ChannelId
             table == [Channels EXCEPT ![id] = c]
             new == IF pkt.Parent = Nil THEN Parent[c] ELSE table[pkt.Parent]
             type == ChannelStateType(c, Channels[id] = Nil, new, table, pkt)
  <2>1. /\ c \in ChanRefs /\ id \in ChannelIDs /\ ChannelFor(c, id)
        /\ chanClient' = [chanClient EXCEPT ![c] = TRUE]
        /\ OnChannelChange(type, c)
        /\ UNCHANGED <<state, reader, userClient, halfDone>>
    BY <1>3 DEF SomeChannelState, ApplyChannelState, userVars
  <2>2. Channels[id] # Nil => chanClient[c]
    BY <1>t, <2>1 DEF ChannelFor, ClientPointers
  <2>3. ("Created" \in type <=> Channels[id] = Nil) /\ "Removed" \notin type
    BY <2>1, ChannelFlags, Zenon
  <2> HIDE DEF type, id
  <2>4. state = "Synced" => seenChannels' = seenChannels \cup {x \in {c} : Channels[id] = Nil}
    BY <2>1, <2>3 DEF OnChannelChange
  <2>5. {x \in ChanRefs : chanClient'[x]} = {x \in ChanRefs : chanClient[x]} \cup {c}
    BY <1>t, <2>1 DEF GraphTypes
  <2> QED
    BY <2>1, <2>2, <2>4, <2>5 DEF OnChannelChange, ListenersFollow
<1>4. ASSUME NEW id, NEW c, SomeChannelRemove(id, c)
      PROVE  ListenersFollow'
  <2>1. /\ c \in ChanRefs /\ chanClient' = [chanClient EXCEPT ![c] = FALSE]
        /\ OnChannelChange({"Removed"}, c)
        /\ UNCHANGED <<state, reader, userClient, halfDone>>
    BY <1>4, Zenon DEF SomeChannelRemove, RemoveChannel, userVars
  <2>2. {x \in ChanRefs : chanClient'[x]} = {x \in ChanRefs : chanClient[x]} \ {c}
    BY <1>t, <2>1 DEF GraphTypes
  <2>3. state = "Synced" => seenChannels' = seenChannels \ {c}
    BY <2>1 DEF OnChannelChange
  <2> QED
    BY <2>1, <2>2, <2>3 DEF OnChannelChange, ListenersFollow
<1>5. ASSUME NEW pkt, NEW u, SomeUserState(pkt, u)
      PROVE  ListenersFollow'
  <2> DEFINE s == pkt.Session
             created == Users[s] = Nil
             home == Home(u, created)
             to == IF pkt.ChannelId = Nil THEN home ELSE Channels[pkt.ChannelId]
             type == UserStateType(u, created, to, pkt)
             actor == IF pkt.Actor = Nil THEN Nil ELSE Users'[pkt.Actor]
  <2>1. /\ u \in UserRefs
        /\ userClient' = [userClient EXCEPT ![u] = TRUE]
        /\ userClient[u] <=> ~created
        /\ UNCHANGED <<state, chanClient, seenChannels>>
    BY <1>5, UserStateEffect
  <2>2. reader = "running"
    BY <1>5 DEF SomeUserState
  <2>3. {x \in UserRefs : userClient'[x]}
          = {x \in UserRefs : userClient[x]} \cup {x \in {u} : created}
    BY <1>t, <2>1 DEF GraphTypes
  <2>4. CASE UserWithoutRoot(u, pkt) \/ UserToUnknownChannel(u, pkt)
    BY <2>1, <2>4 DEF UserWithoutRoot, UserToUnknownChannel, ListenersFollow
  <2>5. CASE UserWithUnknownActor(u, pkt)
    <3>1. halfDone' = (halfDone \/ created) /\ seenUsers' = seenUsers
      BY <2>5, Zenon DEF UserWithUnknownActor, OnNothing, seenVars
    <3> QED
      BY <2>1, <2>2, <2>3, <3>1, Zenon DEF ListenersFollow
  <2>6. CASE ApplyUserState(u, pkt)
    <3>1. OnUserChange(type, u, actor) /\ halfDone' = halfDone
      BY <2>6, Zenon DEF ApplyUserState
    <3>2. ("Connected" \in type <=> created) /\ "Disconnected" \notin type
      BY <2>1, UserFlags, Zenon
    <3> HIDE DEF type, created
    <3>3. state = "Synced" => seenUsers' = seenUsers \cup {x \in {u} : created}
      BY <3>1, <3>2 DEF OnUserChange
    <3> QED
      BY <2>1, <2>2, <2>3, <3>1, <3>3, Zenon DEF ListenersFollow
  <2> QED
    BY <1>5, <2>4, <2>5, <2>6 DEF SomeUserState
<1>6. ASSUME NEW pkt, NEW u, SomeUserRemove(pkt, u)
      PROVE  ListenersFollow'
  <2>1. /\ u \in UserRefs /\ userClient' = [userClient EXCEPT ![u] = FALSE]
        /\ \E actor, more : OnUserChange({"Disconnected"} \cup more, u, actor)
        /\ UNCHANGED <<state, reader, chanClient, halfDone>>
    BY <1>6, Zenon DEF SomeUserRemove, RemoveUser
  <2>2. {x \in UserRefs : userClient'[x]} = {x \in UserRefs : userClient[x]} \ {u}
    BY <1>t, <2>1 DEF GraphTypes
  <2>3. state = "Synced" => seenUsers' = seenUsers \ {u}
    BY <2>1 DEF OnUserChange
  <2> QED
    BY <2>1, <2>2, <2>3 DEF OnUserChange, ListenersFollow
<1> QED
  BY <1>1, <1>2, <1>3, <1>4, <1>5, <1>6, StepKinds

\* Whatever the server sends, the change events tell a listener of every
\* channel and user that comes and goes, unless a handler gives up half-way
\* (handlers.go:420, 480, 633).
THEOREM Follow == Spec => []ListenersFollow
<1>1. Init => ListenersFollow
  BY DEF Init, ListenersFollow
<1>2. GraphInv /\ TypeOK /\ ListenersFollow /\ [Next]_vars => ListenersFollow'
  BY FollowStep
<1> QED
  BY <1>1, <1>2, GraphInvariance, TypeCorrect, PTL DEF Spec
-----------------------------------------------------------------------------
(* What the events say.                                                    *)

\* The only event of a handler that changes a user.
LEMMA UserEvents ==
  ASSUME NEW type, NEW u, NEW actor, OnUserChange(type, u, actor)
  PROVE  \A e \in events' : /\ e.kind = "UserChange" /\ e.Type = type
                            /\ e.about = u /\ e.others = {actor}
  BY DEF OnUserChange, UserEvent

\* The only event of a handler that changes a channel.
LEMMA ChannelEvents ==
  ASSUME NEW type, NEW c, OnChannelChange(type, c)
  PROVE  \A e \in events' : /\ e.kind = "ChannelChange" /\ e.Type = type
                            /\ e.about = c /\ e.others = {}
  BY DEF OnChannelChange, ChannelEvent

\* A handler names objects that are in the tables when it is done.
LEMMA UsableStep ==
  ASSUME GraphInv, GraphInv', TypeOK, EventObjectsUsable, [Next]_vars
  PROVE  EventObjectsUsable'
<1> DEFINE usable(x) == (x \in UserRefs /\ userClient'[x]) \/ (x \in ChanRefs /\ chanClient'[x])
           Good(e) ==
             /\ e.kind \in {"UserChange", "ChannelChange"}
                  /\ e.Type \cap {"Removed", "Disconnected"} = {} => usable(e.about)
             /\ \A x \in e.others \ {Nil, e.about} : usable(x)
<1>p. /\ \A x \in UserRefs, k \in Sessions : Users'[k] = x => usable(x)
      /\ \A x \in ChanRefs, k \in ChannelIDs : Channels'[k] = x => usable(x)
  BY DEF GraphInv, ClientPointers
<1>t. Users' \in [Sessions -> Opt(UserRefs)]
  BY DEF GraphInv, GraphTypes
<1>g. (\A e \in events' : Good(e)) => EventObjectsUsable'
  BY DEF EventObjectsUsable
<1>1. CASE Quiet
  <2>1. CASE UNCHANGED vars
    BY <2>1 DEF vars, chanVars, userVars, EventObjectsUsable
  <2>2. CASE Harmless(events')
    <3>1. \A x : Present(x) => usable(x)
      BY <1>1, <1>p DEF Quiet, Present
    <3> QED
      BY <1>g, <2>2, <3>1 DEF Harmless
  <2> QED
    BY <1>1, <2>1, <2>2 DEF Quiet
<1>2. ASSUME NEW session, HandleServerSync(session)
      PROVE  EventObjectsUsable'
  BY <1>2, <1>g DEF HandleServerSync
<1>3. ASSUME NEW pkt, NEW c, SomeChannelState(pkt, c)
      PROVE  EventObjectsUsable'
  <2>1. /\ c \in ChanRefs /\ chanClient' = [chanClient EXCEPT ![c] = TRUE]
        /\ \E type : OnChannelChange(type, c)
    BY <1>3 DEF SomeChannelState, ApplyChannelState
  <2>2. usable(c)
    BY <2>1 DEF GraphInv, GraphTypes
  <2>3. \A e \in events' : e.about = c /\ e.others = {}
    BY <2>1, ChannelEvents
  <2> QED
    BY <1>g, <2>2, <2>3
<1>4. ASSUME NEW id, NEW c, SomeChannelRemove(id, c)
      PROVE  EventObjectsUsable'
  <2>1. OnChannelChange({"Removed"}, c)
    BY <1>4 DEF SomeChannelRemove, RemoveChannel
  <2>2. \A e \in events' : e.Type = {"Removed"} /\ e.others = {}
    BY <2>1, ChannelEvents
  <2> QED
    BY <1>g, <2>2
<1>5. ASSUME NEW pkt, NEW u, SomeUserState(pkt, u)
      PROVE  EventObjectsUsable'
  <2>1. pkt.Actor \in Opt(Sessions) /\ u \in UserRefs
    BY <1>5, Zenon DEF SomeUserState, UserStatePacket
  <2>2. CASE UserWithoutRoot(u, pkt) \/ UserWithUnknownActor(u, pkt) \/ UserToUnknownChannel(u, pkt)
    BY <1>g, <2>2, ZenonT(30) DEF UserWithoutRoot, UserWithUnknownActor, UserToUnknownChannel, OnNothing
  <2>3. CASE ApplyUserState(u, pkt)
    <3> DEFINE actor == IF pkt.Actor = Nil THEN Nil ELSE Users'[pkt.Actor]
    <3>1. \E type : OnUserChange(type, u, actor)
      BY <2>3, Zenon DEF ApplyUserState
    <3>2. usable(u)
      <4>1. userClient' = [userClient EXCEPT ![u] = TRUE]
        BY <1>5, UserStateEffect
      <4> QED
        BY <2>1, <4>1 DEF GraphInv, GraphTypes
    <3>3. actor # Nil => usable(actor)
      BY <1>p, <1>t, <2>1 DEF Opt
    <3> HIDE DEF actor
    <3>4. \A e \in events' : e.about = u /\ e.others = {actor}
      BY <3>1, UserEvents
    <3> QED
      BY <1>g, <3>2, <3>3, <3>4, Zenon
  <2> QED
    BY <1>5, <2>2, <2>3 DEF SomeUserState
<1>6. ASSUME NEW pkt, NEW u, SomeUserRemove(pkt, u)
      PROVE  EventObjectsUsable'
  <2> DEFINE actor == IF pkt.Actor = Nil THEN Nil ELSE Users[pkt.Actor]
  <2>1. /\ pkt.Actor \in Opt(Sessions) /\ u \in UserRefs /\ pkt.Session \in Sessions
        /\ Users[pkt.Session] = u /\ Users' = [Users EXCEPT ![pkt.Session] = Nil]
        /\ \E more : OnUserChange({"Disconnected"} \cup more, u, actor)
    BY <1>6, Zenon DEF SomeUserRemove, RemoveUser, UserRemovePacket
  <2>2. actor \notin {Nil, u} => usable(actor)
    <3> SUFFICES ASSUME actor \notin {Nil, u} PROVE usable(actor)
      OBVIOUS
    <3>1. pkt.Actor \in Sessions /\ pkt.Actor # pkt.Session /\ actor = Users[pkt.Actor]
      BY <2>1, Zenon DEF Opt
    <3>2. Users'[pkt.Actor] = actor
      BY <2>1, <3>1, Zenon DEF GraphInv, GraphTypes
    <3>3. actor \in UserRefs
      BY <1>t, <3>1, <3>2 DEF Opt
    <3> HIDE DEF actor
    <3> QED
      BY <1>p, <3>1, <3>2, <3>3
  <2> HIDE DEF actor
  <2>3. \A e \in events' : "Disconnected" \in e.Type /\ e.about = u /\ e.others = {actor}
    BY <2>1, UserEvents
  <2> QED
    BY <1>g, <2>2, <2>3
<1> QED
  BY <1>1, <1>2, <1>3, <1>4, <1>5, <1>6, StepKinds

\* Whatever the server sends, an event names objects that are on the server,
\* but for the one whose removal it reports (handlers.go:420, 480, 633, 1033).
THEOREM Usable == Spec => []EventObjectsUsable
<1>1. Init => EventObjectsUsable
  BY DEF Init, EventObjectsUsable
<1>2. GraphInv /\ GraphInv' /\ TypeOK /\ EventObjectsUsable /\ [Next]_vars => EventObjectsUsable'
  BY UsableStep, Zenon
<1> QED
  BY <1>1, <1>2, GraphInvariance, TypeCorrect, PTL DEF Spec

\* The fields that the comparisons find are those that the copies change.
LEMMA ChangedFields ==
  ASSUME NEW F, NEW old, DOMAIN old = F, NEW new, NEW f \in F
  PROVE  f \in Changed(old, new) <=> SetFields(old, new, F)[f] # old[f]
  BY Zenon DEF Changed, SetFields

\* The flags of a change event name what the handler changed, whatever the
\* packet and the object held before (handlers.go:354-406, 529-628).
THEOREM TellChanges == Spec => EventsTellChanges
<1> DEFINE UserTold(u, type) ==
             /\ \A f \in UserFields \ {"Hash"} :
                  f \in type <=> userData'[u].fields[f] # userData[u].fields[f]
             /\ "Channel" \in type <=> Channel'[u] # Channel[u]
           ChannelTold(c, type) ==
             /\ \A f \in {"Name", "Position"} :
                  f \in type <=> chanData'[c].fields[f] # chanData[c].fields[f]
             /\ "Moved" \in type <=> Parent'[c] # Parent[c]
           Step == \A e \in events' :
             /\ e.kind = "UserChange" => UserTold(e.about, e.Type)
             /\ e.kind = "ChannelChange" => ChannelTold(e.about, e.Type)
<1>1. ASSUME GraphInv, TypeOK, [Next]_vars
      PROVE  [Step]_vars
  <2>t. /\ chanData \in [ChanRefs -> ChannelData] /\ userData \in [UserRefs -> UserData]
        /\ Parent \in [ChanRefs -> Opt(ChanRefs)] /\ Channel \in [UserRefs -> Opt(ChanRefs)]
        /\ Channels \in [ChannelIDs -> Opt(ChanRefs)]
    BY <1>1 DEF TypeOK
  <2>1. CASE Quiet
    <3>1. CASE UNCHANGED vars
      BY <3>1, Zenon
    <3>2. CASE Harmless(events')
      <4>1. UNCHANGED <<chanData, userData, Parent, Channel>>
        BY <2>1 DEF Quiet, chanVars, userVars
      <4> QED
        BY <3>2, <4>1 DEF Harmless, UserFields
    <3> QED
      BY <2>1, <3>1, <3>2, ZenonT(30) DEF Quiet
  <2>2. ASSUME NEW session, HandleServerSync(session)
        PROVE  Step
    <3>1. \A e \in events' : e.kind = "Connect"
      BY <2>2 DEF HandleServerSync
    <3> HIDE DEF UserTold, ChannelTold
    <3> QED
      BY <3>1
  <2>3. ASSUME NEW pkt, NEW c, SomeChannelState(pkt, c)
        PROVE  Step
    <3> DEFINE id == pkt.ChannelId
               table == [Channels EXCEPT ![id] = c]
               new == IF pkt.Parent = Nil THEN Parent[c] ELSE table[pkt.Parent]
               type == ChannelStateType(c, Channels[id] = Nil, new, table, pkt)
    <3>1. /\ c \in ChanRefs /\ OnChannelChange(type, c)
          /\ Parent' = [Parent EXCEPT ![c] = new]
          /\ chanData' = [chanData EXCEPT ![c] =
               [fields |-> SetFields(@.fields, pkt.fields, ChannelFields),
                Description |-> SetBlob(@.Description, pkt.Description)]]
      BY <2>3, Zenon DEF SomeChannelState, ApplyChannelState
    <3>2. /\ "Moved" \in type <=> new # Parent[c]
          /\ \A f \in {"Name", "Position"} :
               f \in type <=> f \in Changed(chanData[c].fields, pkt.fields)
      <4>1. Changed(chanData[c].fields, pkt.fields) \subseteq ChannelFields
        BY <2>t, <3>1, Zenon DEF Changed, ChannelData
      <4> HIDE DEF new
      <4> QED
        BY <4>1, ZenonT(30) DEF ChannelStateType, ChannelFields, Flag, BlobFlag
    <3> HIDE DEF type, new
    <3>3. chanData'[c].fields = SetFields(chanData[c].fields, pkt.fields, ChannelFields)
      BY <2>t, <3>1
    <3>4. DOMAIN chanData[c].fields = ChannelFields
      BY <2>t, <3>1 DEF ChannelData
    <3>5. ChannelTold(c, type)
      <4>1. \A f \in ChannelFields : f \in Changed(chanData[c].fields, pkt.fields)
                                       <=> chanData'[c].fields[f] # chanData[c].fields[f]
        BY <3>3, <3>4, ChangedFields
      <4>2. {"Name", "Position"} \subseteq ChannelFields
        BY DEF ChannelFields
      <4>3. Parent'[c] = new
        BY <2>t, <3>1, Zenon
      <4> QED
        BY <3>2, <4>1, <4>2, <4>3
    <3>6. \A e \in events' : e.kind = "ChannelChange" /\ e.about = c /\ e.Type = type
      BY <3>1, ChannelEvents, Zenon
    <3> HIDE DEF UserTold, ChannelTold
    <3> QED
      BY <3>5, <3>6, Zenon
  <2>4. ASSUME NEW id, NEW c, SomeChannelRemove(id, c)
        PROVE  Step
    <3>1. OnChannelChange({"Removed"}, c) /\ UNCHANGED <<Parent, chanData>>
      BY <2>4 DEF SomeChannelRemove, RemoveChannel
    <3>2. \A e \in events' : e.kind = "ChannelChange" /\ e.Type = {"Removed"}
      BY <3>1, ChannelEvents
    <3> QED
      BY <3>1, <3>2
  <2>5. ASSUME NEW pkt, NEW u, SomeUserState(pkt, u)
        PROVE  Step
    <3> DEFINE s == pkt.Session
               created == Users[s] = Nil
               home == Home(u, created)
               to == IF pkt.ChannelId = Nil THEN home ELSE Channels[pkt.ChannelId]
               type == UserStateType(u, created, to, pkt)
               actor == IF pkt.Actor = Nil THEN Nil ELSE Users'[pkt.Actor]
    <3>1. CASE UserWithoutRoot(u, pkt) \/ UserWithUnknownActor(u, pkt) \/ UserToUnknownChannel(u, pkt)
      BY <3>1, Zenon DEF UserWithoutRoot, UserWithUnknownActor, UserToUnknownChannel, OnNothing
    <3>2. CASE ApplyUserState(u, pkt)
      <4>1. /\ u \in UserRefs /\ OnUserChange(type, u, actor)
            /\ Channel' = [Channel EXCEPT ![u] = to]
            /\ userData' = [userData EXCEPT ![u] = AllUserData(u, created, pkt)]
        BY <2>5, <3>2, ZenonT(30) DEF SomeUserState, ApplyUserState
      <4>2. created => Channel[u] = Nil /\ to # Nil
        <5>1. created => Channels[Root] # Nil /\ (pkt.ChannelId # Nil => Channels[pkt.ChannelId] # Nil)
          BY <3>2, ZenonT(30) DEF ApplyUserState
        <5>2. created => ~userClient[u] /\ Session[u] = Nil
          BY <1>1, <2>5, UserStateEffect, ZenonT(30)
        <5> QED
          BY <1>1, <4>1, <5>1, <5>2, ZenonT(30) DEF Home, GraphInv, Blank
      <4>3. DOMAIN userData[u].fields = UserFields
        BY <2>t, <4>1, ZenonT(30) DEF UserData
      <4>4. /\ "Channel" \in type <=> created \/ to # Channel[u]
            /\ \A f \in UserFields \ {"Hash"} :
                 f \in type <=> f \in Changed(userData[u].fields, pkt.fields)
        <5>1. Changed(userData[u].fields, pkt.fields) \subseteq UserFields
          BY <4>3 DEF Changed
        <5> HIDE DEF to, created
        <5> QED
          BY <5>1 DEF UserStateType, UserFields, Flag, BlobFlag
      <4> HIDE DEF type, to, created, actor
      <4>5. userData'[u].fields = SetFields(userData[u].fields, pkt.fields, UserFields)
        BY <2>t, <4>1, Zenon DEF AllUserData
      <4>6. UserTold(u, type)
        <5>1. \A f \in UserFields : f \in Changed(userData[u].fields, pkt.fields)
                                      <=> userData'[u].fields[f] # userData[u].fields[f]
          BY <4>3, <4>5, ChangedFields
        <5>2. Channel'[u] = to
          BY <2>t, <4>1, Zenon
        <5> QED
          BY <4>2, <4>4, <5>1, <5>2
      <4>7. \A e \in events' : e.kind = "UserChange" /\ e.about = u /\ e.Type = type
        BY <4>1, UserEvents
      <4> HIDE DEF UserTold, ChannelTold
      <4> QED
        BY <4>6, <4>7
    <3> QED
      BY <2>5, <3>1, <3>2, ZenonT(30) DEF SomeUserState
  <2>6. ASSUME NEW pkt, NEW u, SomeUserRemove(pkt, u)
        PROVE  Step
    <3> DEFINE type == {"Disconnected"} \cup Flag("Kicked", pkt.Actor # Nil)
                                        \cup Flag("Banned", pkt.Ban)
    <3>1. (\E actor : OnUserChange(type, u, actor)) /\ UNCHANGED <<Channel, userData>>
      BY <2>6 DEF SomeUserRemove, RemoveUser
    <3>2. \A f \in UserFields \cup {"Channel"} : f \notin type
      BY DEF Flag, UserFields
    <3> HIDE DEF type
    <3>3. \A e \in events' : e.kind = "UserChange" /\ e.Type = type
      BY <3>1, UserEvents, Zenon
    <3> QED
      BY <3>1, <3>2, <3>3, Zenon
  <2> QED
    BY <1>1, <2>1, <2>2, <2>3, <2>4, <2>5, <2>6, StepKinds, Zenon
<1>2. GraphInv /\ TypeOK /\ [Next]_vars => [Step]_vars
  BY <1>1, Zenon
<1> QED
  BY <1>2, GraphInvariance, TypeCorrect, PTL DEF Spec, EventsTellChanges
=============================================================================
