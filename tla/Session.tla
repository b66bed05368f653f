------------------------------- MODULE Session -------------------------------
(***************************************************************************)
(* A session of the client with a server: the program's requests on their  *)
(* way to the server, the changes that the server makes on them, on the    *)
(* requests of other clients and by itself, and the packets about these    *)
(* changes on their way back, which the handlers of ServerState apply to   *)
(* the replica.  Both ways are logs of packets (see PacketLog).            *)
(*                                                                         *)
(* The server is not part of the repository.  It does what the comments of *)
(* the client's methods say of it: it sends the whole state before         *)
(* ServerSync, carries out a request that makes sense, ignores another,    *)
(* and tells every change in the order in which it happens.  Names of      *)
(* channels under one parent are different.                                *)
(***************************************************************************)
EXTENDS Requests, Integers, FiniteSets, Sequences, Relation

Seqs == INSTANCE SequencesExt

CONSTANTS Me,          \* the client's session
          Worlds,      \* what the server may be like when the client connects
          MaxChanges   \* bound on the requests and changes

VARIABLES
  srv,       \* the server's channels, links and users
  toServer,  \* the requests on their way
  toClient,  \* the packets on their way
  changes    \* the number of requests and changes so far

sessionVars == <<srv, toServer, toClient, changes>>

\* The hash of a text is the text as a member of Hashes.
Hashed(b) == [text |-> Nil, hash |-> b.text]

-----------------------------------------------------------------------------
(* The server.                                                             *)

\* i is above j.
Above(w) ==
  LET parent == [p \in ChannelIDs \X ChannelIDs |->
                   w.channels[p[2]] # Nil /\ w.channels[p[2]].Parent = p[1]]
  IN  TransitiveClosure(parent, ChannelIDs)

Depth(w, i) == Cardinality({j \in ChannelIDs : Above(w)[j, i]})
Existing(table) == {k \in DOMAIN table : table[k] # Nil}
LinkedTo(w, i) == {j \in ChannelIDs : {i, j} \in w.links}

\* A text is sent as it is or, if it is long, by its hash.
Sent(text, how) ==
  IF text = Unset THEN NoBlobUpdate ELSE IF how = "hash" THEN Hashed(TextOf(text)) ELSE TextOf(text)

\* What a client is sent when it connects.
Sync(w, how) ==
  LET channelSeq == Seqs!SetToSortSeq(Existing(w.channels), LAMBDA i, j : Depth(w, i) < Depth(w, j))
      linked == Seqs!SetToSeq({i \in Existing(w.channels) : LinkedTo(w, i) # {}})
      userSeq == Seqs!SetToSeq(Existing(w.users))
      channel(i) == [ChannelPacket(i) EXCEPT
                       !.Parent = w.channels[i].Parent, !.fields = w.channels[i].fields,
                       !.Description = Sent(w.channels[i].Description, how)]
      user(s) == [UserPacket(s) EXCEPT
                    !.ChannelId = IF w.users[s].ChannelId = Root THEN Nil ELSE w.users[s].ChannelId,
                    !.UserId = IF w.users[s].UserID = Unset THEN Nil ELSE w.users[s].UserID,
                    !.fields = w.users[s].fields,
                    !.Comment = Sent(w.users[s].Comment, how),
                    !.Texture = Sent(w.users[s].Texture, how)]
  IN  [k \in DOMAIN channelSeq |-> channel(channelSeq[k])]
      \o [k \in DOMAIN linked |-> [ChannelPacket(linked[k]) EXCEPT !.Links = LinkedTo(w, linked[k])]]
      \o [k \in DOMAIN userSeq |-> user(userSeq[k])]
      \o <<[type |-> "ServerSync", Session |-> Me]>>

\* No other channel under the parent has the name.
NameFree(w, parent, name, i) ==
  \A j \in Existing(w.channels) \ {i} :
    w.channels[j].Parent = parent => w.channels[j].fields["Name"] # name

\* The new state of the server and what it tells the client.
Reaction(w, packets) == [srv |-> w, send |-> packets]
Ignored == Reaction(srv, <<>>)

SrvUserState(m, actor, how) ==
  LET s == m.Session
      old == srv.users[s]
      registered == IF m.UserId = Unset THEN CHOOSE r \in UserIDs : r \notin {Unset, MaxUint32}
                    ELSE old.UserID
      blob(b, o) == IF b.text = Nil THEN o ELSE b.text
      told(b) == IF b.text \notin {Nil, Unset} /\ how = "hash" THEN Hashed(b) ELSE b
  IN  IF old = Nil \/ (m.ChannelId # Nil /\ srv.channels[m.ChannelId] = Nil) THEN Ignored
      ELSE Reaction(
        [srv EXCEPT !.users[s] =
           [ChannelId |-> IF m.ChannelId = Nil THEN old.ChannelId ELSE m.ChannelId,
            UserID |-> registered, fields |-> SetFields(old.fields, m.fields, UserFields),
            Comment |-> blob(m.Comment, old.Comment),
            Texture |-> blob(m.Texture, old.Texture)]],
        <<[m EXCEPT !.Actor = actor, !.UserId = IF @ = Nil THEN Nil ELSE registered,
                    !.Comment = told(@), !.Texture = told(@)]>>)

SrvUserRemove(m, actor) ==
  IF srv.users[m.Session] = Nil THEN Ignored
  ELSE Reaction([srv EXCEPT !.users[m.Session] = Nil], <<[m EXCEPT !.Actor = actor]>>)

SrvNewChannel(m) ==
  LET free == ChannelIDs \ Existing(srv.channels)
      id == CHOOSE i \in free : TRUE
      fields == [f \in ChannelFields |-> IF m.fields[f] = Nil THEN Unset ELSE m.fields[f]]
  IN  IF \/ srv.channels[m.Parent] = Nil \/ free = {}
         \/ ~NameFree(srv, m.Parent, m.fields["Name"], Nil) THEN Ignored
      ELSE Reaction(
        [srv EXCEPT !.channels[id] = [Parent |-> m.Parent, fields |-> fields, Description |-> Unset]],
        <<[m EXCEPT !.ChannelId = id, !.fields = fields]>>)

SrvChannelState(m, how) ==
  LET i == m.ChannelId
      old == srv.channels[i]
      parent == IF m.Parent = Nil THEN old.Parent ELSE m.Parent
      name == IF m.fields["Name"] = Nil THEN old.fields["Name"] ELSE m.fields["Name"]
      others == (m.LinksAdd \cup m.LinksRemove) \cup ({m.Parent} \ {Nil})
  IN  IF \/ old = Nil
         \/ \E j \in others : srv.channels[j] = Nil \/ j = i
         \/ m.Parent # Nil /\ (i = Root \/ Above(srv)[i, m.Parent])
         \/ ~NameFree(srv, parent, name, i) THEN Ignored
      ELSE Reaction(
        [srv EXCEPT
           !.channels[i] = [Parent |-> parent, fields |-> SetFields(old.fields, m.fields, ChannelFields),
                            Description |-> IF m.Description.text = Nil THEN old.Description
                                            ELSE m.Description.text],
           !.links = (@ \cup {{i, j} : j \in m.LinksAdd}) \ {{i, j} : j \in m.LinksRemove}],
        <<[m EXCEPT !.Description = IF how = "hash" /\ @.text # Nil THEN Hashed(@) ELSE @]>>)

\* The channels under it go first; the users are moved to its parent.
SrvChannelRemove(m) ==
  LET top == m.ChannelId
      gone == {j \in Existing(srv.channels) : j = top \/ Above(srv)[top, j]}
      order == Seqs!SetToSortSeq(gone, LAMBDA i, j : Depth(srv, i) > Depth(srv, j))
      inside(i) == Seqs!SetToSeq({s \in Existing(srv.users) : srv.users[s].ChannelId = i})
      to == srv.channels[top].Parent
      packets(i) == [k \in DOMAIN inside(i) |-> Move(inside(i)[k], to)] \o <<Remove(i)>>
  IN  IF srv.channels[top] = Nil \/ top = Root THEN Ignored
      ELSE Reaction(
        [channels |-> [i \in ChannelIDs |-> IF i \in gone THEN Nil ELSE srv.channels[i]],
         links |-> {l \in srv.links : l \cap gone = {}},
         users |-> [s \in Sessions |->
           IF srv.users[s] # Nil /\ srv.users[s].ChannelId \in gone
           THEN [srv.users[s] EXCEPT !.ChannelId = to] ELSE srv.users[s]]],
        Seqs!FlattenSeq([k \in DOMAIN order |-> packets(order[k])]))

SrvRequestBlob(m) ==
  LET text(table) == IF table[m.key] = Nil THEN Unset ELSE table[m.key][m.of]
  IN  IF m.of = "Description" THEN
        Reaction(srv, IF text(srv.channels) = Unset THEN <<>>
                      ELSE <<SetDescription(m.key, text(srv.channels))>>)
      ELSE
        Reaction(srv, IF text(srv.users) = Unset THEN <<>>
                      ELSE <<[UserPacket(m.key) EXCEPT ![m.of] = TextOf(text(srv.users))]>>)

SrvQuery(m) ==
  IF srv.channels[m.ChannelId] = Nil THEN Ignored
  ELSE Reaction(srv, IF m.type = "ACL" THEN <<m, [type |-> "QueryUsers"]>> ELSE <<m>>)

React(m, actor, how) ==
  CASE m.type = "UserState" -> SrvUserState(m, actor, how)
    [] m.type = "UserRemove" -> SrvUserRemove(m, actor)
    [] m.type = "ChannelState" /\ m.ChannelId = Nil -> SrvNewChannel(m)
    [] m.type = "ChannelState" /\ m.ChannelId # Nil -> SrvChannelState(m, how)
    [] m.type = "ChannelRemove" -> SrvChannelRemove(m)
    [] m.type = "RequestBlob" -> SrvRequestBlob(m)
    [] m.type \in {"ACL", "PermissionQuery"} -> SrvQuery(m)
    [] OTHER -> Ignored

-----------------------------------------------------------------------------
\* The server tells a client nothing more once its user is gone.
Tell(r) ==
  /\ srv' = r.srv
  /\ toClient' = IF srv.users[Me] = Nil THEN toClient ELSE toClient \o r.send

\* The program calls a method.  Its object is on the server as far as the
\* replica knows: the method of a removed one dereferences a nil client.
Call ==
  /\ reader = "running" /\ state = "Synced" /\ changes < MaxChanges
  /\ \E m \in Requests(Existing(Users), Existing(Channels)) : toServer' = Append(toServer, m)
  /\ changes' = changes + 1
  /\ UNCHANGED <<vars, srv, toClient>>

Serve(how) ==
  /\ toServer # <<>>
  /\ Tell(IF srv.users[Me] = Nil THEN Ignored ELSE React(Head(toServer), Me, how))
  /\ toServer' = Tail(toServer)
  /\ UNCHANGED <<vars, changes>>

\* Another client's request, or a change that the server makes by itself.
OthersRequests(ids) ==
  UNION {{Move(s, i) : i \in ids} \cup {Kick(s), Register(s)} : s \in Existing(srv.users)}
  \cup UNION {{SetComment(s, t) : t \in Texts \cup {Unset}} : s \in Existing(srv.users)}
  \cup {[ChannelPacket(i) EXCEPT !.Parent = j] : i, j \in ids}
  \cup {Add(i, n, Unset) : i \in ids, n \in Values}
  \cup {Remove(i) : i \in ids} \cup {Link(i, {j}) : i, j \in ids}

Other(how) ==
  /\ changes < MaxChanges
  /\ \E actor \in Existing(srv.users) \ {Me}, m \in OthersRequests(Existing(srv.channels)) :
       Tell(React(m, actor, how))
  /\ changes' = changes + 1
  /\ UNCHANGED <<vars, toServer>>

NewUser == [ChannelId |-> Root, UserID |-> Unset, fields |-> [f \in UserFields |-> Unset],
            Comment |-> Unset, Texture |-> Unset]

Connect(s) ==
  /\ changes < MaxChanges /\ srv.users[s] = Nil /\ s # Me
  /\ Tell(Reaction([srv EXCEPT !.users[s] = NewUser], <<UserPacket(s)>>))
  /\ changes' = changes + 1
  /\ UNCHANGED <<vars, toServer>>

Leave(s) ==
  /\ changes < MaxChanges /\ srv.users[s] # Nil /\ s # Me
  /\ Tell(Reaction([srv EXCEPT !.users[s] = Nil], <<Kick(s)>>))
  /\ changes' = changes + 1
  /\ UNCHANGED <<vars, toServer>>

\* Another user gets the session of one that leaves.
Replace(s) ==
  /\ changes < MaxChanges /\ srv.users[s] # Nil /\ s # Me
  /\ Tell(Reaction([srv EXCEPT !.users[s] = NewUser], <<Kick(s), UserPacket(s)>>))
  /\ changes' = changes + 1
  /\ UNCHANGED <<vars, toServer>>

Unregister(s) ==
  /\ changes < MaxChanges /\ srv.users[s] # Nil /\ srv.users[s].UserID # Unset
  /\ Tell(Reaction([srv EXCEPT !.users[s].UserID = Unset],
                   <<[UserPacket(s) EXCEPT !.UserId = MaxUint32]>>))
  /\ changes' = changes + 1
  /\ UNCHANGED <<vars, toServer>>

-----------------------------------------------------------------------------
\* The read routine handles the next packet.
Handle ==
  /\ toClient # <<>>
  /\ LET m == Head(toClient) IN
       \/ m.type = "ChannelState" /\ HandleChannelState(m)
       \/ m.type = "ChannelRemove" /\ HandleChannelRemove(m.ChannelId)
       \/ m.type = "UserState" /\ HandleUserState(m)
       \/ m.type = "UserRemove" /\ HandleUserRemove(m)
       \/ m.type = "ServerSync" /\ HandleServerSync(m.Session)
       \/ m.type = "PermissionQuery" /\ HandlePermissionQuery(m.ChannelId, FALSE)
       \/ m.type = "ACL" /\ HandleACL(m.ChannelId)
       \/ m.type = "QueryUsers" /\ HandleQueryUsers
  /\ toClient' = Tail(toClient)
  /\ UNCHANGED <<srv, toServer, changes>>

SessionInit ==
  /\ Init
  /\ srv \in Worlds /\ toServer = <<>> /\ changes = 0
  /\ \E how \in {"text", "hash"} : toClient = Sync(srv, how)

SessionNext ==
  \/ Call \/ Handle
  \/ \E how \in {"text", "hash"} : Serve(how) \/ Other(how)
  \/ \E s \in Sessions : Connect(s) \/ Leave(s) \/ Replace(s) \/ Unregister(s)

SessionSpec == SessionInit /\ [][SessionNext]_<<vars, sessionVars>>

-----------------------------------------------------------------------------
\* A text that the replica has, or the hash by which it can be requested.
Shows(b, text) ==
  IF b.text # Unset THEN b.text = text ELSE b.hash = IF text = Unset THEN Nil ELSE text

(***************************************************************************)
(* The replica follows the server: once the packets that are on their way  *)
(* have been handled, the users, the channels, their places in the tree,   *)
(* their links and their fields are the server's, whatever was requested   *)
(* while they were out of date; a text that is not the server's is never   *)
(* shown (client.go:61-66; handlers.go:319-421, 484-635).                  *)
(***************************************************************************)
ReplicaFollows ==
  /\ reader = "running"
  /\ toClient = <<>> /\ srv.users[Me] # Nil =>
       /\ \A i \in ChannelIDs :
            LET c == Channels[i]
                w == srv.channels[i] IN
            /\ c = Nil <=> w = Nil
            /\ c # Nil =>
                 /\ chanData[c].fields = w.fields /\ Shows(chanData[c].Description, w.Description)
                 /\ Parent[c] = IF w.Parent = Nil THEN Nil ELSE Channels[w.Parent]
                 /\ Links[c] = [j \in ChannelIDs |-> IF j \in LinkedTo(srv, i) THEN Channels[j] ELSE Nil]
       /\ \A s \in Sessions :
            LET u == Users[s]
                w == srv.users[s] IN
            /\ u = Nil <=> w = Nil
            /\ u # Nil =>
                 /\ userData[u].fields = w.fields /\ userData[u].UserID = w.UserID
                 /\ Shows(userData[u].Comment, w.Comment) /\ Shows(userData[u].Texture, w.Texture)
                 /\ Channel[u] = Channels[w.ChannelId]

-----------------------------------------------------------------------------
(* Paths.                                                                  *)

NamedChildren(c, name) ==
  {d \in ChanRefs : /\ \E i \in ChannelIDs : Children[c][i] = d
                    /\ chanData[d].fields["Name"] = name}

\* The channels that Find may return: of two children with the same name it
\* takes any.
Find(c, names) ==
  Seqs!FoldLeft(LAMBDA found, name : UNION {NamedChildren(d, name) : d \in found}, {c}, names)

\* From the root to the channel.
ChannelPath(c) ==
  LET path[n \in 0..Cardinality(ChanRefs)] ==
        [d \in Opt(ChanRefs) |->
           IF d = Nil \/ n = 0 THEN <<>>
           ELSE Append(path[n - 1][Parent[d]], chanData[d].fields["Name"])]
  IN  path[Cardinality(ChanRefs)][c]

(***************************************************************************)
(* The path that ChannelPath gives for a channel leads Channels.Find to it *)
(* and to no other, also while channels are being moved and removed: at    *)
(* all times the parents lead to the root and the children back            *)
(* (gumbleutil/channel.go:11, channel.go:115, channels.go:22).  The first  *)
(* name is the root's, which Find is not given.                            *)
(***************************************************************************)
PathFinds ==
  \A c \in ChanRefs : chanClient[c] => Find(Channels[Root], Tail(ChannelPath(c))) = {c}
=============================================================================
