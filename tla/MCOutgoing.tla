----------------------------- MODULE MCOutgoing -----------------------------
(***************************************************************************)
(* What goes out, in one of three behaviours: the channels of outgoing     *)
(* audio, the connection that several goroutines write to, and the         *)
(* conversions on samples of what they convert.                            *)
(*                                                                         *)
(* Two audio channels are open at the same time or one after the other,    *)
(* and their sequence numbers wrap at two.  On the connection the program  *)
(* writes a message of any kind, empty, short or over the limit, the ping  *)
(* routine a ping and an audio routine a packet in five Writes.            *)
(***************************************************************************)
EXTENDS AudioOutgoing, Connection, TLC

VARIABLES which, sample

allVars == <<audioVars, vars, which, sample>>

Formats == INSTANCE AudioFormat
Control == INSTANCE ControlFormat

-----------------------------------------------------------------------------
(* The messages of the connection.                                         *)

ProtoKinds ==
  {"Version", "Authenticate", "Ping", "Reject", "ServerSync", "ChannelRemove",
   "ChannelState", "UserRemove", "UserState", "BanList", "TextMessage",
   "PermissionDenied", "ACL", "QueryUsers", "CryptSetup", "ContextActionModify",
   "ContextAction", "UserList", "VoiceTarget", "PermissionQuery",
   "CodecVersion", "UserStats", "RequestBlob", "ServerConfig", "SuggestConfig"}

\* A message whose content goes out in Writes up to the units that ends names.
Message(kind, data, ends) == [kind |-> kind, data |-> data, ends |-> ends]

MCMessages ==
  "program" :> ({Message(k, <<>>, <<0>>) : k \in ProtoKinds}
                \cup {Message("UserState", <<3>>, <<1>>),
                      Message("TextMessage", <<1, 2, 3, 4, 5, 6, 7>>, <<7>>)})
  @@ "ping" :> {Message("Ping", <<1, 2>>, <<2>>)}
  @@ "audio" :> {Message("UDPTunnel", <<13, 12, 14, 15, 16>>, <<1, 2, 3, 4, 5>>)}

ASSUME MessagesAssumption == MessagesAreWritten

-----------------------------------------------------------------------------
(* The samples: every length of an integer and the values at its ends;     *)
(* the values at which a length, a size or a part of a version changes;    *)
(* lists with groups of all kinds and rules on users, on groups of the     *)
(* list and on others.                                                     *)

Integers64 ==
  {v \in {[neg |-> n, mag |-> [i \in 1..8 |-> IF i < at THEN 0 ELSE IF i = at THEN x ELSE y]] :
            n \in BOOLEAN, at \in 1..8, x \in 0..255, y \in {0, 255}} :
     \/ v.mag[1] < 128 /\ (v.neg => \E i \in 1..8 : v.mag[i] # 0)
     \/ v = Formats!MinInt64}

AudioPackets ==
  [target : {0, 1, 31},
   seq : {Formats!Int64(0), Formats!Int64(127), Formats!Int64(2147483647)}, final : BOOLEAN,
   length : {0, 1, 12, 127, 128, 8179, 8191}, position : BOOLEAN,
   session : {Formats!Int64(0), Formats!Int64(200), Formats!Unsigned(<<255, 255, 255, 255>>)}]

Bitrates ==
  LET step(i) == 8 * (1000 \div i + 5)
  IN  {<<500 * k, i>> : k \in 0..200, i \in {10, 20, 40, 60}}
      \cup {<<d + step(i) * k, i>> : d \in {-1, 0}, k \in {42, 43}, i \in {10, 20, 40, 60}}

Semvers == {<<x, y, z>> : x, y, z \in {0, 1, 255, 256, 65535, 65536}}

Groups ==
  [name : {"admin"}, inherited : BOOLEAN, inherit : BOOLEAN, inheritable : BOOLEAN,
   add : {{}, {1}}, remove : {{}, {2}}, members : {{}, {1}}]
All == [name |-> "all", inherited |-> TRUE, inherit |-> TRUE, inheritable |-> FALSE,
        add |-> {}, remove |-> {}, members |-> {}]
Admin == CHOOSE g \in Groups : TRUE

Rules ==
  {r \in [here : BOOLEAN, subs : BOOLEAN, inherited : BOOLEAN, grant : {{}, {"Speak"}},
          deny : {{}, {"Enter"}}, user : {Nil, 1}, group : {Nil, "admin", "all", "sub"}] :
     r.user = Nil \/ r.group = Nil}
Rule == CHOOSE r \in Rules : r.group = "admin"

Lists ==
  [inherits : {TRUE}, groups : {<<g>> : g \in Groups} \cup {<<All, g>> : g \in Groups},
   rules : {<<>>, <<Rule>>}]
  \cup
  [inherits : BOOLEAN, groups : {<<>>, <<Admin>>, <<All, Admin>>},
   rules : {<<r>> : r \in Rules} \cup {<<r, Rule>> : r \in Rules}]

Samples ==
  [integer : Integers64] \cup [packet : AudioPackets] \cup [rate : Bitrates]
  \cup [semver : Semvers] \cup [list : Lists]

-----------------------------------------------------------------------------
MCInit ==
  /\ which \in {"audio", "connection", "formats"}
  /\ AudioInit /\ Init /\ sample = Nil

MCNext ==
  \/ /\ which = "audio" /\ AudioNext
     /\ UNCHANGED <<vars, sample, which>>
  \/ /\ which = "connection" /\ Next
     /\ UNCHANGED <<audioVars, sample, which>>
  \/ /\ which = "formats" /\ sample = Nil /\ sample' \in Samples
     /\ UNCHANGED <<audioVars, vars, which>>

MCSpec == MCInit /\ [][MCNext]_allVars /\ AudioFairness

(***************************************************************************)
(* What one end converts for the wire is what the other end makes of it:   *)
(* integers (varint/write.go:13), audio packets (conn.go:65), the version  *)
(* (client.go:18) and access control lists (acl.go:20); and AutoBitrate    *)
(* keeps to the server's maximum (gumbleutil/bitrate.go:14).               *)
(***************************************************************************)
RoundTrips ==
  sample # Nil =>
    /\ "integer" \in DOMAIN sample => Formats!IntegerRoundTrip(sample.integer)
    /\ "packet" \in DOMAIN sample => Formats!PacketRoundTrip(sample.packet)
    /\ "rate" \in DOMAIN sample => Formats!BandwidthKept(sample.rate[1], sample.rate[2])
    /\ "semver" \in DOMAIN sample => Control!VersionRoundTrip(sample.semver)
    /\ "list" \in DOMAIN sample => Control!AclRoundTrip(sample.list)
=============================================================================
