----------------------- MODULE UserStatisticsPromise ------------------------
(***************************************************************************)
(* What UserStatistics promises, and the part of its state that the        *)
(* promise is about.                                                       *)
(***************************************************************************)
EXTENDS Naturals, Null

CONSTANTS Users,   \* the sessions of the users in the replica
          Unset    \* what a field holds that no packet has set

VARIABLES
  Stats,  \* of each user, Nil if there are none
  last    \* history: the last packet for each user

Counts == {"Good", "Late"}

-----------------------------------------------------------------------------
(***************************************************************************)
(* User.Stats shows what the last packet for the user says and nothing of  *)
(* an earlier one, which it overwrites (handlers.go:1103-1108), if the     *)
(* server gives the same counts for both directions: the handler looks at  *)
(* the client's where it means the server's (handlers.go:1128-1136).       *)
(***************************************************************************)
StatsOfLastPacket ==
  \A s \in Users :
    LET p == last[s]
        shows(stats, values) ==
          \A f \in DOMAIN stats :
            stats[f] = IF values = Nil \/ values[f] = Nil THEN Unset ELSE values[f]
    IN  p # Nil =>
          /\ shows(Stats[s].FromClient, p.FromClient) /\ shows(Stats[s].Version, p.Version)
          /\ Stats[s].UdpPackets = IF p.UdpPackets = Nil THEN Unset ELSE p.UdpPackets
          /\ (p.FromServer # Nil => \A f \in Counts : p.FromServer[f] = Nil <=> p.FromClient[f] = Nil)
               => shows(Stats[s].FromServer, p.FromServer)
=============================================================================
