---------------------------- MODULE UserStatistics ----------------------------
(***************************************************************************)
(* The statistics of users (handleUserStats).  A program that asks for     *)
(* them gets User.Stats, which the next answer for the user overwrites in  *)
(* place.                                                                  *)
(*                                                                         *)
(* Of the four counts of each direction, Lost and Resync are treated as    *)
(* Late is.  UdpPackets stands for all the fields that are copied, or      *)
(* converted one by one, if they are present.                              *)
(***************************************************************************)
EXTENDS UserStatisticsPromise

CONSTANTS Sessions, Values,
          MaxPackets   \* bound on the number of packets

VersionFields == {"Version", "Release"}

\* What is absent is Nil.
Opt(S) == S \cup {Nil}
UserStatsPacket ==
  [Session : Opt(Sessions), FromClient : Opt([Counts -> Opt(Values)]),
   FromServer : Opt([Counts -> Opt(Values)]),
   UdpPackets : Opt(Values), Version : Opt([VersionFields -> Opt(Values)])]

VARIABLES
  reader,   \* running, panicked
  packets   \* the number of packets so far

userStatVars == <<Stats, reader, last, packets>>

NoCounts == [f \in Counts |-> Unset]
NoVersion == [f \in VersionFields |-> Unset]
NoStats == [FromClient |-> NoCounts, FromServer |-> NoCounts, UdpPackets |-> Unset,
            Version |-> NoVersion]

UserStatsInit ==
  /\ Stats = [s \in Users |-> Nil] /\ last = [s \in Users |-> Nil]
  /\ reader = "running" /\ packets = 0

\* Faulty: the old values are not cleared.
Cleared_Not(s) == IF Stats[s] = Nil THEN NoStats ELSE Stats[s]

Cleared(s) == NoStats

Set(old, new) == IF new = Nil THEN old ELSE new
SetEach(old, new) == [f \in DOMAIN old |-> Set(old[f], new[f])]

parseVersion(packet) == SetEach(NoVersion, packet)

\* The counts from the server but Good are copied where there is one from the
\* client; a nil pointer is dereferenced if there is none from the server.
PanicsOn(pkt) ==
  /\ pkt.FromServer # Nil
  /\ \/ pkt.FromClient = Nil
     \/ \E f \in Counts \ {"Good"} : pkt.FromClient[f] # Nil /\ pkt.FromServer[f] = Nil

StatsFrom(clean, pkt) ==
  LET fromServer == [f \in Counts |-> IF f = "Good" \/ pkt.FromClient[f] # Nil
                                      THEN pkt.FromServer[f] ELSE Nil]
  IN  [FromClient |-> IF pkt.FromClient = Nil THEN clean.FromClient
                      ELSE SetEach(clean.FromClient, pkt.FromClient),
       FromServer |-> IF pkt.FromServer = Nil THEN clean.FromServer
                      ELSE SetEach(clean.FromServer, fromServer),
       UdpPackets |-> Set(clean.UdpPackets, pkt.UdpPackets),
       Version |-> IF pkt.Version = Nil THEN clean.Version ELSE parseVersion(pkt.Version)]

HandleUserStats(pkt) ==
  /\ reader = "running" /\ packets < MaxPackets /\ packets' = packets + 1
  /\ IF pkt.Session \notin Users
     THEN UNCHANGED <<Stats, reader, last>>
     ELSE IF PanicsOn(pkt)
     THEN reader' = "panicked" /\ UNCHANGED <<Stats, last>>
     ELSE /\ Stats' = [Stats EXCEPT ![pkt.Session] = StatsFrom(Cleared(pkt.Session), pkt)]
          /\ last' = [last EXCEPT ![pkt.Session] = pkt]
          /\ UNCHANGED reader

UserStatsNext == \E pkt \in UserStatsPacket : HandleUserStats(pkt)
=============================================================================
