------------------------------- MODULE MCParts -------------------------------
(***************************************************************************)
(* The parts around the client and its replica, one of them in each        *)
(* behaviour: UDP pings that are sent again, two calls of UserGroups, the  *)
(* ban list, the list of registered users, the statistics of the pings and *)
(* those of the users; an FFmpeg stream with two callers and three process *)
(* goroutines, and an OpenAL stream with two capture goroutines and two    *)
(* buffers.                                                                *)
(***************************************************************************)
EXTENDS FFmpegStream, UdpPingPromise, BanListsPromise, UserListsPromise,
        PingStatisticsPromise, UserStatisticsPromise, OpenALStreamPromise

CONSTANTS MaxBanChanges, MaxUserChanges, MaxPings, MaxPackets

VARIABLES which,
  pc, id, ids, arrived, incoming, deadline,
  gPc, gResult, listeners, gPackets, asked, event, called, removed, client,
  bans, bansToClient, banList, banChanges,
  usersToClient, userList, userChanges,
  tcpPacketsReceived, tcpPingTimes, index, sender, local,
  reader, packets,
  sourceStop, closed, device, resized, capturePc, stop, received

pingVars == <<pc, id, ids, sentIds, arrived, incoming, deadline, result, ignored, short>>
groupVars == <<gPc, gResult, listeners, gPackets, asked, event, called, removed, client>>
banVars == <<bans, bansToServer, bansToClient, banList, banChanges>>
userListVars ==
  <<registered, usersToServer, usersToClient, userList, touched, userChanges>>
statVars == <<tcpPacketsReceived, tcpPingTimes, tcpPingAvg, tcpPingVar, handler,
              index, sender, local, pinged, history>>
userStatVars == <<Stats, reader, last, packets>>
alVars == <<sourceStop, closed, device, resized, capturePc, stop,
            player, emptyBufs, queue, processed, playing, received>>
queryVars == <<pingVars, groupVars, banVars, userListVars, statVars, userStatVars>>
allVars == <<which, streamVars, alVars, queryVars>>

-----------------------------------------------------------------------------
Ping == INSTANCE UdpPing WITH Ids <- {1, 2}, Foreign <- 9, Senders <- {"main", "ticker"}

Groups ==
  INSTANCE UserGroups WITH
    Calls <- {1, 2}, pc <- gPc, result <- gResult, packets <- gPackets

\* Addresses of both lengths, and durations of half a second and of one and a
\* half.
Addresses == {[bits |-> 32], [bits |-> 128]}

Bans ==
  INSTANCE BanLists WITH
    Masks <- {32, 128}, Reasons <- {"r"}, Durations <- {1, 3},
    MaxChanges <- MaxBanChanges

\* A mask that fits its address or not, a ban for good and one for a second.
FirstBans ==
  LET ban(bits, mask, duration) ==
        [Address |-> [bits |-> bits], Mask |-> mask, Reason |-> "r",
         Duration |-> duration, old |-> TRUE]
  IN  {{}, {ban(32, 32, 0), ban(128, 96, 1)}, {ban(32, 128, 1)}}

Registered == INSTANCE UserLists WITH Names <- {"a", "b"}, MaxChanges <- MaxUserChanges

Statistics == INSTANCE PingStatistics WITH Times <- {1, 3}

Stat == INSTANCE UserStatistics WITH Sessions <- {1, 2}, Values <- {"v"}

AL == INSTANCE OpenALStream WITH Routines <- {1, 2}, Packets <- 3

\* A call of Ping that has returned.
NoPing ==
  /\ pc = [s \in {"main", "ticker"} |-> "ended"] /\ id = [s \in {"main", "ticker"} |-> Nil]
  /\ ids = {} /\ sentIds = {} /\ arrived = Nil /\ incoming = <<>>
  /\ deadline = TRUE /\ result = <<>> /\ ignored = {} /\ short = FALSE

MCInit ==
  /\ which \in 1..8
  /\ IF which = 1 THEN Ping!PingInit ELSE NoPing
  /\ Groups!GroupsInit /\ Bans!BansInit(FirstBans)
  /\ Registered!UsersInit /\ Statistics!StatsInit /\ Stat!UserStatsInit
  /\ StreamInit /\ AL!ALInit
  /\ which # 3 => bans = {}
  /\ which # 4 => registered = [i \in UserIDs |-> Nil]
  /\ which # 8 => resized = FALSE

MCNext ==
  \/ /\ which = 1 /\ Ping!PingNext
     /\ UNCHANGED <<which, streamVars, alVars, groupVars, banVars, userListVars, statVars, userStatVars>>
  \/ /\ which = 2 /\ Groups!GroupsNext
     /\ UNCHANGED <<which, streamVars, alVars, pingVars, banVars, userListVars, statVars, userStatVars>>
  \/ /\ which = 3 /\ Bans!BansNext
     /\ UNCHANGED <<which, streamVars, alVars, pingVars, groupVars, userListVars, statVars, userStatVars>>
  \/ /\ which = 4 /\ Registered!UsersNext
     /\ UNCHANGED <<which, streamVars, alVars, pingVars, groupVars, banVars, statVars, userStatVars>>
  \/ /\ which = 5 /\ Statistics!StatsNext
     /\ UNCHANGED <<which, streamVars, alVars, pingVars, groupVars, banVars, userListVars, userStatVars>>
  \/ /\ which = 6 /\ Stat!UserStatsNext
     /\ UNCHANGED <<which, streamVars, alVars, pingVars, groupVars, banVars, userListVars, statVars>>
  \/ /\ which = 7 /\ StreamNext
     /\ UNCHANGED <<which, alVars, queryVars>>
  \/ /\ which = 8 /\ AL!ALNext
     /\ UNCHANGED <<which, streamVars, queryVars>>

\* No goroutine of a part that is not chosen can go on.
MCSpec ==
  /\ MCInit /\ [][MCNext]_allVars
  /\ Ping!PingFairness /\ Groups!GroupsFairness /\ StreamFairness /\ AL!ALFairness

-----------------------------------------------------------------------------
(***************************************************************************)
(* Ping returns, whatever arrives, and its goroutine ends (ping.go:35, 47, *)
(* 69).                                                                    *)
(***************************************************************************)
PingReturns == Ping!PingReturns

(***************************************************************************)
(* A call of UserGroups gets the names or has its channel closed           *)
(* (gumbleutil/acl.go:8-9; see UserGroups).                                *)
(***************************************************************************)
GroupsAnswered == Groups!GroupsAnswered

(***************************************************************************)
(* A capture goroutine that has got a stop channel ends after StopSource   *)
(* or Destroy (gumbleopenal/stream.go:74, 132-140; see OpenALStream).      *)
(***************************************************************************)
SourcesEnd == AL!SourcesEnd
=============================================================================
