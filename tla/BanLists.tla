------------------------------ MODULE BanLists ------------------------------
(***************************************************************************)
(* The ban list: a program requests it, changes the entries it has got and *)
(* sends the list back, which replaces the server's.  Another              *)
(* administrator may change the server's list in between.                  *)
(***************************************************************************)
EXTENDS BanListsPromise

CONSTANTS Addresses,    \* records with the field bits: 32 or 128
          Masks,        \* sizes of masks
          Reasons,
          Durations,    \* of the program
          MaxChanges    \* bound on the changes of the program and the others

VARIABLES
  bans,          \* the server's list, a set of entries
  bansToClient,  \* lists on their way to the client
  banList,       \* the program's BanList, whose order means nothing: a set of Bans
  banChanges

banVars == <<bans, bansToServer, bansToClient, banList, banChanges>>

\* An entry of the server; old: with the Name, Hash and Start of a ban that
\* was not sent by this client.
Entry == [Address : Addresses, Mask : Nat, Reason : Reasons, Duration : Nat, old : BOOLEAN]

BansInit(first) ==
  /\ bans \in first /\ bansToServer = <<>> /\ bansToClient = <<>>
  /\ banList = {} /\ banChanges = 0

-----------------------------------------------------------------------------
\* net.CIDRMask: there is no mask of more bits than the address has.
CIDRMask(ones, bits) == IF ones <= bits THEN ones ELSE Nil
\* net.IPMask.Size
Size(mask) == IF mask = Nil THEN 0 ELSE mask

\* origin: the entry a Ban was made from and that the program has not changed.
HandleBanList ==
  /\ bansToClient # <<>>
  /\ banList' = {[Address |-> e.Address, Mask |-> CIDRMask(e.Mask, e.Address.bits),
                  Reason |-> e.Reason, Duration |-> e.Duration * Ticks,
                  unban |-> FALSE, origin |-> e] : e \in Head(bansToClient)}
  /\ bansToClient' = Tail(bansToClient)
  /\ UNCHANGED <<bans, bansToServer, banChanges>>

RequestBanList ==
  /\ banChanges < MaxChanges /\ banChanges' = banChanges + 1
  /\ bansToServer' = Append(bansToServer, [query |-> TRUE, entries |-> {}, from |-> {}])
  /\ UNCHANGED <<bans, bansToClient, banList>>

\* Faulty: the seconds are rounded up.
Seconds_Up(duration) == (duration + Ticks - 1) \div Ticks

Seconds(duration) == duration \div Ticks

\* The entry that BanList.writeMessage makes of a Ban.
Written(ban) ==
  [Address |-> ban.Address, Mask |-> Size(ban.Mask), Reason |-> ban.Reason,
   Duration |-> Seconds(ban.Duration), old |-> FALSE]

\* from is a history of what was written.
SendBanList ==
  /\ banChanges < MaxChanges /\ banChanges' = banChanges + 1
  /\ bansToServer' = Append(bansToServer,
       [query |-> FALSE, from |-> banList,
        entries |-> {Written(b) : b \in {c \in banList : ~c.unban}}])
  /\ UNCHANGED <<bans, bansToClient, banList>>

\* A Ban is changed in place.  The program makes no two Bans of its list equal,
\* so that a set can stand for it.
ChangeBan(ban, new) ==
  /\ new \notin banList \ {ban}
  /\ banList' = (banList \ {ban}) \cup {new}

\* SetAddress, SetMask, SetReason and SetDuration
SetField(ban, field, value) ==
  ChangeBan(ban, [[ban EXCEPT !.origin = Nil] EXCEPT ![field] = value])

\* Ban and Unban
SetUnban(ban, unban) == ChangeBan(ban, [ban EXCEPT !.unban = unban])

Add(address, mask, reason, duration) ==
  LET ban == [Address |-> address, Mask |-> mask, Reason |-> reason,
              Duration |-> duration, unban |-> FALSE, origin |-> Nil]
  IN  ban \notin banList /\ banList' = banList \cup {ban}

Edit ==
  /\ banChanges < MaxChanges /\ banChanges' = banChanges + 1
  /\ \/ \E ban \in banList :
          \/ \E a \in Addresses : SetField(ban, "Address", a)
          \/ \E m \in Masks \cup {Nil} : SetField(ban, "Mask", m)
          \/ \E r \in Reasons : SetField(ban, "Reason", r)
          \/ \E d \in Durations : SetField(ban, "Duration", d)
          \/ \E unban \in BOOLEAN : SetUnban(ban, unban)
     \/ \E a \in Addresses, m \in Masks \cup {Nil}, r \in Reasons, d \in Durations :
          (m # Nil => m <= a.bits) /\ Add(a, m, r, d)
  /\ UNCHANGED <<bans, bansToServer, bansToClient>>

-----------------------------------------------------------------------------
\* The server answers a query and takes a list as it is.
ServeBans ==
  /\ bansToServer # <<>>
  /\ LET m == Head(bansToServer) IN
       IF m.query
       THEN bansToClient' = Append(bansToClient, bans) /\ UNCHANGED bans
       ELSE bans' = m.entries /\ UNCHANGED bansToClient
  /\ bansToServer' = Tail(bansToServer)
  /\ UNCHANGED <<banList, banChanges>>

OtherAdmin ==
  /\ banChanges < MaxChanges /\ banChanges' = banChanges + 1
  /\ \E b \in bans : bans' = bans \ {b}
  /\ UNCHANGED <<bansToServer, bansToClient, banList>>

BansNext ==
  HandleBanList \/ RequestBanList \/ SendBanList \/ Edit \/ ServeBans \/ OtherAdmin
=============================================================================
