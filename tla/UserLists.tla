------------------------------ MODULE UserLists ------------------------------
(***************************************************************************)
(* The list of registered users: a program requests it, renames and        *)
(* deregisters users and sends the list back, of which only the changes    *)
(* are written.  Another administrator may change the registrations in     *)
(* between, and the program may send a list more than once.                *)
(***************************************************************************)
EXTENDS UserListsPromise

CONSTANTS Names, MaxChanges

VARIABLES
  usersToClient,
  userList,       \* the program's RegisteredUsers, one for each ID: a set
  userChanges

userListVars ==
  <<registered, usersToServer, usersToClient, userList, touched, userChanges>>

UsersInit ==
  /\ registered \in [UserIDs -> Names \cup {Nil}]
  /\ usersToServer = <<>> /\ usersToClient = <<>>
  /\ userList = {} /\ touched = {} /\ userChanges = 0

Change == userChanges < MaxChanges /\ userChanges' = userChanges + 1

RequestUserList ==
  /\ Change
  /\ usersToServer' = Append(usersToServer, {})
  /\ UNCHANGED <<registered, usersToClient, userList, touched>>

HandleUserList ==
  /\ usersToClient # <<>>
  /\ userList' = {[UserID |-> user.UserId, Name |-> user.Name,
                   changed |-> FALSE, deregister |-> FALSE] : user \in Head(usersToClient)}
  /\ usersToClient' = Tail(usersToClient)
  /\ UNCHANGED <<registered, usersToServer, touched, userChanges>>

EditUser(old, user) ==
  /\ Change
  /\ userList' = (userList \ {old}) \cup {user}
  /\ touched' = touched \cup {user.UserID}
  /\ UNCHANGED <<registered, usersToServer, usersToClient>>

SetName(user, name) == EditUser(user, [user EXCEPT !.Name = name, !.changed = TRUE])
Deregister(user) == EditUser(user, [user EXCEPT !.deregister = TRUE])
Register(user) == EditUser(user, [user EXCEPT !.deregister = FALSE])

\* Faulty: every user is written.
IsWritten_All(user) == TRUE

IsWritten(user) == user.deregister \/ user.changed

\* RegisteredUsers.writeMessage; without a change nothing is sent.
SendUserList ==
  LET packet == {[UserId |-> user.UserID, Name |-> IF user.deregister THEN Nil ELSE user.Name] :
                   user \in {u \in userList : IsWritten(u)}}
  IN  /\ Change
      /\ usersToServer' = IF packet = {} THEN usersToServer
                          ELSE Append(usersToServer, packet)
      /\ UNCHANGED <<registered, usersToClient, userList, touched>>

\* The server answers a packet without users with the list, and renames or
\* deregisters the users of another.
ServeUserList ==
  /\ usersToServer # <<>>
  /\ LET packet == Head(usersToServer)
         all == {[UserId |-> i, Name |-> registered[i]] :
                   i \in {j \in UserIDs : registered[j] # Nil}}
     IN  /\ usersToClient' = IF packet = {} THEN Append(usersToClient, all)
                             ELSE usersToClient
         /\ registered' = [i \in UserIDs |->
              IF registered[i] # Nil /\ \E user \in packet : user.UserId = i
              THEN (CHOOSE user \in packet : user.UserId = i).Name ELSE registered[i]]
  /\ usersToServer' = Tail(usersToServer)
  /\ UNCHANGED <<userList, touched, userChanges>>

\* Another administrator, or a user that registers.
OtherChange(i, name) ==
  /\ Change
  /\ registered' = [registered EXCEPT ![i] = name]
  /\ UNCHANGED <<usersToServer, usersToClient, userList, touched>>

UsersNext ==
  \/ RequestUserList \/ HandleUserList \/ SendUserList \/ ServeUserList
  \/ \E user \in userList :
       Deregister(user) \/ Register(user) \/ \E n \in Names : SetName(user, n)
  \/ \E i \in UserIDs, n \in Names \cup {Nil} : OtherChange(i, n)
=============================================================================
