-------------------------- MODULE UserListsPromise --------------------------
(***************************************************************************)
(* What UserLists promises, and the part of its state that the promise is  *)
(* about.                                                                  *)
(***************************************************************************)
EXTENDS Integers, Sequences, Null

CONSTANT UserIDs

VARIABLES
  registered,     \* the names of the users on the server, Nil for no user
  usersToServer,  \* packets on their way to the server
  touched         \* the users the program has changed in this list or an earlier one

-----------------------------------------------------------------------------
(***************************************************************************)
(* Sending a list leaves every user alone that the program has not         *)
(* changed, however old the list is (userlist.go:50-52, 58-68), and an     *)
(* answer to a request leaves all of them alone.                           *)
(***************************************************************************)
UntouchedStay ==
  [][Len(usersToServer') < Len(usersToServer) =>
       \A i \in UserIDs \ touched : registered'[i] = registered[i]]_usersToServer
=============================================================================
