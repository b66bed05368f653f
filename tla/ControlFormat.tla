---------------------------- MODULE ControlFormat ----------------------------
(***************************************************************************)
(* Conversions of the control messages: the version number, and the access *)
(* control lists that a program receives with an ACLEvent and sends back.  *)
(***************************************************************************)
EXTENDS Integers, Sequences, FiniteSetsExt

CONSTANT Nil

\* The bitwise or of two halves of a uint32.
BitOr(x, y) ==
  LET bit(z, k) == (z \div 2^k) % 2 = 1
  IN  MapThenSumSet(LAMBDA k : 2^k, {k \in 0..15 : bit(x, k) \/ bit(y, k)})

\* A uint32 is its upper and its lower half.
packSemver(maj, min, pat) ==
  IF maj > 65535 \/ min > 255 \/ pat > 255 THEN Nil ELSE <<maj, min * 256 + pat>>

\* What DialWithDialer sends for a version: one that cannot be packed, as a
\* build number too large to be a patch, without its last part.
InitialVersion(maj, min, pat) ==
  LET packed == packSemver(maj, min, pat)
  IN  IF packed # Nil THEN packed
      ELSE <<BitOr(maj % 65536, (min \div 256) % 65536), (min % 256) * 256>>

SemanticVersion(v) == <<v[1], v[2] \div 256, v[2] % 256>>

-----------------------------------------------------------------------------
(* A packet's group is [name, inherited, inherit, inheritable, add, remove,*)
(* members], of sets of user IDs, and its rule is [here, subs, inherited,  *)
(* grant, deny, user, group], where user or group is Nil.  Rights are sets.*)

\* The group a rule is about: one of the list, by its place, or a group made for
\* the rule.
RuleGroup(groups, r) ==
  LET named == {k \in DOMAIN groups : groups[k].name = r.group}
  IN  IF r.user # Nil \/ r.group = Nil THEN Nil
      ELSE IF named = {} THEN [own |-> r.group]
      ELSE [at |-> Min(named)]

\* handleACL.
ReadACL(p) ==
  [inherits |-> p.inherits,
   groups |-> [k \in DOMAIN p.groups |->
     [Name |-> p.groups[k].name, Inherited |-> p.groups[k].inherited,
      InheritUsers |-> p.groups[k].inherit, Inheritable |-> p.groups[k].inheritable,
      UsersAdd |-> p.groups[k].add, UsersRemove |-> p.groups[k].remove,
      UsersInherited |-> p.groups[k].members]],
   rules |-> [k \in DOMAIN p.rules |->
     [AppliesCurrent |-> p.rules[k].here, AppliesChildren |-> p.rules[k].subs,
      Inherited |-> p.rules[k].inherited, Granted |-> p.rules[k].grant,
      Denied |-> p.rules[k].deny, User |-> p.rules[k].user,
      Group |-> RuleGroup(p.groups, p.rules[k])]]]

\* ACL.writeMessage; what is inherited is not told apart.
WriteACL(a) ==
  LET name(g) == IF g = Nil THEN Nil ELSE IF "own" \in DOMAIN g THEN g.own ELSE a.groups[g.at].Name
  IN  [inherits |-> a.inherits,
       groups |-> [k \in DOMAIN a.groups |->
         [name |-> a.groups[k].Name, inherit |-> a.groups[k].InheritUsers,
          inheritable |-> a.groups[k].Inheritable,
          add |-> a.groups[k].UsersAdd, remove |-> a.groups[k].UsersRemove]],
       rules |-> [k \in DOMAIN a.rules |->
         [here |-> a.rules[k].AppliesCurrent, subs |-> a.rules[k].AppliesChildren,
          grant |-> a.rules[k].Granted, deny |-> a.rules[k].Denied,
          user |-> a.rules[k].User, group |-> name(a.rules[k].Group)]]]

-----------------------------------------------------------------------------
(***************************************************************************)
(* A version that packSemver accepts is the one that SemanticVersion reads *)
(* from the number at the other end (client.go:18-25, version.go:18-23),   *)
(* and every version whose parts fit is accepted.  Of one whose last part  *)
(* does not fit, the first two are read (client.go:149-157).               *)
(***************************************************************************)
VersionRoundTrip(s) ==
  LET sent == SemanticVersion(InitialVersion(s[1], s[2], s[3])) IN
  /\ packSemver(s[1], s[2], s[3]) # Nil <=> s[1] < 2^16 /\ s[2] < 2^8 /\ s[3] < 2^8
  /\ s[1] < 2^16 /\ s[2] < 2^8 => sent = IF s[3] < 2^8 THEN s ELSE <<s[1], s[2], 0>>

(***************************************************************************)
(* Sending back an access control list as it was received changes nothing  *)
(* in it, whichever group a rule is about, but that the message no longer  *)
(* says what the channel inherits from its parents (handlers.go:784-851,   *)
(* acl.go:20-60).                                                          *)
(***************************************************************************)
AclRoundTrip(p) ==
  LET q == WriteACL(ReadACL(p))
      without(r, fields) == [f \in DOMAIN r \ fields |-> r[f]]
  IN  /\ q.inherits = p.inherits
      /\ q.groups = [k \in DOMAIN p.groups |-> without(p.groups[k], {"inherited", "members"})]
      /\ q.rules = [k \in DOMAIN p.rules |-> without(p.rules[k], {"inherited"})]
=============================================================================
