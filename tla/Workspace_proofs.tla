--------------------------- MODULE Workspace_proofs ---------------------------
(***************************************************************************)
(* Proofs about Workspace, for every set of users, invitations, keys and   *)
(* requests.  The argument is the one the row locks are there for: what a  *)
(* transaction has read stays true while it holds the lock of the row it   *)
(* read it from.                                                           *)
(***************************************************************************)
EXTENDS Workspace, TLAPS

Calls == CallRecord \cup {NoCall}

\* Which operations come to which places.
Placed(c) ==
  /\ call[c].at # "idle" => call[c] \in CallRecord /\ call[c].actor \in account
  /\ call[c].at \in {"workspace", "members", "decide"} => call[c].op \in GovernanceOps
  /\ call[c].at \in {"actor", "active", "insert"} => call[c].op = "create"
  /\ call[c].at \in {"user", "target"} => call[c].op \in {"create", "accept"}
  /\ call[c].at = "authorise" => call[c].op \in {"create", "revoke", "rotate"}
  /\ call[c].at = "invite" => call[c].op \in {"revoke", "accept"}
  /\ call[c].at = "mark" => call[c].op \in {"revoke", "accept"}
  /\ call[c].at \in {"list", "swap"} => call[c].op = "rotate"
  /\ call[c].op = "create" => call[c].found \in {{}, {call[c].user}}
  /\ call[c].at \in {"authorise", "actor", "invite", "user"} => call[c].found = {}

\* What a call has read under the locks it has.
Knows(c) ==
  /\ call[c].at \in {"members", "decide"} => ~deleted
  /\ call[c].at = "decide" => call[c].seen = role
  /\ call[c].op = "create" /\ call[c].at \in {"user", "target", "active", "insert"} =>
       role[call[c].actor] \in {"owner", "admin"}
  /\ call[c].op = "create" /\ call[c].at \in {"active", "insert"} =>
       \A u \in call[c].found : role[u] = "none"
  /\ call[c].op = "accept" /\ call[c].at = "mark" => role[call[c].user] = "none"
  /\ call[c].op = "accept" => call[c].user = call[c].actor
  /\ call[c].op = "accept" /\ call[c].at \in {"user", "target", "mark"} =>
       \A i \in call[c].invite : invite[i].state # "none" /\ invite[i].email = {call[c].actor}

Rows == ExactlyOneOwner /\ PendingInvitesAreUseful /\ SomeKeyWorks

IInv == TypeOK /\ (\A c \in Call : Placed(c) /\ Knows(c)) /\ Rows

-----------------------------------------------------------------------------
\* A step of one call that writes no row: it only has to take its new locks
\* from nobody and to know what it says.
LEMMA LocalStep ==
  ASSUME IInv, NEW c \in Call, UNCHANGED <<account, rows, overlooked>>,
         call' \in [Call -> Calls], calls' \in 0..MaxCalls,
         \A d \in Call \ {c} : call'[d] = call[d],
         Placed(c)', Knows(c)',
         HasWorkspace(c)' => HasWorkspace(c) \/ WorkspaceFree(c),
         \A u \in User : HasMember(c, u)' => HasMember(c, u) \/ MemberFree(c, u),
         \A u \in User : HasUser(c, u)' => HasUser(c, u) \/ UserFree(c, u),
         \A i \in Invite : HasInvite(c, i)' => HasInvite(c, i) \/ InviteFree(c, i)
  PROVE  IInv'
<1>1. ASSUME NEW d \in Call \ {c}
      PROVE  /\ Placed(d)' /\ Knows(d)'
             /\ HasWorkspace(d)' <=> HasWorkspace(d)
             /\ \A u \in User : HasMember(d, u)' <=> HasMember(d, u)
             /\ \A u \in User : HasUser(d, u)' <=> HasUser(d, u)
             /\ \A i \in Invite : HasInvite(d, i)' <=> HasInvite(d, i)
  <2>1. Placed(d) /\ Knows(d) /\ call'[d] = call[d]
    BY <1>1 DEF IInv
  <2>2. Placed(d)' /\ Knows(d)'
    BY <2>1 DEF Placed, Knows, rows
  <2>3. HasWorkspace(d)' <=> HasWorkspace(d)
    BY <2>1 DEF HasWorkspace, Governs
  <2>4. \A u \in User : HasMember(d, u)' <=> HasMember(d, u)
    BY <2>1 DEF HasMember, Governs, rows
  <2>5. \A u \in User : HasUser(d, u)' <=> HasUser(d, u)
    BY <2>1 DEF HasUser
  <2>6. \A i \in Invite : HasInvite(d, i)' <=> HasInvite(d, i)
    BY <2>1 DEF HasInvite
  <2>7. QED
    BY <2>2, <2>3, <2>4, <2>5, <2>6
<1>2. LocksExclude'
  <2>1. LocksExclude
    BY DEF IInv, TypeOK
  <2>2. ASSUME NEW d \in Call \ {c}
        PROVE  /\ ~(HasWorkspace(c)' /\ HasWorkspace(d)')
               /\ \A u \in User : ~(HasMember(c, u)' /\ HasMember(d, u)')
               /\ \A u \in User : ~(HasUser(c, u)' /\ HasUser(d, u)')
               /\ \A i \in Invite : ~(HasInvite(c, i)' /\ HasInvite(d, i)')
    BY <1>1, <2>1 DEF LocksExclude, WorkspaceFree, MemberFree, UserFree, InviteFree
  <2>3. ASSUME NEW d \in Call \ {c}, NEW e \in Call \ {c}, d # e
        PROVE  /\ ~(HasWorkspace(d)' /\ HasWorkspace(e)')
               /\ \A u \in User : ~(HasMember(d, u)' /\ HasMember(e, u)')
               /\ \A u \in User : ~(HasUser(d, u)' /\ HasUser(e, u)')
               /\ \A i \in Invite : ~(HasInvite(d, i)' /\ HasInvite(e, i)')
    BY <1>1, <2>1, <2>3 DEF LocksExclude
  <2>4. QED
    BY <2>2, <2>3 DEF LocksExclude
<1>3. TypeOK'
  BY <1>2 DEF IInv, TypeOK, Calls, rows
<1>4. Rows'
  BY DEF IInv, Rows, ExactlyOneOwner, Owners, PendingInvitesAreUseful, Pending, SomeKeyWorks,
         rows
<1>5. QED
  BY <1>1, <1>3, <1>4 DEF IInv

-----------------------------------------------------------------------------
\* How the calls are changed: one goes on to a place, or ends.

LEMMA GotoCall ==
  ASSUME call \in [Call -> Calls], NEW c \in Call, call[c] \in CallRecord,
         NEW p \in Places, call' = [call EXCEPT ![c].at = p]
  PROVE  /\ call' \in [Call -> Calls]
         /\ \A d \in Call \ {c} : call'[d] = call[d]
         /\ call'[c] \in CallRecord
         /\ call'[c].at = p
         /\ call'[c].op = call[c].op
         /\ call'[c].actor = call[c].actor /\ call'[c].user = call[c].user
         /\ call'[c].role = call[c].role /\ call'[c].invite = call[c].invite
         /\ call'[c].seen = call[c].seen /\ call'[c].retired = call[c].retired
         /\ call'[c].found = call[c].found
BY DEF Calls, CallRecord

LEMMA EndCall ==
  ASSUME call \in [Call -> Calls], NEW c \in Call, End(c)
  PROVE  /\ call' \in [Call -> Calls]
         /\ \A d \in Call \ {c} : call'[d] = call[d]
         /\ call'[c] = NoCall
BY DEF Calls, End

\* A call that has ended has no lock and knows nothing.
LEMMA EndedCall ==
  ASSUME NEW c \in Call, call'[c] = NoCall
  PROVE  /\ Placed(c)' /\ Knows(c)' /\ ~HasWorkspace(c)'
         /\ \A u \in User : ~HasMember(c, u)' /\ ~HasUser(c, u)'
         /\ \A i \in Invite : ~HasInvite(c, i)'
<1>1. /\ call'[c].op = "none" /\ call'[c].at = "idle" /\ call'[c].retired = {}
  BY DEF NoCall
<1>2. Placed(c)' /\ Knows(c)'
  BY <1>1 DEF Placed, Knows, rows
<1>3. ~HasWorkspace(c)'
  BY <1>1 DEF HasWorkspace, Governs, GovernanceOps
<1>4. \A u \in User : ~HasMember(c, u)' /\ ~HasUser(c, u)'
  BY <1>1 DEF HasMember, HasUser, Governs, GovernanceOps
<1>5. \A i \in Invite : ~HasInvite(c, i)'
  BY <1>1 DEF HasInvite
<1>6. QED
  BY <1>2, <1>3, <1>4, <1>5

-----------------------------------------------------------------------------
\* The steps that write no row.
LEMMA InitIInv == Init => IInv
<1> SUFFICES ASSUME Init PROVE IInv
  OBVIOUS
<1>1. \A c \in Call : call[c] = NoCall /\ call[c].op = "none" /\ call[c].at = "idle"
                      /\ call[c].retired = {}
  BY DEF Init, NoCall
<1>2. \A c \in Call : Placed(c) /\ Knows(c)
  BY <1>1 DEF Placed, Knows, rows
<1>3. LocksExclude
  BY <1>1 DEF LocksExclude, HasWorkspace, HasMember, HasUser, HasInvite, Governs,
              GovernanceOps
<1>4. invite \in [Invite -> InviteRecord] /\ \A i \in Invite : invite[i].state = "none"
  <2>1. NoInvite \in InviteRecord /\ NoInvite.state = "none"
    BY DEF NoInvite, InviteRecord
  <2>2. QED
    BY <2>1 DEF Init
<1>5. TypeOK
  <2>1. /\ role \in [User -> Roles \cup {"none"}] /\ \A u \in User \ account : role[u] = "none"
        /\ account \subseteq User /\ deleted \in BOOLEAN /\ overlooked \subseteq Invite
    BY ConstantsAssumption DEF Init, InvitationRoles, Roles
  <2>2. key \in [Key -> {"none", "active", "revoked"}] /\ calls \in 0..MaxCalls
    BY ConstantsAssumption DEF Init
  <2>3. call \in [Call -> Calls]
    BY DEF Init, Calls
  <2>4. QED
    BY <1>3, <1>4, <2>1, <2>2, <2>3 DEF TypeOK, Calls
<1>6. Rows
  BY <1>4 DEF Init, Rows, ExactlyOneOwner, PendingInvitesAreUseful, Pending, SomeKeyWorks
<1>7. QED
  BY <1>2, <1>5, <1>6 DEF IInv

LEMMA StartStep ==
  ASSUME IInv, NEW c \in Call, NEW op \in Ops, NEW at \in {"workspace", "authorise", "invite"},
         NEW actor \in account, NEW user \in User, NEW r \in InvitationRoles \cup {"none"},
         NEW is \in {{}} \cup {{i} : i \in Invite},
         at = "workspace" => op \in GovernanceOps,
         at = "invite" => op = "accept",
         op = "accept" => user = actor /\ at = "invite",
         at = "authorise" => op \in {"create", "revoke", "rotate"},
         Start(c, op, at, actor, user, r, is)
  PROVE  IInv'
<1> DEFINE rec == [op |-> op, at |-> at, actor |-> actor, user |-> user, role |-> r,
                   invite |-> is, seen |-> [u \in User |-> "none"], found |-> {},
                   late |-> {}, retired |-> {}, old |-> {}]
<1>1. rec \in CallRecord
  BY DEF CallRecord, Places, Roles, IInv, TypeOK
<1>2. /\ call' \in [Call -> Calls] /\ calls' \in 0..MaxCalls
      /\ \A d \in Call \ {c} : call'[d] = call[d]
      /\ call'[c] = rec
      /\ UNCHANGED <<account, rows, overlooked>>
  BY <1>1, ConstantsAssumption DEF Start, IInv, TypeOK, Calls
<1>3. /\ call'[c] \in CallRecord /\ call'[c].op = op /\ call'[c].at = at
      /\ call'[c].actor = actor /\ call'[c].user = user /\ call'[c].retired = {}
      /\ call'[c].found = {}
  BY <1>1, <1>2
<1> HIDE DEF rec
<1>4. Placed(c)' /\ Knows(c)'
  BY <1>2, <1>3 DEF Placed, Knows, GovernanceOps, rows
<1>5. /\ ~HasWorkspace(c)'
      /\ \A u \in User : ~HasMember(c, u)' /\ ~HasUser(c, u)'
      /\ \A i \in Invite : ~HasInvite(c, i)'
  BY <1>3 DEF HasWorkspace, HasMember, HasUser, HasInvite, rows
<1>6. QED
  BY <1>2, <1>4, <1>5, LocalStep

LEMMA RequestStep == ASSUME IInv, NEW c \in Call, Request(c) PROVE IInv'
<1>1. PICK actor \in account, user \in User :
        \/ \E r \in Requested :
             \/ Start(c, "change", "workspace", actor, user, r, {})
             \/ Start(c, "create", "authorise", actor, user, r, {})
        \/ Start(c, "remove", "workspace", actor, user, "none", {})
        \/ Start(c, "transfer", "workspace", actor, user, "none", {})
        \/ /\ user = actor
           /\ \/ Start(c, "leave", "workspace", actor, user, "none", {})
              \/ Start(c, "delete", "workspace", actor, user, "none", {})
              \/ Start(c, "rotate", "authorise", actor, user, "none", {})
              \/ \E i \in Invite :
                   \/ Start(c, "revoke", "authorise", actor, user, "none", {i})
                   \/ Start(c, "accept", "invite", actor, user, "none", {i})
  BY DEF Request
<1>2. {"change", "remove", "transfer", "leave", "delete"} \subseteq GovernanceOps
  BY DEF GovernanceOps
<1>3. GovernanceOps \cup {"create", "rotate", "revoke", "accept"} \subseteq Ops
  BY DEF Ops
<1>4. ASSUME NEW op \in {"change", "remove", "transfer", "leave", "delete"},
             NEW r \in Requested \cup {"none"},
             Start(c, op, "workspace", actor, user, r, {})
      PROVE  IInv'
  BY <1>2, <1>3, <1>4, StartStep, ConstantsAssumption
<1>5. ASSUME NEW op \in {"create", "rotate", "revoke"}, NEW r \in Requested \cup {"none"},
             NEW is \in {{}} \cup {{i} : i \in Invite},
             Start(c, op, "authorise", actor, user, r, is)
      PROVE  IInv'
  BY <1>3, <1>5, StartStep, ConstantsAssumption
<1>6. ASSUME NEW i \in Invite, user = actor,
             Start(c, "accept", "invite", actor, user, "none", {i})
      PROVE  IInv'
  BY <1>3, <1>6, StartStep
<1>7. QED
  BY <1>1, <1>4, <1>5, <1>6

LEMMA AbortStep == ASSUME IInv, NEW c \in Call, Abort(c) PROVE IInv'
<1>1. UNCHANGED <<account, rows, calls, overlooked>> /\ End(c)
  BY DEF Abort
<1>2. call \in [Call -> Calls] /\ calls \in 0..MaxCalls
  BY DEF IInv, TypeOK, Calls
<1>3. QED
  BY <1>1, <1>2, EndCall, EndedCall, LocalStep

LEMMA LockWorkspaceStep == ASSUME IInv, NEW c \in Call, LockWorkspace(c) PROVE IInv'
<1>1. /\ call \in [Call -> Calls] /\ call[c] \in CallRecord /\ call[c].op \in GovernanceOps
      /\ Placed(c) /\ Knows(c) /\ calls \in 0..MaxCalls
  BY DEF IInv, TypeOK, Calls, LockWorkspace, Placed
<1>2. /\ call' \in [Call -> Calls]
      /\ \A d \in Call \ {c} : call'[d] = call[d]
      /\ call'[c] \in CallRecord /\ call'[c].at = "members" /\ call'[c].op = call[c].op
      /\ call'[c].actor = call[c].actor /\ call'[c].retired = call[c].retired
      /\ call'[c].found = call[c].found
      /\ UNCHANGED <<account, rows, calls, overlooked>>
  <2>1. "members" \in Places
    BY DEF Places
  <2>2. call' = [call EXCEPT ![c].at = "members"] /\ UNCHANGED <<account, rows, calls, overlooked>>
    BY DEF LockWorkspace, Goto
  <2>3. QED
    BY <1>1, <2>1, <2>2, GotoCall
<1>3. Placed(c)' /\ Knows(c)'
  BY <1>1, <1>2 DEF Placed, Knows, GovernanceOps, LockWorkspace, WorkspaceFree, rows
<1>4. /\ WorkspaceFree(c)
      /\ \A u \in User : ~HasMember(c, u)' /\ ~HasUser(c, u)'
      /\ \A i \in Invite : HasInvite(c, i)' => HasInvite(c, i)
  BY <1>1, <1>2 DEF LockWorkspace, HasMember, HasUser, HasInvite, GovernanceOps
<1>5. QED
  BY <1>1, <1>2, <1>3, <1>4, LocalStep

LEMMA LockMembershipsStep == ASSUME IInv, NEW c \in Call, LockMemberships(c) PROVE IInv'
<1>1. /\ call \in [Call -> Calls] /\ call[c] \in CallRecord /\ call[c].op \in GovernanceOps
      /\ call[c].at = "members" /\ calls \in 0..MaxCalls /\ Placed(c) /\ Knows(c)
      /\ role \in [User -> Roles \cup {"none"}]
  BY DEF IInv, TypeOK, Calls, LockMemberships, Placed
<1>2. /\ call' \in [Call -> Calls]
      /\ \A d \in Call \ {c} : call'[d] = call[d]
      /\ call'[c] \in CallRecord /\ call'[c].at = "decide" /\ call'[c].op = call[c].op
      /\ call'[c].actor = call[c].actor
      /\ call'[c].retired = call[c].retired /\ call'[c].seen = role
      /\ UNCHANGED <<account, rows, calls, overlooked>>
  BY <1>1 DEF LockMemberships, Calls, CallRecord, Places
<1>3. Placed(c)' /\ Knows(c)'
  BY <1>1, <1>2 DEF Placed, Knows, GovernanceOps, rows
<1>4. /\ HasWorkspace(c)
      /\ \A u \in User : HasMember(c, u)' => MemberFree(c, u)
      /\ \A u \in User : ~HasUser(c, u)'
      /\ \A i \in Invite : HasInvite(c, i)' => HasInvite(c, i)
  BY <1>1, <1>2 DEF LockMemberships, HasWorkspace, HasMember, HasUser, HasInvite, Governs,
                    GovernanceOps, rows
<1>5. QED
  BY <1>1, <1>2, <1>3, <1>4, LocalStep

LEMMA AuthoriseStep == ASSUME IInv, NEW c \in Call, Authorise(c) PROVE IInv'
<1>1. /\ call \in [Call -> Calls] /\ call[c] \in CallRecord /\ call[c].at = "authorise"
      /\ Placed(c) /\ Knows(c) /\ calls \in 0..MaxCalls /\ Expired \subseteq Invite
  BY DEF IInv, TypeOK, Calls, Authorise, Placed, Expired
<1>2. PICK p \in {"actor", "invite", "list"} :
        /\ call' = [call EXCEPT ![c].at = p, ![c].late = Expired]
        /\ p = "actor" => call[c].op = "create"
        /\ p = "invite" => call[c].op = "revoke"
        /\ p = "list" => call[c].op = "rotate"
  BY <1>1 DEF Authorise, Placed
<1>3. /\ call' \in [Call -> Calls]
      /\ \A d \in Call \ {c} : call'[d] = call[d]
      /\ call'[c] \in CallRecord /\ call'[c].at = p /\ call'[c].op = call[c].op
      /\ call'[c].actor = call[c].actor /\ call'[c].user = call[c].user
      /\ call'[c].retired = call[c].retired
      /\ call'[c].found = call[c].found
  BY <1>1, <1>2 DEF Calls, CallRecord, Places
<1>4. Placed(c)' /\ Knows(c)'
  BY <1>1, <1>2, <1>3 DEF Authorise, Placed, Knows, rows
<1>5. /\ ~HasWorkspace(c)'
      /\ \A u \in User : ~HasMember(c, u)' /\ ~HasUser(c, u)'
      /\ \A i \in Invite : HasInvite(c, i)' => HasInvite(c, i)
  BY <1>1, <1>2, <1>3 DEF Placed, HasWorkspace, HasMember, HasUser, HasInvite, rows
<1>6. UNCHANGED <<account, rows, calls, overlooked>>
  BY DEF Authorise
<1>7. QED
  BY <1>1, <1>3, <1>4, <1>5, <1>6, LocalStep

LEMMA LockActorStep == ASSUME IInv, NEW c \in Call, LockActor(c) PROVE IInv'
<1>1. /\ call \in [Call -> Calls] /\ call[c] \in CallRecord /\ call[c].at = "actor"
      /\ call[c].op = "create" /\ calls \in 0..MaxCalls /\ Placed(c) /\ Knows(c)
      /\ role \in [User -> Roles \cup {"none"}]
  BY DEF IInv, TypeOK, Calls, LockActor, Placed
<1>2. PICK is \in SUBSET Invite :
        /\ call' = [call EXCEPT ![c].at = "user", ![c].retired = is]
        /\ \A i \in is : InviteFree(c, i)
  <2>1. call[c].late \subseteq Invite
    BY <1>1 DEF CallRecord
  <2> DEFINE is == {i \in call[c].late : /\ Pending(i)
                                        /\ invite[i].email = {call[c].user}
                                        /\ InviteFree(c, i)}
  <2>2. is \in SUBSET Invite /\ \A i \in is : InviteFree(c, i)
    BY <2>1
  <2>3. call' = [call EXCEPT ![c].at = "user", ![c].retired = is]
    BY DEF LockActor
  <2>4. QED
    BY <2>2, <2>3
<1>3. /\ call' \in [Call -> Calls]
      /\ \A d \in Call \ {c} : call'[d] = call[d]
      /\ call'[c] \in CallRecord /\ call'[c].at = "user" /\ call'[c].op = "create"
      /\ call'[c].actor = call[c].actor /\ call'[c].user = call[c].user
      /\ call'[c].retired = is /\ call'[c].found = call[c].found
  BY <1>1, <1>2 DEF Calls, CallRecord, Places
<1>4. UNCHANGED <<account, rows, calls, overlooked>>
  BY DEF LockActor
<1>5. role[call[c].actor] \in {"owner", "admin"}
  <2>1. call[c].actor \in User /\ role[call[c].actor] \in Roles \cup {"none"}
    BY <1>1 DEF CallRecord
  <2>2. Rank[role[call[c].actor]] >= Rank["admin"]
    BY DEF LockActor, HasCapability, MinimumRole
  <2>3. QED
    BY <2>1, <2>2 DEF Rank, Roles
<1>6. Placed(c)' /\ Knows(c)'
  BY <1>1, <1>3, <1>4, <1>5 DEF Placed, Knows, rows
<1>7. /\ ~HasWorkspace(c)'
      /\ \A u \in User : HasMember(c, u)' => MemberFree(c, u)
      /\ \A u \in User : ~HasUser(c, u)'
      /\ \A i \in Invite : HasInvite(c, i)' => InviteFree(c, i)
  BY <1>1, <1>2, <1>3 DEF LockActor, Placed, HasWorkspace, HasMember, HasUser, HasInvite, Governs,
                         GovernanceOps
<1>8. QED
  BY <1>1, <1>3, <1>4, <1>6, <1>7, LocalStep

LEMMA LockUserStep == ASSUME IInv, NEW c \in Call, LockUser(c) PROVE IInv'
<1>1. /\ call \in [Call -> Calls] /\ call[c] \in CallRecord /\ call[c].at = "user"
      /\ call[c].op \in {"create", "accept"} /\ call[c].user \in User
      /\ Placed(c) /\ Knows(c) /\ calls \in 0..MaxCalls
  BY DEF IInv, TypeOK, Calls, LockUser, Placed, CallRecord
<1>2. PICK us \in {{}} \cup {{u} : u \in User} :
        /\ call' = [call EXCEPT ![c].at = "target", ![c].found = us]
        /\ call[c].op = "create" => us = {call[c].user}
  BY <1>1 DEF LockUser, Found
<1>3. /\ call' \in [Call -> Calls]
      /\ \A d \in Call \ {c} : call'[d] = call[d]
      /\ call'[c] \in CallRecord /\ call'[c].at = "target" /\ call'[c].op = call[c].op
      /\ call'[c].actor = call[c].actor /\ call'[c].user = call[c].user
      /\ call'[c].invite = call[c].invite /\ call'[c].retired = call[c].retired
      /\ call'[c].found = us
  BY <1>1, <1>2 DEF Calls, CallRecord, Places
<1>4. UNCHANGED <<account, rows, calls, overlooked>>
  BY DEF LockUser
<1>5. Placed(c)' /\ Knows(c)'
  BY <1>1, <1>2, <1>3, <1>4 DEF Placed, Knows, rows
<1>6. /\ ~HasWorkspace(c)'
      /\ \A u \in User : HasMember(c, u)' => HasMember(c, u)
      /\ \A u \in User : HasUser(c, u)' => UserFree(c, u)
      /\ \A i \in Invite : HasInvite(c, i)' => HasInvite(c, i)
  BY <1>1, <1>2, <1>3, <1>4
     DEF LockUser, HasWorkspace, HasMember, HasUser, HasInvite, Governs, GovernanceOps, rows
<1>7. QED
  BY <1>1, <1>3, <1>4, <1>5, <1>6, LocalStep

LEMMA FindNoUserStep == ASSUME IInv, NEW c \in Call, FindNoUser(c) PROVE IInv'
<1>1. /\ call \in [Call -> Calls] /\ call[c] \in CallRecord /\ call[c].at = "user"
      /\ call[c].op = "create" /\ call[c].found = {}
      /\ Placed(c) /\ Knows(c) /\ calls \in 0..MaxCalls
      /\ "active" \in Places
  BY DEF IInv, TypeOK, Calls, FindNoUser, Placed, Places
<1>2. call' = [call EXCEPT ![c].at = "active"] /\ UNCHANGED <<account, rows, calls, overlooked>>
  BY DEF FindNoUser, Goto
<1>3. /\ call' \in [Call -> Calls]
      /\ \A d \in Call \ {c} : call'[d] = call[d]
      /\ call'[c] \in CallRecord /\ call'[c].at = "active" /\ call'[c].op = call[c].op
      /\ call'[c].actor = call[c].actor /\ call'[c].user = call[c].user
      /\ call'[c].invite = call[c].invite /\ call'[c].retired = call[c].retired
      /\ call'[c].found = call[c].found
  BY <1>1, <1>2, GotoCall
<1>4. Placed(c)' /\ Knows(c)'
  BY <1>1, <1>2, <1>3 DEF Placed, Knows, rows
<1>5. /\ ~HasWorkspace(c)'
      /\ \A u \in User : HasMember(c, u)' => HasMember(c, u)
      /\ \A u \in User : HasUser(c, u)' => HasUser(c, u)
      /\ \A i \in Invite : HasInvite(c, i)' => HasInvite(c, i)
  BY <1>1, <1>2, <1>3 DEF HasWorkspace, HasMember, HasUser, HasInvite, Governs, GovernanceOps, rows
<1>6. QED
  BY <1>1, <1>2, <1>3, <1>4, <1>5, LocalStep

LEMMA LockTargetStep == ASSUME IInv, NEW c \in Call, LockTargetMembership(c) PROVE IInv'
<1>1. /\ call \in [Call -> Calls] /\ call[c] \in CallRecord /\ call[c].at = "target"
      /\ call[c].op \in {"create", "accept"}
      /\ Placed(c) /\ Knows(c) /\ calls \in 0..MaxCalls
  BY DEF IInv, TypeOK, Calls, LockTargetMembership, Placed
<1>2. PICK p \in {"active", "mark"} :
        /\ call' = [call EXCEPT ![c].at = p]
        /\ p = "active" <=> call[c].op = "create"
        /\ p \in Places
  BY DEF LockTargetMembership, Goto, Places
<1>3. /\ call' \in [Call -> Calls]
      /\ \A d \in Call \ {c} : call'[d] = call[d]
      /\ call'[c] \in CallRecord /\ call'[c].at = p /\ call'[c].op = call[c].op
      /\ call'[c].actor = call[c].actor /\ call'[c].user = call[c].user
      /\ call'[c].invite = call[c].invite /\ call'[c].retired = call[c].retired
      /\ call'[c].found = call[c].found
  BY <1>1, <1>2, GotoCall
<1>4. role[call[c].user] = "none" /\ UNCHANGED <<account, rows, calls, overlooked>>
  BY DEF LockTargetMembership
<1>5. Placed(c)' /\ Knows(c)'
  BY <1>1, <1>2, <1>3, <1>4 DEF Placed, Knows, rows
<1>6. /\ ~HasWorkspace(c)'
      /\ \A u \in User : HasMember(c, u)' => HasMember(c, u)
      /\ \A u \in User : HasUser(c, u)' => HasUser(c, u)
      /\ \A i \in Invite : HasInvite(c, i)' => HasInvite(c, i)
  BY <1>1, <1>2, <1>3 DEF HasWorkspace, HasMember, HasUser, HasInvite, Governs, GovernanceOps, rows
<1>7. QED
  BY <1>1, <1>3, <1>4, <1>5, <1>6, LocalStep

LEMMA LockActiveStep == ASSUME IInv, NEW c \in Call, LockActiveInvitation(c) PROVE IInv'
<1>1. /\ call \in [Call -> Calls] /\ call[c] \in CallRecord /\ call[c].at = "active"
      /\ call[c].op = "create"
      /\ Placed(c) /\ Knows(c) /\ calls \in 0..MaxCalls
      /\ "insert" \in Places
  BY DEF IInv, TypeOK, Calls, LockActiveInvitation, Placed, Places
<1>2. call' = [call EXCEPT ![c].at = "insert"] /\ UNCHANGED <<account, rows, calls, overlooked>>
  BY DEF LockActiveInvitation, Goto
<1>3. /\ call' \in [Call -> Calls]
      /\ \A d \in Call \ {c} : call'[d] = call[d]
      /\ call'[c] \in CallRecord /\ call'[c].at = "insert" /\ call'[c].op = call[c].op
      /\ call'[c].actor = call[c].actor /\ call'[c].user = call[c].user
      /\ call'[c].invite = call[c].invite /\ call'[c].retired = call[c].retired
      /\ call'[c].found = call[c].found
  BY <1>1, <1>2, GotoCall
<1>4. Placed(c)' /\ Knows(c)'
  BY <1>1, <1>2, <1>3 DEF Placed, Knows, rows
<1>5. /\ ~HasWorkspace(c)'
      /\ \A u \in User : HasMember(c, u)' => HasMember(c, u)
      /\ \A u \in User : HasUser(c, u)' => HasUser(c, u)
      /\ \A i \in Invite : HasInvite(c, i)' => HasInvite(c, i)
  BY <1>1, <1>3 DEF HasWorkspace, HasMember, HasUser, HasInvite, Governs, GovernanceOps, rows
<1>6. QED
  BY <1>1, <1>2, <1>3, <1>4, <1>5, LocalStep

LEMMA LockInvitationStep == ASSUME IInv, NEW c \in Call, LockInvitation(c) PROVE IInv'
<1>1. /\ call \in [Call -> Calls] /\ call[c] \in CallRecord /\ call[c].at = "invite"
      /\ Placed(c) /\ Knows(c) /\ calls \in 0..MaxCalls
      /\ {"mark", "user"} \subseteq Places
  BY DEF IInv, TypeOK, Calls, LockInvitation, Placed, Places
<1>2. PICK p \in {"mark", "user"} :
        /\ call' = [call EXCEPT ![c].at = p]
        /\ p = "mark" => call[c].op = "revoke"
        /\ p = "user" => call[c].op = "accept"
                         /\ \A i \in call[c].invite : invite[i].email = {call[c].actor}
  BY DEF LockInvitation, Goto
<1>3. /\ call' \in [Call -> Calls]
      /\ \A d \in Call \ {c} : call'[d] = call[d]
      /\ call'[c] \in CallRecord /\ call'[c].at = p /\ call'[c].op = call[c].op
      /\ call'[c].actor = call[c].actor /\ call'[c].user = call[c].user
      /\ call'[c].invite = call[c].invite /\ call'[c].retired = call[c].retired
      /\ call'[c].found = call[c].found
  BY <1>1, <1>2, GotoCall
<1>4. /\ \A i \in call[c].invite : InviteFree(c, i) /\ invite[i].state # "none"
      /\ UNCHANGED <<account, rows, calls, overlooked>>
  BY DEF LockInvitation, Pending
<1>5. Placed(c)' /\ Knows(c)'
  BY <1>1, <1>2, <1>3, <1>4 DEF Placed, Knows, rows
<1>6. /\ ~HasWorkspace(c)'
      /\ \A u \in User : ~HasMember(c, u)' /\ ~HasUser(c, u)'
      /\ \A i \in Invite : HasInvite(c, i)' => HasInvite(c, i) \/ InviteFree(c, i)
  BY <1>1, <1>2, <1>3, <1>4 DEF HasWorkspace, HasMember, HasUser, HasInvite, Governs, GovernanceOps, rows
<1>7. QED
  BY <1>1, <1>3, <1>4, <1>5, <1>6, LocalStep

LEMMA ListKeysStep == ASSUME IInv, NEW c \in Call, ListActiveKeys(c) PROVE IInv'
<1>1. /\ call \in [Call -> Calls] /\ call[c] \in CallRecord /\ call[c].at = "list"
      /\ Placed(c) /\ Knows(c) /\ calls \in 0..MaxCalls
  BY DEF IInv, TypeOK, Calls, ListActiveKeys, Placed
<1>2. PICK ks \in SUBSET Key : call' = [call EXCEPT ![c].at = "swap", ![c].old = ks]
  BY DEF ListActiveKeys
<1>3. /\ call' \in [Call -> Calls]
      /\ \A d \in Call \ {c} : call'[d] = call[d]
      /\ call'[c] \in CallRecord /\ call'[c].at = "swap" /\ call'[c].op = call[c].op
      /\ call'[c].actor = call[c].actor /\ call'[c].user = call[c].user
      /\ call'[c].retired = call[c].retired
      /\ call'[c].found = call[c].found
  BY <1>1, <1>2 DEF Calls, CallRecord, Places
<1>4. UNCHANGED <<account, rows, calls, overlooked>>
  BY DEF ListActiveKeys
<1>5. Placed(c)' /\ Knows(c)'
  BY <1>1, <1>3, <1>4 DEF Placed, Knows, rows
<1>6. /\ ~HasWorkspace(c)'
      /\ \A u \in User : ~HasMember(c, u)' /\ ~HasUser(c, u)'
      /\ \A i \in Invite : HasInvite(c, i)' => HasInvite(c, i)
  BY <1>1, <1>3 DEF Placed, HasWorkspace, HasMember, HasUser, HasInvite, rows
<1>7. QED
  BY <1>1, <1>3, <1>4, <1>5, <1>6, LocalStep

-----------------------------------------------------------------------------
\* The steps that write rows.  The call that writes them ends; the others keep
\* their locks and what they know, for the rows written were locked.
LEMMA RoleChange ==
  ASSUME IInv, NEW c \in Call, End(c), calls' = calls,
         account' = account, deleted' \in BOOLEAN, overlooked' \subseteq Invite,
         key' \in [Key -> {"none", "active", "revoked"}], SomeKeyWorks',
         role' \in [User -> Roles \cup {"none"}],
         \A u \in User \ account : role'[u] = "none",
         invite' \in [Invite -> InviteRecord],
         WorkspaceFree(c),
         \A i \in Invite : invite[i].state # "none" =>
            \/ invite'[i].state # "none" /\ invite'[i].email = invite[i].email
            \/ InviteFree(c, i),
         \A u \in User : role[u] # "none" /\ role'[u] # role[u] => MemberFree(c, u),
         \A u \in User : role[u] = "none" /\ role'[u] # role[u] => UserFree(c, u),
         ExactlyOneOwner', PendingInvitesAreUseful'
  PROVE  IInv'
<1>1. call \in [Call -> Calls] /\ call' \in [Call -> Calls] /\ call'[c] = NoCall
      /\ \A d \in Call \ {c} : call'[d] = call[d]
  BY EndCall DEF IInv, TypeOK, Calls
<1>2. ASSUME NEW d \in Call \ {c}
      PROVE  /\ Placed(d)' /\ Knows(d)'
             /\ HasWorkspace(d)' <=> HasWorkspace(d)
             /\ \A u \in User : HasMember(d, u)' => HasMember(d, u)
             /\ \A u \in User : HasUser(d, u)' <=> HasUser(d, u)
             /\ \A i \in Invite : HasInvite(d, i)' <=> HasInvite(d, i)
  <2>1. Placed(d) /\ Knows(d) /\ call'[d] = call[d] /\ ~HasWorkspace(d)
        /\ call[d] \in Calls
    BY <1>1 DEF IInv, WorkspaceFree
  <2>2. Placed(d)'
    BY <2>1 DEF Placed
  <2>3. call[d].at \notin {"members", "decide"}
    BY <2>1 DEF Placed, HasWorkspace, Governs
  <2>4. \A i \in Invite : HasInvite(d, i)' <=> HasInvite(d, i)
    BY <2>1 DEF HasInvite
  <2>5. \A u \in User : HasUser(d, u)' <=> HasUser(d, u)
    BY <2>1 DEF HasUser
  <2>6. \A u \in User : HasMember(d, u)' => HasMember(d, u)
    BY <2>1, <2>3 DEF HasMember
  <2>7. HasWorkspace(d)' <=> HasWorkspace(d)
    BY <2>1 DEF HasWorkspace, Governs
  <2>8. Knows(d)'
    <3>1. CASE call[d].op = "create" /\ call[d].at \in {"user", "target", "active", "insert"}
      <4>1. call[d].actor \in User /\ call[d].user \in User
        BY <2>1, <3>1 DEF Placed, CallRecord
      <4>2. HasMember(d, call[d].actor)
        BY <3>1 DEF HasMember
      <4>3. role'[call[d].actor] = role[call[d].actor]
        BY <2>1, <3>1, <4>1, <4>2 DEF MemberFree, Knows
      <4>4. \A u \in call[d].found : HasUser(d, u) /\ u \in User
        BY <2>1, <3>1 DEF HasUser, Placed, CallRecord
      <4>5. call[d].at \in {"active", "insert"} => \A u \in call[d].found : role'[u] = "none"
        BY <2>1, <3>1, <4>1, <4>4 DEF UserFree, Knows
      <4>6. QED
        BY <2>1, <2>3, <3>1, <4>3, <4>5 DEF Knows
    <3>2. CASE call[d].op = "accept" /\ call[d].at \in {"user", "target", "mark"}
      <4>1. call[d].actor \in User /\ call[d].user = call[d].actor
            /\ call[d].invite \subseteq Invite
        BY <2>1, <3>2 DEF Placed, CallRecord, Knows
      <4>2. call[d].at = "mark" => HasUser(d, call[d].actor)
        BY <3>2 DEF HasUser
      <4>3. call[d].at = "mark" => role'[call[d].user] = "none"
        BY <2>1, <3>2, <4>1, <4>2 DEF UserFree, Knows
      <4>4. \A i \in call[d].invite : ~InviteFree(c, i)
        BY <3>2 DEF HasInvite, InviteFree
      <4>5. \A i \in call[d].invite : invite'[i].state # "none" /\ invite'[i].email = invite[i].email
        BY <2>1, <3>2, <4>1, <4>4 DEF Knows
      <4>6. QED
        BY <2>1, <2>3, <3>2, <4>1, <4>3, <4>5 DEF Knows
    <3>3. QED
      BY <2>1, <2>3, <3>1, <3>2 DEF Knows
  <2>9. QED
    BY <2>2, <2>4, <2>5, <2>6, <2>7, <2>8
<1>3. LocksExclude'
  <2>1. LocksExclude
    BY DEF IInv, TypeOK
  <2>2. /\ ~HasWorkspace(c)'
        /\ \A u \in User : ~HasMember(c, u)' /\ ~HasUser(c, u)'
        /\ \A i \in Invite : ~HasInvite(c, i)'
    BY <1>1, EndedCall
  <2>3. ASSUME NEW d \in Call \ {c}, NEW e \in Call \ {c}, d # e
        PROVE  /\ ~(HasWorkspace(d)' /\ HasWorkspace(e)')
               /\ \A u \in User : ~(HasMember(d, u)' /\ HasMember(e, u)')
               /\ \A u \in User : ~(HasUser(d, u)' /\ HasUser(e, u)')
               /\ \A i \in Invite : ~(HasInvite(d, i)' /\ HasInvite(e, i)')
    BY <1>2, <2>1, <2>3 DEF LocksExclude
  <2>4. QED
    BY <2>2, <2>3 DEF LocksExclude
<1>4. TypeOK'
  BY <1>1, <1>3 DEF IInv, TypeOK, Calls
<1>5. \A d \in Call : Placed(d)' /\ Knows(d)'
  BY <1>1, <1>2, EndedCall
<1>6. QED
  BY <1>4, <1>5 DEF IInv, Rows

LEMMA DecideStep == ASSUME IInv, NEW c \in Call, Decide(c) PROVE IInv'
<1>1. /\ call \in [Call -> Calls] /\ call[c] \in CallRecord /\ call[c].at = "decide"
      /\ call[c].op \in GovernanceOps /\ call[c].seen = role
      /\ role \in [User -> Roles \cup {"none"}] /\ ~deleted
      /\ UNCHANGED <<account, deleted, invite, key, calls, overlooked>> /\ End(c)
  BY DEF IInv, TypeOK, Calls, Decide, Placed, Knows
<1>2. /\ call[c].actor \in User /\ call[c].user \in User
      /\ call[c].role \in InvitationRoles \cup {"none"}
  BY <1>1 DEF CallRecord
<1>3. WorkspaceFree(c) /\ \A u \in User : role[u] # "none" => MemberFree(c, u)
  <2>1. HasWorkspace(c) /\ \A u \in User : role[u] # "none" => HasMember(c, u)
    BY <1>1 DEF HasWorkspace, HasMember, Governs
  <2>2. QED
    BY <1>1, <2>1 DEF IInv, TypeOK, LocksExclude, WorkspaceFree, MemberFree
<1>4. PICK o \in User : Owners(role) = {o}
  BY <1>1 DEF IInv, Rows, ExactlyOneOwner
<1>5. \A u \in User : role[u] = "owner" <=> u = o
  BY <1>4 DEF Owners
<1>6. /\ role' \in [User -> Roles \cup {"none"}]
      /\ \A u \in User : role[u] = "none" => role'[u] = "none"
      /\ \E p \in User : \A u \in User : role'[u] = "owner" <=> u = p
  <2>1. CASE updateWorkspaceMemberRole(call[c])
    <3>1. /\ role' = [role EXCEPT ![call[c].user] = call[c].role]
          /\ role[call[c].user] \notin {"none", "owner"}
          /\ call[c].role # "owner"
      BY <1>1, <1>2, <2>1 DEF updateWorkspaceMemberRole, canChangeMemberRole, InvitationRoles
    <3>2. \A u \in User : role'[u] = "owner" <=> u = o
      BY <1>1, <1>2, <1>5, <3>1
    <3>3. QED
      BY <1>1, <1>2, <3>1, <3>2 DEF InvitationRoles
  <2>2. CASE removeWorkspaceMember(call[c])
    <3>1. /\ role' = [role EXCEPT ![call[c].user] = "none"]
          /\ role[call[c].user] \notin {"none", "owner"}
      BY <1>1, <2>2 DEF removeWorkspaceMember, canRemoveMember
    <3>2. \A u \in User : role'[u] = "owner" <=> u = o
      BY <1>1, <1>2, <1>5, <3>1
    <3>3. QED
      BY <1>1, <1>2, <3>1, <3>2
  <2>3. CASE leaveWorkspace(call[c])
    <3>1. /\ role' = [role EXCEPT ![call[c].actor] = "none"]
          /\ role[call[c].actor] \notin {"none", "owner"}
      BY <1>1, <1>2, <2>3 DEF leaveWorkspace, Owners
    <3>2. \A u \in User : role'[u] = "owner" <=> u = o
      BY <1>1, <1>2, <1>5, <3>1
    <3>3. QED
      BY <1>1, <1>2, <3>1, <3>2
  <2>4. CASE transferWorkspaceOwnership(call[c])
    <3>1. /\ role' = [role EXCEPT ![call[c].actor] = "admin", ![call[c].user] = "owner"]
          /\ Owners(role) = {call[c].actor}
          /\ role[call[c].user] \notin {"none", "owner"}
      BY <1>1, <2>4 DEF transferWorkspaceOwnership
    <3>2. call[c].actor = o /\ call[c].user # o
      BY <1>2, <1>4, <1>5, <3>1
    <3>3. \A u \in User : role'[u] = "owner" <=> u = call[c].user
      BY <1>1, <1>2, <1>5, <3>1, <3>2
    <3>4. role' \in [User -> Roles \cup {"none"}]
      BY <1>1, <1>2, <3>1 DEF Roles
    <3>5. \A u \in User : role[u] = "none" => role'[u] = "none"
      BY <1>1, <1>2, <1>5, <3>1, <3>2
    <3>6. QED
      BY <1>2, <3>3, <3>4, <3>5
  <2>5. QED
    BY <2>1, <2>2, <2>3, <2>4 DEF Decide
<1>7. ExactlyOneOwner'
  BY <1>6 DEF ExactlyOneOwner, Owners
<1>8. PendingInvitesAreUseful'
  <2>1. invite \in [Invite -> InviteRecord]
    BY DEF IInv, TypeOK
  <2>2. ASSUME NEW i \in Invite, invite[i].state = "pending"
        PROVE  i \notin overlooked => \A u \in invite[i].email : role'[u] = "none"
    <3>1. invite[i].email \subseteq User
      BY <2>1 DEF InviteRecord
    <3>2. QED
      BY <1>6, <2>2, <3>1 DEF IInv, Rows, PendingInvitesAreUseful, Pending
  <2>3. QED
    BY <1>1, <2>2 DEF IInv, Rows, PendingInvitesAreUseful, Pending
<1>9. /\ invite' \in [Invite -> InviteRecord] /\ SomeKeyWorks'
      /\ key' \in [Key -> {"none", "active", "revoked"}]
      /\ deleted' \in BOOLEAN /\ overlooked' \subseteq Invite /\ account' = account
      /\ account \subseteq User /\ \A u \in User \ account : role[u] = "none"
  BY <1>1 DEF IInv, TypeOK, Rows, SomeKeyWorks
<1>10. QED
  BY <1>1, <1>3, <1>6, <1>7, <1>8, <1>9, RoleChange

LEMMA InsertStep == ASSUME IInv, NEW c \in Call, InsertInvitation(c) PROVE IInv'
<1>1. /\ call \in [Call -> Calls] /\ call[c] \in CallRecord /\ call[c].at = "insert"
      /\ call[c].op = "create" /\ \A u \in call[c].found : role[u] = "none"
      /\ call[c].found \in {{}, {call[c].user}}
      /\ invite \in [Invite -> InviteRecord]
      /\ UNCHANGED <<account, deleted, role, key, calls>> /\ End(c) /\ WorkspaceFree(c)
  BY DEF IInv, TypeOK, Calls, InsertInvitation, Placed, Knows
<1>2. call[c].user \in User /\ call[c].role \in InvitationRoles \cup {"none"}
  BY <1>1 DEF CallRecord
<1> DEFINE retired == [i \in Invite |-> IF i \in call[c].retired
                                        THEN [invite[i] EXCEPT !.state = "revoked"]
                                        ELSE invite[i]]
           new == [state |-> "pending", email |-> {call[c].user},
                   role |-> call[c].role, expired |-> FALSE]
<1>3. PICK n \in Invite : /\ SlotFree(retired, call[c].user)
                          /\ invite[n].state = "none"
                          /\ invite' = [retired EXCEPT ![n] = new]
                          /\ overlooked' = IF call[c].found = {} /\ call[c].user \in account
                                            THEN overlooked \cup {n} ELSE overlooked
  BY DEF InsertInvitation
<1>4. \A i \in Invite : /\ retired[i] \in InviteRecord
                        /\ retired[i].email = invite[i].email
                        /\ retired[i].state \in {invite[i].state, "revoked"}
  BY <1>1 DEF InviteRecord
<1>5. new \in InviteRecord /\ new.state = "pending" /\ new.email = {call[c].user}
  BY <1>2 DEF InviteRecord
<1>6. retired \in [Invite -> InviteRecord]
  BY <1>4
<1> HIDE DEF retired, new
<1>7. /\ invite' \in [Invite -> InviteRecord]
      /\ invite'[n] = new
      /\ \A i \in Invite \ {n} : invite'[i] = retired[i]
  BY <1>3, <1>5, <1>6
<1>8. \A i \in Invite : invite[i].state # "none" =>
         invite'[i].state # "none" /\ invite'[i].email = invite[i].email
  BY <1>3, <1>4, <1>7
<1>9. overlooked \subseteq overlooked' /\ overlooked' \subseteq Invite
  BY <1>3 DEF IInv, TypeOK
\* Who was found is no member under the lock; who was not either has no account
\* yet, or makes the invitation an overlooked one.
<1>10. n \notin overlooked' => role[call[c].user] = "none"
  <2>1. CASE call[c].found = {call[c].user}
    BY <1>1, <2>1
  <2>2. CASE call[c].found = {} /\ call[c].user \notin account
    BY <1>2, <2>2 DEF IInv, TypeOK
  <2>3. CASE call[c].found = {} /\ call[c].user \in account
    BY <1>3, <2>3
  <2>4. QED
    BY <1>1, <2>1, <2>2, <2>3
<1>11. PendingInvitesAreUseful'
  <2>1. \A i \in Invite \ {n} : invite'[i].state = "pending" =>
           invite[i].state = "pending" /\ invite'[i].email = invite[i].email
           /\ invite'[i].email # {call[c].user}
    BY <1>3, <1>4, <1>7 DEF SlotFree
  <2>2. ASSUME NEW i \in Invite, invite'[i].state = "pending"
        PROVE  /\ \A j \in Invite \ {i} : ~(invite'[j].state = "pending"
                                            /\ invite'[j].email = invite'[i].email)
               /\ i \notin overlooked' => \A u \in invite'[i].email : role'[u] = "none"
    <3>1. CASE i = n
      BY <1>1, <1>5, <1>7, <1>10, <2>1, <3>1
    <3>2. CASE i # n
      <4>1. invite[i].state = "pending" /\ invite'[i].email = invite[i].email
            /\ invite'[i].email # {call[c].user}
        BY <2>1, <2>2, <3>2
      <4>2. \A j \in Invite \ {i} : invite'[j].state = "pending" =>
              invite'[j].email # invite'[i].email
        BY <1>5, <1>7, <2>1, <4>1 DEF IInv, Rows, PendingInvitesAreUseful, Pending
      <4>3. i \notin overlooked' => \A u \in invite[i].email : role[u] = "none"
        BY <1>9, <4>1 DEF IInv, Rows, PendingInvitesAreUseful, Pending
      <4>4. QED
        BY <1>1, <4>1, <4>2, <4>3
    <3>3. QED
      BY <3>1, <3>2
  <2>3. QED
    BY <2>2 DEF PendingInvitesAreUseful, Pending
<1>12. /\ ExactlyOneOwner' /\ SomeKeyWorks' /\ account' = account /\ deleted' \in BOOLEAN
       /\ key' \in [Key -> {"none", "active", "revoked"}]
       /\ role' \in [User -> Roles \cup {"none"}] /\ \A u \in User \ account : role'[u] = "none"
  BY <1>1 DEF IInv, TypeOK, Rows, SomeKeyWorks, ExactlyOneOwner, Owners
<1>13. QED
  BY <1>1, <1>7, <1>8, <1>9, <1>11, <1>12, RoleChange

LEMMA MarkRevokedStep == ASSUME IInv, NEW c \in Call, MarkRevoked(c) PROVE IInv'
<1>1. /\ invite \in [Invite -> InviteRecord] /\ call \in [Call -> Calls]
      /\ call[c] \in CallRecord
      /\ UNCHANGED <<account, deleted, role, key, calls, overlooked>>
      /\ End(c) /\ WorkspaceFree(c)
  BY DEF IInv, TypeOK, Calls, MarkRevoked, Placed
<1>2. PICK n \in Invite : invite' = [invite EXCEPT ![n].state = "revoked"] /\ Pending(n)
  <2>1. call[c].invite \subseteq Invite
    BY <1>1 DEF CallRecord
  <2>2. QED
    BY <2>1 DEF MarkRevoked
<1>3. /\ invite' \in [Invite -> InviteRecord]
      /\ \A i \in Invite : invite'[i].email = invite[i].email
      /\ invite'[n].state = "revoked"
      /\ \A i \in Invite \ {n} : invite'[i] = invite[i]
  BY <1>1, <1>2 DEF InviteRecord
<1>4. PendingInvitesAreUseful'
  BY <1>1, <1>3 DEF IInv, Rows, PendingInvitesAreUseful, Pending
<1>5. /\ ExactlyOneOwner' /\ SomeKeyWorks' /\ account' = account /\ deleted' \in BOOLEAN
      /\ overlooked' \subseteq Invite /\ key' \in [Key -> {"none", "active", "revoked"}]
      /\ role' \in [User -> Roles \cup {"none"}] /\ \A u \in User \ account : role'[u] = "none"
  BY <1>1 DEF IInv, TypeOK, Rows, SomeKeyWorks, ExactlyOneOwner, Owners
<1>6. QED
  BY <1>1, <1>3, <1>4, <1>5, RoleChange

LEMMA MarkAcceptedStep == ASSUME IInv, NEW c \in Call, MarkAccepted(c) PROVE IInv'
<1>1. /\ invite \in [Invite -> InviteRecord] /\ call \in [Call -> Calls]
      /\ role \in [User -> Roles \cup {"none"}]
      /\ call[c] \in CallRecord /\ call[c].op = "accept" /\ call[c].at = "mark"
      /\ Knows(c) /\ LocksExclude /\ call[c].actor \in account
      /\ UNCHANGED <<account, deleted, key, calls, overlooked>> /\ End(c) /\ WorkspaceFree(c)
  BY DEF IInv, TypeOK, Calls, MarkAccepted, Placed
<1>2. PICK a \in User : a = call[c].actor
  BY <1>1 DEF CallRecord
<1>3. PICK n \in Invite : /\ n \in call[c].invite /\ Pending(n)
                          /\ role' = [role EXCEPT ![a] = invite[n].role]
                          /\ invite' = [invite EXCEPT ![n].state = "accepted"]
  <2>1. call[c].invite \subseteq Invite
    BY <1>1 DEF CallRecord
  <2>2. PICK n \in call[c].invite :
          /\ Pending(n)
          /\ role' = [role EXCEPT ![call[c].actor] = invite[n].role]
          /\ invite' = [invite EXCEPT ![n].state = "accepted"]
    BY DEF MarkAccepted
  <2>3. QED
    BY <1>2, <2>1, <2>2
<1>4. role[a] = "none" /\ invite[n].email = {a}
  BY <1>1, <1>2, <1>3 DEF Knows
<1>5. /\ invite' \in [Invite -> InviteRecord]
      /\ \A i \in Invite : invite'[i].email = invite[i].email
      /\ invite'[n].state = "accepted"
      /\ \A i \in Invite \ {n} : invite'[i] = invite[i]
  BY <1>1, <1>3 DEF InviteRecord
<1>6. invite[n].role \in InvitationRoles \cup {"none"}
  BY <1>1 DEF InviteRecord
<1>7. /\ role' \in [User -> Roles \cup {"none"}]
      /\ \A u \in User \ {a} : role'[u] = role[u]
      /\ role'[a] # "owner"
  BY <1>1, <1>3, <1>6 DEF InvitationRoles
<1>8. UserFree(c, a)
  <2>1. HasUser(c, a)
    BY <1>1, <1>2 DEF HasUser
  <2>2. QED
    BY <1>1, <2>1 DEF LocksExclude, UserFree
<1>9. ExactlyOneOwner'
  <2>1. Owners(role') = Owners(role)
    BY <1>4, <1>7 DEF Owners
  <2>2. QED
    BY <1>1, <2>1 DEF IInv, Rows, ExactlyOneOwner, Owners
<1>10. PendingInvitesAreUseful'
  <2>1. \A i \in Invite \ {n} : Pending(i) => invite[i].email # {a}
    BY <1>3, <1>4 DEF IInv, Rows, PendingInvitesAreUseful
  <2>2. \A i \in Invite : invite[i].email = {} \/ \E u \in User : invite[i].email = {u}
    BY <1>1 DEF InviteRecord
  <2>3. \A i \in Invite : i # n /\ Pending(i) => a \notin invite[i].email
    BY <2>1, <2>2
  <2>4. \A i \in Invite : invite'[i].state = "pending" => i # n /\ Pending(i)
    BY <1>5 DEF Pending
  <2>5. ASSUME NEW i \in Invite, invite'[i].state = "pending", i \notin overlooked'
        PROVE  \A u \in invite'[i].email : role'[u] = "none"
    BY <1>1, <1>5, <1>7, <2>2, <2>3, <2>4, <2>5 DEF IInv, Rows, PendingInvitesAreUseful
  <2>6. ASSUME NEW i \in Invite, invite'[i].state = "pending",
               NEW j \in Invite \ {i}, invite'[j].state = "pending"
        PROVE  invite'[i].email # invite'[j].email
    BY <1>5, <2>4, <2>6 DEF IInv, Rows, PendingInvitesAreUseful
  <2>7. QED
    BY <2>5, <2>6 DEF PendingInvitesAreUseful, Pending
<1>11. /\ SomeKeyWorks' /\ key' \in [Key -> {"none", "active", "revoked"}]
       /\ account' = account /\ deleted' \in BOOLEAN /\ overlooked' \subseteq Invite
       /\ \A u \in User \ account : role'[u] = "none"
  BY <1>1, <1>2, <1>7 DEF IInv, TypeOK, Rows, SomeKeyWorks
<1>12. \A i \in Invite : invite[i].state # "none" => invite'[i].state # "none"
  BY <1>5
<1>13. /\ \A u \in User : role[u] # "none" /\ role'[u] # role[u] => MemberFree(c, u)
       /\ \A u \in User : role[u] = "none" /\ role'[u] # role[u] => UserFree(c, u)
  BY <1>4, <1>7, <1>8
<1>14. QED
  BY <1>1, <1>5, <1>7, <1>9, <1>10, <1>11, <1>12, <1>13, RoleChange

LEMMA SwapKeysStep == ASSUME IInv, NEW c \in Call, SwapKeys(c) PROVE IInv'
<1>1. /\ key \in [Key -> {"none", "active", "revoked"}]
      /\ UNCHANGED <<account, deleted, role, invite, calls, overlooked>>
      /\ End(c) /\ WorkspaceFree(c)
  BY DEF IInv, TypeOK, SwapKeys
<1>2. key' \in [Key -> {"none", "active", "revoked"}] /\ SomeKeyWorks'
  BY <1>1 DEF SwapKeys, SomeKeyWorks
<1>3. /\ ExactlyOneOwner' /\ PendingInvitesAreUseful' /\ account' = account
      /\ deleted' \in BOOLEAN /\ overlooked' \subseteq Invite
      /\ role' \in [User -> Roles \cup {"none"}] /\ \A u \in User \ account : role'[u] = "none"
      /\ invite' \in [Invite -> InviteRecord]
  BY <1>1 DEF IInv, TypeOK, Rows, ExactlyOneOwner, Owners, PendingInvitesAreUseful, Pending
<1>4. QED
  BY <1>1, <1>2, <1>3, RoleChange

\* The deletion has the workspace and every membership locked, and waits for the
\* invitations.
LEMMA DeleteStep == ASSUME IInv, NEW c \in Call, deleteWorkspaceWithArtifacts(c) PROVE IInv'
<1>1. /\ call \in [Call -> Calls] /\ call[c] \in CallRecord /\ call[c].at = "decide"
      /\ call[c].op \in GovernanceOps /\ ~deleted
      /\ account' = account /\ calls' = calls /\ overlooked' \subseteq Invite /\ End(c)
      /\ deleted' = TRUE /\ \A i \in Invite : InviteFree(c, i)
  BY DEF IInv, TypeOK, Calls, deleteWorkspaceWithArtifacts, Placed, Knows, GovernanceOps
<1>2. WorkspaceFree(c) /\ \A u \in User : role[u] # "none" => MemberFree(c, u)
  <2>1. HasWorkspace(c) /\ \A u \in User : role[u] # "none" => HasMember(c, u)
    BY <1>1 DEF HasWorkspace, HasMember, Governs
  <2>2. QED
    BY <1>1, <2>1 DEF IInv, TypeOK, LocksExclude, WorkspaceFree, MemberFree
<1>3. role' = [u \in User |-> "none"] /\ key' = [k \in Key |-> "none"]
  BY DEF deleteWorkspaceWithArtifacts
<1>4. invite' \in [Invite -> InviteRecord] /\ \A i \in Invite : invite'[i].state = "none"
  <2>1. NoInvite \in InviteRecord /\ NoInvite.state = "none"
    BY DEF NoInvite, InviteRecord
  <2>2. QED
    BY <2>1 DEF deleteWorkspaceWithArtifacts
<1>5. ExactlyOneOwner' /\ SomeKeyWorks'
  BY <1>1 DEF ExactlyOneOwner, SomeKeyWorks
<1>6. PendingInvitesAreUseful'
  BY <1>4 DEF PendingInvitesAreUseful, Pending
<1>7. /\ role' \in [User -> Roles \cup {"none"}] /\ \A u \in User : role'[u] = "none"
      /\ key' \in [Key -> {"none", "active", "revoked"}] /\ deleted' \in BOOLEAN
  BY <1>1, <1>3
<1>8. QED
  BY <1>1, <1>2, <1>4, <1>5, <1>6, <1>7, RoleChange

\* Steps of no call that change invitations only: nothing that has ended begins
\* again.
LEMMA InviteStep ==
  ASSUME IInv, UNCHANGED <<account, deleted, role, key, call, calls, overlooked>>,
         invite' \in [Invite -> InviteRecord],
         \A i \in Invite : /\ invite'[i].email = invite[i].email
                           /\ invite'[i].state = "none" <=> invite[i].state = "none"
                           /\ invite'[i].state = "pending" => invite[i].state = "pending"
  PROVE  IInv'
<1>1. PendingInvitesAreUseful'
  BY DEF IInv, Rows, PendingInvitesAreUseful, Pending
<1>2. LocksExclude'
  BY DEF IInv, TypeOK, LocksExclude, HasWorkspace, HasMember, HasUser, HasInvite, Governs
<1>3. TypeOK'
  BY <1>2 DEF IInv, TypeOK
<1>4. ASSUME NEW c \in Call PROVE Placed(c)' /\ Knows(c)'
  <2>1. Placed(c) /\ Knows(c)
    BY DEF IInv
  <2>2. call[c].op = "accept" /\ call[c].at # "idle" => call[c].invite \subseteq Invite
    BY <2>1 DEF Placed, CallRecord
  <2>3. QED
    BY <2>1, <2>2 DEF Placed, Knows, rows
<1>5. Rows'
  BY <1>1 DEF IInv, Rows, ExactlyOneOwner, Owners, SomeKeyWorks
<1>6. QED
  BY <1>3, <1>4, <1>5 DEF IInv

LEMMA ExpireStep == ASSUME IInv, NEW i \in Invite, Expire(i) PROVE IInv'
<1>1. invite \in [Invite -> InviteRecord]
  BY DEF IInv, TypeOK
<1>2. /\ invite' \in [Invite -> InviteRecord]
      /\ \A j \in Invite : invite'[j].email = invite[j].email /\ invite'[j].state = invite[j].state
  BY <1>1 DEF Expire, InviteRecord
<1>3. QED
  BY <1>2, InviteStep DEF Expire

LEMMA RetireStep == ASSUME IInv, RetireExpired PROVE IInv'
<1>1. invite \in [Invite -> InviteRecord]
  BY DEF IInv, TypeOK
<1>2. PICK is \in SUBSET Invite :
        /\ \A i \in is : Pending(i)
        /\ invite' = [i \in Invite |-> IF i \in is THEN [invite[i] EXCEPT !.state = "revoked"]
                                       ELSE invite[i]]
  <2> DEFINE is == {i \in Invite : Pending(i) /\ invite[i].expired
                                   /\ \A c \in Call : ~HasInvite(c, i)}
  <2>1. is \in SUBSET Invite /\ \A i \in is : Pending(i)
    OBVIOUS
  <2>2. invite' = [i \in Invite |-> IF i \in is THEN [invite[i] EXCEPT !.state = "revoked"]
                                    ELSE invite[i]]
    BY DEF RetireExpired
  <2>3. QED
    BY <2>1, <2>2
<1>3. /\ invite' \in [Invite -> InviteRecord]
      /\ \A i \in Invite : /\ invite'[i].email = invite[i].email
                           /\ invite'[i].state = "none" <=> invite[i].state = "none"
                           /\ invite'[i].state = "pending" => invite[i].state = "pending"
  BY <1>1, <1>2 DEF InviteRecord, Pending
<1>4. QED
  BY <1>3, InviteStep DEF RetireExpired

\* An account more: nobody becomes a member by that.
LEMMA RegisterStep == ASSUME IInv, NEW u \in User, Register(u) PROVE IInv'
<1>1. UNCHANGED <<deleted, role, invite, key, call, calls, overlooked>>
  BY DEF Register, rows
<1>2. account \subseteq account' /\ account' \subseteq User
  BY DEF Register, IInv, TypeOK
<1>3. LocksExclude'
  BY <1>1 DEF IInv, TypeOK, LocksExclude, HasWorkspace, HasMember, HasUser, HasInvite, Governs
<1>4. TypeOK'
  BY <1>1, <1>2, <1>3 DEF IInv, TypeOK
<1>5. ASSUME NEW c \in Call PROVE Placed(c)' /\ Knows(c)'
  <2>1. Placed(c) /\ Knows(c)
    BY DEF IInv
  <2>2. QED
    BY <1>1, <1>2, <2>1 DEF Placed, Knows
<1>6. Rows'
  BY <1>1 DEF IInv, Rows, ExactlyOneOwner, Owners, PendingInvitesAreUseful, Pending, SomeKeyWorks
<1>7. QED
  BY <1>4, <1>5, <1>6 DEF IInv

-----------------------------------------------------------------------------
LEMMA NextIInv == IInv /\ [Next]_vars => IInv'
<1> SUFFICES ASSUME IInv, [Next]_vars PROVE IInv'
  OBVIOUS
<1>1. ASSUME NEW c \in Call, Step(c) PROVE IInv'
  BY <1>1, RequestStep, AbortStep, LockWorkspaceStep, LockMembershipsStep, DecideStep,
     DeleteStep, FindNoUserStep, AuthoriseStep, LockActorStep, LockUserStep, LockTargetStep, LockActiveStep, InsertStep,
     LockInvitationStep, MarkRevokedStep, MarkAcceptedStep, ListKeysStep, SwapKeysStep
     DEF Step
<1>2. CASE UNCHANGED vars
  <2>1. \A c \in Call : Placed(c)' /\ Knows(c)'
    BY <1>2 DEF IInv, Placed, Knows, vars, rows
  <2>2. TypeOK' /\ Rows'
    BY <1>2 DEF IInv, TypeOK, Rows, LocksExclude, HasWorkspace, HasMember, HasUser, HasInvite,
                Governs, ExactlyOneOwner, Owners, PendingInvitesAreUseful, Pending,
                SomeKeyWorks, vars, rows
  <2>3. QED
    BY <2>1, <2>2 DEF IInv
<1>3. QED
  BY <1>1, <1>2, ExpireStep, RetireStep, RegisterStep DEF Next

\* The inductive invariant.
LEMMA Invariance == Spec => []IInv
BY InitIInv, NextIInv, PTL DEF Spec

\* Rows and calls keep their shapes and no row is ever locked twice (the row
\* locks of memberships.ts, users.ts and invitations.ts).
THEOREM TypeCorrect == Spec => []TypeOK
<1>1. IInv => TypeOK
  BY DEF IInv
<1>2. QED
  BY <1>1, Invariance, PTL

\* For any number of users and concurrent requests the workspace has exactly one
\* owner until it is deleted (workspace-governance.ts:83-97).
THEOREM OneOwner == Spec => []ExactlyOneOwner
<1>1. IInv => ExactlyOneOwner
  BY DEF IInv, Rows
<1>2. QED
  BY <1>1, Invariance, PTL

\* No address ever has two pending invitations, and no member has one but for the
\* invitations made, while they registered, for somebody not found: creations and
\* acceptances are serialised by the lock of the account alone (invitations.ts:210-241
\* and 395-418).
THEOREM UsefulInvites == Spec => []PendingInvitesAreUseful
<1>1. IInv => PendingInvitesAreUseful
  BY DEF IInv, Rows
<1>2. QED
  BY <1>1, Invariance, PTL

\* Rotations never leave a project without an active key (keys.ts:59-107).
THEOREM AlwaysAKey == Spec => []SomeKeyWorks
<1>1. IInv => SomeKeyWorks
  BY DEF IInv, Rows
<1>2. QED
  BY <1>1, Invariance, PTL

\* Whoever inserts an invitation is an owner or an admin when it is inserted
\* (invitations.ts:200-206).
THEOREM ManagersInvite == Spec => InvitesComeFromManagers
<1> DEFINE Rule == \A i \in Invite, c \in Call :
             invite[i].state = "none" /\ invite'[i].state = "pending" /\ call'[c] # call[c]
               => role[call[c].actor] \in {"owner", "admin"}
<1>1. ASSUME IInv, [Next]_vars PROVE [Rule]_vars
  <2> SUFFICES ASSUME NEW i \in Invite, NEW c \in Call, invite[i].state = "none",
                      invite'[i].state = "pending", call'[c] # call[c]
               PROVE  role[call[c].actor] \in {"owner", "admin"}
    OBVIOUS
  <2>1. invite' # invite /\ call' # call /\ invite \in [Invite -> InviteRecord]
        /\ call \in [Call -> Calls]
    BY <1>1 DEF IInv, TypeOK, Calls
  <2>2. PICK d \in Call : InsertInvitation(d) \/ MarkRevoked(d) \/ MarkAccepted(d)
    <3>1. PICK d \in Call : Step(d)
      BY <1>1, <2>1 DEF Next, vars, Expire, RetireExpired, Register
    <3>2. ~Request(d) /\ ~Abort(d)
      BY <2>1 DEF Request, Start, Abort, rows
    <3>3. ~LockWorkspace(d) /\ ~LockMemberships(d) /\ ~Decide(d)
      BY <2>1 DEF LockWorkspace, LockMemberships, Decide, rows
    <3>4. ~Authorise(d) /\ ~LockActor(d) /\ ~LockUser(d) /\ ~FindNoUser(d)
          /\ ~LockTargetMembership(d)
      BY <2>1 DEF Authorise, LockActor, LockUser, FindNoUser, LockTargetMembership, rows
    <3>5. ~LockActiveInvitation(d) /\ ~LockInvitation(d) /\ ~ListActiveKeys(d) /\ ~SwapKeys(d)
      BY <2>1 DEF LockActiveInvitation, LockInvitation, ListActiveKeys, SwapKeys, rows
    <3>6. ~deleteWorkspaceWithArtifacts(d)
      BY <2>1 DEF deleteWorkspaceWithArtifacts, NoInvite
    <3>7. QED
      BY <3>1, <3>2, <3>3, <3>4, <3>5, <3>6 DEF Step
  <2>3. InsertInvitation(d)
    <3>1. ~MarkRevoked(d)
      BY <2>1 DEF MarkRevoked, InviteRecord
    <3>2. ~MarkAccepted(d)
      BY <2>1 DEF MarkAccepted, InviteRecord
    <3>3. QED
      BY <2>2, <3>1, <3>2
  <2>4. c = d
    BY <2>1, <2>3 DEF InsertInvitation, End
  <2>5. QED
    BY <1>1, <2>3, <2>4 DEF IInv, Knows, Placed, InsertInvitation
<1>2. QED
  BY <1>1, Invariance, PTL DEF Spec, InvitesComeFromManagers
=============================================================================
