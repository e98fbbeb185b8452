------------------------------- MODULE Workspace -------------------------------
(***************************************************************************)
(* Governance of one workspace: roles and ownership, invitations, the      *)
(* public ingest key of one of its projects, and its deletion.             *)
(*                                                                         *)
(* A call is a request of a signed-in user.  Its transaction takes the row *)
(* locks it asks for one after the other and writes when it commits, so a  *)
(* call here is at the place "at", where it has the locks of the places it *)
(* has passed.  A row that refers to the workspace or to a user (foreign   *)
(* keys of memberships, invitations and audit rows) shares that row's      *)
(* lock, so it cannot be written while another transaction has it.  Audit  *)
(* rows are left out but for that.  A user stands for an email address and *)
(* for the account with that address, once somebody has registered it.     *)
(***************************************************************************)
EXTENDS Naturals, FiniteSets

CONSTANTS
  User,
  Invite,      \* invitation rows
  Key,         \* public ingest keys
  Call,        \* requests handled at the same time
  Requested,   \* roles that requests ask for
  MaxCalls     \* bound: requests in a behaviour

VARIABLES
  account,     \* users that have registered
  deleted,     \* the workspace has been deleted
  role,        \* memberships: the role of each user, "none" without a row
  invite,      \* workspace_invitations
  key,         \* project_keys
  call,        \* what the API does for each request
  calls,
  overlooked   \* ghost: invitations of somebody who registered while they were made

rows == <<deleted, role, invite, key>>
vars == <<account, deleted, role, invite, key, call, calls, overlooked>>

Roles == {"owner", "admin", "member", "viewer"}
InvitationRoles == Roles \ {"owner"}
Places == {"idle", "workspace", "members", "decide", "authorise", "actor", "user",
           "target", "active", "insert", "invite", "mark", "list", "swap"}
GovernanceOps == {"change", "remove", "leave", "transfer", "delete"}
Ops == GovernanceOps \cup {"create", "revoke", "accept", "rotate"}

NoInvite == [state |-> "none", email |-> {}, role |-> "none", expired |-> FALSE]

ASSUME ConstantsAssumption ==
  /\ Requested \subseteq InvitationRoles
  /\ MaxCalls \in Nat

-----------------------------------------------------------------------------
\* The capability policy

Rank == [none |-> 0, viewer |-> 1, member |-> 2, admin |-> 3, owner |-> 4]

MinimumRole ==
  [manageInvitations |-> "admin", manageMembers |-> "admin",
   transferOwnership |-> "owner", deleteWorkspace |-> "owner", rotateKey |-> "admin"]

HasCapability(r, capability) == Rank[r] >= Rank[MinimumRole[capability]]

canChangeMemberRole(actor, target, next) ==
  /\ target # "owner"
  /\ \/ actor = "owner"
     \/ actor = "admin" /\ {target, next} \subseteq {"member", "viewer"}

canRemoveMember(actor, target) ==
  /\ target # "owner"
  /\ \/ actor = "owner"
     \/ actor = "admin" /\ target \in {"member", "viewer"}

canInviteInvitationRole(actor, invited) ==
  /\ invited # "owner"
  /\ \/ actor = "owner"
     \/ actor = "admin" /\ invited \in {"member", "viewer"}

-----------------------------------------------------------------------------
\* Row locks, by the calls that have them

Governs(c) == call[c].op \in GovernanceOps

\* A governance transaction locks the workspace, then every membership.
HasWorkspace(c) == Governs(c) /\ call[c].at \in {"members", "decide"}

HasMember(c, u) ==
  \/ Governs(c) /\ call[c].at = "decide" /\ role[u] # "none"
  \/ call[c].op = "create" /\ u = call[c].actor
       /\ call[c].at \in {"user", "target", "active", "insert"}

HasUser(c, u) ==
  \/ call[c].op = "create" /\ u \in call[c].found
  \/ call[c].op = "accept" /\ u = call[c].actor /\ call[c].at \in {"target", "mark"}

HasInvite(c, i) ==
  \/ i \in call[c].retired
  \/ call[c].op = "revoke" /\ i \in call[c].invite /\ call[c].at = "mark"
  \/ call[c].op = "accept" /\ i \in call[c].invite /\ call[c].at \in {"user", "target", "mark"}

WorkspaceFree(c) == ~deleted /\ \A d \in Call \ {c} : ~HasWorkspace(d)
MemberFree(c, u) == \A d \in Call \ {c} : ~HasMember(d, u)
UserFree(c, u)   == \A d \in Call \ {c} : ~HasUser(d, u)
InviteFree(c, i) == \A d \in Call \ {c} : ~HasInvite(d, i)

-----------------------------------------------------------------------------
Pending(i) == invite[i].state = "pending"
Expired == {i \in Invite : invite[i].expired}

Owners(roles) == {u \in User : roles[u] = "owner"}

NoCall == [op |-> "none", at |-> "idle", retired |-> {}]

Goto(c, place) == call' = [call EXCEPT ![c].at = place]
End(c)         == call' = [call EXCEPT ![c] = NoCall]

-----------------------------------------------------------------------------
\* A workspace with one owner, and a project created with its key
Init ==
  /\ role \in {r \in [User -> Requested \cup {"owner", "none"}] : \E u \in User : Owners(r) = {u}}
  /\ account \in {a \in SUBSET User : \A u \in User \ a : role[u] = "none"}
  /\ deleted = FALSE
  /\ overlooked = {}
  /\ invite = [i \in Invite |-> NoInvite]
  /\ \E k \in Key : key = [l \in Key |-> IF l = k THEN "active" ELSE "none"]
  /\ call = [c \in Call |-> NoCall]
  /\ calls = 0

Start(c, op, at, actor, user, r, i) ==
  /\ call[c].at = "idle"
  /\ calls < MaxCalls
  /\ calls' = calls + 1
  /\ call' = [call EXCEPT ![c] =
       [op |-> op, at |-> at, actor |-> actor, user |-> user, role |-> r, invite |-> i,
        seen |-> [u \in User |-> "none"], found |-> {},
        late |-> {}, retired |-> {}, old |-> {}]]
  /\ UNCHANGED <<account, rows, overlooked>>

Request(c) ==
  \E actor \in account, user \in User :
    \/ \E r \in Requested :
         \/ Start(c, "change", "workspace", actor, user, r, {})
         \/ Start(c, "create", "authorise", actor, user, r, {})
    \/ Start(c, "remove", "workspace", actor, user, "none", {})
    \/ Start(c, "transfer", "workspace", actor, user, "none", {})
    \/ /\ user = actor
       /\ \/ Start(c, "leave", "workspace", actor, user, "none", {})
          \/ Start(c, "delete", "workspace", actor, user, "none", {})
          \/ Start(c, "rotate", "authorise", actor, user, "none", {})
          \/ \E i \in Invite :
               /\ invite[i].state # "none"
               /\ \/ Start(c, "revoke", "authorise", actor, user, "none", {i})
                  \/ Start(c, "accept", "invite", actor, user, "none", {i})

\* Somebody signs up.
Register(u) ==
  /\ u \notin account
  /\ account' = account \cup {u}
  /\ UNCHANGED <<rows, call, calls, overlooked>>

\* A statement fails or finds no row, the connection is lost, or the database ends
\* a deadlock: the transaction is rolled back.
Abort(c) ==
  /\ call[c].at # "idle"
  /\ End(c)
  /\ UNCHANGED <<account, rows, calls, overlooked>>

-----------------------------------------------------------------------------
\* Governance: roles are read from the locked rows and decided upon

\* Variant: the roles are read before anything is locked.
LockWorkspaceNever(c) ==
  /\ call[c].at = "workspace"
  /\ call' = [call EXCEPT ![c].at = "decide", ![c].seen = role]
  /\ UNCHANGED <<account, rows, calls, overlooked>>

LockWorkspace(c) ==
  /\ call[c].at = "workspace"
  /\ WorkspaceFree(c)
  /\ Goto(c, "members")
  /\ UNCHANGED <<account, rows, calls, overlooked>>

LockMemberships(c) ==
  /\ call[c].at = "members"
  /\ \A u \in User : role[u] # "none" => MemberFree(c, u)
  /\ call' = [call EXCEPT ![c].at = "decide", ![c].seen = role]
  /\ UNCHANGED <<account, rows, calls, overlooked>>

\* What the four operations allow, in terms of the roles that were read
updateWorkspaceMemberRole(q) ==
  /\ q.op = "change"
  /\ HasCapability(q.seen[q.actor], "manageMembers")
  /\ q.seen[q.user] # "none"
  /\ Cardinality(Owners(q.seen)) = 1
  /\ canChangeMemberRole(q.seen[q.actor], q.seen[q.user], q.role)
  /\ role' = [role EXCEPT ![q.user] = q.role]

removeWorkspaceMember(q) ==
  /\ q.op = "remove"
  /\ HasCapability(q.seen[q.actor], "manageMembers")
  /\ q.seen[q.user] # "none"
  /\ Cardinality(Owners(q.seen)) = 1
  /\ canRemoveMember(q.seen[q.actor], q.seen[q.user])
  /\ role' = [role EXCEPT ![q.user] = "none"]

leaveWorkspace(q) ==
  /\ q.op = "leave"
  /\ q.seen[q.actor] # "none"
  /\ Cardinality(Owners(q.seen)) = 1
  /\ q.actor \notin Owners(q.seen)
  /\ role' = [role EXCEPT ![q.actor] = "none"]

transferWorkspaceOwnership(q) ==
  /\ q.op = "transfer"
  /\ HasCapability(q.seen[q.actor], "transferOwnership")
  /\ Owners(q.seen) = {q.actor}
  /\ q.seen[q.user] \notin {"none", "owner"}
  /\ role' = [role EXCEPT ![q.actor] = "admin", ![q.user] = "owner"]

\* The audit row refers to the actor.
Decide(c) ==
  /\ call[c].at = "decide"
  /\ UserFree(c, call[c].actor)
  /\ \/ updateWorkspaceMemberRole(call[c])
     \/ removeWorkspaceMember(call[c])
     \/ leaveWorkspace(call[c])
     \/ transferWorkspaceOwnership(call[c])
  /\ End(c)
  /\ UNCHANGED <<account, deleted, invite, key, calls, overlooked>>

\* The deletion takes everything that belongs to the workspace with it, and waits
\* for who has locked any of it.  Projects and files are in Artifacts.
deleteWorkspaceWithArtifacts(c) ==
  /\ call[c].at = "decide"
  /\ call[c].op = "delete"
  /\ HasCapability(call[c].seen[call[c].actor], "deleteWorkspace")
  /\ UserFree(c, call[c].actor)
  /\ \A i \in Invite : InviteFree(c, i)
  /\ deleted' = TRUE
  /\ role' = [u \in User |-> "none"]
  /\ invite' = [i \in Invite |-> NoInvite]
  /\ key' = [k \in Key |-> "none"]
  /\ End(c)
  /\ UNCHANGED <<account, calls, overlooked>>

-----------------------------------------------------------------------------
\* Invitations

Capability(op) == IF op = "rotate" THEN "rotateKey" ELSE "manageInvitations"

\* Authorisation reads the membership outside the transaction; a creation also
\* checks there, and only there, the role it may grant.  Then the clock is read.
Authorise(c) ==
  /\ call[c].at = "authorise"
  /\ HasCapability(role[call[c].actor], Capability(call[c].op))
  /\ call[c].op = "create" => canInviteInvitationRole(role[call[c].actor], call[c].role)
  /\ call' = [call EXCEPT
       ![c].at = CASE call[c].op = "create" -> "actor"
                   [] call[c].op = "revoke" -> "invite"
                   [] call[c].op = "rotate" -> "list",
       ![c].late = Expired]
  /\ UNCHANGED <<account, rows, calls, overlooked>>

\* Variant: the capability is not checked again under the lock.
LockActorUnchecked(c) ==
  /\ call[c].at = "actor"
  /\ MemberFree(c, call[c].actor)
  /\ Goto(c, "user")
  /\ UNCHANGED <<account, rows, calls, overlooked>>

\* The actor's membership is locked and has to have the capability still; then
\* expired invitations of the address are retired, but for locked ones.
LockActor(c) ==
  /\ call[c].at = "actor"
  /\ MemberFree(c, call[c].actor)
  /\ HasCapability(role[call[c].actor], "manageInvitations")
  /\ call' = [call EXCEPT
       ![c].at = "user",
       ![c].retired = {i \in call[c].late : /\ Pending(i)
                                            /\ invite[i].email = {call[c].user}
                                            /\ InviteFree(c, i)}]
  /\ UNCHANGED <<account, rows, calls, overlooked>>

\* The lock of the account: of the one an invitation is for, or of one's own.
Found(c) == call' = [call EXCEPT
  ![c].at = "target", ![c].found = IF call[c].op = "create" THEN {call[c].user} ELSE {}]

\* Variant: the account is looked up without a lock.
LockUserNever(c) ==
  /\ call[c].at = "user"
  /\ call[c].op = "create" => call[c].user \in account
  /\ Found(c)
  /\ UNCHANGED <<account, rows, calls, overlooked>>

LockUser(c) ==
  /\ call[c].at = "user"
  /\ call[c].op = "create" => call[c].user \in account
  /\ UserFree(c, IF call[c].op = "create" THEN call[c].user ELSE call[c].actor)
  /\ Found(c)
  /\ UNCHANGED <<account, rows, calls, overlooked>>

\* Nobody has registered the address: there is no account to lock, and no
\* membership to look at.
FindNoUser(c) ==
  /\ call[c].at = "user"
  /\ call[c].op = "create"
  /\ call[c].user \notin account
  /\ Goto(c, "active")
  /\ UNCHANGED <<account, rows, calls, overlooked>>

\* Variant: whether somebody is a member already is not looked at.
LockTargetMembershipUnchecked(c) ==
  /\ call[c].at = "target"
  /\ Goto(c, IF call[c].op = "create" THEN "active" ELSE "mark")
  /\ UNCHANGED <<account, rows, calls, overlooked>>

\* Neither an invitation nor an acceptance goes on for somebody who is a member.
LockTargetMembership(c) ==
  /\ call[c].at = "target"
  /\ role[call[c].user] = "none"
  /\ Goto(c, IF call[c].op = "create" THEN "active" ELSE "mark")
  /\ UNCHANGED <<account, rows, calls, overlooked>>

\* Nor does a creation when an invitation for the address is active.
LockActiveInvitation(c) ==
  /\ call[c].at = "active"
  /\ \A i \in Invite \ call[c].late : ~(Pending(i) /\ invite[i].email = {call[c].user})
  /\ Goto(c, "insert")
  /\ UNCHANGED <<account, rows, calls, overlooked>>

\* The index workspace_invitations_pending_email_unique
SlotFree(invites, email) ==
  \A i \in Invite : ~(invites[i].state = "pending" /\ invites[i].email = {email})

InsertInvitation(c) ==
  /\ call[c].at = "insert"
  /\ WorkspaceFree(c)
  /\ UserFree(c, call[c].actor)
  /\ LET retired == [i \in Invite |-> IF i \in call[c].retired
                                      THEN [invite[i] EXCEPT !.state = "revoked"]
                                      ELSE invite[i]]
     IN  /\ SlotFree(retired, call[c].user)
         /\ \E i \in Invite :
              /\ invite[i].state = "none"
              /\ invite' = [retired EXCEPT ![i] =
                   [state |-> "pending", email |-> {call[c].user},
                    role |-> call[c].role, expired |-> FALSE]]
              /\ overlooked' = IF call[c].found = {} /\ call[c].user \in account
                                THEN overlooked \cup {i} ELSE overlooked
  /\ End(c)
  /\ UNCHANGED <<account, deleted, role, key, calls>>

\* A revocation and an acceptance lock the invitation and read it.
LockInvitation(c) ==
  /\ call[c].at = "invite"
  /\ \A i \in call[c].invite : InviteFree(c, i) /\ Pending(i)
  /\ \/ /\ call[c].op = "revoke"
        /\ call[c].invite \cap call[c].late = {}
        /\ Goto(c, "mark")
     \/ /\ call[c].op = "accept"
        /\ \A i \in call[c].invite : ~invite[i].expired /\ invite[i].email = {call[c].actor}
        /\ Goto(c, "user")
  /\ UNCHANGED <<account, rows, calls, overlooked>>

MarkRevoked(c) ==
  /\ call[c].at = "mark"
  /\ call[c].op = "revoke"
  /\ WorkspaceFree(c)
  /\ UserFree(c, call[c].actor)
  /\ \E i \in call[c].invite :
       Pending(i) /\ invite' = [invite EXCEPT ![i].state = "revoked"]
  /\ End(c)
  /\ UNCHANGED <<account, deleted, role, key, calls, overlooked>>

\* The membership row shares the workspace's lock: no governance transaction
\* has it.
MarkAccepted(c) ==
  /\ call[c].at = "mark"
  /\ call[c].op = "accept"
  /\ WorkspaceFree(c)
  /\ \E i \in call[c].invite :
       /\ Pending(i)
       /\ role' = [role EXCEPT ![call[c].actor] = invite[i].role]
       /\ invite' = [invite EXCEPT ![i].state = "accepted"]
  /\ End(c)
  /\ UNCHANGED <<account, deleted, key, calls, overlooked>>

\* Seven days pass.
Expire(i) ==
  /\ Pending(i)
  /\ ~invite[i].expired
  /\ invite' = [invite EXCEPT ![i].expired = TRUE]
  /\ UNCHANGED <<account, deleted, role, key, call, calls, overlooked>>

\* The worker's cleanup retires expired invitations nobody has locked.
RetireExpired ==
  /\ \E i \in Invite : Pending(i) /\ invite[i].expired
                       /\ \A c \in Call : ~HasInvite(c, i)
  /\ invite' = [i \in Invite |->
       IF Pending(i) /\ invite[i].expired /\ \A c \in Call : ~HasInvite(c, i)
       THEN [invite[i] EXCEPT !.state = "revoked"] ELSE invite[i]]
  /\ UNCHANGED <<account, deleted, role, key, call, calls, overlooked>>

-----------------------------------------------------------------------------
\* Key rotation lists the active keys without a lock, revokes those, and
\* inserts the new one.

ListActiveKeys(c) ==
  /\ call[c].at = "list"
  /\ call' = [call EXCEPT ![c].at = "swap", ![c].old = {k \in Key : key[k] = "active"}]
  /\ UNCHANGED <<account, rows, calls, overlooked>>

\* Variant: every active key is revoked after the new one is inserted.
SwapKeysLate(c) ==
  /\ call[c].at = "swap"
  /\ \E new \in Key :
       /\ key[new] = "none"
       /\ key' = [k \in Key |-> IF k = new \/ key[k] = "active" THEN "revoked" ELSE key[k]]
  /\ End(c)
  /\ UNCHANGED <<account, deleted, role, invite, calls, overlooked>>

SwapKeys(c) ==
  /\ call[c].at = "swap"
  /\ WorkspaceFree(c)
  /\ UserFree(c, call[c].actor)
  /\ \E new \in Key :
       /\ key[new] = "none"
       /\ key' = [k \in Key |-> IF k = new THEN "active"
                                ELSE IF k \in call[c].old THEN "revoked" ELSE key[k]]
  /\ End(c)
  /\ UNCHANGED <<account, deleted, role, invite, calls, overlooked>>

-----------------------------------------------------------------------------
Step(c) ==
  \/ Request(c) \/ Abort(c)
  \/ LockWorkspace(c) \/ LockMemberships(c) \/ Decide(c) \/ deleteWorkspaceWithArtifacts(c)
  \/ Authorise(c) \/ LockActor(c) \/ LockUser(c) \/ FindNoUser(c) \/ LockTargetMembership(c)
  \/ LockActiveInvitation(c) \/ InsertInvitation(c)
  \/ LockInvitation(c) \/ MarkRevoked(c) \/ MarkAccepted(c)
  \/ ListActiveKeys(c) \/ SwapKeys(c)

Next ==
  \/ \E c \in Call : Step(c)
  \/ \E u \in User : Register(u)
  \/ \E i \in Invite : Expire(i)
  \/ RetireExpired

Spec == Init /\ [][Next]_vars

-----------------------------------------------------------------------------
InviteRecord ==
  [state : {"none", "pending", "accepted", "revoked"},
   email : {{}} \cup {{u} : u \in User}, role : InvitationRoles \cup {"none"},
   expired : BOOLEAN]

CallRecord ==
  [op : Ops, at : Places, actor : User, user : User,
   role : InvitationRoles \cup {"none"}, invite : {{}} \cup {{i} : i \in Invite},
   seen : [User -> Roles \cup {"none"}], found : {{}} \cup {{u} : u \in User},
   late : SUBSET Invite, retired : SUBSET Invite, old : SUBSET Key]

\* No row is locked by two calls.
LocksExclude ==
  \A c, d \in Call : c # d =>
    /\ ~(HasWorkspace(c) /\ HasWorkspace(d))
    /\ \A u \in User : ~(HasMember(c, u) /\ HasMember(d, u)) /\ ~(HasUser(c, u) /\ HasUser(d, u))
    /\ \A i \in Invite : ~(HasInvite(c, i) /\ HasInvite(d, i))

\* Every row and every call has its shape, members have accounts, no invitation
\* grants ownership, and no row is locked twice (tables of schema.ts:116-181 with their role checks,
\* lockMembership, lockUserById and lockInvitationById of the repositories).
TypeOK ==
  /\ account \subseteq User /\ deleted \in BOOLEAN /\ overlooked \subseteq Invite
  /\ role \in [User -> Roles \cup {"none"}] /\ \A u \in User \ account : role[u] = "none"
  /\ invite \in [Invite -> InviteRecord]
  /\ key \in [Key -> {"none", "active", "revoked"}]
  /\ call \in [Call -> CallRecord \cup {NoCall}]
  /\ calls \in 0..MaxCalls
  /\ LocksExclude

\* Whatever governance calls and acceptances run at the same time, the workspace
\* has one owner as long as it exists: a transfer never leaves two, a removal or a
\* leave never none (requireExactlyOneOwner, workspace-governance.ts:83-97).
ExactlyOneOwner == deleted \/ \E u \in User : Owners(role) = {u}

\* An invitation is inserted only while its creator may manage invitations:
\* someone demoted or removed between the authorisation and the transaction
\* creates none (the check under the lock, invitations.ts:200-206).
InvitesComeFromManagers ==
  [][\A i \in Invite, c \in Call :
       invite[i].state = "none" /\ invite'[i].state = "pending" /\ call'[c] # call[c]
         => role[call[c].actor] \in {"owner", "admin"}]_vars

\* An address has one pending invitation at most, and somebody who is a member
\* none: a creation and an acceptance for the same account take turns
\* (invitations.ts:210-241 and 395-418).  The one way around is that the creation
\* found no account, and the address is registered before it commits: then it has
\* locked nothing, and an earlier invitation may be accepted meanwhile.
PendingInvitesAreUseful ==
  \A i \in Invite : Pending(i) =>
    /\ \A j \in Invite \ {i} : ~(Pending(j) /\ invite[j].email = invite[i].email)
    /\ i \notin overlooked => \A u \in invite[i].email : role[u] = "none"

\* Rotations that overlap never revoke each other's new key: as long as there is a
\* project it has a key the SDK can send with (rotatePublicIngestKey,
\* keys.ts:59-107).
SomeKeyWorks == deleted \/ \E k \in Key : key[k] = "active"
=============================================================================
