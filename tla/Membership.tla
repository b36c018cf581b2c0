----------------------------- MODULE Membership ------------------------------
(***************************************************************************)
(* Spaces, their members and invitations: the tools and handlers that      *)
(* receive a request, the services that read who is asking and whom it     *)
(* concerns, and the repositories that write, each in a transaction of its *)
(* own.  Between two of those steps any other request may run.             *)
(*                                                                         *)
(* A user's Personal Space, and the owner's row in it, carry the user's    *)
(* own id.  What a request reads to answer, and not to decide, is left     *)
(* out; a request that is refused changes nothing and is not a step.       *)
(***************************************************************************)
EXTENDS Integers, FiniteSets

CONSTANTS
    Users,          \* registered users, who are also their own Personal Spaces
    MaxDeleted,     \* how many users may be deleted
    Shared,         \* ids for shared spaces
    MemberIds,      \* ids for rows of space_members
    Invites,        \* ids for invitations
    Requests,       \* requests in progress at one time
    Names,          \* names a space may be given
    TargetRoles,    \* roles that may be given to a member
    OfferedRoles,   \* those of them that an invitation is created with
    Grants,         \* Grants[role]: the permissions of a space role
    Nil

Owner == "space_owner"
Roles == TargetRoles \union {Owner}
Spaces == Users \union Shared
Rows == Users \union MemberIds

ASSUME Numbered == MemberIds \subseteq Nat
ASSUME DistinctIds ==
    /\ Nil \notin Users \union Shared \union MemberIds \union Invites
    /\ Users \intersect Shared = {} /\ Users \intersect MemberIds = {}
ASSUME Subsets ==
    /\ MaxDeleted \in Nat
    /\ OfferedRoles \subseteq TargetRoles
    /\ Names # {}
ASSUME OwnerIsNotGiven == Owner \notin TargetRoles
ASSUME GrantsType == Grants \in [ Roles -> SUBSET STRING ]

VARIABLES
    deleted,        \* users whose row is soft-deleted
    spaces,         \* [status, name, by] for each space, Nil before it exists
    members,        \* [space, user, role, status] for each row, or Nil
    invites,        \* [space, role, status, expired] or Nil
    req             \* what each request has read, or Nil

vars == <<deleted, spaces, members, invites, req>>

SpaceRow == [ status : {"ACTIVE", "ARCHIVED"}, name : Names, by : Users ]
MemberRow == [ space : Spaces, user : Users, role : Roles,
               status : {"ACTIVE", "INACTIVE"} ]
InviteRow == [ space : Shared, role : TargetRoles,
               status : {"PENDING", "ACCEPTED", "REVOKED"}, expired : BOOLEAN ]

ASSUME NilIsNoRow == Nil \notin SpaceRow \union MemberRow \union InviteRow

-----------------------------------------------------------------------------
(* Queries *)

Active(m) == members[m] # Nil /\ members[m].status = "ACTIVE"

\* The rows activeMembershipQuery joins: of users that are not deleted, in
\* spaces that are ACTIVE.
Visible(m) ==
    /\ Active(m)
    /\ members[m].user \notin deleted
    /\ spaces[members[m].space].status = "ACTIVE"

ListActiveByUserID(u) == { m \in Rows : Visible(m) /\ members[m].user = u }

FindActiveMembership(u, s) ==
    { m \in ListActiveByUserID(u) : members[m].space = s }

ListActiveMembers(s) == { m \in Rows : Visible(m) /\ members[m].space = s }

ListPending(s) ==
    { i \in Invites : /\ invites[i] # Nil
                      /\ invites[i].space = s
                      /\ invites[i].status = "PENDING" }

HasPermission(m, permission) == permission \in Grants[members[m].role]

\* The actor of a change to a space or its members: a member of a shared space
\* whose role has the permission.
MutableSpaceMembership(u, s, permission) ==
    /\ s \in Shared
    /\ \E m \in FindActiveMembership(u, s) : HasPermission(m, permission)

\* The actor of a change to invitations is found the same way, by a copy of
\* the code in another service.
InvitationActor(u, s, permission) ==
    /\ s \in Shared
    /\ \E m \in FindActiveMembership(u, s) : HasPermission(m, permission)

-----------------------------------------------------------------------------
(* Writes *)

\* Seeded fault: only an owner is refused a second row.
NoOwnerRowOf(u, s) ==
    ~ \E m \in Rows : /\ Active(m) /\ members[m].role = Owner
                      /\ members[m].user = u /\ members[m].space = s

\* An insert into space_members, refused if the user has a row in the space
\* that is not deleted (ux_space_members_space_user).
NoRowOf(u, s) ==
    ~ \E m \in Rows : Active(m) /\ members[m].user = u /\ members[m].space = s

CreateWithOwner(s, m, u, name) ==
    /\ spaces' = [ spaces EXCEPT ![s] =
                     [ status |-> "ACTIVE", name |-> name, by |-> u ] ]
    /\ members' = [ members EXCEPT ![m] =
                      [ space |-> s, user |-> u, role |-> Owner,
                        status |-> "ACTIVE" ] ]

UpdateSpace(s, name) ==
    spaces' = [ spaces EXCEPT ![s].name =
                  IF spaces[s].status = "ACTIVE" THEN name ELSE @ ]

ArchiveSpace(s) == spaces' = [ spaces EXCEPT ![s].status = "ARCHIVED" ]

\* Seeded fault: every write to a member marks its role as well as its status.
UpdateMemberRoleOfAny(s, m, role) ==
    members' = [ members EXCEPT ![m].role = IF Active(m) THEN role ELSE Nil ]

\* The two writes to a member ask for an ACTIVE row of that id and space, and
\* for nothing about the space or about who is asking.
UpdateMemberRole(s, m, role) ==
    members' = IF Active(m) /\ members[m].space = s
               THEN [ members EXCEPT ![m].role = role ] ELSE members

RemoveMember(s, m) ==
    members' = IF Active(m) /\ members[m].space = s
               THEN [ members EXCEPT ![m].status = "INACTIVE" ] ELSE members

CreateInvitation(i, s, role) ==
    invites' = [ invites EXCEPT ![i] =
                   [ space |-> s, role |-> role, status |-> "PENDING",
                     expired |-> FALSE ] ]

\* Seeded fault: the status is not looked at again when the invitation is revoked.
RevokeAny(i) == invites' = [ invites EXCEPT ![i].status = "REVOKED" ]

RevokePending(i) ==
    invites' = IF invites[i].status = "PENDING"
               THEN [ invites EXCEPT ![i].status = "REVOKED" ] ELSE invites

\* One transaction that holds the invitation and the space: it must be pending,
\* for a space that is ACTIVE, and the insert of the member must be accepted.
AcceptInvitation(i, m, u) ==
    /\ invites[i].status = "PENDING"
    /\ spaces[invites[i].space].status = "ACTIVE"
    /\ NoRowOf(u, invites[i].space)
    /\ members' = [ members EXCEPT ![m] =
                      [ space |-> invites[i].space, user |-> u,
                        role |-> invites[i].role, status |-> "ACTIVE" ] ]
    /\ invites' = [ invites EXCEPT ![i].status = "ACCEPTED" ]

-----------------------------------------------------------------------------
(* Requests: what each still needs of what it was asked and has read.  Who is *)
(* asking is forgotten once the service has looked the actor up, except by a   *)
(* creation and an acceptance.                                                 *)

Request == [ op : {"create", "update", "archive", "role", "remove",
                   "invite", "revoke", "accept"},
             checked : BOOLEAN, user : Users \union {Nil}, space : Spaces \union {Nil},
             target : Rows \union {Nil}, invite : Invites \union {Nil},
             role : TargetRoles \union {Nil},
             name : Names \union {Nil} ]

Blank(op, u, s) ==
    [ op |-> op, checked |-> FALSE, user |-> u, space |-> s, target |-> Nil,
      invite |-> Nil, role |-> Nil, name |-> Nil ]

\* A tool or handler resolves the actor and the space; the service looks the
\* membership up again before it does anything else, and what it then asks for
\* includes what the selection asked for, so the two are one step.
Start(r, q) == req[r] = Nil /\ req' = [ req EXCEPT ![r] = q ]
Finish(r) == req' = [ req EXCEPT ![r] = Nil ]
Reads == UNCHANGED <<deleted, spaces, members, invites>>

\* Ids are random, and numbered here in the order they are used.
FreshRow(m) ==
    /\ m \in MemberIds /\ members[m] = Nil
    /\ \A other \in MemberIds : other < m => members[other] # Nil

-----------------------------------------------------------------------------
(* Spaces *)

\* space_create: any active membership that may create spaces will do, as the
\* owner's in a Personal Space.
SpaceCreate(r, u, name) ==
    /\ \E m \in ListActiveByUserID(u) : HasPermission(m, "spaces:create")
    /\ Start(r, [ Blank("create", u, Nil) EXCEPT !.name = name ])
    /\ Reads

CreateShared(r, s, m) ==
    /\ req[r] # Nil /\ req[r].op = "create"
    /\ s \in Shared /\ spaces[s] = Nil /\ FreshRow(m)
    /\ CreateWithOwner(s, m, req[r].user, req[r].name)
    /\ Finish(r)
    /\ UNCHANGED <<deleted, invites>>

\* space_update
SpaceUpdate(r, u, s, name) ==
    /\ MutableSpaceMembership(u, s, "spaces:update")
    /\ Start(r, [ Blank("update", Nil, s) EXCEPT !.name = name ])
    /\ Reads

Rename(r) ==
    /\ req[r] # Nil /\ req[r].op = "update"
    /\ UpdateSpace(req[r].space, req[r].name)
    /\ Finish(r)
    /\ UNCHANGED <<deleted, members, invites>>

\* space_archive
SpaceArchive(r, u, s) ==
    /\ MutableSpaceMembership(u, s, "spaces:delete")
    /\ Start(r, Blank("archive", Nil, s))
    /\ Reads

Archive(r) ==
    /\ req[r] # Nil /\ req[r].op = "archive"
    /\ ArchiveSpace(req[r].space)
    /\ Finish(r)
    /\ UNCHANGED <<deleted, members, invites>>

-----------------------------------------------------------------------------
(* Members *)

\* member_update_role and member_remove: the client names a member and a role.
\* One that does not exist is refused, as is a row of a Personal Space.
MemberUpdateRole(r, u, s, m, role) ==
    /\ m \in MemberIds /\ members[m] # Nil
    /\ MutableSpaceMembership(u, s, "members:update")
    /\ Start(r, [ Blank("role", Nil, s) EXCEPT !.target = m, !.role = role ])
    /\ Reads

MemberRemove(r, u, s, m) ==
    /\ m \in MemberIds /\ members[m] # Nil
    /\ MutableSpaceMembership(u, s, "members:delete")
    /\ Start(r, [ Blank("remove", Nil, s) EXCEPT !.target = m ])
    /\ Reads

\* Seeded fault: an owner is a member like any other.
ChangeableOwner(s, m) == m \in ListActiveMembers(s)

\* The service looks for the member among those of the space, and never
\* touches an owner.
Changeable(s, m) == m \in ListActiveMembers(s) /\ members[m].role # Owner

FindTarget(r) ==
    LET q == req[r]
    IN  /\ q # Nil /\ q.op \in {"role", "remove"} /\ ~ q.checked
        /\ IF Changeable(q.space, q.target)
           THEN req' = [ req EXCEPT ![r].checked = TRUE ]
           ELSE Finish(r)
        /\ Reads

ChangeRole(r) ==
    LET q == req[r]
    IN  /\ q # Nil /\ q.op = "role" /\ q.checked
        /\ UpdateMemberRole(q.space, q.target, q.role)
        /\ Finish(r)
        /\ UNCHANGED <<deleted, spaces, invites>>

Remove(r) ==
    LET q == req[r]
    IN  /\ q # Nil /\ q.op = "remove" /\ q.checked
        /\ RemoveMember(q.space, q.target)
        /\ Finish(r)
        /\ UNCHANGED <<deleted, spaces, invites>>

-----------------------------------------------------------------------------
(* Invitations *)

\* invitation_create
InvitationCreate(r, u, s, role) ==
    /\ InvitationActor(u, s, "invitations:create")
    /\ Start(r, [ Blank("invite", Nil, s) EXCEPT !.role = role ])
    /\ Reads

Invite(r, i) ==
    LET q == req[r]
    IN  /\ q # Nil /\ q.op = "invite"
        /\ invites[i] = Nil
        /\ CreateInvitation(i, q.space, q.role)
        /\ Finish(r)
        /\ UNCHANGED <<deleted, spaces, members>>

\* invitation_revoke: the pending invitations of the space are listed before
\* one of them is withdrawn.
InvitationRevoke(r, u, s, i) ==
    /\ invites[i] # Nil
    /\ InvitationActor(u, s, "invitations:delete")
    /\ Start(r, [ Blank("revoke", Nil, s) EXCEPT !.invite = i ])
    /\ Reads

FindInvitation(r) ==
    LET q == req[r]
    IN  /\ q # Nil /\ q.op = "revoke" /\ ~ q.checked
        /\ IF q.invite \in ListPending(q.space)
           THEN req' = [ req EXCEPT ![r].checked = TRUE ]
           ELSE Finish(r)
        /\ Reads

Revoke(r) ==
    LET q == req[r]
    IN  /\ q # Nil /\ q.op = "revoke" /\ q.checked
        /\ RevokePending(q.invite)
        /\ Finish(r)
        /\ UNCHANGED <<deleted, spaces, members>>

\* The transaction compares the time the request began with the expiry, which
\* never changes, so they are compared here.  An invitation bound to an address
\* refuses everyone else, in a chat everyone: those requests change nothing and
\* are left out.
InTime(i) == invites[i] # Nil /\ ~ invites[i].expired

\* invitation_accept in a chat, by a user who is a member of some space
InvitationAccept(r, u, i) ==
    /\ ListActiveByUserID(u) # {}
    /\ InTime(i)
    /\ Start(r, [ Blank("accept", u, Nil) EXCEPT !.invite = i ])
    /\ Reads

\* Over HTTP, by a user the handler finds in the table
HTTPAccept(r, u, i) ==
    /\ u \notin deleted
    /\ InTime(i)
    /\ Start(r, [ Blank("accept", u, Nil) EXCEPT !.invite = i ])
    /\ Reads

Accept(r, m) ==
    LET q == req[r]
    IN  /\ q # Nil /\ q.op = "accept"
        /\ FreshRow(m)
        /\ AcceptInvitation(q.invite, m, q.user)
        /\ Finish(r)
        /\ UNCHANGED <<deleted, spaces>>

\* Any write may instead fail, or be refused, and leave nothing.
Fail(r) ==
    /\ req[r] # Nil
    /\ Finish(r)
    /\ Reads

-----------------------------------------------------------------------------
(* What happens to users and with time *)

\* Deleting a user marks the row and leaves memberships alone.
DeleteUser(u) ==
    /\ u \notin deleted /\ Cardinality(deleted) < MaxDeleted
    /\ deleted' = deleted \union {u}
    /\ UNCHANGED <<spaces, members, invites, req>>

Expire(i) ==
    /\ invites[i] # Nil /\ invites[i].status = "PENDING" /\ ~ invites[i].expired
    /\ invites' = [ invites EXCEPT ![i].expired = TRUE ]
    /\ UNCHANGED <<deleted, spaces, members, req>>

-----------------------------------------------------------------------------
\* Every user is registered together with a Personal Space and the owner's row.
Init ==
    /\ deleted = {}
    /\ spaces = [ s \in Spaces |->
                    IF s \in Users
                    THEN [ status |-> "ACTIVE", by |-> s,
                           name |-> CHOOSE name \in Names : TRUE ]
                    ELSE Nil ]
    /\ members = [ m \in Rows |->
                     IF m \in Users
                     THEN [ space |-> m, user |-> m, role |-> Owner,
                            status |-> "ACTIVE" ]
                     ELSE Nil ]
    /\ invites = [ i \in Invites |-> Nil ]
    /\ req = [ r \in Requests |-> Nil ]

Ask(r, u) ==
    \/ \E name \in Names : SpaceCreate(r, u, name)
    \/ \E s \in Shared, name \in Names : SpaceUpdate(r, u, s, name)
    \/ \E s \in Shared : SpaceArchive(r, u, s)
    \/ \E s \in Shared, m \in Rows, role \in TargetRoles :
         MemberUpdateRole(r, u, s, m, role)
    \/ \E s \in Shared, m \in Rows : MemberRemove(r, u, s, m)
    \/ \E s \in Shared, role \in OfferedRoles : InvitationCreate(r, u, s, role)
    \/ \E s \in Shared, i \in Invites : InvitationRevoke(r, u, s, i)
    \/ \E i \in Invites : InvitationAccept(r, u, i)
    \/ \E i \in Invites : HTTPAccept(r, u, i)

Proceed(r) ==
    \/ \E s \in Shared, m \in MemberIds : CreateShared(r, s, m)
    \/ Rename(r)
    \/ Archive(r)
    \/ FindTarget(r)
    \/ ChangeRole(r)
    \/ Remove(r)
    \/ \E i \in Invites : Invite(r, i)
    \/ FindInvitation(r)
    \/ Revoke(r)
    \/ \E m \in MemberIds : Accept(r, m)
    \/ Fail(r)

Next ==
    \/ \E r \in Requests, u \in Users : Ask(r, u)
    \/ \E r \in Requests : Proceed(r)
    \/ \E u \in Users : DeleteUser(u)
    \/ \E i \in Invites : Expire(i)

Spec == Init /\ [][Next]_vars

-----------------------------------------------------------------------------
(* Properties *)

\* Every variable has its type.
TypeOK ==
    /\ deleted \subseteq Users
    /\ spaces \in [ Spaces -> SpaceRow \union {Nil} ]
    /\ members \in [ Rows -> MemberRow \union {Nil} ]
    /\ invites \in [ Invites -> InviteRow \union {Nil} ]
    /\ req \in [ Requests -> Request \union {Nil} ]

\* Whatever administrators do to each other at the same time, on readings that
\* may be out of date, the founder of a space is its one owner: service.go:352
\* and :398 refuse to touch an owner's row, and no request makes another.
FounderGoverns ==
    \A s \in Shared : spaces[s] # Nil =>
        \E m \in Rows :
            /\ Active(m) /\ members[m].space = s /\ members[m].role = Owner
            /\ members[m].user = spaces[s].by
            /\ \A other \in Rows :
                 Active(other) /\ members[other].space = s
                     /\ members[other].role = Owner => other = m

\* However many invitations a person accepts at once, a space has one row for
\* them: the answer to "which role has this user here" is never a choice.
OneRowPerUser ==
    \A m, other \in Rows :
        Active(m) /\ Active(other) /\ members[m].user = members[other].user
            /\ members[m].space = members[other].space => m = other

-----------------------------------------------------------------------------
(* The promise made to people, as these tables keep it *)

founderOf == [ s \in Shared |-> IF spaces[s] = Nil THEN Nil ELSE spaces[s].by ]
openSpaces == { s \in Shared : spaces[s] # Nil /\ spaces[s].status = "ACTIVE" }
belongings ==
    { <<members[m].space, members[m].user>> :
        m \in { row \in Rows : Active(row) /\ members[row].space \in Shared } }
OfferAt(status) ==
    IF status = "PENDING" THEN "open" ELSE IF status = "ACCEPTED" THEN "taken" ELSE "withdrawn"
offers ==
    [ i \in Invites |->
        IF invites[i] = Nil THEN "none" ELSE OfferAt(invites[i].status) ]
placeOf == [ i \in Invites |-> IF invites[i] = Nil THEN Nil ELSE invites[i].space ]

B == INSTANCE Belonging WITH
       keeper <- founderOf, open <- openSpaces, belongs <- belongings,
       offer <- offers, place <- placeOf

\* Every step keeps that promise: an invitation lets one person in, once, while its
\* space is open and it has not been withdrawn; who leaves comes back by another
\* invitation only; the founder stays.
InvitationsKeepTheirWord == B!Spec
=============================================================================
