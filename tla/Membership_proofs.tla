--------------------------- MODULE Membership_proofs ---------------------------
(* Proofs of the safety of Membership, and that it implements Belonging, for any
   number of users, spaces, invitations and requests in progress.              *)
EXTENDS Membership, TLAPS

\* What a request needs of the rows sp, mb and iv to be carried out: they exist, and
\* a member that was looked up is not an owner.
Sound(q, sp, mb, iv) ==
    /\ q.op = "create" => q.user \in Users /\ q.name \in Names
    /\ q.op = "update" => q.name \in Names
    /\ q.op \in {"update", "archive", "role", "remove", "invite"} =>
         q.space \in Shared /\ sp[q.space] # Nil
    /\ q.op \in {"role", "remove"} =>
         /\ q.target \in MemberIds /\ mb[q.target] # Nil
         /\ q.checked => mb[q.target].role # Owner
    /\ q.op \in {"role", "invite"} => q.role \in TargetRoles
    /\ q.op \in {"revoke", "accept"} => q.invite \in Invites /\ iv[q.invite] # Nil
    /\ q.op = "accept" => q.user \in Users

RequestsAreSound ==
    \A r \in Requests : req[r] # Nil => Sound(req[r], spaces, members, invites)

\* Rows of members and invitations are rows of a space.
SpacesExist ==
    /\ \A m \in Rows : members[m] # Nil => spaces[members[m].space] # Nil
    /\ \A i \in Invites : invites[i] # Nil => spaces[invites[i].space] # Nil

\* The types with what they need to be kept, and the inductive invariant.
Types == TypeOK /\ SpacesExist /\ RequestsAreSound
MInv == Types /\ FounderGoverns /\ OneRowPerUser

\* Rows stay, and nobody becomes an owner.
Grows ==
    /\ \A s \in Spaces : spaces[s] # Nil => spaces'[s] # Nil
    /\ \A m \in MemberIds : members[m] # Nil =>
         members'[m] # Nil /\ (members[m].role # Owner => members'[m].role # Owner)
    /\ \A i \in Invites : invites[i] # Nil => invites'[i] # Nil

-----------------------------------------------------------------------------
(* Requests *)

\* A request begins with nothing but who asks and where.
LEMMA BlankType ==
    ASSUME NEW op \in {"create", "update", "archive", "role", "remove",
                       "invite", "revoke", "accept"},
           NEW u \in Users \union {Nil}, NEW s \in Spaces \union {Nil}
    PROVE  Blank(op, u, s) \in Request
  BY DEF Blank, Request

\* One request moves, and the others keep what they need.
LEMMA OneRequest ==
    ASSUME Types, Grows, NEW r \in Requests, NEW q \in Request \union {Nil},
           req' = [ req EXCEPT ![r] = q ],
           q # Nil => Sound(q, spaces', members', invites')
    PROVE  req' \in [ Requests -> Request \union {Nil} ] /\ RequestsAreSound'
<1>1. req' \in [ Requests -> Request \union {Nil} ]
  BY DEF Types, TypeOK
<1>2. SUFFICES ASSUME NEW o \in Requests, req'[o] # Nil
               PROVE  Sound(req'[o], spaces', members', invites')
  BY <1>1 DEF RequestsAreSound
<1>3. CASE o = r
  BY <1>2, <1>3 DEF Types, TypeOK
<1>4. CASE o # r
  <2>1. req'[o] = req[o] /\ req[o] \in Request /\ Sound(req[o], spaces, members, invites)
    BY <1>2, <1>4 DEF Types, TypeOK, RequestsAreSound
  <2>. QED
    BY <2>1 DEF Sound, Grows, Spaces
<1>. QED
  BY <1>3, <1>4

\* Steps that change nothing but a request.
LEMMA OnlyARequest ==
    ASSUME Types, Reads, NEW r \in Requests, NEW q \in Request \union {Nil},
           req' = [ req EXCEPT ![r] = q ],
           q # Nil => Sound(q, spaces, members, invites)
    PROVE  Types'
<1>1. Grows
  BY DEF Reads, Grows
<1>2. req' \in [ Requests -> Request \union {Nil} ] /\ RequestsAreSound'
  BY <1>1, OneRequest DEF Reads
<1>. QED
  BY <1>2 DEF Reads, Types, TypeOK, SpacesExist

-----------------------------------------------------------------------------
(* Every step keeps the types *)

LEMMA TypesInit == Init => Types
<1>. SUFFICES ASSUME Init PROVE Types
  OBVIOUS
<1>. DEFINE name == CHOOSE n \in Names : TRUE
            space(s) == [ status |-> "ACTIVE", by |-> s, name |-> name ]
            member(m) == [ space |-> m, user |-> m, role |-> Owner, status |-> "ACTIVE" ]
<1>1. name \in Names
  BY Subsets
<1>2. \A u \in Users : space(u) \in SpaceRow /\ member(u) \in MemberRow
  BY <1>1 DEF SpaceRow, MemberRow, Roles, Spaces
<1>3. \A u \in Users : space(u) # Nil /\ member(u) # Nil /\ member(u).space = u
  BY <1>2, NilIsNoRow
<1>4. /\ deleted = {} /\ spaces = [ s \in Spaces |-> IF s \in Users THEN space(s) ELSE Nil ]
      /\ members = [ m \in Rows |-> IF m \in Users THEN member(m) ELSE Nil ]
      /\ invites = [ i \in Invites |-> Nil ] /\ req = [ r \in Requests |-> Nil ]
  BY DEF Init
<1>. HIDE DEF space, member
<1>5. TypeOK
  BY <1>2, <1>4 DEF TypeOK
<1>6. SpacesExist /\ RequestsAreSound
  BY <1>3, <1>4 DEF SpacesExist, RequestsAreSound, Spaces, Rows
<1>. QED
  BY <1>5, <1>6 DEF Types

\* Who may change a space is a member of it, so it exists.
LEMMA ActorsSpace ==
    ASSUME Types, NEW u \in Users, NEW s \in Shared, NEW permission,
           MutableSpaceMembership(u, s, permission) \/ InvitationActor(u, s, permission)
    PROVE  s \in Spaces /\ spaces[s] # Nil
  BY DEF MutableSpaceMembership, InvitationActor, FindActiveMembership, ListActiveByUserID,
     Visible, Active, Types, SpacesExist, Spaces

LEMMA TypesAsk ==
    ASSUME Types, NEW r \in Requests, NEW u \in Users, Ask(r, u)
    PROVE  Types'
<1>. USE DEF Start
<1>1. ASSUME NEW name \in Names, SpaceCreate(r, u, name) PROVE Types'
  <2>. DEFINE b == Blank("create", u, Nil)
              q == [ b EXCEPT !.name = name ]
  <2>1. b \in Request /\ b.op = "create" /\ b.user = u
    BY BlankType DEF Blank
  <2>2. q \in Request
    BY <2>1 DEF Request
  <2>3. Sound(q, spaces, members, invites)
    BY <2>1 DEF Sound, Request
  <2>. QED
    BY <1>1, <2>2, <2>3, OnlyARequest DEF SpaceCreate
<1>2. ASSUME NEW s \in Shared, NEW name \in Names, SpaceUpdate(r, u, s, name) PROVE Types'
  <2>. DEFINE b == Blank("update", Nil, s)
              q == [ b EXCEPT !.name = name ]
  <2>1. s \in Spaces /\ spaces[s] # Nil
    BY <1>2, ActorsSpace DEF SpaceUpdate
  <2>2. b \in Request /\ b.op = "update" /\ b.space = s
    BY <2>1, BlankType DEF Blank
  <2>3. q \in Request
    BY <2>2 DEF Request
  <2>4. Sound(q, spaces, members, invites)
    BY <2>1, <2>2 DEF Sound, Request
  <2>. QED
    BY <1>2, <2>3, <2>4, OnlyARequest DEF SpaceUpdate
<1>3. ASSUME NEW s \in Shared, SpaceArchive(r, u, s) PROVE Types'
  <2>. DEFINE b == Blank("archive", Nil, s)
  <2>1. s \in Spaces /\ spaces[s] # Nil
    BY <1>3, ActorsSpace DEF SpaceArchive
  <2>2. b \in Request /\ b.op = "archive" /\ b.space = s
    BY <2>1, BlankType DEF Blank
  <2>3. Sound(b, spaces, members, invites)
    BY <2>1, <2>2 DEF Sound
  <2>. QED
    BY <1>3, <2>2, <2>3, OnlyARequest DEF SpaceArchive
<1>4. ASSUME NEW s \in Shared, NEW m \in Rows, NEW role \in TargetRoles,
             MemberUpdateRole(r, u, s, m, role)
      PROVE  Types'
  <2>. DEFINE b == Blank("role", Nil, s)
              q == [ b EXCEPT !.target = m, !.role = role ]
  <2>1. s \in Spaces /\ spaces[s] # Nil /\ m \in MemberIds /\ members[m] # Nil
    BY <1>4, ActorsSpace DEF MemberUpdateRole
  <2>2. b \in Request /\ b.op = "role" /\ b.space = s /\ b.checked = FALSE
    BY <2>1, BlankType DEF Blank
  <2>3. q \in Request
    BY <2>2 DEF Request
  <2>4. Sound(q, spaces, members, invites)
    BY <2>1, <2>2 DEF Sound, Request
  <2>. QED
    BY <1>4, <2>3, <2>4, OnlyARequest DEF MemberUpdateRole
<1>5. ASSUME NEW s \in Shared, NEW m \in Rows, MemberRemove(r, u, s, m) PROVE Types'
  <2>. DEFINE b == Blank("remove", Nil, s)
              q == [ b EXCEPT !.target = m ]
  <2>1. s \in Spaces /\ spaces[s] # Nil /\ m \in MemberIds /\ members[m] # Nil
    BY <1>5, ActorsSpace DEF MemberRemove
  <2>2. b \in Request /\ b.op = "remove" /\ b.space = s /\ b.checked = FALSE
    BY <2>1, BlankType DEF Blank
  <2>3. q \in Request
    BY <2>2 DEF Request
  <2>4. Sound(q, spaces, members, invites)
    BY <2>1, <2>2 DEF Sound, Request
  <2>. QED
    BY <1>5, <2>3, <2>4, OnlyARequest DEF MemberRemove
<1>6. ASSUME NEW s \in Shared, NEW role \in OfferedRoles, InvitationCreate(r, u, s, role)
      PROVE  Types'
  <2>. DEFINE b == Blank("invite", Nil, s)
              q == [ b EXCEPT !.role = role ]
  <2>1. s \in Spaces /\ spaces[s] # Nil /\ role \in TargetRoles
    BY <1>6, ActorsSpace, Subsets DEF InvitationCreate
  <2>2. b \in Request /\ b.op = "invite" /\ b.space = s
    BY <2>1, BlankType DEF Blank
  <2>3. q \in Request
    BY <2>1, <2>2 DEF Request
  <2>4. Sound(q, spaces, members, invites)
    BY <2>1, <2>2 DEF Sound, Request
  <2>. QED
    BY <1>6, <2>3, <2>4, OnlyARequest DEF InvitationCreate
<1>7. ASSUME NEW s \in Shared, NEW i \in Invites, InvitationRevoke(r, u, s, i) PROVE Types'
  <2>. DEFINE b == Blank("revoke", Nil, s)
              q == [ b EXCEPT !.invite = i ]
  <2>1. s \in Spaces /\ invites[i] # Nil
    BY <1>7 DEF InvitationRevoke, Spaces
  <2>2. b \in Request /\ b.op = "revoke"
    BY <2>1, BlankType DEF Blank
  <2>3. q \in Request
    BY <2>2 DEF Request
  <2>4. Sound(q, spaces, members, invites)
    BY <2>1, <2>2 DEF Sound, Request
  <2>. QED
    BY <1>7, <2>3, <2>4, OnlyARequest DEF InvitationRevoke
<1>8. ASSUME NEW i \in Invites, InvitationAccept(r, u, i) \/ HTTPAccept(r, u, i)
      PROVE  Types'
  <2>. DEFINE b == Blank("accept", u, Nil)
              q == [ b EXCEPT !.invite = i ]
  <2>1. invites[i] # Nil
    BY <1>8 DEF InvitationAccept, HTTPAccept, InTime
  <2>2. b \in Request /\ b.op = "accept" /\ b.user = u
    BY BlankType DEF Blank
  <2>3. q \in Request
    BY <2>2 DEF Request
  <2>4. Sound(q, spaces, members, invites)
    BY <2>1, <2>2 DEF Sound, Request
  <2>. QED
    BY <1>8, <2>3, <2>4, OnlyARequest DEF InvitationAccept, HTTPAccept
<1>. QED
  BY <1>1, <1>2, <1>3, <1>4, <1>5, <1>6, <1>7, <1>8 DEF Ask

LEMMA TypesFind ==
    ASSUME Types, NEW r \in Requests, FindTarget(r) \/ FindInvitation(r) \/ Fail(r)
    PROVE  Types'
<1>. DEFINE q == req[r]
            p == [ q EXCEPT !.checked = TRUE ]
<1>1. q # Nil /\ q \in Request /\ Sound(q, spaces, members, invites)
  BY DEF FindTarget, FindInvitation, Fail, Types, TypeOK, RequestsAreSound
<1>2. p \in Request
  BY <1>1 DEF Request
<1>3. CASE req' = [ req EXCEPT ![r] = Nil ] /\ Reads
  BY <1>3, OnlyARequest
<1>4. CASE FindTarget(r) /\ Changeable(q.space, q.target)
  <2>1. Sound(p, spaces, members, invites)
    BY <1>1, <1>4 DEF Sound, Request, Changeable
  <2>2. req' = [ req EXCEPT ![r] = p ] /\ Reads
    BY <1>4 DEF FindTarget
  <2>. QED
    BY <1>2, <2>1, <2>2, OnlyARequest
<1>5. CASE FindInvitation(r) /\ q.invite \in ListPending(q.space)
  <2>1. q.op = "revoke" /\ Sound(p, spaces, members, invites)
    BY <1>1, <1>5 DEF Sound, Request, FindInvitation
  <2>2. req' = [ req EXCEPT ![r] = p ] /\ Reads
    BY <1>5 DEF FindInvitation
  <2>. QED
    BY <1>2, <2>1, <2>2, OnlyARequest
<1>. QED
  BY <1>3, <1>4, <1>5 DEF FindTarget, FindInvitation, Fail, Finish

\* A request that ends leaves sound requests, and what it wrote decides the rest.
LEMMA TypesFinish ==
    ASSUME Types, Grows, NEW r \in Requests, Finish(r),
           deleted' \subseteq Users,
           spaces' \in [ Spaces -> SpaceRow \union {Nil} ],
           members' \in [ Rows -> MemberRow \union {Nil} ],
           invites' \in [ Invites -> InviteRow \union {Nil} ],
           SpacesExist'
    PROVE  Types'
  BY OneRequest DEF Finish, Types, TypeOK

\* A request that is about to write
LEMMA AboutToWrite ==
    ASSUME Types, NEW r \in Requests, req[r] # Nil
    PROVE  req[r] \in Request /\ Sound(req[r], spaces, members, invites)
  BY DEF Types, TypeOK, RequestsAreSound

\* The row a member is given
LEMMA NewMemberType ==
    ASSUME NEW s \in Spaces, NEW u \in Users, NEW role \in Roles
    PROVE  LET row == [ space |-> s, user |-> u, role |-> role, status |-> "ACTIVE" ]
           IN  row \in MemberRow /\ row # Nil
  BY NilIsNoRow DEF MemberRow

LEMMA TypesCreate ==
    ASSUME Types, NEW r \in Requests, NEW s \in Shared, NEW m \in MemberIds,
           CreateShared(r, s, m)
    PROVE  Types'
<1>. DEFINE u == req[r].user
            space == [ status |-> "ACTIVE", name |-> req[r].name, by |-> u ]
            member == [ space |-> s, user |-> u, role |-> Owner, status |-> "ACTIVE" ]
<1>1. u \in Users /\ req[r].name \in Names
  BY AboutToWrite DEF CreateShared, Sound
<1>2. space \in SpaceRow /\ space # Nil
  BY <1>1, NilIsNoRow DEF SpaceRow
<1>3. member \in MemberRow /\ member # Nil /\ member.space = s
  BY <1>1, NewMemberType DEF Spaces, Roles
<1>4. /\ spaces' = [ spaces EXCEPT ![s] = space ] /\ members' = [ members EXCEPT ![m] = member ]
      /\ spaces[s] = Nil /\ members[m] = Nil /\ UNCHANGED <<deleted, invites>> /\ Finish(r)
  BY DEF CreateShared, CreateWithOwner, FreshRow
<1>. HIDE DEF space, member
<1>5. /\ spaces' \in [ Spaces -> SpaceRow \union {Nil} ]
      /\ members' \in [ Rows -> MemberRow \union {Nil} ]
  BY <1>2, <1>3, <1>4 DEF Types, TypeOK
<1>6. Grows
  BY <1>2, <1>3, <1>4 DEF Grows, Types, TypeOK, Rows
<1>7. SpacesExist'
  BY <1>2, <1>3, <1>4 DEF SpacesExist, Types, TypeOK, Spaces, Rows
<1>. QED
  BY <1>4, <1>5, <1>6, <1>7, TypesFinish DEF Types, TypeOK

LEMMA TypesSpace ==
    ASSUME Types, NEW r \in Requests, Rename(r) \/ Archive(r)
    PROVE  Types'
<1>. DEFINE s == req[r].space
<1>1. s \in Shared /\ s \in Spaces /\ spaces[s] # Nil /\ spaces[s] \in SpaceRow
  BY AboutToWrite DEF Rename, Archive, Sound, Types, TypeOK, Spaces
<1>2. PICK row \in SpaceRow : spaces' = [ spaces EXCEPT ![s] = row ]
  <2>1. CASE Rename(r)
    <3>1. req[r].name \in Names
      BY <2>1, AboutToWrite DEF Rename, Sound
    <3>. QED
      BY <1>1, <2>1, <3>1 DEF Rename, UpdateSpace, SpaceRow
  <2>2. CASE Archive(r)
    <3>. DEFINE row == [ spaces[s] EXCEPT !.status = "ARCHIVED" ]
    <3>1. row \in SpaceRow
      BY <1>1 DEF SpaceRow
    <3>2. spaces' = [ spaces EXCEPT ![s] = row ]
      BY <2>2 DEF Archive, ArchiveSpace
    <3>. QED
      BY <3>1, <3>2
  <2>. QED
    BY <2>1, <2>2
<1>3. row # Nil
  BY NilIsNoRow
<1>4. UNCHANGED <<deleted, members, invites>> /\ Finish(r)
  BY DEF Rename, Archive
<1>5. Grows
  BY <1>2, <1>3, <1>4 DEF Grows, Types, TypeOK
<1>6. SpacesExist'
  BY <1>2, <1>3, <1>4 DEF SpacesExist, Types, TypeOK
<1>. QED
  BY <1>2, <1>4, <1>5, <1>6, TypesFinish DEF Types, TypeOK

\* A change of a role or a removal, carried out or not
LEMMA MemberWrites ==
    ASSUME Types, NEW r \in Requests, ChangeRole(r) \/ Remove(r)
    PROVE  LET q == req[r]
               m == q.target
           IN  /\ m \in MemberIds /\ members[m] \in MemberRow /\ members[m] # Nil
               /\ members[m].role # Owner /\ q.space \in Shared
               /\ UNCHANGED <<deleted, spaces, invites>> /\ Finish(r)
               /\ \/ UNCHANGED members
                  \/ \E role \in TargetRoles :
                        members' = [ members EXCEPT ![m] = [ @ EXCEPT !.role = role ] ]
                  \/ /\ Active(m) /\ members[m].space = q.space
                     /\ members' = [ members EXCEPT ![m] = [ @ EXCEPT !.status = "INACTIVE" ] ]
<1>. DEFINE q == req[r]
            m == q.target
<1>1. m \in MemberIds /\ members[m] # Nil /\ members[m].role # Owner /\ q.space \in Shared
  BY AboutToWrite DEF ChangeRole, Remove, Sound
<1>2. members[m] \in MemberRow
  BY <1>1 DEF Types, TypeOK, Rows
<1>3. UNCHANGED <<deleted, spaces, invites>> /\ Finish(r)
  BY DEF ChangeRole, Remove
<1>4. CASE ChangeRole(r)
  <2>1. q.role \in TargetRoles
    BY <1>4, AboutToWrite DEF ChangeRole, Sound
  <2>. QED
    BY <1>1, <1>2, <1>3, <1>4, <2>1 DEF ChangeRole, UpdateMemberRole
<1>5. CASE Remove(r)
  BY <1>1, <1>2, <1>3, <1>5 DEF Remove, RemoveMember
<1>. QED
  BY <1>4, <1>5

LEMMA TypesMember ==
    ASSUME Types, NEW r \in Requests, ChangeRole(r) \/ Remove(r)
    PROVE  Types'
<1>. DEFINE m == req[r].target
<1>1. /\ m \in MemberIds /\ members[m] \in MemberRow /\ members[m] # Nil
      /\ members[m].role # Owner
      /\ UNCHANGED <<deleted, spaces, invites>> /\ Finish(r)
  BY MemberWrites
<1>2. PICK row \in MemberRow :
        /\ members' = [ members EXCEPT ![m] = row ]
        /\ row.space = members[m].space /\ row.role # Owner
  <2>1. CASE UNCHANGED members
    BY <1>1, <2>1 DEF Types, TypeOK
  <2>2. CASE \E role \in TargetRoles :
               members' = [ members EXCEPT ![m] = [ @ EXCEPT !.role = role ] ]
    <3>1. PICK role \in TargetRoles :
            members' = [ members EXCEPT ![m] = [ @ EXCEPT !.role = role ] ]
      BY <2>2
    <3>. DEFINE row == [ members[m] EXCEPT !.role = role ]
    <3>2. row \in MemberRow /\ row.space = members[m].space /\ row.role = role
      BY <1>1 DEF MemberRow, Roles
    <3>3. role # Owner
      BY OwnerIsNotGiven
    <3>. QED
      BY <3>1, <3>2, <3>3
  <2>3. CASE members' = [ members EXCEPT ![m] = [ @ EXCEPT !.status = "INACTIVE" ] ]
    <3>. DEFINE row == [ members[m] EXCEPT !.status = "INACTIVE" ]
    <3>1. row \in MemberRow /\ row.space = members[m].space /\ row.role = members[m].role
      BY <1>1 DEF MemberRow
    <3>. QED
      BY <1>1, <2>3, <3>1
  <2>. QED
    BY <2>1, <2>2, <2>3, MemberWrites
<1>3. row # Nil
  BY NilIsNoRow
<1>4. Grows
  BY <1>1, <1>2, <1>3 DEF Grows, Types, TypeOK, Rows
<1>5. SpacesExist' /\ members' \in [ Rows -> MemberRow \union {Nil} ]
  BY <1>1, <1>2, <1>3 DEF SpacesExist, Types, TypeOK
<1>. QED
  BY <1>1, <1>4, <1>5, TypesFinish DEF Types, TypeOK

\* What a step does to an invitation that is there: its space and role stay.
LEMMA TypesInvitation ==
    ASSUME Types, NEW i \in Invites, invites[i] # Nil, NEW row \in InviteRow,
           invites' = [ invites EXCEPT ![i] = row ], row.space = invites[i].space,
           UNCHANGED spaces
    PROVE  /\ invites' \in [ Invites -> InviteRow \union {Nil} ]
           /\ \A j \in Invites : invites[j] # Nil => invites'[j] # Nil
           /\ \A j \in Invites : invites'[j] # Nil => spaces'[invites'[j].space] # Nil
<1>1. row # Nil
  BY NilIsNoRow
<1>. QED
  BY <1>1 DEF Types, TypeOK, SpacesExist

LEMMA TypesInvite ==
    ASSUME Types, NEW r \in Requests, NEW i \in Invites, Invite(r, i)
    PROVE  Types'
<1>. DEFINE q == req[r]
            row == [ space |-> q.space, role |-> q.role, status |-> "PENDING",
                     expired |-> FALSE ]
<1>1. q.space \in Shared /\ spaces[q.space] # Nil /\ q.role \in TargetRoles
  BY AboutToWrite DEF Invite, Sound
<1>2. row \in InviteRow /\ row # Nil /\ row.space = q.space
  <2>1. row \in InviteRow
    BY <1>1 DEF InviteRow
  <2>. QED
    BY <2>1, NilIsNoRow
<1>3. /\ invites' = [ invites EXCEPT ![i] = row ] /\ UNCHANGED <<deleted, spaces, members>>
      /\ Finish(r)
  BY DEF Invite, CreateInvitation
<1>. HIDE DEF row
<1>4. Grows
  BY <1>2, <1>3 DEF Grows, Types, TypeOK
<1>5. SpacesExist' /\ invites' \in [ Invites -> InviteRow \union {Nil} ]
  BY <1>1, <1>2, <1>3 DEF SpacesExist, Types, TypeOK
<1>. QED
  BY <1>3, <1>4, <1>5, TypesFinish DEF Types, TypeOK

LEMMA TypesRevoke ==
    ASSUME Types, NEW r \in Requests, Revoke(r)
    PROVE  Types'
<1>. DEFINE i == req[r].invite
            row == IF invites[i].status = "PENDING"
                   THEN [ invites[i] EXCEPT !.status = "REVOKED" ] ELSE invites[i]
<1>1. i \in Invites /\ invites[i] # Nil /\ invites[i] \in InviteRow
  BY AboutToWrite DEF Revoke, Sound, Types, TypeOK
<1>2. row \in InviteRow /\ row.space = invites[i].space
  BY <1>1 DEF InviteRow
<1>3. invites' = [ invites EXCEPT ![i] = row ]
  BY <1>1 DEF Revoke, RevokePending, Types, TypeOK
<1>4. UNCHANGED <<deleted, spaces, members>> /\ Finish(r)
  BY DEF Revoke
<1>. HIDE DEF row
<1>5. /\ invites' \in [ Invites -> InviteRow \union {Nil} ]
      /\ \A j \in Invites : invites[j] # Nil => invites'[j] # Nil
      /\ \A j \in Invites : invites'[j] # Nil => spaces'[invites'[j].space] # Nil
  BY <1>1, <1>2, <1>3, <1>4, TypesInvitation
<1>6. Grows /\ SpacesExist'
  BY <1>4, <1>5 DEF Grows, SpacesExist, Types
<1>. QED
  BY <1>4, <1>5, <1>6, TypesFinish DEF Types, TypeOK

LEMMA TypesAccept ==
    ASSUME Types, NEW r \in Requests, NEW m \in MemberIds, Accept(r, m)
    PROVE  Types'
<1>. DEFINE q == req[r]
            i == q.invite
            s == invites[i].space
            row == [ invites[i] EXCEPT !.status = "ACCEPTED" ]
            member == [ space |-> s, user |-> q.user, role |-> invites[i].role,
                        status |-> "ACTIVE" ]
<1>1. i \in Invites /\ invites[i] # Nil /\ invites[i] \in InviteRow /\ q.user \in Users
  BY AboutToWrite DEF Accept, Sound, Types, TypeOK
<1>2. s \in Shared /\ invites[i].role \in TargetRoles /\ spaces[s] # Nil
  BY <1>1 DEF InviteRow, Types, SpacesExist
<1>3. row \in InviteRow /\ row.space = s
  BY <1>1 DEF InviteRow
<1>4. member \in MemberRow /\ member # Nil /\ member.space = s
  BY <1>1, <1>2, NewMemberType DEF Spaces, Roles
<1>5. /\ invites' = [ invites EXCEPT ![i] = row ] /\ members' = [ members EXCEPT ![m] = member ]
      /\ members[m] = Nil /\ UNCHANGED <<deleted, spaces>> /\ Finish(r)
  BY DEF Accept, AcceptInvitation, FreshRow
<1>. HIDE DEF row, member
<1>6. /\ invites' \in [ Invites -> InviteRow \union {Nil} ]
      /\ \A j \in Invites : invites[j] # Nil => invites'[j] # Nil
      /\ \A j \in Invites : invites'[j] # Nil => spaces'[invites'[j].space] # Nil
  BY <1>1, <1>3, <1>5, TypesInvitation
<1>7. members' \in [ Rows -> MemberRow \union {Nil} ]
  BY <1>4, <1>5 DEF Types, TypeOK
<1>8. Grows
  BY <1>4, <1>5, <1>6 DEF Grows, Types, TypeOK, Rows
<1>9. SpacesExist'
  BY <1>2, <1>4, <1>5, <1>6 DEF SpacesExist, Types, TypeOK, Rows
<1>. QED
  BY <1>5, <1>6, <1>7, <1>8, <1>9, TypesFinish DEF Types, TypeOK

LEMMA TypesTime ==
    ASSUME Types,
           (\E u \in Users : DeleteUser(u)) \/ (\E i \in Invites : Expire(i))
    PROVE  Types'
<1>1. CASE \E u \in Users : DeleteUser(u)
  BY <1>1 DEF DeleteUser, Types, TypeOK, SpacesExist, RequestsAreSound
<1>2. CASE \E i \in Invites : Expire(i)
  <2>1. PICK i \in Invites : Expire(i)
    BY <1>2
  <2>. DEFINE row == [ invites[i] EXCEPT !.expired = TRUE ]
  <2>2. invites[i] # Nil /\ invites[i] \in InviteRow
    BY <2>1 DEF Expire, Types, TypeOK
  <2>3. row \in InviteRow /\ row.space = invites[i].space
    BY <2>2 DEF InviteRow
  <2>4. invites' = [ invites EXCEPT ![i] = row ] /\ UNCHANGED <<deleted, spaces, members, req>>
    BY <2>1 DEF Expire
  <2>. HIDE DEF row
  <2>5. /\ invites' \in [ Invites -> InviteRow \union {Nil} ]
        /\ \A j \in Invites : invites[j] # Nil => invites'[j] # Nil
        /\ \A j \in Invites : invites'[j] # Nil => spaces'[invites'[j].space] # Nil
    BY <2>2, <2>3, <2>4, TypesInvitation
  <2>6. RequestsAreSound'
    BY <2>4, <2>5 DEF RequestsAreSound, Sound, Types
  <2>. QED
    BY <2>4, <2>5, <2>6 DEF Types, TypeOK, SpacesExist
<1>. QED
  BY <1>1, <1>2

LEMMA TypesNext == Types /\ [Next]_vars => Types'
<1>. SUFFICES ASSUME Types, [Next]_vars PROVE Types'
  OBVIOUS
<1>1. CASE UNCHANGED vars
  BY <1>1 DEF vars, Types, TypeOK, SpacesExist, RequestsAreSound
<1>2. ASSUME NEW r \in Requests, NEW u \in Users, Ask(r, u) PROVE Types'
  BY <1>2, TypesAsk
<1>3. ASSUME NEW r \in Requests, Proceed(r) PROVE Types'
  BY <1>3, TypesCreate, TypesSpace, TypesFind, TypesMember, TypesInvite, TypesRevoke,
     TypesAccept DEF Proceed
<1>. QED
  BY <1>1, <1>2, <1>3, TypesTime DEF Next

-----------------------------------------------------------------------------

\* Every variable keeps its type.
THEOREM TypeCorrect == Spec => []TypeOK
<1>1. Types => TypeOK
  BY DEF Types
<1>. QED
  BY <1>1, TypesInit, TypesNext, PTL DEF Spec

-----------------------------------------------------------------------------
(* Founders and members *)

\* Row m is that of the founder of s, and no other row of s is an owner's.
Founder(m, s) ==
    /\ Active(m) /\ members[m].space = s /\ members[m].role = Owner
    /\ members[m].user = spaces[s].by
    /\ \A other \in Rows :
         Active(other) /\ members[other].space = s /\ members[other].role = Owner => other = m

\* A space founded: the row of its founder is the first of the space.
LEMMA Founding ==
    ASSUME Types, NEW r \in Requests, NEW s \in Shared, NEW m \in MemberIds,
           CreateShared(r, s, m)
    PROVE  /\ members[m] = Nil /\ members'[m] # Nil /\ spaces[s] = Nil /\ spaces'[s] # Nil
           /\ members'[m].space = s /\ members'[m].user = req[r].user
           /\ members'[m].role = Owner /\ members'[m].status = "ACTIVE"
           /\ spaces'[s].by = req[r].user /\ req[r].user \in Users
           /\ spaces'[s].status = "ACTIVE"
           /\ \A other \in Spaces \ {s} : spaces'[other] = spaces[other]
           /\ \A other \in Rows \ {m} : members'[other] = members[other]
           /\ \A other \in Rows : members[other] # Nil => members[other].space # s
<1>. DEFINE u == req[r].user
            space == [ status |-> "ACTIVE", name |-> req[r].name, by |-> u ]
            member == [ space |-> s, user |-> u, role |-> Owner, status |-> "ACTIVE" ]
<1>1. u \in Users /\ req[r].name \in Names
  BY AboutToWrite DEF CreateShared, Sound
<1>2. space # Nil /\ member # Nil
  BY <1>1, NilIsNoRow DEF SpaceRow, MemberRow, Spaces, Roles
<1>3. /\ spaces' = [ spaces EXCEPT ![s] = space ] /\ members' = [ members EXCEPT ![m] = member ]
      /\ spaces[s] = Nil /\ members[m] = Nil
  BY DEF CreateShared, CreateWithOwner, FreshRow
<1>. QED
  BY <1>1, <1>2, <1>3 DEF Types, TypeOK, SpacesExist, Spaces, Rows

\* An invitation accepted: the new row is an owner's nowhere.
LEMMA Accepting ==
    ASSUME Types, NEW r \in Requests, NEW m \in MemberIds, Accept(r, m)
    PROVE  LET q == req[r]
               s == invites[q.invite].space
           IN  /\ q.invite \in Invites /\ invites[q.invite] # Nil
               /\ invites[q.invite] \in InviteRow
               /\ s \in Shared /\ q.user \in Users /\ NoRowOf(q.user, s)
               /\ members[m] = Nil /\ members'[m] # Nil
               /\ members'[m].space = s /\ members'[m].user = q.user
               /\ members'[m].role # Owner /\ members'[m].status = "ACTIVE"
               /\ \A other \in Rows \ {m} : members'[other] = members[other]
               /\ UNCHANGED spaces
<1>. DEFINE q == req[r]
            i == q.invite
            member == [ space |-> invites[i].space, user |-> q.user,
                        role |-> invites[i].role, status |-> "ACTIVE" ]
<1>1. i \in Invites /\ invites[i] # Nil /\ invites[i] \in InviteRow /\ q.user \in Users
  BY AboutToWrite DEF Accept, Sound, Types, TypeOK
<1>2. invites[i].space \in Shared /\ invites[i].role \in TargetRoles
  BY <1>1 DEF InviteRow
<1>3. member # Nil /\ member.role # Owner
  BY <1>1, <1>2, NilIsNoRow, OwnerIsNotGiven DEF MemberRow, Spaces, Roles
<1>4. /\ members' = [ members EXCEPT ![m] = member ] /\ members[m] = Nil
      /\ NoRowOf(q.user, invites[i].space) /\ UNCHANGED spaces
  BY DEF Accept, AcceptInvitation, FreshRow
<1>. QED
  BY <1>1, <1>2, <1>3, <1>4 DEF Types, TypeOK, Rows

\* A member changed: the row is not an owner's, before and after.
LEMMA Changing ==
    ASSUME Types, NEW r \in Requests, ChangeRole(r) \/ Remove(r)
    PROVE  LET m == req[r].target
           IN  /\ m \in MemberIds /\ members[m] # Nil /\ members[m].role # Owner
               /\ members'[m].space = members[m].space /\ members'[m].user = members[m].user
               /\ members'[m].role # Owner
               /\ members'[m].status = "ACTIVE" => members[m].status = "ACTIVE"
               /\ \A other \in Rows \ {m} : members'[other] = members[other]
               /\ UNCHANGED <<spaces, invites>>
<1>. DEFINE m == req[r].target
<1>1. /\ m \in MemberIds /\ members[m] \in MemberRow /\ members[m] # Nil
      /\ members[m].role # Owner /\ UNCHANGED <<spaces, invites>>
  BY MemberWrites
<1>2. CASE UNCHANGED members
  BY <1>1, <1>2
<1>3. CASE \E role \in TargetRoles :
             members' = [ members EXCEPT ![m] = [ @ EXCEPT !.role = role ] ]
  BY <1>1, <1>3, OwnerIsNotGiven DEF Types, TypeOK, Rows, MemberRow
<1>4. CASE members' = [ members EXCEPT ![m] = [ @ EXCEPT !.status = "INACTIVE" ] ]
  BY <1>1, <1>4 DEF Types, TypeOK, Rows, MemberRow
<1>. QED
  BY <1>2, <1>3, <1>4, MemberWrites

\* A space renamed or archived keeps its founder.
LEMMA Editing ==
    ASSUME Types, NEW r \in Requests, Rename(r) \/ Archive(r)
    PROVE  /\ UNCHANGED <<members, invites>>
           /\ req[r].space \in Shared /\ spaces[req[r].space] # Nil
           /\ spaces'[req[r].space] # Nil
           /\ spaces'[req[r].space].by = spaces[req[r].space].by
           /\ spaces'[req[r].space].status \in {"ARCHIVED", spaces[req[r].space].status}
           /\ \A s \in Spaces \ {req[r].space} : spaces'[s] = spaces[s]
<1>. DEFINE s == req[r].space
<1>1. s \in Shared /\ s \in Spaces /\ spaces[s] # Nil /\ spaces[s] \in SpaceRow
  BY AboutToWrite DEF Rename, Archive, Sound, Types, TypeOK, Spaces
<1>2. CASE Rename(r)
  <2>. DEFINE row == [ spaces[s] EXCEPT !.name =
                         IF spaces[s].status = "ACTIVE" THEN req[r].name ELSE @ ]
  <2>1. req[r].name \in Names
    BY <1>2, AboutToWrite DEF Rename, Sound
  <2>2. row \in SpaceRow /\ row.by = spaces[s].by /\ row.status = spaces[s].status
    BY <1>1, <2>1 DEF SpaceRow
  <2>3. row # Nil
    BY <2>2, NilIsNoRow
  <2>4. spaces' = [ spaces EXCEPT ![s] = row ] /\ UNCHANGED <<members, invites>>
    BY <1>2 DEF Rename, UpdateSpace
  <2>. QED
    BY <1>1, <2>2, <2>3, <2>4 DEF Types, TypeOK
<1>3. CASE Archive(r)
  <2>. DEFINE row == [ spaces[s] EXCEPT !.status = "ARCHIVED" ]
  <2>1. row \in SpaceRow /\ row.by = spaces[s].by /\ row.status = "ARCHIVED"
    BY <1>1 DEF SpaceRow
  <2>2. row # Nil
    BY <2>1, NilIsNoRow
  <2>3. spaces' = [ spaces EXCEPT ![s] = row ] /\ UNCHANGED <<members, invites>>
    BY <1>3 DEF Archive, ArchiveSpace
  <2>. QED
    BY <1>1, <2>1, <2>2, <2>3 DEF Types, TypeOK
<1>. QED
  BY <1>2, <1>3

\* What a step does to spaces and members
LEMMA Writes ==
    ASSUME Types, [Next]_vars
    PROVE  \/ UNCHANGED <<spaces, members>>
           \/ \E r \in Requests, s \in Shared, m \in MemberIds : CreateShared(r, s, m)
           \/ \E r \in Requests : Rename(r) \/ Archive(r)
           \/ \E r \in Requests : ChangeRole(r) \/ Remove(r)
           \/ \E r \in Requests, m \in MemberIds : Accept(r, m)
  BY DEF Next, Ask, Proceed, SpaceCreate, SpaceUpdate, SpaceArchive, MemberUpdateRole,
     MemberRemove, InvitationCreate, InvitationRevoke, InvitationAccept, HTTPAccept, Reads,
     FindTarget, Invite, FindInvitation, Revoke, Fail, DeleteUser, Expire, vars

\* The founder's row is never the one that is written.
LEMMA FounderStep ==
    ASSUME Types, FounderGoverns, [Next]_vars
    PROVE  FounderGoverns'
<1>. SUFFICES ASSUME NEW s \in Shared, spaces'[s] # Nil
              PROVE  \E m \in Rows : Founder(m, s)'
  BY DEF FounderGoverns, Founder
<1>0. spaces[s] # Nil => \E m \in Rows : Founder(m, s)
  BY DEF FounderGoverns, Founder
<1>. USE DEF Founder, Active
<1>1. CASE UNCHANGED <<spaces, members>>
  BY <1>0, <1>1
<1>2. CASE \E r \in Requests, t \in Shared, m \in MemberIds : CreateShared(r, t, m)
  <2>. PICK r \in Requests, t \in Shared, m \in MemberIds : CreateShared(r, t, m)
    BY <1>2
  <2>0. /\ m \in Rows /\ members[m] = Nil /\ members'[m] # Nil
        /\ members'[m].space = t /\ members'[m].user = spaces'[t].by
        /\ members'[m].role = Owner /\ members'[m].status = "ACTIVE"
        /\ \A u \in Shared \ {t} : spaces'[u] = spaces[u]
        /\ \A other \in Rows \ {m} : members'[other] = members[other]
        /\ \A other \in Rows : members[other] # Nil => members[other].space # t
    BY Founding DEF Rows, Spaces
  <2>1. CASE s = t
    <3>1. ASSUME NEW other \in Rows, members'[other] # Nil, members'[other].space = s
          PROVE  other = m
      BY <2>0, <2>1, <3>1
    <3>. QED
      BY <2>0, <2>1, <3>1
  <2>2. CASE s # t
    <3>1. PICK founder \in Rows : Founder(founder, s)
      BY <1>0, <2>0, <2>2
    <3>2. founder # m /\ members'[founder] = members[founder] /\ spaces'[s] = spaces[s]
      BY <2>0, <2>2, <3>1
    <3>3. ASSUME NEW other \in Rows, Active(other)', members'[other].space = s,
                 members'[other].role = Owner
          PROVE  other = founder
      BY <2>0, <2>2, <3>1, <3>3
    <3>. QED
      BY <3>1, <3>2, <3>3
  <2>. QED
    BY <2>1, <2>2
<1>3. CASE \E r \in Requests : Rename(r) \/ Archive(r)
  <2>1. UNCHANGED members /\ spaces[s] # Nil /\ spaces'[s].by = spaces[s].by
    BY <1>3, Editing DEF Spaces
  <2>. QED
    BY <1>0, <2>1
<1>4. CASE \E r \in Requests : ChangeRole(r) \/ Remove(r)
  BY <1>0, <1>4, Changing
<1>5. CASE \E r \in Requests, m \in MemberIds : Accept(r, m)
  <2>. PICK r \in Requests, m \in MemberIds : Accept(r, m)
    BY <1>5
  <2>1. /\ members[m] = Nil /\ members'[m].role # Owner /\ UNCHANGED spaces
        /\ \A other \in Rows \ {m} : members'[other] = members[other]
    BY Accepting
  <2>2. PICK founder \in Rows : Founder(founder, s)
    BY <1>0, <2>1
  <2>3. founder # m /\ members'[founder] = members[founder] /\ spaces'[s] = spaces[s]
    BY <2>1, <2>2
  <2>. QED
    BY <2>1, <2>2, <2>3
<1>. QED
  BY <1>1, <1>2, <1>3, <1>4, <1>5, Writes

LEMMA OneRowStep ==
    ASSUME Types, OneRowPerUser, [Next]_vars
    PROVE  OneRowPerUser'
<1>. SUFFICES ASSUME NEW m \in Rows, NEW other \in Rows, Active(m)', Active(other)',
                     members'[m].user = members'[other].user,
                     members'[m].space = members'[other].space
              PROVE  m = other
  BY DEF OneRowPerUser
<1>. USE DEF Active
<1>1. CASE UNCHANGED members
  BY <1>1 DEF OneRowPerUser
<1>2. CASE \E r \in Requests, s \in Shared, row \in MemberIds : CreateShared(r, s, row)
  <2>. PICK r \in Requests, s \in Shared, row \in MemberIds : CreateShared(r, s, row)
    BY <1>2
  <2>1. /\ members[row] = Nil /\ members'[row].space = s
        /\ \A o \in Rows \ {row} : members'[o] = members[o]
        /\ \A o \in Rows : members[o] # Nil => members[o].space # s
    BY Founding
  <2>. QED
    BY <2>1 DEF OneRowPerUser
<1>3. CASE \E r \in Requests : ChangeRole(r) \/ Remove(r)
  BY <1>3, Changing DEF OneRowPerUser
<1>4. CASE \E r \in Requests, row \in MemberIds : Accept(r, row)
  <2>. PICK r \in Requests, row \in MemberIds : Accept(r, row)
    BY <1>4
  <2>. DEFINE s == invites[req[r].invite].space
              u == req[r].user
  <2>1. /\ members[row] = Nil /\ members'[row].space = s /\ members'[row].user = u
        /\ \A o \in Rows \ {row} : members'[o] = members[o]
        /\ NoRowOf(u, s)
    BY Accepting
  <2>. HIDE DEF s, u
  <2>. QED
    BY <2>1 DEF OneRowPerUser, NoRowOf
<1>. QED
  BY <1>1, <1>2, <1>3, <1>4, Writes, Editing

LEMMA MInvInit == Init => MInv
<1>1. ASSUME Init PROVE FounderGoverns
  BY <1>1, DistinctIds DEF Init, FounderGoverns, Spaces
<1>2. ASSUME Init PROVE OneRowPerUser
  BY <1>2 DEF Init, OneRowPerUser, Active
<1>. QED
  BY <1>1, <1>2, TypesInit DEF MInv

LEMMA MInvNext == MInv /\ [Next]_vars => MInv'
  BY TypesNext, FounderStep, OneRowStep DEF MInv

LEMMA MInvHolds == Spec => []MInv
  BY MInvInit, MInvNext, PTL DEF Spec

\* Whatever is done to members at the same time, a space keeps its founder as its one
\* owner.
THEOREM FoundersGovern == Spec => []FounderGoverns
  BY MInvHolds, PTL DEF MInv

\* However many invitations are accepted at once, a user has one row in a space.
THEOREM MembersHaveOneRow == Spec => []OneRowPerUser
  BY MInvHolds, PTL DEF MInv

-----------------------------------------------------------------------------
(* Membership implements Belonging *)

\* What is unchanged in the tables is unchanged in the promise.
LEMMA SameSpaces ==
    ASSUME UNCHANGED spaces PROVE UNCHANGED <<founderOf, openSpaces>>
  BY DEF founderOf, openSpaces

LEMMA SameMembers ==
    ASSUME UNCHANGED members PROVE UNCHANGED belongings
  BY DEF belongings, Active

LEMMA SameInvites ==
    ASSUME UNCHANGED invites PROVE UNCHANGED <<offers, placeOf>>
  BY DEF offers, placeOf

LEMMA RefinesInit == Init => B!Init
<1>. SUFFICES ASSUME Init PROVE B!Init
  OBVIOUS
<1>1. \A s \in Shared : spaces[s] = Nil
  BY DistinctIds DEF Init, Spaces
<1>2. \A m \in Rows : Active(m) => members[m].space \in Users
  BY DEF Init, Active
<1>3. belongings = {}
  BY <1>2, DistinctIds DEF belongings
<1>4. founderOf = [ s \in Shared |-> Nil ] /\ openSpaces = {}
  BY <1>1 DEF founderOf, openSpaces
<1>5. offers = [ i \in Invites |-> "none" ] /\ placeOf = [ i \in Invites |-> Nil ]
  BY DEF Init, offers, placeOf
<1>. QED
  BY <1>3, <1>4, <1>5 DEF B!Init

LEMMA RefinesFound ==
    ASSUME Types, NEW r \in Requests, NEW s \in Shared, NEW m \in MemberIds,
           CreateShared(r, s, m)
    PROVE  B!Next
<1>. DEFINE u == req[r].user
<1>1. /\ m \in Rows /\ members[m] = Nil /\ members'[m] # Nil /\ u \in Users
      /\ members'[m].space = s /\ members'[m].user = u /\ members'[m].status = "ACTIVE"
      /\ spaces[s] = Nil /\ spaces'[s] # Nil /\ spaces'[s].by = u
      /\ spaces'[s].status = "ACTIVE"
      /\ \A t \in Shared \ {s} : spaces'[t] = spaces[t]
      /\ \A other \in Rows \ {m} : members'[other] = members[other]
  BY Founding DEF Rows, Spaces
<1>. HIDE DEF u
<1>2. UNCHANGED <<offers, placeOf>>
  BY SameInvites DEF CreateShared
<1>3. founderOf[s] = Nil /\ founderOf' = [ founderOf EXCEPT ![s] = u ]
  BY <1>1 DEF founderOf
<1>4. openSpaces' = openSpaces \union {s}
  BY <1>1 DEF openSpaces
<1>5. belongings' = belongings \union {<<s, u>>}
  BY <1>1 DEF belongings, Active
<1>6. B!Found(s, u)
  BY <1>2, <1>3, <1>4, <1>5 DEF B!Found
<1>. QED
  BY <1>1, <1>6 DEF B!Next

LEMMA RefinesClose ==
    ASSUME Types, NEW r \in Requests, Rename(r) \/ Archive(r)
    PROVE  B!Next \/ UNCHANGED B!vars
<1>. DEFINE s == req[r].space
<1>1. /\ UNCHANGED <<members, invites>> /\ s \in Shared /\ spaces[s] # Nil /\ spaces'[s] # Nil
      /\ spaces'[s].by = spaces[s].by
      /\ spaces'[s].status \in {"ARCHIVED", spaces[s].status}
      /\ \A t \in Shared \ {s} : spaces'[t] = spaces[t]
  BY Editing DEF Spaces
<1>. HIDE DEF s
<1>2. UNCHANGED <<belongings, offers, placeOf>>
  BY <1>1, SameMembers, SameInvites
<1>3. UNCHANGED founderOf
  BY <1>1 DEF founderOf
<1>4. CASE s \in openSpaces /\ spaces'[s].status = "ARCHIVED"
  <2>1. openSpaces' = openSpaces \ {s}
    BY <1>1, <1>4 DEF openSpaces
  <2>2. B!Close(s)
    BY <1>2, <1>3, <1>4, <2>1 DEF B!Close
  <2>. QED
    BY <1>1, <2>2 DEF B!Next
<1>5. CASE ~ (s \in openSpaces /\ spaces'[s].status = "ARCHIVED")
  <2>1. UNCHANGED openSpaces
    BY <1>1, <1>5 DEF openSpaces
  <2>. QED
    BY <1>2, <1>3, <2>1 DEF B!vars
<1>. QED
  BY <1>4, <1>5

LEMMA RefinesLeave ==
    ASSUME MInv, NEW r \in Requests, ChangeRole(r) \/ Remove(r)
    PROVE  B!Next \/ UNCHANGED B!vars
<1>. DEFINE m == req[r].target
            s == req[r].space
            u == members[m].user
<1>1. /\ m \in Rows /\ members[m] \in MemberRow /\ members[m] # Nil
      /\ members[m].role # Owner /\ s \in Shared /\ UNCHANGED <<spaces, invites>>
  BY MemberWrites DEF MInv, Rows
<1>2. UNCHANGED <<founderOf, openSpaces, offers, placeOf>>
  BY <1>1, SameSpaces, SameInvites
<1>3. CASE UNCHANGED members
  BY <1>2, <1>3, SameMembers DEF B!vars
<1>4. CASE \E role \in TargetRoles :
             members' = [ members EXCEPT ![m] = [ @ EXCEPT !.role = role ] ]
  <2>. PICK role \in TargetRoles :
         members' = [ members EXCEPT ![m] = [ @ EXCEPT !.role = role ] ]
    BY <1>4
  <2>. DEFINE row == [ members[m] EXCEPT !.role = role ]
  <2>1. row \in MemberRow /\ row.space = members[m].space /\ row.user = members[m].user
        /\ row.status = members[m].status
    BY <1>1 DEF MemberRow, Roles
  <2>2. row # Nil
    BY <2>1, NilIsNoRow
  <2>3. members' = [ members EXCEPT ![m] = row ]
    OBVIOUS
  <2>. HIDE DEF row, m, s
  <2>4. UNCHANGED belongings
    BY <1>1, <2>1, <2>2, <2>3 DEF belongings, Active, MInv, Types, TypeOK
  <2>. QED
    BY <1>2, <2>4 DEF B!vars
<1>5. CASE /\ Active(m) /\ members[m].space = s
           /\ members' = [ members EXCEPT ![m] = [ @ EXCEPT !.status = "INACTIVE" ] ]
  <2>. DEFINE row == [ members[m] EXCEPT !.status = "INACTIVE" ]
  <2>1. row.status = "INACTIVE" /\ members' = [ members EXCEPT ![m] = row ]
    BY <1>1, <1>5 DEF MemberRow
  <2>2. u \in Users /\ Active(m) /\ members[m].space = s /\ spaces[s] # Nil
    BY <1>1, <1>5 DEF MemberRow, MInv, Types, SpacesExist
  <2>. HIDE DEF row, m, s
  <2>3. u # spaces[s].by
    BY <1>1, <2>2 DEF MInv, FounderGoverns, OneRowPerUser
  <2>4. founderOf[s] # u
    BY <1>1, <2>2, <2>3 DEF founderOf
  <2>5. <<s, u>> \in belongings
    BY <1>1, <2>2 DEF belongings
  <2>6. belongings' = belongings \ {<<s, u>>}
    <3>1. \A o \in Rows : Active(o)' <=> Active(o) /\ o # m
      BY <1>1, <2>1 DEF Active, MInv, Types, TypeOK
    <3>2. \A o \in Rows \ {m} : members'[o] = members[o]
      BY <2>1 DEF MInv, Types, TypeOK
    <3>3. \A o \in Rows : Active(o) /\ members[o].space = s /\ members[o].user = u => o = m
      BY <1>1, <2>2 DEF MInv, OneRowPerUser
    <3>. QED
      BY <1>1, <2>2, <3>1, <3>2, <3>3 DEF belongings
  <2>7. B!Leave(s, u)
    BY <1>2, <2>4, <2>5, <2>6 DEF B!Leave
  <2>. QED
    BY <1>1, <2>2, <2>7 DEF B!Next
<1>. QED
  BY <1>3, <1>4, <1>5, MemberWrites DEF MInv

LEMMA RefinesOffer ==
    ASSUME Types, NEW r \in Requests, NEW i \in Invites, Invite(r, i)
    PROVE  B!Next
<1>. DEFINE s == req[r].space
            row == [ space |-> s, role |-> req[r].role, status |-> "PENDING",
                     expired |-> FALSE ]
<1>1. s \in Shared /\ spaces[s] # Nil /\ req[r].role \in TargetRoles
  BY AboutToWrite DEF Invite, Sound
<1>2. row \in InviteRow
  BY <1>1 DEF InviteRow
<1>3. row # Nil /\ row.space = s /\ row.status = "PENDING"
  BY <1>2, NilIsNoRow
<1>4. /\ invites' = [ invites EXCEPT ![i] = row ] /\ invites[i] = Nil
      /\ UNCHANGED <<spaces, members>>
  BY DEF Invite, CreateInvitation
<1>. HIDE DEF row, s
<1>5. UNCHANGED <<founderOf, openSpaces, belongings>>
  BY <1>4, SameSpaces, SameMembers
<1>6. founderOf[s] # Nil
  BY <1>1, DistinctIds DEF founderOf, Types, TypeOK, SpaceRow, Spaces
<1>7. offers[i] = "none" /\ offers' = [ offers EXCEPT ![i] = "open" ]
  BY <1>3, <1>4 DEF offers, OfferAt, Types, TypeOK
<1>8. placeOf' = [ placeOf EXCEPT ![i] = s ]
  BY <1>3, <1>4 DEF placeOf, Types, TypeOK
<1>9. B!Offer(i, s)
  BY <1>5, <1>6, <1>7, <1>8 DEF B!Offer
<1>. QED
  BY <1>1, <1>9 DEF B!Next

LEMMA RefinesWithdraw ==
    ASSUME Types, NEW r \in Requests, Revoke(r)
    PROVE  B!Next \/ UNCHANGED B!vars
<1>. DEFINE i == req[r].invite
            row == [ invites[i] EXCEPT !.status = "REVOKED" ]
<1>1. i \in Invites /\ invites[i] # Nil /\ invites[i] \in InviteRow
  BY AboutToWrite DEF Revoke, Sound, Types, TypeOK
<1>2. UNCHANGED <<spaces, members>>
  BY DEF Revoke
<1>3. UNCHANGED <<founderOf, openSpaces, belongings>>
  BY <1>2, SameSpaces, SameMembers
<1>4. CASE invites[i].status = "PENDING"
  <2>1. row \in InviteRow /\ row.space = invites[i].space /\ row.status = "REVOKED"
    BY <1>1 DEF InviteRow
  <2>2. row # Nil
    BY <2>1, NilIsNoRow
  <2>3. invites' = [ invites EXCEPT ![i] = row ]
    BY <1>4 DEF Revoke, RevokePending
  <2>. HIDE DEF row, i
  <2>4. offers[i] = "open" /\ offers' = [ offers EXCEPT ![i] = "withdrawn" ]
    BY <1>1, <1>4, <2>1, <2>2, <2>3 DEF offers, OfferAt, Types, TypeOK
  <2>5. UNCHANGED placeOf
    BY <1>1, <2>1, <2>2, <2>3 DEF placeOf, Types, TypeOK
  <2>6. B!Withdraw(i)
    BY <1>3, <2>4, <2>5 DEF B!Withdraw
  <2>. QED
    BY <1>1, <2>6 DEF B!Next
<1>5. CASE invites[i].status # "PENDING"
  <2>1. UNCHANGED invites
    BY <1>5 DEF Revoke, RevokePending
  <2>. QED
    BY <1>3, <2>1, SameInvites DEF B!vars
<1>. QED
  BY <1>4, <1>5

LEMMA RefinesJoin ==
    ASSUME Types, NEW r \in Requests, NEW m \in MemberIds, Accept(r, m)
    PROVE  B!Next
<1>. DEFINE i == req[r].invite
            s == invites[i].space
            u == req[r].user
            row == [ invites[i] EXCEPT !.status = "ACCEPTED" ]
<1>1. /\ i \in Invites /\ invites[i] # Nil /\ invites[i] \in InviteRow
      /\ s \in Shared /\ u \in Users /\ NoRowOf(u, s)
      /\ m \in Rows /\ members[m] = Nil /\ members'[m] # Nil
      /\ members'[m].space = s /\ members'[m].user = u /\ members'[m].status = "ACTIVE"
      /\ \A other \in Rows \ {m} : members'[other] = members[other]
      /\ UNCHANGED spaces
  BY Accepting DEF Rows
<1>2. row \in InviteRow /\ row.space = s /\ row.status = "ACCEPTED"
  BY <1>1 DEF InviteRow
<1>3. row # Nil
  BY <1>2, NilIsNoRow
<1>4. /\ invites' = [ invites EXCEPT ![i] = row ] /\ invites[i].status = "PENDING"
      /\ spaces[s].status = "ACTIVE"
  BY DEF Accept, AcceptInvitation
<1>5. spaces[s] # Nil
  BY <1>1 DEF Types, SpacesExist
<1>. HIDE DEF row, u
<1>6. UNCHANGED <<founderOf, openSpaces>>
  BY <1>1, SameSpaces
<1>7. placeOf[i] = s /\ UNCHANGED placeOf
  BY <1>1, <1>2, <1>3, <1>4 DEF placeOf, Types, TypeOK
<1>8. s \in openSpaces
  BY <1>1, <1>4, <1>5 DEF openSpaces
<1>9. offers[i] = "open" /\ offers' = [ offers EXCEPT ![i] = "taken" ]
  BY <1>1, <1>2, <1>3, <1>4 DEF offers, OfferAt, Types, TypeOK
<1>10. <<s, u>> \notin belongings
  BY <1>1 DEF belongings, NoRowOf
<1>11. belongings' = belongings \union {<<s, u>>}
  <2>. HIDE DEF s
  <2>. QED
    BY <1>1 DEF belongings, Active
<1>12. B!Join(i, u)
  BY <1>6, <1>7, <1>8, <1>9, <1>10, <1>11 DEF B!Join
<1>. QED
  BY <1>1, <1>12 DEF B!Next

LEMMA RefinesExpire ==
    ASSUME Types, NEW i \in Invites, Expire(i)
    PROVE  UNCHANGED B!vars
<1>. DEFINE row == [ invites[i] EXCEPT !.expired = TRUE ]
<1>1. /\ invites[i] # Nil /\ invites[i] \in InviteRow /\ UNCHANGED <<spaces, members>>
      /\ invites' = [ invites EXCEPT ![i] = row ]
  BY DEF Expire, Types, TypeOK
<1>2. row \in InviteRow /\ row.space = invites[i].space /\ row.status = invites[i].status
  BY <1>1 DEF InviteRow
<1>3. row # Nil
  BY <1>2, NilIsNoRow
<1>. HIDE DEF row
<1>4. UNCHANGED <<offers, placeOf>>
  BY <1>1, <1>2, <1>3 DEF offers, placeOf, Types, TypeOK
<1>. QED
  BY <1>1, <1>4, SameSpaces, SameMembers DEF B!vars

\* What a step does to the tables
LEMMA AllWrites ==
    ASSUME [Next]_vars
    PROVE  \/ UNCHANGED <<spaces, members, invites>>
           \/ \E r \in Requests, s \in Shared, m \in MemberIds : CreateShared(r, s, m)
           \/ \E r \in Requests : Rename(r) \/ Archive(r)
           \/ \E r \in Requests : ChangeRole(r) \/ Remove(r)
           \/ \E r \in Requests, i \in Invites : Invite(r, i)
           \/ \E r \in Requests : Revoke(r)
           \/ \E r \in Requests, m \in MemberIds : Accept(r, m)
           \/ \E i \in Invites : Expire(i)
  BY DEF Next, Ask, Proceed, SpaceCreate, SpaceUpdate, SpaceArchive, MemberUpdateRole,
     MemberRemove, InvitationCreate, InvitationRevoke, InvitationAccept, HTTPAccept, Reads,
     FindTarget, FindInvitation, Fail, DeleteUser, vars

LEMMA RefinesNext == MInv /\ [Next]_vars => [B!Next]_(B!vars)
<1>. SUFFICES ASSUME MInv, [Next]_vars PROVE B!Next \/ UNCHANGED B!vars
  OBVIOUS
<1>1. CASE UNCHANGED <<spaces, members, invites>>
  BY <1>1, SameSpaces, SameMembers, SameInvites DEF B!vars
<1>. QED
  BY <1>1, AllWrites, RefinesFound, RefinesClose, RefinesLeave, RefinesOffer,
     RefinesWithdraw, RefinesJoin, RefinesExpire DEF MInv

\* Every behaviour of the tables and requests keeps the promise of Belonging.
THEOREM MembershipKeepsItsWord == Spec => InvitationsKeepTheirWord
  BY MInvHolds, RefinesInit, RefinesNext, PTL DEF Spec, InvitationsKeepTheirWord, B!Spec
=============================================================================
