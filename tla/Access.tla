-------------------------------- MODULE Access --------------------------------
(***************************************************************************)
(* What one user may do: the role in the user's row and in the access      *)
(* token, the permissions of roles, and the cache of the user's permission *)
(* keys in Redis, which PermissionMiddleware fills and every change of     *)
(* roles and permissions empties.  Changes come from other requests; one   *)
(* step is one statement, transaction or Redis command.                    *)
(***************************************************************************)
EXTENDS FiniteSets, Naturals

CONSTANTS
    Roles,
    SuperAdmin,     \* the role that bypasses every check
    System,         \* roles that are neither updated nor deleted
    Perms,          \* permissions, each standing for its key
    Requests,       \* requests in progress at one time
    MaxChanges,     \* bound of the model: requests that change something
    Nil

ASSUME AccessAssumption ==
    /\ SuperAdmin \in System /\ System \subseteq Roles
    /\ Nil \notin Roles /\ \A keys \in SUBSET Perms : keys # Nil
    /\ MaxChanges \in Nat

VARIABLES
    roleOf,         \* role and role_id of the user
    roles,          \* the state of each role's row
    perms,          \* the state of each permission's row
    granted,        \* rows of role_permissions
    token,          \* the role in the user's access token, or Nil
    cache,          \* permission:user:<id>, or Nil
    req,            \* what each request has read, or Nil
    changes,        \* requests that change something, so far
    overtaken       \* whether something was written after it had changed since it
                    \* was read, or the cache was not emptied when it should

tables == <<roleOf, roles, perms, granted>>
vars == <<tables, token, cache, req, changes, overtaken>>

Row == {"none", "live", "deleted"}
Live(rows) == { x \in DOMAIN rows : rows[x] = "live" }

Request == [ at : {"role", "keys", "fill", "user", "edited", "named", "assign", "empty"},
             role : Roles \union {Nil}, keys : SUBSET Perms, seen : SUBSET Perms,
             stale : BOOLEAN ]

ASSUME NilIsNoRequest == Nil \notin Request

-----------------------------------------------------------------------------
At(r, at) == req[r] # Nil /\ req[r].at = at
Doing(at, role, keys, seen) ==
    [ at |-> at, role |-> role, keys |-> keys, seen |-> seen, stale |-> FALSE ]

Begin(r, doing) == req[r] = Nil /\ req' = [ req EXCEPT ![r] = doing ]
Change(r, doing) ==
    /\ changes < MaxChanges /\ changes' = changes + 1
    /\ Begin(r, doing)
Finish(r) == req' = [ req EXCEPT ![r] = Nil ]

\* What was read before a commit of r is stale.
Commit(r, next) ==
    req' = [ o \in Requests |->
               IF o = r THEN next
               ELSE IF req[o] = Nil THEN Nil ELSE [ req[o] EXCEPT !.stale = TRUE ] ]

\* invalidatePermissionCache and invalidateUserPermissionCache are still to be called.
Invalidating == Doing("empty", Nil, {}, {})

-----------------------------------------------------------------------------
(* PermissionMiddleware.  A cache that is there answers without another step, and a
   superadmin's token is let through before the cache is asked.                  *)

\* The row of a superadmin gives every permission there is, another those of its role.
PermissionsOf(role) ==
    IF role = SuperAdmin THEN Live(perms)
    ELSE { p \in granted[role] : role \in Live(roles) /\ p \in Live(perms) }

Check(r) ==
    /\ token \notin {Nil, SuperAdmin} /\ cache = Nil
    /\ Begin(r, Doing("role", Nil, {}, {}))
    /\ UNCHANGED <<tables, token, cache, changes, overtaken>>

GetUserPermissions(r) ==
    /\ At(r, "role")
    /\ req' = [ req EXCEPT ![r] = Doing("keys", roleOf, {}, {}) ]
    /\ UNCHANGED <<tables, token, cache, changes, overtaken>>

GetRolePermissions(r) ==
    /\ At(r, "keys")
    /\ req' = [ req EXCEPT ![r].at = "fill", ![r].keys = PermissionsOf(req[r].role) ]
    /\ UNCHANGED <<tables, token, cache, changes, overtaken>>

SetUserPermissionKeys(r) ==
    /\ At(r, "fill")
    /\ cache' = req[r].keys
    /\ overtaken' = (overtaken \/ req[r].stale)
    /\ Finish(r)
    /\ UNCHANGED <<tables, token, changes>>

-----------------------------------------------------------------------------
(* ServiceUser.Update: the row is read, changed and saved as a whole. *)

GetUser(r) ==
    /\ Change(r, Doing("user", roleOf, {}, {}))
    /\ UNCHANGED <<tables, token, cache, overtaken>>

AssignRole(r, role) ==
    /\ At(r, "user") /\ role \in Live(roles)
    /\ roleOf' = role
    /\ Commit(r, Invalidating)
    /\ UNCHANGED <<roles, perms, granted, token, cache, changes, overtaken>>

\* Without a role in the request the role that was read is written back.
SaveProfile(r) ==
    /\ At(r, "user")
    /\ roleOf' = req[r].role
    /\ overtaken' = (overtaken \/ roleOf' # roleOf)
    /\ Commit(r, Nil)
    /\ UNCHANGED <<roles, perms, granted, token, cache, changes>>

-----------------------------------------------------------------------------
(* RoleService *)

CreateRole(r, role) ==
    /\ req[r] = Nil /\ roles[role] = "none"
    /\ changes < MaxChanges /\ changes' = changes + 1
    /\ roles' = [ roles EXCEPT ![role] = "live" ]
    /\ Commit(r, Nil)
    /\ UNCHANGED <<roleOf, perms, granted, token, cache, overtaken>>

GetRole(r, role) ==
    /\ role \in Live(roles) \ System
    /\ Change(r, Doing("edited", role, {}, {}))
    /\ UNCHANGED <<tables, token, cache, overtaken>>

\* Save inserts the row again, or undoes its deletion, if it updates none.
UpdateRole(r) ==
    /\ At(r, "edited")
    /\ roles' = [ roles EXCEPT ![req[r].role] = "live" ]
    /\ overtaken' = (overtaken \/ roles' # roles)
    /\ Commit(r, Nil)
    /\ UNCHANGED <<roleOf, perms, granted, token, cache, changes>>

DeleteRole(r) ==
    /\ At(r, "edited")
    /\ roles' = [ roles EXCEPT ![req[r].role] = "deleted" ]
    /\ Commit(r, Invalidating)
    /\ UNCHANGED <<roleOf, perms, granted, token, cache, changes, overtaken>>

\* The transaction deletes the rows it sees ...
DeleteRolePermissions(r, role, ids) ==
    /\ role \in Live(roles) /\ ids \subseteq Live(perms)
    /\ Change(r, Doing("assign", role, ids, granted[role]))
    /\ UNCHANGED <<tables, token, cache, overtaken>>

\* Seeded fault: the cache is left as it is.
Unnoticed == Nil

AfterAssignment == Invalidating

\* ... and inserts those asked for.  Rows another transaction has inserted meanwhile
\* stay, and refuse the insertion of the same permission.
AssignPermissions(r) ==
    LET role == req[r].role
        others == granted[role] \ req[r].seen
    IN  /\ At(r, "assign")
        /\ IF others \intersect req[r].keys # {} THEN Finish(r) /\ UNCHANGED granted
           ELSE /\ granted' = [ granted EXCEPT ![role] = others \union req[r].keys ]
                /\ req' = [ o \in Requests |->
                     CASE o = r -> AfterAssignment
                       [] req[o] = Nil -> Nil
                       [] OTHER -> [ req[o] EXCEPT !.stale = TRUE,
                            !.seen = IF req[o].role = role THEN @ \ req[r].seen ELSE @ ] ]
        /\ UNCHANGED <<roleOf, roles, perms, token, cache, changes, overtaken>>

-----------------------------------------------------------------------------
(* PermissionService *)

CreatePermission(r, p) ==
    /\ req[r] = Nil /\ perms[p] = "none"
    /\ changes < MaxChanges /\ changes' = changes + 1
    /\ perms' = [ perms EXCEPT ![p] = "live" ]
    /\ Commit(r, Invalidating)
    /\ UNCHANGED <<roleOf, roles, granted, token, cache, overtaken>>

GetPermission(r, p) ==
    /\ p \in Live(perms)
    /\ Change(r, Doing("named", Nil, {p}, {}))
    /\ UNCHANGED <<tables, token, cache, overtaken>>

\* The row is saved as it was read, or deleted.
UpdatePermission(r, row) ==
    /\ At(r, "named") /\ row \in {"live", "deleted"}
    /\ perms' = [ p \in Perms |-> IF p \in req[r].keys THEN row ELSE perms[p] ]
    /\ Commit(r, Invalidating)
    /\ UNCHANGED <<roleOf, roles, granted, token, cache, changes, overtaken>>

-----------------------------------------------------------------------------
\* DeleteUserPermissionKeys or DeleteAllUserPermissionKeys, whose errors are ignored.
DeleteUserPermissionKeys(r) ==
    /\ At(r, "empty")
    /\ \/ cache' = Nil /\ UNCHANGED overtaken
       \/ overtaken' = TRUE /\ UNCHANGED cache
    /\ Finish(r)
    /\ UNCHANGED <<tables, token, changes>>

\* A statement fails, or the process dies.
Fail(r) ==
    /\ req[r] # Nil /\ ~ At(r, "empty")
    /\ Finish(r)
    /\ UNCHANGED <<tables, token, cache, changes, overtaken>>

\* Seeded fault: the key is stored without a time to live.
Everlasting == FALSE

TTL == cache # Nil

Expire ==
    /\ TTL
    /\ cache' = Nil
    /\ UNCHANGED <<tables, token, req, changes, overtaken>>

\* The user logs in or renews the token, with the role the row has then.
Login ==
    /\ token = Nil
    /\ token' = roleOf
    /\ UNCHANGED <<tables, cache, req, changes, overtaken>>

TokenExpires ==
    /\ token # Nil
    /\ token' = Nil
    /\ UNCHANGED <<tables, cache, req, changes, overtaken>>

-----------------------------------------------------------------------------
Init ==
    /\ roleOf \in System
    /\ roles \in { rows \in [ Roles -> {"none", "live"} ] : System \subseteq Live(rows) }
    /\ perms \in [ Perms -> {"none", "live"} ]
    /\ granted = [ role \in Roles |->
                    IF role \in System \ {SuperAdmin} THEN Live(perms) ELSE {} ]
    /\ token = Nil /\ cache = Nil
    /\ req = [ r \in Requests |-> Nil ]
    /\ changes = 0 /\ overtaken = FALSE

Proceed(r) ==
    \/ GetUserPermissions(r)
    \/ GetRolePermissions(r)
    \/ SetUserPermissionKeys(r)
    \/ \E role \in Roles : AssignRole(r, role)
    \/ SaveProfile(r)
    \/ UpdateRole(r)
    \/ DeleteRole(r)
    \/ AssignPermissions(r)
    \/ \E row \in Row : UpdatePermission(r, row)
    \/ DeleteUserPermissionKeys(r)
    \/ Fail(r)

Start(r) ==
    \/ Check(r)
    \/ GetUser(r)
    \/ \E role \in Roles :
         \/ CreateRole(r, role)
         \/ GetRole(r, role)
         \/ \E ids \in SUBSET Perms : DeleteRolePermissions(r, role, ids)
    \/ \E p \in Perms : CreatePermission(r, p) \/ GetPermission(r, p)

Next ==
    \/ \E r \in Requests : Start(r) \/ Proceed(r)
    \/ Expire
    \/ Login
    \/ TokenExpires

\* Keys and tokens expire, and a request in progress ends.
Fairness ==
    /\ \A r \in Requests : WF_vars(Proceed(r))
    /\ WF_vars(Expire) /\ WF_vars(TokenExpires)

Spec == Init /\ [][Next]_vars /\ Fairness

-----------------------------------------------------------------------------
(* Properties *)

\* Every variable has its type.
TypeOK ==
    /\ roleOf \in Roles /\ roles \in [ Roles -> Row ]
    /\ perms \in [ Perms -> Row ] /\ granted \in [ Roles -> SUBSET Perms ]
    /\ token \in Roles \union {Nil} /\ cache \in (SUBSET Perms) \union {Nil}
    /\ req \in [ Requests -> Request \union {Nil} ]
    /\ changes \in 0..MaxChanges /\ overtaken \in BOOLEAN

\* Once every change has emptied the cache, what is cached is what the tables say,
\* unless a reader, a whole-row Save or a lost deletion was overtaken by a change.
CacheIsCurrent ==
    overtaken \/ (\E r \in Requests : At(r, "empty"))
        \/ cache \in {Nil, PermissionsOf(roleOf)}

\* What the middleware lets the user do now, and what the tables entitle the user to.
Allowed ==
    IF token = SuperAdmin THEN Perms ELSE
    IF cache # Nil THEN cache ELSE PermissionsOf(roleOf)

Entitled == IF roleOf = SuperAdmin THEN Perms ELSE PermissionsOf(roleOf)

\* Whatever was overtaken or lost, in the end a user who holds a token may do what
\* the tables say, and nothing else.
EntitledInTheEnd == <>[](token # Nil => Allowed = Entitled)
===============================================================================
