------------------------------- MODULE Identity -------------------------------
(***************************************************************************)
(* Who a person writing from a chat is: the accounts, the external         *)
(* identities linked to them and the codes that link one, with the         *)
(* handlers that register, link and revoke and the ones that edit and      *)
(* delete an account.  What a request reads first and a unique index or a  *)
(* WHERE clause looks at again is read once, by the write.                 *)
(***************************************************************************)
EXTENDS Integers

CONSTANTS
    Externals,      \* names a person writes from
    Phones,
    PhoneOf,        \* the phone a name was written from, Nil outside WhatsApp
    Users,          \* ids for accounts, numbered in the order of use
    Codes,          \* one-time codes, numbered in the order they are issued
    Requests,       \* requests in progress at one time
    Nil

VARIABLES
    account,        \* [phone, verified, deleted] of each user, or Nil
    proven,         \* the phone a user registered from, or Nil
    links,          \* the ACTIVE rows of external_identities: <<name, user>>
    codes,          \* [user, used, expired] of each code, or Nil
    req             \* what each request has read, or Nil

vars == <<account, proven, links, codes, req>>

Account == [ phone : Phones \union {Nil}, verified : BOOLEAN, deleted : BOOLEAN ]
Code == [ user : Users, used : BOOLEAN, expired : BOOLEAN ]
Request == [ op : {"register", "link", "consume", "revoke", "save"},
             ext : Externals \union {Nil}, user : Users \union {Nil},
             code : Codes \union {Nil}, row : Account \union {Nil} ]

IdentityAssumption ==
    /\ Users \subseteq Nat /\ Codes \subseteq Nat
    /\ Nil \notin Phones \union Users \union Account \union Code \union Request
    /\ PhoneOf \in [ Externals -> Phones \union {Nil} ]

-----------------------------------------------------------------------------
Blank(op) == [ op |-> op, ext |-> Nil, user |-> Nil, code |-> Nil, row |-> Nil ]
Start(r, q) == req[r] = Nil /\ req' = [ req EXCEPT ![r] = q ]
Finish(r) == req' = [ req EXCEPT ![r] = Nil ]
Doing(r, op) == req[r] # Nil /\ req[r].op = op
Tables == <<account, proven, links, codes>>

Exists(u) == u \in Users /\ account[u] # Nil

FreshUser(u) ==
    /\ u \in Users /\ account[u] = Nil
    /\ \A other \in Users : other < u => account[other] # Nil

\* idx_users_phone: deleted rows count.
PhoneTaken(phone, but) ==
    phone # Nil /\ \E u \in Users \ {but} : Exists(u) /\ account[u].phone = phone

\* ux_external_identities_active_provider_id
Linked(x) == \E u \in Users : <<x, u>> \in links

AccountRow(phone, verified) ==
    [ phone |-> phone, verified |-> verified, deleted |-> FALSE ]

-----------------------------------------------------------------------------
(* Registration and linking from a chat *)

\* account_register
Register(r, x) ==
    /\ ~ Linked(x)
    /\ Start(r, [ Blank("register") EXCEPT !.ext = x ])
    /\ UNCHANGED Tables

\* One transaction: the user with a verified phone, the Personal Space and the
\* identity.  A conflict on the identity is answered by the account it has.
Create(r, u) ==
    LET x == req[r].ext
    IN  /\ Doing(r, "register")
        /\ FreshUser(u) /\ ~ PhoneTaken(PhoneOf[x], u) /\ ~ Linked(x)
        /\ account' = [ account EXCEPT ![u] =
                          AccountRow(PhoneOf[x], PhoneOf[x] # Nil) ]
        /\ proven' = [ proven EXCEPT ![u] = PhoneOf[x] ]
        /\ links' = links \union {<<x, u>>}
        /\ Finish(r)
        /\ UNCHANGED codes

\* account_link: by the phone, if it is verified.
LinkExisting(r, x, u) ==
    /\ PhoneOf[x] # Nil
    /\ Exists(u) /\ ~ account[u].deleted
    /\ account[u].phone = PhoneOf[x] /\ account[u].verified
    /\ Start(r, [ Blank("link") EXCEPT !.ext = x, !.user = u ])
    /\ UNCHANGED Tables

LinkExternalIdentity(r) ==
    LET q == req[r]
    IN  /\ Doing(r, "link")
        /\ ~ Linked(q.ext)
        /\ links' = links \union {<<q.ext, q.user>>}
        /\ Finish(r)
        /\ UNCHANGED <<account, proven, codes>>

-----------------------------------------------------------------------------
(* Codes *)

\* Any account that has a session may ask for one.
Issue(c, u) ==
    /\ Exists(u)
    /\ codes[c] = Nil /\ \A other \in Codes : other < c => codes[other] # Nil
    /\ codes' = [ codes EXCEPT ![c] = [ user |-> u, used |-> FALSE, expired |-> FALSE ] ]
    /\ UNCHANGED <<account, proven, links, req>>

\* identity_link takes the time before the transaction that compares it.
Link(r, c, x) ==
    /\ codes[c] # Nil /\ ~ codes[c].expired
    /\ Start(r, [ Blank("consume") EXCEPT !.ext = x, !.code = c ])
    /\ UNCHANGED Tables

\* Seeded fault: that the code is spent is not looked at under the lock.
Spendable(c) == codes[c] # Nil

Unspent(c) == codes[c] # Nil /\ ~ codes[c].used

\* One transaction that holds the code.
ConsumeAndLink(r) ==
    LET q == req[r]
        u == codes[q.code].user
    IN  /\ Doing(r, "consume")
        /\ Unspent(q.code) /\ ~ Linked(q.ext)
        /\ links' = links \union {<<q.ext, u>>}
        /\ codes' = [ codes EXCEPT ![q.code].used = TRUE ]
        /\ Finish(r)
        /\ UNCHANGED <<account, proven>>

Expire(c) ==
    /\ codes[c] # Nil /\ ~ codes[c].used /\ ~ codes[c].expired
    /\ codes' = [ codes EXCEPT ![c].expired = TRUE ]
    /\ UNCHANGED <<account, proven, links, req>>

\* A user revokes a link of their own.
Revoke(r, x, u) ==
    /\ <<x, u>> \in links
    /\ Start(r, [ Blank("revoke") EXCEPT !.ext = x, !.user = u ])
    /\ UNCHANGED Tables

RevokeLink(r) ==
    /\ Doing(r, "revoke")
    /\ links' = links \ {<<req[r].ext, req[r].user>>}
    /\ Finish(r)
    /\ UNCHANGED <<account, proven, codes>>

-----------------------------------------------------------------------------
(* The accounts *)

\* Registration on the web, or by an administrator: the phone is not verified.
RegisterUser(u, phone) ==
    /\ FreshUser(u) /\ ~ PhoneTaken(phone, u)
    /\ account' = [ account EXCEPT ![u] = AccountRow(phone, FALSE) ]
    /\ UNCHANGED <<proven, links, codes, req>>

\* Seeded fault: a new phone is taken to be as verified as the one before.
EditedVerified(row, phone) == [ row EXCEPT !.phone = phone ]

\* Another phone is one that was not proven.
Edited(row, phone) ==
    [ row EXCEPT !.phone = phone, !.verified = @ /\ phone = row.phone ]

\* The row is read, edited (a login leaves the phone as it is) and saved whole.
Update(r, u, phone) ==
    /\ Exists(u) /\ ~ account[u].deleted
    /\ Start(r, [ Blank("save") EXCEPT !.user = u,
                                       !.row = Edited(account[u], phone) ])
    /\ UNCHANGED Tables

\* Save writes a deleted row as well, without its deletion.
Save(r) ==
    LET q == req[r]
    IN  /\ Doing(r, "save")
        /\ ~ PhoneTaken(q.row.phone, q.user)
        /\ account' = [ account EXCEPT ![q.user] = q.row ]
        /\ Finish(r)
        /\ UNCHANGED <<proven, links, codes>>

\* The links of a deleted account stay.
Delete(u) ==
    /\ Exists(u) /\ ~ account[u].deleted
    /\ account' = [ account EXCEPT ![u].deleted = TRUE ]
    /\ UNCHANGED <<proven, links, codes, req>>

\* A request is answered, with an error if a condition of its write does not
\* hold or a call fails.
Answer(r) ==
    /\ req[r] # Nil
    /\ Finish(r)
    /\ UNCHANGED Tables

-----------------------------------------------------------------------------
Init ==
    /\ account = [ u \in Users |-> Nil ]
    /\ proven = [ u \in Users |-> Nil ]
    /\ links = {}
    /\ codes = [ c \in Codes |-> Nil ]
    /\ req = [ r \in Requests |-> Nil ]

Begin(r) ==
    \/ \E x \in Externals : Register(r, x)
    \/ \E x \in Externals, u \in Users : LinkExisting(r, x, u)
    \/ \E c \in Codes, x \in Externals : Link(r, c, x)
    \/ \E x \in Externals, u \in Users : Revoke(r, x, u)
    \/ \E u \in Users, phone \in Phones : Update(r, u, phone)

Proceed(r) ==
    \/ \E u \in Users : Create(r, u)
    \/ LinkExternalIdentity(r)
    \/ ConsumeAndLink(r)
    \/ RevokeLink(r)
    \/ Save(r)
    \/ Answer(r)

Next ==
    \/ \E r \in Requests : Begin(r) \/ Proceed(r)
    \/ \E c \in Codes, u \in Users : Issue(c, u)
    \/ \E c \in Codes : Expire(c)
    \/ \E u \in Users, phone \in Phones : RegisterUser(u, phone)
    \/ \E u \in Users : Delete(u)

Spec == Init /\ [][Next]_vars

-----------------------------------------------------------------------------
(* Properties *)

\* Every variable has its type.
TypeOK ==
    /\ account \in [ Users -> Account \union {Nil} ]
    /\ proven \in [ Users -> Phones \union {Nil} ]
    /\ links \subseteq Externals \X Users
    /\ codes \in [ Codes -> Code \union {Nil} ]
    /\ req \in [ Requests -> Request \union {Nil} ]

\* Whatever edits overlap, each saving the whole row as it had read it, a phone
\* is marked verified only in the account that was registered from it, which
\* is the one account_link leads to.
VerifiedMeansProven ==
    \A u \in Users : Exists(u) /\ account[u].verified => account[u].phone = proven[u]

\* However registration, linking, codes, revocation and edits of the phone
\* overlap, a name leads to one account at a time: the one registered under it
\* or from its phone, or one that gave out a code, which is spent on one name.
D == INSTANCE Directory WITH
       home   <- proven,
       people <- { u \in Users : Exists(u) },
       who    <- [ x \in Externals |->
                     IF \E u \in Users : <<x, u>> \in links
                     THEN CHOOSE u \in Users : <<x, u>> \in links ELSE Nil ],
       holder <- [ c \in Codes |-> IF codes[c] = Nil THEN Nil ELSE codes[c].user ],
       spent  <- { c \in Codes : codes[c] # Nil /\ codes[c].used }

LinksLeadToOneAccount == D!Spec
===============================================================================
