------------------------------ MODULE Belonging ------------------------------
(***************************************************************************)
(* What spaces and invitations promise the people in them, without roles,  *)
(* rows, requests or reads: who belongs to which shared space, and what    *)
(* becomes of an offer to join one.                                        *)
(***************************************************************************)
CONSTANTS Users, Shared, Invites, Nil

VARIABLES
    keeper,     \* who founded a space, Nil before that
    open,       \* the spaces that can be joined
    belongs,    \* who belongs where, a set of <<space, user>>
    offer,      \* "none", "open", "taken" or "withdrawn" for each invitation
    place       \* the space an invitation is for

vars == <<keeper, open, belongs, offer, place>>

Init ==
    /\ keeper = [ s \in Shared |-> Nil ]
    /\ open = {}
    /\ belongs = {}
    /\ offer = [ i \in Invites |-> "none" ]
    /\ place = [ i \in Invites |-> Nil ]

\* A space is founded by someone, who belongs to it from then on.
Found(s, u) ==
    /\ keeper[s] = Nil
    /\ keeper' = [ keeper EXCEPT ![s] = u ]
    /\ open' = open \union {s}
    /\ belongs' = belongs \union {<<s, u>>}
    /\ UNCHANGED <<offer, place>>

\* An archived space is never opened again.
Close(s) ==
    /\ s \in open
    /\ open' = open \ {s}
    /\ UNCHANGED <<keeper, belongs, offer, place>>

Offer(i, s) ==
    /\ offer[i] = "none"
    /\ keeper[s] # Nil
    /\ offer' = [ offer EXCEPT ![i] = "open" ]
    /\ place' = [ place EXCEPT ![i] = s ]
    /\ UNCHANGED <<keeper, open, belongs>>

\* An offer lets one person in, once, into an open space.
Join(i, u) ==
    /\ offer[i] = "open"
    /\ place[i] \in open
    /\ <<place[i], u>> \notin belongs
    /\ offer' = [ offer EXCEPT ![i] = "taken" ]
    /\ belongs' = belongs \union {<<place[i], u>>}
    /\ UNCHANGED <<keeper, open, place>>

Withdraw(i) ==
    /\ offer[i] = "open"
    /\ offer' = [ offer EXCEPT ![i] = "withdrawn" ]
    /\ UNCHANGED <<keeper, open, belongs, place>>

\* Whoever leaves, the founder stays.
Leave(s, u) ==
    /\ <<s, u>> \in belongs
    /\ u # keeper[s]
    /\ belongs' = belongs \ {<<s, u>>}
    /\ UNCHANGED <<keeper, open, offer, place>>

Next ==
    \/ \E s \in Shared, u \in Users : Found(s, u) \/ Leave(s, u)
    \/ \E s \in Shared : Close(s)
    \/ \E i \in Invites, s \in Shared : Offer(i, s)
    \/ \E i \in Invites, u \in Users : Join(i, u)
    \/ \E i \in Invites : Withdraw(i)

Spec == Init /\ [][Next]_vars
=============================================================================
