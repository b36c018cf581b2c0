------------------------------ MODULE Directory -------------------------------
(***************************************************************************)
(* What linking promises a person who writes from outside: at any time the *)
(* name they write from leads to at most one account, and it came to lead  *)
(* there in one of three ways: the account was registered under the name,  *)
(* it was registered from the same phone, or a code issued for it was      *)
(* spent on the name, and on no other.                                     *)
(***************************************************************************)
CONSTANTS Externals, Phones, PhoneOf, Users, Codes, Nil

VARIABLES
    home,       \* the phone an account was registered from, or Nil
    people,     \* the accounts there are
    who,        \* the account a name leads to, or Nil
    holder,     \* the account a code was issued for, or Nil
    spent       \* the codes that were used

vars == <<home, people, who, holder, spent>>

Init ==
    /\ home = [ u \in Users |-> Nil ]
    /\ people = {}
    /\ who = [ x \in Externals |-> Nil ]
    /\ holder = [ c \in Codes |-> Nil ]
    /\ spent = {}

\* An account is made outside any chat.
SignUp(u) ==
    /\ u \notin people
    /\ people' = people \union {u}
    /\ UNCHANGED <<home, who, holder, spent>>

Register(x, u) ==
    /\ u \notin people /\ who[x] = Nil
    /\ people' = people \union {u}
    /\ home' = [ home EXCEPT ![u] = PhoneOf[x] ]
    /\ who' = [ who EXCEPT ![x] = u ]
    /\ UNCHANGED <<holder, spent>>

Recognise(x, u) ==
    /\ u \in people /\ who[x] = Nil
    /\ PhoneOf[x] # Nil /\ home[u] = PhoneOf[x]
    /\ who' = [ who EXCEPT ![x] = u ]
    /\ UNCHANGED <<home, people, holder, spent>>

Give(c, u) ==
    /\ u \in people /\ holder[c] = Nil
    /\ holder' = [ holder EXCEPT ![c] = u ]
    /\ UNCHANGED <<home, people, who, spent>>

Spend(c, x) ==
    /\ holder[c] # Nil /\ c \notin spent
    /\ who[x] = Nil
    /\ who' = [ who EXCEPT ![x] = holder[c] ]
    /\ spent' = spent \union {c}
    /\ UNCHANGED <<home, people, holder>>

Release(x) ==
    /\ who[x] # Nil
    /\ who' = [ who EXCEPT ![x] = Nil ]
    /\ UNCHANGED <<home, people, holder, spent>>

Next ==
    \/ \E u \in Users : SignUp(u)
    \/ \E x \in Externals, u \in Users : Register(x, u) \/ Recognise(x, u)
    \/ \E c \in Codes, u \in Users : Give(c, u)
    \/ \E c \in Codes, x \in Externals : Spend(c, x)
    \/ \E x \in Externals : Release(x)

Spec == Init /\ [][Next]_vars
===============================================================================
