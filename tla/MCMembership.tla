----------------------------- MODULE MCMembership -----------------------------
(* Instances of Membership for TLC. *)
EXTENDS Membership, TLC

\* What migrations/000008 and its successors grant to the space roles, as far
\* as Membership asks for it.  A member may do no more than a viewer here.
SpaceGrants ==
    LET admin == {"spaces:update", "spaces:delete", "members:update",
                  "members:delete", "invitations:create", "invitations:delete"}
    IN  [ role \in Roles |->
            CASE role = Owner -> admin \union {"spaces:create"}
              [] role = "space_admin" -> admin
              [] OTHER -> {} ]

Symmetry == Permutations(Requests) \union Permutations(Invites)
              \union Permutations(Users)
===============================================================================
