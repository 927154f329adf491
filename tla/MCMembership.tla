---------------------------- MODULE MCMembership ----------------------------
(* Membership on a small instance: an owner, who is exempt from billing    *)
(* while he is the owner, and two people, with one of each kind of edit    *)
(* that a capacity or an ownership rule looks at.  What is said of the     *)
(* owner is said until a request is overtaken, so no state after that is   *)
(* looked at.                                                              *)
EXTENDS Membership, TLC

MCGrants == {"EMPLOYEE"}
MCUpdates == {[role |-> "ADMIN", status |-> None],
              [role |-> None, status |-> "ACTIVE"],
              [role |-> None, status |-> "INVITED"]}
MCSymmetry == Permutations(Workers) \cup Permutations(Invitations)
              \cup Permutations(People \ {Owner})
NotOvertaken == ~overtaken
=============================================================================
