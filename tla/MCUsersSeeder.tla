---------------------------- MODULE MCUsersSeeder ----------------------------
(***************************************************************************)
(* Three replicas start together and create the two users of the code.     *)
(***************************************************************************)
EXTENDS UsersSeeder, TLC

CONSTANTS r1, r2, r3

MCSpecs == <<[email |-> "operator@", password |-> "o", role |-> "operator"],
             [email |-> "customer@", password |-> "c", role |-> "customer"]>>

Symmetry == Permutations({r1, r2, r3})
=============================================================================
