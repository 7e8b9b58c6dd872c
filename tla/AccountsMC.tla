------------------------------- MODULE AccountsMC -------------------------------
(* Instances of Accounts for TLC. *)
EXTENDS Accounts

CONSTANTS admin, ann, pw1, pw2

AdminAndAnn == <<[email |-> admin, password |-> pw1, role |-> "ADMIN"],
                 [email |-> ann, password |-> pw1, role |-> "USER"]>>
===============================================================================
