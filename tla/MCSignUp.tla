------------------------------ MODULE MCSignUp ------------------------------
(* SignUp on small instances. "ada" and "Ada" are two spellings of one     *)
(* address and "boss" is a user_name an administrator made up.             *)
EXTENDS SignUp, TLC

MCClean(e) == IF e = "Ada" THEN "ada" ELSE e

\* The accounts and calls of these instances are those of the model.
ASSUME ShapesAssumption ==
  /\ \A e \in Emails, n \in UserNames, p \in Profiles :
       [email |-> e, user_name |-> n, profile |-> p, role |-> "held", made |-> "sign up"] \in Account
  /\ Cardinality(Request) > 0

Symmetry == Permutations(Clients) \cup Permutations(Ids) \cup Permutations(Profiles)
=============================================================================
