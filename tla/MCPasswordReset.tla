-------------------------- MODULE MCPasswordReset --------------------------
(* PasswordReset on small instances: an account, and an address that is    *)
(* free for it to move to.                                                 *)
EXTENDS PasswordReset, TLC

MCInitialEmail(a) == "ada@x"

\* The rows of these instances are rows of the model.
ASSUME RowsAssumption ==
  \A e \in Emails, t \in Tokens, n \in 0..MaxClock : [email |-> e, token |-> t, at |-> n] \in Reset

Symmetry == Permutations(Clients) \cup Permutations(Tokens)
=============================================================================
