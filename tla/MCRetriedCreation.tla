------------------------- MODULE MCRetriedCreation --------------------------
(* Both clients want one mailbox.  Attempts are interchangeable in the     *)
(* safety run, and so are the clients.                                     *)
EXTENDS RetriedCreation, TLC

MCWanted == [k \in Client |-> CHOOSE m \in Mail : TRUE]

MCSymmetry == Permutations(Call) \cup Permutations(Client)
=============================================================================
