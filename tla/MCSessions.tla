----------------------------- MODULE MCSessions -----------------------------
(* Instances of Sessions for TLC.  Ids are interchangeable: sign-up takes    *)
(* any that is free.                                                         *)
EXTENDS Sessions, TLC

SessionClaims == [sub : Id, role : {"admin", "user"}]

IdSymmetry == Permutations(Id)

=============================================================================
