----------------------------- MODULE MCSessionStore -----------------------------
(* Small instances of SessionStore.                                        *)
EXTENDS SessionStore, TLC
CONSTANTS u1, u2, r1, r2

OneHome == [u \in User |-> r1]
TwoHomes == u1 :> r1 @@ u2 :> r2

(* Without a sign of life the session of a test client ends after one      *)
(* second, and that of a phone after two.                                  *)
Lives == [ct \in CliType |-> IF ct = "test" THEN 2 ELSE 4]

(* With TwoHomes the users may be swapped together with their homes.       *)
SwapHomes == {u1 :> u2 @@ u2 :> u1 @@ r1 :> r2 @@ r2 :> r1}
SymmetryOfHomes == Permutations(Logic) \cup SwapHomes
=================================================================================
