------------------------------ MODULE MCAccounts ------------------------------
(* A small instance of Accounts.                                               *)
EXTENDS Accounts, TLC

CONSTANTS n1, n2, e1, e2, s1, s2, long, d0, d1, d2, d3, b1, b2, c1, c2, c3

\* The long password begins with the 72 bytes of s1.
MCKey == (s1 :> s1) @@ (s2 :> s2) @@ (long :> s1)

\* One seeded user, whose stored password is its text.
MCSeeds == {[id |-> d0, name |-> n2, email |-> e2, password |-> <<"plain", s1>>]}

Interchangeable == Permutations(Calls) \cup Permutations(Browsers) \cup
                   Permutations({d1, d2, d3})
=============================================================================
