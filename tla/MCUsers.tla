------------------------------ MODULE MCUsers ------------------------------
(* Users, for TLC: sessions are alike, and so are passwords.  What the last   *)
(* program did is written and never read, so states that differ in nothing    *)
(* else are one; the steps to them are looked at one by one all the same.     *)
EXTENDS Users, TLC

Alike == Permutations(Sessions) \cup Permutations(Passwords)
State == <<users, prompt>>
=============================================================================
