----------------------------- MODULE MCSession -----------------------------
(* Small instances of Session.                                             *)
EXTENDS Session, TLC

CONSTANTS f1, f2, f3, s1, s2, u1, u2, h1, h2, h3

Symmetry == Permutations(Users) \cup Permutations(Hosts \ LongHosts)
              \cup Permutations(Subs) \cup Permutations(Sockets)
=============================================================================
