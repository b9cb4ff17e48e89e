---------------------------- MODULE MCNetSockets ----------------------------
(***************************************************************************)
(* Instances of NetSockets for TLC: which operations each of three users   *)
(* calls.                                                                  *)
(***************************************************************************)
EXTENDS NetSockets, TLC

CONSTANTS c1, c2, c3, f1, f2

(* The three users in every order, so that the users stay symmetric. *)
Roles(a, b, c) == {[u \in Users |-> CASE u = p[c1] -> a [] u = p[c2] -> b
                                      [] OTHER -> c] : p \in Permutations(Users)}

Reading == {"connect", "read", "close"}
Listening == {"bind", "accept", "close"}

(* Both read or both listen, one with binds that fail; two write; two read *)
(* or one reads and writes against a closer; two with connects that fail.  *)
SocketPrograms == Roles(Reading, Reading, {})
             \cup Roles(Listening \cup {"refused"}, Listening, {})
             \cup Roles({"connect", "write"}, {"write", "close"}, {})
             \cup Roles({"connect", "close"}, {"read"}, {"read"})
             \cup Roles({"connect", "close"}, {"read", "write"}, {})
             \cup Roles({"connect", "close", "refused"},
                        {"connect", "read", "refused"}, {})
StreamPrograms == Roles({"connect", "close"}, {"write"}, {"read"})

Symmetry == Permutations(Users) \cup Permutations(Fds)
=============================================================================
