----------------------------- MODULE MCUserTable -----------------------------
(* Sessions, names and hashes for the runs of UserTable. *)
EXTENDS UserTable, TLC

CONSTANTS s1, s2, admin, phteven, b, c, pw1, pw2

OneSession  == {s1}
TwoSessions == {s1, s2}
FourNames   == {admin, phteven, b, c}
OnePassword  == {pw1}
TwoPasswords == {pw1, pw2}

\* All collide in a table of three; in one of nine or of seventeen they collide in
\* pairs, and in one of nine the second pair wraps around the end.
Colliding == (admin :> 2) @@ (phteven :> 8) @@ (b :> 2) @@ (c :> 8)

\* No name starts another; b starts c and phteven.
NoneLonger == [n \in FourNames |-> {}]
BStartsC   == [n \in FourNames |-> IF n = b THEN {c, phteven} ELSE {}]
=============================================================================
