------------------------------ MODULE MCLobbies ------------------------------
(* Names, users and sessions for the runs of Lobbies. *)
EXTENDS Lobbies, TLC

CONSTANTS s1, s2, s3

ThreeSessions == {s1, s2, s3}
TwoSessions   == {s1, s2}

\* A long and a short name, and three that differ; one lobby name starts with
\* the other.
ShortAndLong == {<<"b">>, <<"p", "h">>}
ThreeNames   == {<<"a">>, <<"b">>, <<"c">>}
GoAndGolf    == {<<"g">>, <<"g", "o">>}

SessionSymmetry == Permutations(ThreeSessions)
=============================================================================
