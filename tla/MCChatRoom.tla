------------------------------ MODULE MCChatRoom ------------------------------
(* Which requests overlap in the runs of ChatRoom. *)
EXTENDS ChatRoom, TLC

CONSTANTS s1, s2, s3

ThreeUsers == {s1, s2, s3}
UserSymmetry == Permutations(ThreeUsers)

\* One user enters while another broadcasts; else one request at a time.
OneOfEach == {{"enter", "sendall"}}

\* Two users may also enter at the same time.
TwoEnter == {{"enter"}}
=============================================================================
