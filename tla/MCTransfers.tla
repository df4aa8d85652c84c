---------------------------- MODULE MCTransfers ----------------------------
(***************************************************************************)
(* Files over a connection: the remote files of the chat server with two   *)
(* clients, and the older FTP server with one.  A behaviour is one of      *)
(* either; the question is the same: does each command get its own answer, *)
(* and does a file hold what was sent.                                     *)
(***************************************************************************)
EXTENDS RemoteFiles, FtpTransfer, TLC

CONSTANTS Server, a, b, empty, short, long, folder

VARIABLES program

all == <<program, vars, ftpVars>>

MCLogins == {(a :> 3) @@ (b :> 2), (a :> 1) @@ (b :> 0)}
MCSize == (empty :> 0) @@ (short :> 1) @@ (long :> 2) @@ (folder :> 4)

MCInit == Init /\ FtpInit /\ program \in Server

ChatStep == program = "chat" /\ Next /\ UNCHANGED <<program, ftpVars>>
FtpStep == program = "ftp" /\ FtpNext /\ UNCHANGED <<program, vars>>

MCSpec == MCInit /\ [][ChatStep \/ FtpStep]_all

(* The fairness of the two modules; of the program that does not run       *)
(* nothing is ever enabled but a user's command.                           *)
MCFairSpec == MCSpec /\ Fairness /\ FtpFairness

-----------------------------------------------------------------------------
(* A command that has an answer comes to an end in the chat client; in the *)
(* FTP client, up to its first file, every command does but a get without  *)
(* a name and one of a directory.                                          *)
AllAnswered == Answered /\ FirstAnswered
=============================================================================
