---------------------------- MODULE RemoteFiles ----------------------------
(***************************************************************************)
(* The remote files of the chat server: put_file, make_directory and       *)
(* delete_remote (chat.c) with the commands of client.py that reach them.  *)
(* Every client has a connection of its own, and a worker that serves it;  *)
(* what the workers share is the directory.  A worker's action has one     *)
(* system call on it, and what is the worker's own before or after.        *)
(*                                                                         *)
(* A request is sent whole: a header, then its name and content, "body".   *)
(* A worker that refuses a request by its header leaves the body in the    *)
(* stream and then takes it, byte by byte, for opcodes; bytes of names and *)
(* texts name no operation.  Of a get or a mkdir it takes the header so,   *)
(* too, and there the length of the name or the number of the session (a   *)
(* byte, as long as there were fewer than 256) may be that of an           *)
(* operation: "as".  An answer is six bytes: code, five zeros.             *)
(***************************************************************************)
EXTENDS Integers, Sequences, SequencesExt, FiniteSetsExt

CONSTANTS
  Client,
  Logins,        \* the permissions clients may have; 0: did not log in
  Name, LongName,\* names within MAX_NAME, and one beyond it
  Home,          \* the server's directory, which the empty name stands for
  MaxLength,     \* the length of a text, in blocks
  MaxCommands    \* bounds the commands of all clients together

ASSUME RemoteFilesAssumption ==
  /\ LongName \notin Name /\ Home \notin Name
  /\ MaxLength \in Nat /\ MaxCommands \in Nat

VARIABLES
  perms,         \* of the session of each client
  entry,         \* the directory: "none", "file" or "dir"
  text,          \* what a file holds: a sequence of [by, block]
  up, down,      \* the two streams of a connection
  pc, req,       \* the worker of a connection, and the request it serves
  handle,        \* its open file: "none", "linked", or "orphan" once removed
  waiting,       \* the command a client waits in, or "idle"
  count,         \* how many commands it has given
  told,          \* the command its last answer was for, and was read in
  astray,        \* it has used ls, or had two answers to one request
  made,          \* per name: successes of mkdir since it was last removed
  writer,        \* per name: who opened it last, and the text he brought
  mixed          \* two puts had it open at the same time

vars == <<perms, entry, text, up, down, pc, req, handle, waiting, count, told, astray,
          made, writer, mixed>>
files == <<entry, text, made, writer, mixed>>

AnyName == Name \union {LongName, Home}

(* What a command sends, and the operation that the worker takes it for.   *)
Request(op, as, n, overwrite, length, k) ==
  [op |-> op, as |-> as, name |-> n, overwrite |-> overwrite, length |-> length, k |-> k]
Body == Request("body", "none", Home, FALSE, 0, 0)
NoTold == [read |-> 0, of |-> 0]
Nobody == [by |-> "nobody", length |-> 0]

Init ==
  /\ perms \in Logins
  /\ entry = [n \in Name |-> "none"] /\ text = [n \in Name |-> <<>>]
  /\ up = [c \in Client |-> <<>>] /\ down = [c \in Client |-> <<>>]
  /\ pc = [c \in Client |-> "recv"] /\ req = [c \in Client |-> Body]
  /\ handle = [c \in Client |-> "none"]
  /\ waiting = [c \in Client |-> "idle"] /\ count = [c \in Client |-> 0]
  /\ told = [c \in Client |-> NoTold] /\ astray = [c \in Client |-> FALSE]
  /\ made = [n \in Name |-> 0] /\ writer = [n \in Name |-> Nobody]
  /\ mixed = [n \in Name |-> FALSE]

-----------------------------------------------------------------------------
(* The client.  A byte is [v, of]: its value, and the command whose answer *)
(* it is part of.                                                          *)
Answer(code, k) == [i \in 1 .. 6 |-> [v |-> IF i = 1 THEN code ELSE 0, of |-> k]]

Command(c, op, as, n, overwrite, length) ==
  /\ waiting[c] = "idle" /\ MapThenSumSet(LAMBDA d : count[d], Client) < MaxCommands
  /\ waiting' = [waiting EXCEPT ![c] = op]
  /\ count' = [count EXCEPT ![c] = @ + 1]
  /\ up' = [up EXCEPT ![c] = @ \o <<Request(op, as, n, overwrite, length, count[c] + 1), Body>>]
  /\ UNCHANGED <<files, down, pc, req, handle, told>>

do_put(c, n, overwrite, length) ==
  Command(c, "put", "put", n, overwrite, length) /\ UNCHANGED astray
do_delete(c, n) == Command(c, "delete", "delete", n, FALSE, 0) /\ UNCHANGED astray
do_ls(c, n) == Command(c, "ls", "ls", n, FALSE, 0) /\ astray' = [astray EXCEPT ![c] = TRUE]

(* Opcodes 4 and 5, which no worker knows: it takes the first byte that it *)
(* knows instead, 1 for "user", 2 for "delete", 3, 6, 7 or 8 for "other".  *)
TakenAs == {"none", "user", "delete", "other"}
do_get(c, as) == Command(c, "get", as, Home, FALSE, 0) /\ UNCHANGED astray
do_mkdir(c, as) == Command(c, "mkdir", as, Home, FALSE, 0) /\ UNCHANGED astray

(* recv takes what is there, up to n bytes.                                *)
Taken(c, n) == SubSeq(down[c], 1, IF Len(down[c]) < n THEN Len(down[c]) ELSE n)
Rest(c, n) == SubSeq(down[c], n + 1, Len(down[c]))

Read(c, n) ==
  /\ down[c] # <<>>
  /\ down' = [down EXCEPT ![c] = Rest(c, n)]
  /\ told' = [told EXCEPT ![c] =
                IF Len(down[c]) < n THEN NoTold
                ELSE [read |-> count[c], of |-> Taken(c, n)[1].of]]
  /\ UNCHANGED <<files, up, pc, req, handle, count, astray>>

ReadAnswer(c) ==
  /\ waiting[c] \in {"put", "delete", "mkdir"}
  /\ Read(c, 6)
  /\ waiting' = [waiting EXCEPT ![c] = "idle"]

(* get reads a code and then, whatever it is, the rest.                    *)
ReadGet(c) ==
  \/ /\ waiting[c] = "get"
     /\ Read(c, 1)
     /\ waiting' = [waiting EXCEPT ![c] = "rest"]
  \/ /\ waiting[c] = "rest" /\ down[c] # <<>>
     /\ down' = [down EXCEPT ![c] = Rest(c, 5)]
     /\ waiting' = [waiting EXCEPT ![c] = "idle"]
     /\ UNCHANGED <<files, up, pc, req, handle, count, told, astray>>

(* ls reads one byte; after a success it wants fifteen more, gets the five *)
(* that are there, and gives up.                                           *)
ReadCode(c) ==
  /\ waiting[c] = "ls"
  /\ Read(c, 1)
  /\ waiting' = [waiting EXCEPT ![c] = IF down[c][1].v = 1 THEN "list" ELSE "idle"]

ReadList(c) ==
  /\ waiting[c] = "list" /\ Len(down[c]) \in 1 .. 14
  /\ down' = [down EXCEPT ![c] = <<>>]
  /\ waiting' = [waiting EXCEPT ![c] = "idle"]
  /\ UNCHANGED <<files, up, pc, req, handle, count, told, astray>>

-----------------------------------------------------------------------------
(* The worker.                                                             *)
First(c) == Head(up[c])
Arrived(c, as) == pc[c] = "recv" /\ up[c] # <<>> /\ First(c).as = as

Serving(c) == IF pc[c] = "recv" THEN First(c) ELSE req[c]
server_response(c, code) == down' = [down EXCEPT ![c] = @ \o Answer(code, Serving(c).k)]

Takes(c, n) == up' = [up EXCEPT ![c] = SubSeq(@, n + 1, Len(@))]
Serves(c, step) ==
  /\ pc' = [pc EXCEPT ![c] = step]
  /\ req' = [req EXCEPT ![c] = IF step = "recv" THEN Body ELSE Serving(c)]
ClientKept == UNCHANGED <<waiting, count, told, astray>>

(* handle_connection: no byte of it names an operation.                    *)
SkipBytes(c) ==
  /\ Arrived(c, "none")
  /\ up' = [up EXCEPT ![c] = Tail(@)]
  /\ UNCHANGED <<files, down, pc, req, handle>> /\ ClientKept

(* The other operations, of what is left of a get or a mkdir: the session  *)
(* or the flag that they find there is none of theirs.                     *)
RefuseOther(c) ==
  /\ Arrived(c, "user") \/ Arrived(c, "other")
  /\ Takes(c, 2) /\ \E code \in {2, 255} : server_response(c, code)
  /\ UNCHANGED <<files, pc, req, handle>> /\ ClientKept

(* A flag of zero makes it a login, which waits for its name and password, *)
(* until other commands have sent so much, and then finds no such account. *)
AwaitLogin(c) ==
  /\ Arrived(c, "user")
  /\ Takes(c, 2) /\ Serves(c, "login")
  /\ UNCHANGED <<files, down, handle>> /\ ClientKept

LoginTakes(c) ==
  /\ pc[c] = "login" /\ up[c] # <<>>
  /\ Takes(c, 2)
  /\ \/ UNCHANGED <<down, pc, req>>
     \/ server_response(c, 255) /\ Serves(c, "recv")
  /\ UNCHANGED <<files, handle>> /\ ClientKept

(* What put_file and make_directory make of a header; 0: go on.            *)
Refusal(c) ==
  IF perms[c] = 0 THEN 2 ELSE IF perms[c] < 2 THEN 3
  ELSE IF First(c).name = LongName THEN 255 ELSE 0

Refuse(c) ==
  /\ Refusal(c) # 0
  /\ Takes(c, 1) /\ server_response(c, Refusal(c))
  /\ UNCHANGED <<pc, req>>

(* What there is under the name is looked at, then the step goes on or not.*)
Look(c, found, step) ==
  /\ Refusal(c) = 0
  /\ Takes(c, 2)
  /\ IF found THEN Serves(c, "recv") /\ server_response(c, 5)
     ELSE Serves(c, step) /\ UNCHANGED down

(* open_file(full_path, "r") opens directories too.                        *)
put_file(c) ==
  /\ Arrived(c, "put")
  /\ \/ Refuse(c)
     \/ Look(c, entry[First(c).name] # "none" /\ ~First(c).overwrite, "create")
  /\ UNCHANGED <<files, handle>> /\ ClientKept

(* Mutant: the file is opened without being truncated.                     *)
EmptiedNot(n) == text

(* open_file(full_path, "w") empties the file; write_file only fills the   *)
(* buffer of the stream; then comes the answer.                            *)
Emptied(n) == [text EXCEPT ![n] = <<>>]
Others(c, n) == {d \in Client \ {c} : handle[d] = "linked" /\ req[d].name = n}

PutCreate(c) ==
  /\ pc[c] = "create"
  /\ LET n == req[c].name
     IN  IF entry[n] = "dir"
         THEN /\ server_response(c, 255) /\ Serves(c, "recv")
              /\ UNCHANGED <<files, handle>>
         ELSE /\ entry' = [entry EXCEPT ![n] = "file"]
              /\ text' = Emptied(n)
              /\ handle' = [handle EXCEPT ![c] = "linked"]
              /\ writer' = [writer EXCEPT ![n] = [by |-> c, length |-> req[c].length]]
              /\ mixed' = [mixed EXCEPT ![n] = Others(c, n) # {}]
              /\ server_response(c, 1) /\ Serves(c, "close")
              /\ UNCHANGED made
  /\ UNCHANGED up /\ ClientKept

(* close_file writes it, over the beginning of what the file holds by now. *)
Blocks(c) == [i \in 1 .. req[c].length |-> [by |-> c, block |-> i]]
Over(old, new) == new \o SubSeq(old, Len(new) + 1, Len(old))

PutClose(c) ==
  /\ pc[c] = "close"
  /\ LET n == req[c].name
     IN  text' = IF handle[c] = "linked" THEN [text EXCEPT ![n] = Over(@, Blocks(c))] ELSE text
  /\ handle' = [handle EXCEPT ![c] = "none"]
  /\ Serves(c, "recv")
  /\ UNCHANGED <<entry, made, writer, mixed, up, down>> /\ ClientKept

IsDir(n) == n = Home \/ entry[n] = "dir"

make_directory(c) ==
  /\ Arrived(c, "ls")
  /\ Refuse(c) \/ Look(c, IsDir(First(c).name), "mkdir")
  /\ UNCHANGED <<files, handle>> /\ ClientKept

(* Mutant: a directory that is there already is a success.                 *)
MakeMkdirExisting(c) ==
  /\ pc[c] = "mkdir"
  /\ LET n == req[c].name
     IN  IF entry[n] # "file"
         THEN /\ entry' = [entry EXCEPT ![n] = "dir"]
              /\ made' = [made EXCEPT ![n] = @ + 1]
              /\ server_response(c, 1)
              /\ UNCHANGED <<text, writer, mixed>>
         ELSE server_response(c, 255) /\ UNCHANGED files
  /\ Serves(c, "recv")
  /\ UNCHANGED <<up, handle>> /\ ClientKept

MakeMkdir(c) ==
  /\ pc[c] = "mkdir"
  /\ LET n == req[c].name
     IN  IF entry[n] = "none"
         THEN /\ entry' = [entry EXCEPT ![n] = "dir"]
              /\ made' = [made EXCEPT ![n] = @ + 1]
              /\ server_response(c, 1)
              /\ UNCHANGED <<text, writer, mixed>>
         ELSE server_response(c, 255) /\ UNCHANGED files
  /\ Serves(c, "recv")
  /\ UNCHANGED <<up, handle>> /\ ClientKept

(* Mutant: the highest permission is refused too.                          *)
delete_remoteAtLimit(c) ==
  /\ Arrived(c, "delete")
  /\ Takes(c, 1) /\ Serves(c, "delete")
  /\ IF perms[c] <= 3 THEN server_response(c, 3) ELSE UNCHANGED down
  /\ astray' = [astray EXCEPT ![c] = @ \/ perms[c] < 3]
  /\ UNCHANGED <<files, handle, waiting, count, told>>

(* The refusal is sent, and the request is served all the same.            *)
delete_remote(c) ==
  /\ Arrived(c, "delete")
  /\ Takes(c, 1) /\ Serves(c, "delete")
  /\ IF perms[c] < 3 THEN server_response(c, 3) ELSE UNCHANGED down
  /\ astray' = [astray EXCEPT ![c] = @ \/ perms[c] < 3]
  /\ UNCHANGED <<files, handle, waiting, count, told>>

(* In what is left of a get or a mkdir, the session is wrong, or before    *)
(* that the length is.                                                     *)
BadHeader(c) == req[c].op # "delete" \/ req[c].name = LongName \/ perms[c] = 0

(* Mutant: the refusal is not sent.                                        *)
DeleteRefusedSilently(c) ==
  /\ pc[c] = "delete" /\ BadHeader(c)
  /\ Serves(c, "recv")
  /\ UNCHANGED <<files, up, down, handle>> /\ ClientKept

DeleteRefused(c) ==
  /\ pc[c] = "delete" /\ BadHeader(c)
  /\ \/ req[c].name # LongName /\ server_response(c, 2)
     \/ (req[c].op # "delete" \/ req[c].name = LongName) /\ server_response(c, 255)
  /\ Serves(c, "recv")
  /\ UNCHANGED <<files, up, handle>> /\ ClientKept

(* remove takes files and, as all of them are empty, directories.          *)
DeleteRemove(c) ==
  /\ pc[c] = "delete"
  /\ ~BadHeader(c)
  /\ Takes(c, 1)
  /\ LET n == req[c].name
     IN  IF entry[n] # "none"
         THEN /\ entry' = [entry EXCEPT ![n] = "none"]
              /\ text' = Emptied(n)
              /\ made' = [made EXCEPT ![n] = 0]
              /\ writer' = [writer EXCEPT ![n] = Nobody]
              /\ mixed' = [mixed EXCEPT ![n] = FALSE]
              /\ handle' = [d \in Client |-> IF d \in Others(c, n) THEN "orphan" ELSE handle[d]]
              /\ server_response(c, 1)
         ELSE server_response(c, 255) /\ UNCHANGED <<files, handle>>
  /\ Serves(c, "recv")
  /\ ClientKept

-----------------------------------------------------------------------------
UserStep(c) ==
  /\ UNCHANGED perms
  /\ \/ \E n \in Name, overwrite \in BOOLEAN, length \in 1 .. MaxLength :
          do_put(c, n, overwrite, length)
     \/ do_put(c, LongName, FALSE, 1)
     \/ \E as \in TakenAs : do_get(c, as) \/ do_mkdir(c, as)
     \/ \E n \in Name \union {LongName} : do_delete(c, n)
     \/ \E n \in AnyName : do_ls(c, n)

ClientStep(c) ==
  /\ UNCHANGED perms
  /\ ReadAnswer(c) \/ ReadGet(c) \/ ReadCode(c) \/ ReadList(c)

WorkerStep(c) ==
  /\ UNCHANGED perms
  /\ \/ SkipBytes(c) \/ RefuseOther(c) \/ AwaitLogin(c) \/ LoginTakes(c)
     \/ put_file(c) \/ PutCreate(c) \/ PutClose(c)
     \/ make_directory(c) \/ MakeMkdir(c)
     \/ delete_remote(c) \/ DeleteRefused(c) \/ DeleteRemove(c)

Next == \E c \in Client : UserStep(c) \/ ClientStep(c) \/ WorkerStep(c)

Spec == Init /\ [][Next]_vars

(* The scheduler runs every worker and every client that can run; users    *)
(* need not give commands.                                                 *)
Fairness == \A c \in Client : WF_vars(WorkerStep(c)) /\ WF_vars(ClientStep(c))
FairSpec == Spec /\ Fairness

-----------------------------------------------------------------------------
Steps == {"recv", "create", "close", "mkdir", "delete", "login"}
Waits == {"idle", "put", "delete", "ls", "list", "get", "rest", "mkdir"}

TypeOK ==
  /\ perms \in Logins
  /\ entry \in [Name -> {"none", "file", "dir"}]
  /\ pc \in [Client -> Steps]
  /\ handle \in [Client -> {"none", "linked", "orphan"}]
  /\ waiting \in [Client -> Waits]
  /\ count \in [Client -> 0 .. MaxCommands]
  /\ \A n \in Name : Len(text[n]) <= MaxLength /\ made[n] \in Nat

(* A client that has not used ls and that no worker answered twice, for a  *)
(* delete without the permission, reads with each command the answer to    *)
(* that command, and finds nothing left over when it gives the next one,   *)
(* whatever it may do, whichever of its requests are refused at what point *)
(* and for whatever a get or a mkdir is taken.                             *)
InStep ==
  \A c \in Client : ~astray[c] =>
    /\ told[c].of = told[c].read
    /\ waiting[c] = "idle" => down[c] = <<>>

(* Of all the clients that ask for a directory, between two removals of    *)
(* its name, exactly one is told that it was made, although each of them   *)
(* may have looked before the other made it.                               *)
MadeOnce == \A n \in Name : made[n] = IF entry[n] = "dir" THEN 1 ELSE 0

(* When no put has it open any more, a file holds the text of the put that *)
(* opened it last and nothing of what was there before, unless two puts    *)
(* had it open at once; this although the answer is sent before the text   *)
(* is written, and a file may be removed or made anew in between.          *)
FileIsOnePut ==
  \A n \in Name :
    entry[n] = "file" /\ ~mixed[n]
      /\ (\A c \in Client : handle[c] = "linked" => req[c].name # n)
      => text[n] = [i \in 1 .. writer[n].length |-> [by |-> writer[n].by, block |-> i]]

(* put, delete and ls always get something to read and come to an end,     *)
(* unless the worker has taken a get or a mkdir for a login and waits for  *)
(* the rest of that: then it takes them for it.                            *)
Answered ==
  \A c \in Client : waiting[c] \in {"put", "delete", "ls"} ~>
                      waiting[c] = "idle" \/ pc[c] = "login"
=============================================================================
