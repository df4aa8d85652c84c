-------------------------- MODULE Transfers_proofs --------------------------
(***************************************************************************)
(* Proofs about the two programs that carry files over a connection.       *)
(*                                                                         *)
(* RemoteFiles, for any number of clients with any permissions, any names  *)
(* and texts of any length: what workers that share a directory without a  *)
(* lock still guarantee about it.                                          *)
(*                                                                         *)
(* FtpTransfer: until the first file, and for that file, each side takes   *)
(* from its stream what the other meant, for any directory and any sizes,  *)
(* although an acknowledgement of eight bytes is read four bytes, or twice *)
(* four, at a time.                                                        *)
(***************************************************************************)
EXTENDS RemoteFiles, FtpTransfer, FiniteSetTheorems, SequenceTheorems, TLAPS

-----------------------------------------------------------------------------
(* The remote files of the chat server                                     *)


Block    == [by : Client, block : Nat]
Requests ==
  {r \in [op : {"body", "put", "delete", "ls", "get", "mkdir"},
          as : TakenAs \union {"put", "ls"}, name : AnyName,
          overwrite : BOOLEAN, length : Nat, k : Nat] :
     (r.op = "body" => r.as = "none") /\ (r.as = "ls" => r.op = "ls")}

DirectoryTypes ==
  /\ entry \in [Name -> {"none", "file", "dir"}]
  /\ text \in [Name -> Seq(Block)] /\ made \in [Name -> Nat]
  /\ writer \in [Name -> [by : Client \union {"nobody"}, length : Nat]]
  /\ mixed \in [Name -> BOOLEAN]

WorkerTypes ==
  /\ up \in [Client -> Seq(Requests)] /\ count \in [Client -> Nat]
  /\ pc \in [Client -> Steps] /\ req \in [Client -> Requests]
  /\ handle \in [Client -> {"none", "linked", "orphan"}]

Linked(c, n) == handle[c] = "linked" /\ req[c].name = n

(* A file is open only between the two steps of its put, and a file that is *)
(* open under its name is there.                                           *)
HandleInv ==
  \A c \in Client :
    /\ handle[c] # "none" => pc[c] = "close"
    /\ \A n \in Name : Linked(c, n) => entry[n] = "file"

(* A file that two puts never had open at once is being written by one put, *)
(* and is still empty, or holds what its last put brought.                 *)
WrittenInv ==
  \A n \in Name : entry[n] = "file" /\ ~mixed[n] =>
    /\ \A c \in Client : Linked(c, n) =>
         text[n] = <<>> /\ writer[n] = [by |-> c, length |-> req[c].length]
    /\ (\A c \in Client : ~Linked(c, n)) =>
         text[n] = [i \in 1 .. writer[n].length |-> [by |-> writer[n].by, block |-> i]]

FilesInv == DirectoryTypes /\ WorkerTypes /\ HandleInv /\ WrittenInv /\ MadeOnce

-----------------------------------------------------------------------------
(* What a put leaves in an empty file is its text, and in any file a text. *)
LEMMA OverProperties ==
  ASSUME NEW S, NEW old \in Seq(S), NEW new \in Seq(S)
  PROVE  Over(old, new) \in Seq(S) /\ Over(<<>>, new) = new
<1>1. SubSeq(old, Len(new) + 1, Len(old)) \in Seq(S)
  <2> DEFINE m == Len(new) + 1
  <2>1. m \in Nat /\ m >= 1 /\ Len(old) \in Nat
    OBVIOUS
  <2>2. SubSeq(old, m, Len(old)) = [i \in 1 .. (1 + Len(old) - m) |-> old[i + m - 1]]
    BY <2>1
  <2>3. \A i \in 1 .. (1 + Len(old) - m) : old[i + m - 1] \in S
    BY <2>1
  <2> HIDE DEF m
  <2> QED
    BY <2>1, <2>2, <2>3 DEF m
<1>2. SubSeq(<<>>, Len(new) + 1, Len(<<>>)) = <<>>
  OBVIOUS
<1> QED
  BY <1>1, <1>2 DEF Over

(* A handler that goes on or ends keeps its request well-typed.            *)
LEMMA ServesProperties ==
  ASSUME WorkerTypes, NEW c \in Client, NEW step \in Steps, Serves(c, step),
         pc[c] = "recv" => up[c] # <<>>
  PROVE  /\ pc' \in [Client -> Steps] /\ req' \in [Client -> Requests]
         /\ pc'[c] = step
         /\ \A d \in Client \ {c} : pc'[d] = pc[d] /\ req'[d] = req[d]
<1>1. Serving(c) \in Requests
  BY DEF Serving, First, WorkerTypes
<1>2. Body \in Requests
  BY DEF Body, Request, Requests, AnyName, TakenAs
<1> QED
  BY <1>1, <1>2 DEF Serves, WorkerTypes

LEMMA TakesProperties ==
  ASSUME WorkerTypes, NEW c \in Client, NEW n \in {1, 2}, Takes(c, n)
  PROVE  up' \in [Client -> Seq(Requests)]
<1>1. SubSeq(up[c], n + 1, Len(up[c])) \in Seq(Requests)
  <2>1. up[c] \in Seq(Requests)
    BY DEF WorkerTypes
  <2> HIDE DEF Requests
  <2> QED
    BY <2>1
<1> QED
  BY <1>1 DEF Takes, WorkerTypes

(* The directory starts empty and no worker has a file open.               *)
LEMMA FilesStart == Init => FilesInv
<1> SUFFICES ASSUME Init PROVE FilesInv
  OBVIOUS
<1>1. DirectoryTypes
  <2>1. <<>> \in Seq(Block)
    OBVIOUS
  <2>2. Nobody \in [by : Client \union {"nobody"}, length : Nat]
    BY DEF Nobody
  <2> QED
    BY <2>1, <2>2 DEF Init, DirectoryTypes
<1>2. WorkerTypes
  <2>1. Body \in Requests
    BY DEF Body, Request, Requests, AnyName, TakenAs
  <2>2. <<>> \in Seq(Requests)
    OBVIOUS
  <2> QED
    BY <2>1, <2>2 DEF Init, WorkerTypes, Steps
<1> QED
  BY <1>1, <1>2 DEF Init, FilesInv, HandleInv, WrittenInv, MadeOnce, Linked

(* A step that leaves the directory and all open files alone keeps what is *)
(* said of them, when the worker that takes it has no file open.           *)
LEMMA OwnStep ==
  ASSUME FilesInv, NEW c \in Client, pc[c] # "close",
         UNCHANGED <<files, handle>>, WorkerTypes',
         \A d \in Client \ {c} : pc'[d] = pc[d] /\ req'[d] = req[d]
  PROVE  FilesInv'
<1> USE DEF FilesInv, files
<1>1. DirectoryTypes' /\ MadeOnce'
  BY DEF DirectoryTypes, MadeOnce
<1>2. handle[c] = "none"
  BY DEF HandleInv
<1>3. \A d \in Client, n \in Name : Linked(d, n)' <=> Linked(d, n)
  BY <1>2 DEF Linked
<1>4. HandleInv'
  BY <1>2, <1>3 DEF HandleInv
<1>5. \A d \in Client, n \in Name : Linked(d, n) => req'[d] = req[d]
  BY <1>2 DEF Linked
<1>6. WrittenInv'
  BY <1>3, <1>5 DEF WrittenInv
<1> QED
  BY <1>1, <1>4, <1>6

(* A command sends a request and its body.                                 *)
LEMMA TwoMore ==
  ASSUME NEW S, NEW s \in Seq(S), NEW x \in S, NEW y \in S
  PROVE  s \o <<x, y>> \in Seq(S)
OBVIOUS

(* What users and clients do reaches the streams and nothing else.         *)
LEMMA OutsideSteps ==
  ASSUME FilesInv, NEW c \in Client, UserStep(c) \/ ClientStep(c)
  PROVE  FilesInv'
<1> USE DEF FilesInv
<1>1. UNCHANGED <<files, pc, req, handle>>
  BY DEF UserStep, ClientStep, do_put, do_delete, do_ls, do_get, do_mkdir, Command,
         ReadAnswer, ReadGet, ReadCode, ReadList, Read
<1>2. up' \in [Client -> Seq(Requests)] /\ count' \in [Client -> Nat]
  <2>1. CASE UNCHANGED <<up, count>>
    BY <2>1 DEF WorkerTypes
  <2>2. ASSUME NEW op \in {"put", "delete", "ls", "get", "mkdir"},
               NEW as \in TakenAs \union {"put", "ls"}, as = "ls" => op = "ls", NEW n \in AnyName,
               NEW overwrite \in BOOLEAN, NEW length \in Nat,
               Command(c, op, as, n, overwrite, length)
        PROVE  up' \in [Client -> Seq(Requests)] /\ count' \in [Client -> Nat]
    <3>1. count[c] + 1 \in Nat
      BY DEF WorkerTypes
    <3>2. Request(op, as, n, overwrite, length, count[c] + 1) \in Requests /\ Body \in Requests
      BY <2>2, <3>1 DEF Request, Body, Requests, AnyName, TakenAs
    <3>3. up[c] \o <<Request(op, as, n, overwrite, length, count[c] + 1), Body>> \in Seq(Requests)
      BY <3>2, TwoMore DEF WorkerTypes
    <3> QED
      BY <2>2, <3>1, <3>3 DEF Command, WorkerTypes
  <2>3. CASE UserStep(c)
    <3>1. \A length \in 1 .. MaxLength : length \in Nat
      BY RemoteFilesAssumption
    <3> QED
      BY <2>2, <2>3, <3>1 DEF UserStep, do_put, do_delete, do_ls, do_get, do_mkdir, AnyName, TakenAs
  <2>4. CASE ClientStep(c)
    BY <2>1, <2>4 DEF ClientStep, ReadAnswer, ReadGet, ReadCode, ReadList, Read
  <2> QED
    BY <2>3, <2>4
<1>3. WorkerTypes'
  BY <1>1, <1>2 DEF WorkerTypes
<1>4. DirectoryTypes' /\ HandleInv' /\ WrittenInv' /\ MadeOnce'
  BY <1>1 DEF files, DirectoryTypes, HandleInv, WrittenInv, MadeOnce, Linked
<1> QED
  BY <1>3, <1>4

(* The first step of a handler, and a refusal, only look at the directory. *)
LEMMA LookingSteps ==
  ASSUME FilesInv, NEW c \in Client,
         \/ SkipBytes(c) \/ put_file(c) \/ make_directory(c)
         \/ delete_remote(c) \/ DeleteRefused(c)
         \/ RefuseOther(c) \/ AwaitLogin(c) \/ LoginTakes(c)
  PROVE  FilesInv'
<1> USE DEF FilesInv
<1>1. pc[c] # "close" /\ UNCHANGED <<files, handle, count>>
  BY DEF SkipBytes, put_file, make_directory, delete_remote, DeleteRefused, Arrived, ClientKept,
         RefuseOther, AwaitLogin, LoginTakes
<1>2. ASSUME NEW n \in {1, 2}, NEW step \in Steps, up' = up \/ Takes(c, n),
             Serves(c, step), pc[c] = "recv" => up[c] # <<>>
      PROVE  FilesInv'
  <2>1. up' \in [Client -> Seq(Requests)]
    BY <1>2, TakesProperties DEF WorkerTypes
  <2>2. /\ pc' \in [Client -> Steps] /\ req' \in [Client -> Requests]
        /\ \A d \in Client \ {c} : pc'[d] = pc[d] /\ req'[d] = req[d]
    BY <1>2, ServesProperties
  <2>3. WorkerTypes'
    BY <1>1, <2>1, <2>2 DEF WorkerTypes
  <2> QED
    BY <1>1, <2>2, <2>3, OwnStep
<1>3. ASSUME up' \in [Client -> Seq(Requests)], UNCHANGED <<pc, req>> PROVE FilesInv'
  <2>1. WorkerTypes'
    BY <1>1, <1>3 DEF WorkerTypes
  <2> QED
    BY <1>1, <1>3, <2>1, OwnStep
<1>4. ASSUME NEW op, Arrived(c, op) PROVE pc[c] = "recv" /\ up[c] # <<>>
  BY <1>4 DEF Arrived
<1>5. CASE SkipBytes(c)
  <2>1. up[c] # <<>> /\ up[c] \in Seq(Requests)
    BY <1>5 DEF SkipBytes, Arrived, WorkerTypes
  <2>2. Tail(up[c]) \in Seq(Requests)
    <3> HIDE DEF Requests
    <3> QED
      BY <2>1
  <2>3. up' \in [Client -> Seq(Requests)] /\ UNCHANGED <<pc, req>>
    BY <1>5, <2>2 DEF SkipBytes, WorkerTypes
  <2> QED
    BY <1>3, <2>3
<1>6. ASSUME NEW op, Arrived(c, op), Refuse(c) PROVE FilesInv'
  BY <1>3, <1>6, TakesProperties DEF Refuse
<1>7. ASSUME NEW op, Arrived(c, op), NEW found, NEW step \in Steps, Look(c, found, step)
      PROVE  FilesInv'
  <2>1. Takes(c, 2) /\ \E to \in Steps : Serves(c, to)
    BY <1>7 DEF Look, Steps
  <2> QED
    BY <1>2, <1>4, <1>7, <2>1
<1>8. CASE put_file(c)
  BY <1>6, <1>7, <1>8 DEF put_file, Steps
<1>9. CASE make_directory(c)
  BY <1>6, <1>7, <1>9 DEF make_directory, Steps
<1>10. CASE delete_remote(c)
  BY <1>2, <1>4, <1>10 DEF delete_remote, Steps
<1>11. CASE DeleteRefused(c)
  BY <1>2, <1>11 DEF DeleteRefused, Steps
<1>12. CASE RefuseOther(c)
  BY <1>3, <1>12, TakesProperties DEF RefuseOther
<1>13. CASE AwaitLogin(c)
  BY <1>2, <1>4, <1>13 DEF AwaitLogin, Steps
<1>14. CASE LoginTakes(c)
  <2>1. Takes(c, 2) /\ pc[c] # "recv" /\ (UNCHANGED <<pc, req>> \/ Serves(c, "recv"))
    BY <1>14 DEF LoginTakes
  <2> QED
    BY <1>2, <1>3, <2>1, TakesProperties DEF Steps
<1> QED
  BY <1>5, <1>8, <1>9, <1>10, <1>11, <1>12, <1>13, <1>14

(* open_file for writing, by put_file.                                     *)
LEMMA CreatingStep ==
  ASSUME FilesInv, NEW c \in Client, PutCreate(c)
  PROVE  FilesInv'
<1> USE DEF FilesInv
<1> DEFINE n == req[c].name
<1>1. pc[c] = "create" /\ handle[c] = "none" /\ UNCHANGED <<up, count>>
  BY DEF PutCreate, HandleInv, ClientKept
<1>2. CASE entry[n] = "dir"
  <2>1. UNCHANGED <<files, handle>> /\ Serves(c, "recv")
    BY <1>2 DEF PutCreate
  <2>2. /\ pc' \in [Client -> Steps] /\ req' \in [Client -> Requests]
        /\ \A d \in Client \ {c} : pc'[d] = pc[d] /\ req'[d] = req[d]
    BY <1>1, <2>1, ServesProperties DEF Steps
  <2>3. WorkerTypes'
    BY <1>1, <2>1, <2>2 DEF WorkerTypes
  <2> QED
    BY <1>1, <2>1, <2>2, <2>3, OwnStep
<1>3. CASE entry[n] # "dir"
  <2>1. /\ entry' = [entry EXCEPT ![n] = "file"] /\ text' = [text EXCEPT ![n] = <<>>]
        /\ handle' = [handle EXCEPT ![c] = "linked"]
        /\ writer' = [writer EXCEPT ![n] = [by |-> c, length |-> req[c].length]]
        /\ mixed' = [mixed EXCEPT ![n] = Others(c, n) # {}]
        /\ made' = made /\ Serves(c, "close")
    BY <1>3 DEF PutCreate, Emptied
  <2>2. /\ pc' \in [Client -> Steps] /\ req' \in [Client -> Requests] /\ pc'[c] = "close"
        /\ \A d \in Client \ {c} : pc'[d] = pc[d] /\ req'[d] = req[d]
    BY <1>1, <2>1, ServesProperties DEF Steps
  <2>3. req'[c] = req[c]
    BY <1>1, <2>1 DEF Serves, Serving, WorkerTypes
  <2>4. WorkerTypes'
    BY <1>1, <2>1, <2>2 DEF WorkerTypes
  <2>5. DirectoryTypes'
    <3>1. [by |-> c, length |-> req[c].length] \in [by : Client \union {"nobody"}, length : Nat]
      BY DEF WorkerTypes, Requests
    <3>2. <<>> \in Seq(Block) /\ (Others(c, n) # {}) \in BOOLEAN
      OBVIOUS
    <3> HIDE DEF n
    <3> QED
      BY <2>1, <3>1, <3>2 DEF DirectoryTypes
  <2>6. \A d \in Client \ {c}, m \in Name : Linked(d, m)' <=> Linked(d, m)
    BY <2>1, <2>2 DEF Linked, WorkerTypes
  <2>7. \A m \in Name : Linked(c, m)' <=> m = n
    BY <2>1, <2>3 DEF Linked, WorkerTypes
  <2>8. HandleInv'
    BY <2>1, <2>2, <2>6, <2>7 DEF HandleInv, DirectoryTypes, WorkerTypes
  <2>9. MadeOnce'
    BY <1>3, <2>1 DEF MadeOnce, DirectoryTypes
  <2>10. WrittenInv'
    <3> SUFFICES ASSUME NEW m \in Name, entry'[m] = "file", ~mixed'[m]
                 PROVE  /\ \A d \in Client : Linked(d, m)' =>
                             /\ text'[m] = <<>>
                             /\ writer'[m] = [by |-> d, length |-> req'[d].length]
                        /\ (\A d \in Client : ~Linked(d, m)') =>
                             text'[m] = [i \in 1 .. writer'[m].length |->
                                           [by |-> writer'[m].by, block |-> i]]
      BY DEF WrittenInv
    <3>1. CASE m = n
      <4>1. Others(c, n) = {}
        BY <2>1, <3>1 DEF DirectoryTypes
      <4>2. \A d \in Client \ {c} : ~Linked(d, m)'
        BY <2>6, <3>1, <4>1 DEF Others, Linked
      <4>3. text'[m] = <<>> /\ writer'[m] = [by |-> c, length |-> req'[c].length]
        BY <2>1, <2>3, <3>1 DEF DirectoryTypes
      <4> QED
        BY <2>7, <3>1, <4>2, <4>3
    <3>2. CASE m # n
      <4>1. UNCHANGED <<entry[m], text[m], writer[m], mixed[m]>>
        BY <2>1, <3>2 DEF DirectoryTypes
      <4>2. \A d \in Client : Linked(d, m)' <=> Linked(d, m)
        BY <1>1, <2>6, <2>7, <3>2 DEF Linked
      <4>3. \A d \in Client : req'[d] = req[d]
        BY <2>2, <2>3
      <4> QED
        BY <4>1, <4>2, <4>3 DEF WrittenInv
    <3> QED
      BY <3>1, <3>2
  <2> QED
    BY <2>4, <2>5, <2>8, <2>9, <2>10
<1> QED
  BY <1>2, <1>3

(* close_file, by put_file: only now is there text in the file.            *)
LEMMA ClosingStep ==
  ASSUME FilesInv, NEW c \in Client, PutClose(c)
  PROVE  FilesInv'
<1> USE DEF FilesInv
<1> DEFINE n == req[c].name
<1>1. /\ pc[c] = "close" /\ UNCHANGED <<entry, made, writer, mixed, up, count>>
      /\ handle' = [handle EXCEPT ![c] = "none"] /\ Serves(c, "recv")
      /\ text' = IF handle[c] = "linked" THEN [text EXCEPT ![n] = Over(@, Blocks(c))] ELSE text
  BY DEF PutClose, ClientKept
<1>2. /\ pc' \in [Client -> Steps] /\ req' \in [Client -> Requests]
      /\ \A d \in Client \ {c} : pc'[d] = pc[d] /\ req'[d] = req[d]
  BY <1>1, ServesProperties DEF Steps
<1>3. WorkerTypes'
  BY <1>1, <1>2 DEF WorkerTypes
<1>4. Blocks(c) \in Seq(Block) /\ Len(Blocks(c)) = req[c].length
  <2>1. req[c].length \in Nat
    BY DEF WorkerTypes, Requests
  <2>2. \A i \in 1 .. req[c].length : [by |-> c, block |-> i] \in Block
    BY <2>1 DEF Block
  <2>3. Blocks(c) \in [1 .. req[c].length -> Block]
    BY <2>2 DEF Blocks
  <2> HIDE DEF Block
  <2> QED
    BY <2>1, <2>3
<1>5. \A old \in Seq(Block) : Over(old, Blocks(c)) \in Seq(Block)
  BY <1>4, OverProperties
<1>6. Over(<<>>, Blocks(c)) = Blocks(c)
  BY <1>4, OverProperties
<1>7. DirectoryTypes'
  <2>1. CASE handle[c] = "linked" /\ n \in Name
    <3>1. text[n] \in Seq(Block)
      BY <2>1 DEF DirectoryTypes
    <3>2. Over(text[n], Blocks(c)) \in Seq(Block)
      BY <1>5, <3>1
    <3> HIDE DEF n
    <3> QED
      BY <1>1, <2>1, <3>2 DEF DirectoryTypes
  <2>2. CASE handle[c] # "linked" \/ n \notin Name
    <3>1. text' = text
      BY <1>1, <2>2 DEF DirectoryTypes
    <3> QED
      BY <1>1, <3>1 DEF DirectoryTypes
  <2> QED
    BY <2>1, <2>2
<1>8. /\ \A d \in Client \ {c}, m \in Name : Linked(d, m)' <=> Linked(d, m)
      /\ \A m \in Name : ~Linked(c, m)'
  BY <1>1, <1>2 DEF Linked, WorkerTypes
<1>9. HandleInv' /\ MadeOnce'
  BY <1>1, <1>2, <1>8 DEF HandleInv, MadeOnce, WorkerTypes
<1>10. WrittenInv'
  <2> SUFFICES ASSUME NEW m \in Name, entry[m] = "file", ~mixed[m]
               PROVE  /\ \A d \in Client : Linked(d, m)' =>
                           /\ text'[m] = <<>>
                           /\ writer[m] = [by |-> d, length |-> req'[d].length]
                      /\ (\A d \in Client : ~Linked(d, m)') =>
                           text'[m] = [i \in 1 .. writer[m].length |->
                                         [by |-> writer[m].by, block |-> i]]
    BY <1>1 DEF WrittenInv
  <2>1. CASE Linked(c, m)
    <3>1. text[m] = <<>> /\ writer[m] = [by |-> c, length |-> req[c].length]
      BY <2>1 DEF WrittenInv
    <3>2. text'[m] = Blocks(c)
      BY <1>1, <1>6, <2>1, <3>1 DEF Linked, DirectoryTypes
    <3>3. Blocks(c) = [i \in 1 .. writer[m].length |-> [by |-> writer[m].by, block |-> i]]
      BY <3>1 DEF Blocks
    <3>4. \A d \in Client \ {c} : ~Linked(d, m)'
      <4> SUFFICES ASSUME NEW d \in Client \ {c}, Linked(d, m) PROVE FALSE
        BY <1>8
      <4>1. d \in Client /\ Linked(d, m)
        OBVIOUS
      <4>2. writer[m] = [by |-> d, length |-> req[d].length]
        BY <4>1 DEF WrittenInv
      <4>3. [by |-> c, length |-> req[c].length].by = [by |-> d, length |-> req[d].length].by
        BY <3>1, <4>2
      <4> QED
        BY <4>3
    <3> QED
      BY <1>8, <3>2, <3>3, <3>4
  <2>2. CASE ~Linked(c, m)
    <3>1. text'[m] = text[m]
      BY <1>1, <2>2 DEF Linked, DirectoryTypes
    <3>2. \A d \in Client : Linked(d, m)' <=> Linked(d, m)
      BY <1>8, <2>2
    <3>3. \A d \in Client : Linked(d, m) => req'[d] = req[d]
      BY <1>2, <2>2
    <3> QED
      BY <3>1, <3>2, <3>3 DEF WrittenInv
  <2> QED
    BY <2>1, <2>2
<1> QED
  BY <1>3, <1>7, <1>9, <1>10

(* mkdir, by make_directory.                                               *)
LEMMA MakingStep ==
  ASSUME FilesInv, NEW c \in Client, MakeMkdir(c)
  PROVE  FilesInv'
<1> USE DEF FilesInv
<1> DEFINE n == req[c].name
<1>1. /\ pc[c] = "mkdir" /\ handle[c] = "none" /\ Serves(c, "recv")
      /\ UNCHANGED <<up, count, handle, text, writer, mixed>>
  BY DEF MakeMkdir, HandleInv, ClientKept, files
<1>2. /\ pc' \in [Client -> Steps] /\ req' \in [Client -> Requests]
      /\ \A d \in Client \ {c} : pc'[d] = pc[d] /\ req'[d] = req[d]
  BY <1>1, ServesProperties DEF Steps
<1>3. WorkerTypes'
  BY <1>1, <1>2 DEF WorkerTypes
<1>4. CASE entry[n] # "none"
  BY <1>1, <1>2, <1>3, <1>4, OwnStep DEF MakeMkdir, files
<1>5. CASE entry[n] = "none"
  <2>1. entry' = [entry EXCEPT ![n] = "dir"] /\ made' = [made EXCEPT ![n] = @ + 1]
    BY <1>5 DEF MakeMkdir
  <2>2. DirectoryTypes'
    <3>1. made' \in [Name -> Nat]
      <4>1. made \in [Name -> Nat] /\ \A m \in Name : made[m] + 1 \in Nat
        BY DEF DirectoryTypes
      <4> HIDE DEF n
      <4> QED
        BY <2>1, <4>1
    <3>2. entry' \in [Name -> {"none", "file", "dir"}]
      BY <2>1 DEF DirectoryTypes
    <3> QED
      BY <1>1, <3>1, <3>2 DEF DirectoryTypes
  <2>3. MadeOnce'
    BY <1>5, <2>1 DEF MadeOnce, DirectoryTypes
  <2>4. \A d \in Client, m \in Name : Linked(d, m)' <=> Linked(d, m)
    BY <1>1, <1>2 DEF Linked
  <2>5. \A d \in Client, m \in Name : Linked(d, m) => req'[d] = req[d] /\ m # n
    BY <1>1, <1>2, <1>5 DEF Linked, HandleInv
  <2>6. HandleInv'
    BY <1>1, <1>2, <2>1, <2>4, <2>5, ZenonT(40) DEF HandleInv, DirectoryTypes
  <2>7. WrittenInv'
    <3>1. \A m \in Name : entry'[m] = "file" => entry[m] = "file"
      BY <2>1 DEF DirectoryTypes
    <3> QED
      BY <1>1, <2>4, <2>5, <3>1 DEF WrittenInv
  <2> QED
    BY <1>3, <2>2, <2>3, <2>6, <2>7
<1> QED
  BY <1>4, <1>5

(* remove, by delete_remote: open files lose their names.                  *)
LEMMA RemovingStep ==
  ASSUME FilesInv, NEW c \in Client, DeleteRemove(c)
  PROVE  FilesInv'
<1> USE DEF FilesInv
<1> DEFINE n == req[c].name
<1>1. pc[c] = "delete" /\ handle[c] = "none" /\ count' = count /\ Takes(c, 1) /\ Serves(c, "recv")
  BY DEF DeleteRemove, HandleInv, ClientKept
<1>2. /\ pc' \in [Client -> Steps] /\ req' \in [Client -> Requests]
      /\ \A d \in Client \ {c} : pc'[d] = pc[d] /\ req'[d] = req[d]
  BY <1>1, ServesProperties DEF Steps
<1>3. up' \in [Client -> Seq(Requests)]
  BY <1>1, TakesProperties
<1>4. CASE entry[n] = "none"
  <2>1. UNCHANGED <<files, handle>>
    BY <1>4 DEF DeleteRemove
  <2>2. WorkerTypes'
    BY <1>1, <1>2, <1>3, <2>1 DEF WorkerTypes
  <2> QED
    BY <1>1, <1>2, <2>1, <2>2, OwnStep
<1>5. CASE entry[n] # "none"
  <2>1. /\ entry' = [entry EXCEPT ![n] = "none"] /\ text' = [text EXCEPT ![n] = <<>>]
        /\ made' = [made EXCEPT ![n] = 0] /\ writer' = [writer EXCEPT ![n] = Nobody]
        /\ mixed' = [mixed EXCEPT ![n] = FALSE]
        /\ handle' = [d \in Client |-> IF d \in Others(c, n) THEN "orphan" ELSE handle[d]]
    BY <1>5 DEF DeleteRemove, Emptied
  <2>2. WorkerTypes'
    BY <1>1, <1>2, <1>3, <2>1 DEF WorkerTypes
  <2>3. DirectoryTypes'
    <3>1. <<>> \in Seq(Block) /\ Nobody \in [by : Client \union {"nobody"}, length : Nat]
      BY DEF Nobody
    <3> HIDE DEF n
    <3> QED
      BY <2>1, <3>1 DEF DirectoryTypes
  <2>4. MadeOnce'
    BY <2>1 DEF MadeOnce, DirectoryTypes
  <2>5. \A d \in Client, m \in Name : Linked(d, m)' <=> Linked(d, m) /\ m # n
    BY <1>1, <1>2, <2>1 DEF Linked, Others
  <2>6. \A d \in Client : handle[d] = "linked" => req'[d] = req[d]
    BY <1>1, <1>2
  <2>7. HandleInv'
    BY <1>1, <1>2, <2>1, <2>5, ZenonT(40) DEF HandleInv, DirectoryTypes, Others
  <2>8. WrittenInv'
    <3> SUFFICES ASSUME NEW m \in Name, entry'[m] = "file", ~mixed'[m]
                 PROVE  /\ \A d \in Client : Linked(d, m)' =>
                             /\ text'[m] = <<>>
                             /\ writer'[m] = [by |-> d, length |-> req'[d].length]
                        /\ (\A d \in Client : ~Linked(d, m)') =>
                             text'[m] = [i \in 1 .. writer'[m].length |->
                                           [by |-> writer'[m].by, block |-> i]]
      BY DEF WrittenInv
    <3>1. m # n /\ UNCHANGED <<entry[m], text[m], writer[m], mixed[m]>>
      BY <2>1 DEF DirectoryTypes
    <3>2. \A d \in Client : Linked(d, m)' <=> Linked(d, m)
      BY <2>5, <3>1
    <3>3. \A d \in Client : Linked(d, m) => req'[d] = req[d]
      BY <2>6 DEF Linked
    <3> QED
      BY <3>1, <3>2, <3>3 DEF WrittenInv
  <2> QED
    BY <2>2, <2>3, <2>4, <2>7, <2>8
<1> QED
  BY <1>4, <1>5

-----------------------------------------------------------------------------
(* The invariant behind the two theorems below: what the directory holds,  *)
(* which files are open, and whose text is in them.                        *)
THEOREM FilesInvariant == Spec => []FilesInv
<1>1. FilesInv /\ [Next]_vars => FilesInv'
  <2>1. CASE UNCHANGED vars
    BY <2>1 DEF vars, FilesInv, DirectoryTypes, WorkerTypes, HandleInv, WrittenInv,
               MadeOnce, Linked
  <2>2. ASSUME FilesInv, NEW c \in Client, UserStep(c) \/ ClientStep(c) \/ WorkerStep(c)
        PROVE  FilesInv'
    BY <2>2, OutsideSteps, LookingSteps, CreatingStep, ClosingStep, MakingStep, RemovingStep
       DEF WorkerStep
  <2> QED
    BY <2>1, <2>2 DEF Next
<1> QED
  BY <1>1, FilesStart, PTL DEF Spec

(* Of any number of clients that ask for one directory at any time, exactly *)
(* one is told that it was made, until it is removed (chat.c 851-868).     *)
THEOREM DirectoriesMadeOnce == Spec => []MadeOnce
<1>1. FilesInv => MadeOnce
  BY DEF FilesInv
<1> QED
  BY <1>1, FilesInvariant, PTL

(* A file that no two puts had open at once holds the text of its last put *)
(* when that is over, however long the texts are and whatever was removed  *)
(* or made in between (chat.c 734-778).                                    *)
THEOREM FilesAreOnePut == Spec => []FileIsOnePut
<1>1. FilesInv => FileIsOnePut
  BY DEF FilesInv, WrittenInv, FileIsOnePut, Linked
<1> QED
  BY <1>1, FilesInvariant, PTL
-----------------------------------------------------------------------------
(* The two streams of a connection, for a client that is not astray.       *)

Byte == [v : Nat, of : Nat]

StreamTypes ==
  /\ down \in [Client -> Seq(Byte)] /\ told \in [Client -> [read : Nat, of : Nat]]
  /\ waiting \in [Client -> Waits] /\ astray \in [Client -> BOOLEAN]

(* Where in the stream to the worker a header is, and not the body of one. *)
Headers(c) == {i \in 1 .. Len(up[c]) : up[c][i].op # "body"}

(* A request goes from the stream to the worker and its answer comes back; *)
(* only in one of the three places is there anything of it, and nothing of *)
(* any other request: what may lie about are bodies of refused requests.   *)
(* A put is answered before its file is closed, so a worker that closes    *)
(* has its request behind it, as one that receives has.  Of an answer, get *)
(* takes a byte and then the other five.                                   *)
OnItsWay(c) == \A i \in Headers(c) : up[c][i].op = waiting[c] /\ up[c][i].k = count[c]
InHand(c)   == waiting[c] = req[c].op /\ req[c].k = count[c]
AllOf(c)    == /\ waiting[c] \in {"put", "delete", "get", "mkdir"}
               /\ \E code \in Nat : down[c] = Answer(code, count[c])
Back(c)     == AllOf(c) \/ (waiting[c] = "rest" /\ Len(down[c]) = 5)

OneConversation(c) ==
  /\ waiting[c] \in {"idle", "put", "delete", "get", "rest", "mkdir"}
  /\ told[c].of = told[c].read
  /\ OnItsWay(c) /\ \A i, j \in Headers(c) : i = j
  /\ Headers(c) # {} => pc[c] \in {"recv", "close"} /\ down[c] = <<>> /\ waiting[c] # "idle"
  /\ pc[c] \notin {"recv", "close"} =>
       pc[c] \in {"create", "delete", "login"} /\ InHand(c) /\ down[c] = <<>>
  /\ down[c] # <<>> => Back(c)

StreamsInv ==
  /\ FilesInv /\ StreamTypes
  /\ \A c \in Client : ~astray[c] => OneConversation(c)

(* What recv leaves of a stream                                            *)
LEMMA RestProperties ==
  ASSUME NEW S, NEW s \in Seq(S), NEW n \in Nat, NEW r, r = SubSeq(s, n + 1, Len(s))
  PROVE  /\ r \in Seq(S)
         /\ Len(r) = IF n < Len(s) THEN Len(s) - n ELSE 0
         /\ \A i \in 1 .. Len(r) : i + n \in 1 .. Len(s) /\ r[i] = s[i + n]
<1> DEFINE m == n + 1
<1>1. m \in Nat /\ m >= 1 /\ Len(s) \in Nat
  OBVIOUS
<1>2. r = [i \in 1 .. (1 + Len(s) - m) |-> s[i + m - 1]]
  BY <1>1
<1>3. \A i \in 1 .. (1 + Len(s) - m) : s[i + m - 1] \in S
  BY <1>1
<1>4. r \in Seq(S) /\ Len(r) = IF n < Len(s) THEN Len(s) - n ELSE 0
  BY <1>1, <1>2, <1>3
<1>5. \A i \in 1 .. Len(r) : i + n \in 1 .. Len(s) /\ r[i] = s[i + n]
  BY <1>1, <1>2, <1>4
<1> QED
  BY <1>4, <1>5

(* What recv takes begins as the stream does                               *)
LEMMA TakenBegins ==
  ASSUME NEW S, NEW s \in Seq(S), NEW n \in Nat \ {0}, n <= Len(s)
  PROVE  SubSeq(s, 1, n)[1] = s[1] /\ 1 \in 1 .. Len(s)
<1>1. Len(s) \in Nat
  OBVIOUS
<1>2. SubSeq(s, 1, n) = [i \in 1 .. (1 + n - 1) |-> s[i + 1 - 1]]
  BY <1>1
<1>3. 1 \in 1 .. (1 + n - 1) /\ 1 + 1 - 1 = 1
  OBVIOUS
<1> QED
  BY <1>1, <1>2, <1>3

LEMMA AnswerProperties ==
  ASSUME NEW code \in Nat, NEW k \in Nat
  PROVE  /\ Answer(code, k) \in Seq(Byte)
         /\ Len(Answer(code, k)) = 6 /\ Answer(code, k)[1].of = k
<1> DEFINE byte(i) == [v |-> IF i = 1 THEN code ELSE 0, of |-> k]
<1>1. \A i \in 1 .. 6 : byte(i) \in Byte
  BY DEF Byte
<1>2. byte(1).of = k
  OBVIOUS
<1>3. Answer(code, k) = [i \in 1 .. 6 |-> byte(i)]
  BY DEF Answer
<1> HIDE DEF byte, Byte
<1>4. Answer(code, k) \in Seq(Byte) /\ Len(Answer(code, k)) = 6
  BY <1>1, <1>3
<1> QED
  BY <1>2, <1>3, <1>4

(* The worker's own step: an answer to its request, or none                *)
LEMMA WorkerAnswers ==
  ASSUME FilesInv, NEW c \in Client, WorkerStep(c)
  PROVE  /\ down' = down \/ \E code \in Nat : server_response(c, code)
         /\ Serving(c).k \in Nat
         /\ UNCHANGED <<perms, waiting, count, told>>
         /\ astray' = astray \/ astray' = [astray EXCEPT ![c] = @ \/ perms[c] < 3]
<1>1. pc[c] = "recv" => up[c] # <<>>
  BY DEF WorkerStep, SkipBytes, put_file, PutCreate, PutClose, make_directory, MakeMkdir,
         delete_remote, DeleteRefused, DeleteRemove,
         RefuseOther, AwaitLogin, LoginTakes, Arrived
<1>2. Serving(c).k \in Nat
  <2>1. Serving(c) \in Requests
    BY <1>1 DEF Serving, First, FilesInv, WorkerTypes
  <2> QED
    BY <2>1 DEF Requests
<1>3. Refusal(c) \in Nat
  BY DEF Refusal
<1>4. down' = down \/ \E code \in Nat : server_response(c, code)
  <2>1. ASSUME NEW op, Arrived(c, op), Refuse(c) PROVE \E code \in Nat : server_response(c, code)
    BY <1>3, <2>1 DEF Refuse
  <2>2. ASSUME NEW found, NEW step, Look(c, found, step)
        PROVE  down' = down \/ \E code \in Nat : server_response(c, code)
    BY <2>2 DEF Look
  <2>3. CASE SkipBytes(c) \/ PutClose(c)
    BY <2>3 DEF SkipBytes, PutClose
  <2>4. CASE put_file(c) \/ make_directory(c)
    BY <2>1, <2>2, <2>4 DEF put_file, make_directory
  <2>5. CASE PutCreate(c)
    BY <2>5 DEF PutCreate
  <2>6. CASE MakeMkdir(c)
    BY <2>6 DEF MakeMkdir
  <2>7. CASE delete_remote(c)
    BY <2>7 DEF delete_remote
  <2>8. CASE DeleteRefused(c)
    <3>1. 2 \in Nat /\ 255 \in Nat
      OBVIOUS
    <3> QED
      BY <2>8, <3>1 DEF DeleteRefused
  <2>9. CASE DeleteRemove(c)
    BY <2>9 DEF DeleteRemove
  <2>10. CASE RefuseOther(c)
    BY <2>10 DEF RefuseOther
  <2>11. CASE AwaitLogin(c)
    BY <2>11 DEF AwaitLogin
  <2>12. CASE LoginTakes(c)
    BY <2>12 DEF LoginTakes
  <2> QED
    BY <2>3, <2>4, <2>5, <2>6, <2>7, <2>8, <2>9, <2>10, <2>11, <2>12 DEF WorkerStep
<1>5. UNCHANGED <<perms, waiting, count, told>>
  BY DEF WorkerStep, SkipBytes, put_file, PutCreate, PutClose, make_directory, MakeMkdir,
         delete_remote, DeleteRefused, DeleteRemove,
         RefuseOther, AwaitLogin, LoginTakes, ClientKept
<1>6. astray' = astray \/ astray' = [astray EXCEPT ![c] = @ \/ perms[c] < 3]
  <2>1. CASE delete_remote(c)
    BY <2>1 DEF delete_remote
  <2>2. CASE ~delete_remote(c)
    BY <2>2 DEF WorkerStep, SkipBytes, put_file, PutCreate, PutClose, make_directory, MakeMkdir,
         DeleteRefused, DeleteRemove, RefuseOther, AwaitLogin, LoginTakes, ClientKept
  <2> QED
    BY <2>1, <2>2
<1> QED
  BY <1>2, <1>4, <1>5, <1>6

(* The client's own step: it reads from the front                          *)
LEMMA ClientReads ==
  ASSUME FilesInv, StreamTypes, NEW c \in Client, ClientStep(c)
  PROVE  /\ StreamTypes' /\ UNCHANGED <<perms, files, up, pc, req, handle, count, astray>>
         /\ \A d \in Client \ {c} : UNCHANGED <<down[d], told[d], waiting[d]>>
<1>1. down[c] \in Seq(Byte) /\ count[c] \in Nat /\ \A n \in Nat : Rest(c, n) \in Seq(Byte)
  <2>1. down[c] \in Seq(Byte) /\ count[c] \in Nat
    BY DEF StreamTypes, FilesInv, WorkerTypes
  <2> QED
    BY <2>1, RestProperties DEF Rest
<1>2. ASSUME NEW n \in {1, 6}, Read(c, n)
      PROVE  /\ down' \in [Client -> Seq(Byte)] /\ told' \in [Client -> [read : Nat, of : Nat]]
             /\ \A d \in Client \ {c} : UNCHANGED <<down[d], told[d]>>
  <2>1. ASSUME ~(Len(down[c]) < n) PROVE Taken(c, n)[1].of \in Nat
    <3>1. Taken(c, n) = SubSeq(down[c], 1, n)
      BY <2>1, Zenon DEF Taken
    <3>2. down[c] \in Seq(Byte)
      BY <1>1, Zenon
    <3>3. Len(down[c]) \in Nat /\ n \in Nat \ {0}
      <4>1. Len(down[c]) \in Nat
        BY <3>2
      <4> QED
        BY <4>1
    <3>4. n <= Len(down[c])
      BY <2>1, <3>3
    <3>5. SubSeq(down[c], 1, n)[1] = down[c][1] /\ 1 \in 1 .. Len(down[c])
      BY <3>2, <3>3, <3>4, TakenBegins, ZenonT(30)
    <3>6. down[c][1] \in Byte
      BY <3>2, <3>5
    <3>7. down[c][1].of \in Nat
      BY <3>6 DEF Byte
    <3> QED
      BY <3>1, <3>5, <3>7
  <2>2. (IF Len(down[c]) < n THEN NoTold ELSE [read |-> count[c], of |-> Taken(c, n)[1].of])
          \in [read : Nat, of : Nat]
    BY <1>1, <2>1 DEF NoTold
  <2>3. Rest(c, n) \in Seq(Byte)
    BY <1>1
  <2> QED
    BY <1>2, <2>2, <2>3 DEF Read, StreamTypes
<1>3. CASE ReadAnswer(c)
  BY <1>2, <1>3 DEF ReadAnswer, Read, ClientStep, StreamTypes, Waits
<1>4. CASE ReadGet(c)
  <2>1. CASE Read(c, 1) /\ waiting' = [waiting EXCEPT ![c] = "rest"]
    BY <1>2, <2>1 DEF Read, ClientStep, StreamTypes, Waits
  <2>2. CASE /\ down' = [down EXCEPT ![c] = Rest(c, 5)] /\ waiting' = [waiting EXCEPT ![c] = "idle"]
             /\ UNCHANGED <<files, up, pc, req, handle, count, told, astray>>
    <3>1. Rest(c, 5) \in Seq(Byte)
      BY <1>1
    <3> QED
      BY <2>2, <3>1 DEF ClientStep, StreamTypes, Waits
  <2> QED
    BY <1>4, <2>1, <2>2 DEF ReadGet
<1>5. CASE ReadCode(c)
  BY <1>2, <1>5 DEF ReadCode, Read, ClientStep, StreamTypes, Waits
<1>6. CASE ReadList(c)
  <2>1. <<>> \in Seq(Byte)
    OBVIOUS
  <2> QED
    BY <1>6, <2>1 DEF ReadList, ClientStep, StreamTypes, Waits
<1> QED
  BY <1>3, <1>4, <1>5, <1>6 DEF ClientStep

(* Headers after the worker took from the front, if there was one at most  *)
LEMMA HeadersTaken ==
  ASSUME WorkerTypes, NEW c \in Client, NEW n \in {1, 2},
         up'[c] = SubSeq(up[c], n + 1, Len(up[c]))
  PROVE  \A i \in Headers(c)' : i + n \in Headers(c) /\ up'[c][i] = up[c][i + n]
<1>1. up[c] \in Seq(Requests)
  BY DEF WorkerTypes
<1>2. \A i \in 1 .. Len(up'[c]) : i + n \in 1 .. Len(up[c]) /\ up'[c][i] = up[c][i + n]
  <2> HIDE DEF Requests
  <2>1. n \in Nat
    OBVIOUS
  <2> QED
    BY <1>1, <2>1, RestProperties, SMTT(30)
<1> QED
  BY <1>2 DEF Headers

(* A command finds nothing left over and adds one header.                  *)
LEMMA CommandStep ==
  ASSUME StreamsInv, NEW c \in Client, UserStep(c), ~astray'[c]
  PROVE  OneConversation(c)'
<1>1. FilesInv /\ StreamTypes /\ WorkerTypes /\ UNCHANGED <<perms, down, pc, req, told>>
  BY DEF StreamsInv, FilesInv, UserStep, do_put, do_delete, do_ls, do_get, do_mkdir, Command
<1>2. ASSUME NEW op \in {"put", "delete", "get", "mkdir"},
             NEW as \in TakenAs \union {"put"}, NEW n \in AnyName,
             NEW overwrite \in BOOLEAN, NEW length \in Nat,
             Command(c, op, as, n, overwrite, length), UNCHANGED astray
      PROVE  OneConversation(c)'
  <2> DEFINE r == Request(op, as, n, overwrite, length, count[c] + 1)
  <2>1. /\ waiting[c] = "idle" /\ waiting' = [waiting EXCEPT ![c] = op]
        /\ count' = [count EXCEPT ![c] = @ + 1]
        /\ up' = [up EXCEPT ![c] = @ \o <<r, Body>>]
    BY <1>2 DEF Command
  <2>2. OneConversation(c)
    BY <1>2 DEF StreamsInv
  <2>3. /\ Headers(c) = {} /\ down[c] = <<>> /\ pc[c] \in {"recv", "close"}
        /\ told[c].of = told[c].read
    <3>1. req[c].op # "idle"
      BY <1>1 DEF WorkerTypes, Requests
    <3> QED
      BY <2>1, <2>2, <3>1 DEF OneConversation, Back, AllOf, InHand
  <2>4. count[c] + 1 \in Nat /\ count'[c] = count[c] + 1 /\ waiting'[c] = op
    BY <1>1, <2>1 DEF WorkerTypes, StreamTypes
  <2>5. r \in Requests /\ Body \in Requests /\ r.op = op /\ r.k = count'[c] /\ Body.op = "body"
    BY <2>4 DEF Request, Body, Requests, AnyName, TakenAs
  <2> HIDE DEF r
  <2>6. up[c] \in Seq(Requests) /\ up'[c] = up[c] \o <<r, Body>>
    BY <1>1, <2>1 DEF WorkerTypes
  <2>7. /\ Len(up'[c]) = Len(up[c]) + 2 /\ Len(up[c]) \in Nat
        /\ \A i \in 1 .. Len(up[c]) : up'[c][i] = up[c][i]
        /\ up'[c][Len(up[c]) + 1] = r /\ up'[c][Len(up[c]) + 2] = Body
    <3> HIDE DEF Requests
    <3> QED
      BY <2>5, <2>6
  <2>8. ASSUME NEW i \in Headers(c)' PROVE i = Len(up[c]) + 1
    <3>1. i \in 1 .. Len(up'[c]) /\ up'[c][i].op # "body"
      BY DEF Headers
    <3>2. i \notin 1 .. Len(up[c])
      BY <2>3, <2>7, <3>1 DEF Headers
    <3>3. i # Len(up[c]) + 2
      BY <2>5, <2>7, <3>1
    <3> QED
      BY <2>7, <3>1, <3>2, <3>3
  <2>9. OnItsWay(c)' /\ \A i, j \in Headers(c)' : i = j
    BY <2>4, <2>5, <2>7, <2>8 DEF OnItsWay
  <2> QED
    BY <1>1, <2>3, <2>4, <2>9 DEF OneConversation
<1>3. ASSUME NEW n, do_ls(c, n) PROVE FALSE
  BY <1>1, <1>3 DEF do_ls, StreamTypes
<1>4. \A length \in 1 .. MaxLength : length \in Nat
  BY RemoteFilesAssumption
<1> QED
  BY <1>2, <1>3, <1>4 DEF UserStep, do_put, do_delete, do_get, do_mkdir, AnyName, TakenAs

(* The client takes the whole answer, and it is the one to its command.    *)
LEMMA ReadingStep ==
  ASSUME StreamsInv, NEW c \in Client, ClientStep(c), ~astray[c]
  PROVE  OneConversation(c)'
<1>1. FilesInv /\ StreamTypes /\ WorkerTypes /\ UNCHANGED <<up, pc, req, count>>
  BY ClientReads DEF StreamsInv, FilesInv
<1>2. OneConversation(c)
  BY DEF StreamsInv
<1>3. down[c] # <<>>
  <2>1. Len(<<>>) = 0
    OBVIOUS
  <2>2. Len(down[c]) \in 1 .. 14 => down[c] # <<>>
    <3>1. down[c] = <<>> => Len(down[c]) = 0
      BY <2>1, Zenon
    <3>2. 0 \notin 1 .. 14
      OBVIOUS
    <3> QED
      BY <3>1, <3>2, Zenon
  <2>3. ReadList(c) => down[c] # <<>>
    BY <2>2, Zenon DEF ReadList
  <2>4. \A n : Read(c, n) => down[c] # <<>>
    BY Zenon DEF Read
  <2> QED
    BY <2>3, <2>4, Zenon DEF ClientStep, ReadAnswer, ReadGet, ReadCode
<1>4. /\ Headers(c) = {} /\ pc[c] \in {"recv", "close"} /\ Back(c) /\ count[c] \in Nat
      /\ down[c] \in Seq(Byte) /\ told[c].of = told[c].read
  BY <1>1, <1>2, <1>3 DEF OneConversation, WorkerTypes, StreamTypes
<1>5. Headers(c)' = {}
  BY <1>1, <1>4 DEF Headers
(* The first n bytes of a whole answer are those of the answer             *)
<1>6. ASSUME NEW n \in {1, 6}, AllOf(c), Read(c, n)
      PROVE  /\ told'[c].of = told'[c].read
             /\ down'[c] \in Seq(Byte) /\ Len(down'[c]) = 6 - n
  <2>1. PICK code \in Nat : down[c] = Answer(code, count[c])
    BY <1>6 DEF AllOf
  <2>2. Len(down[c]) = 6 /\ down[c][1].of = count[c]
    <3>1. count[c] \in Nat
      BY <1>4
    <3>2. Len(Answer(code, count[c])) = 6 /\ Answer(code, count[c])[1].of = count[c]
      BY <3>1, AnswerProperties, Zenon
    <3> QED
      BY <2>1, <3>2, Zenon
  <2>3. Taken(c, n) = SubSeq(down[c], 1, n)
    BY <2>2 DEF Taken
  <2>4. Taken(c, n)[1] = down[c][1]
    <3>1. PICK m \in Nat \ {0} : m = n /\ m <= Len(down[c])
      BY <2>2
    <3> HIDE DEF Byte
    <3>2. SubSeq(down[c], 1, m)[1] = down[c][1]
      BY <1>4, <3>1, TakenBegins
    <3> QED
      BY <2>3, <3>1, <3>2
  <2>5. told' = [told EXCEPT ![c] = [read |-> count[c], of |-> Taken(c, n)[1].of]]
    <3>1. ~(Len(down[c]) < n)
      BY <2>2
    <3> QED
      BY <1>6, <3>1, Zenon DEF Read
  <2>6. down' = [down EXCEPT ![c] = Rest(c, n)]
    BY <1>6 DEF Read
  <2>7. Rest(c, n) \in Seq(Byte) /\ Len(Rest(c, n)) = 6 - n
    <3> DEFINE r == SubSeq(down[c], n + 1, Len(down[c]))
    <3>1. n \in Nat
      OBVIOUS
    <3>2. r \in Seq(Byte) /\ Len(r) = IF n < Len(down[c]) THEN Len(down[c]) - n ELSE 0
      <4> HIDE DEF Byte
      <4> QED
        BY <1>4, <3>1, RestProperties
    <3> QED
      BY <2>2, <3>2 DEF Rest
  <2>8. told'[c] = [read |-> count[c], of |-> count[c]] /\ down'[c] = Rest(c, n)
    BY <1>1, <2>2, <2>4, <2>5, <2>6 DEF StreamTypes
  <2> QED
    BY <2>7, <2>8
<1>7. ASSUME NEW s \in Seq(Byte), Len(s) = 0 PROVE s = <<>>
  <2> HIDE DEF Byte
  <2> QED
    BY <1>7
<1>8. CASE AllOf(c) /\ ReadAnswer(c)
  <2>1. waiting'[c] = "idle" /\ Read(c, 6)
    BY <1>1, <1>8 DEF ReadAnswer, StreamTypes
  <2>2. told'[c].of = told'[c].read /\ down'[c] = <<>>
    BY <1>6, <1>7, <1>8, <2>1
  <2> QED
    BY <1>1, <1>4, <1>5, <2>1, <2>2 DEF OneConversation, OnItsWay
<1>9. CASE AllOf(c) /\ ReadGet(c)
  <2>1. waiting'[c] = "rest" /\ Read(c, 1)
    BY <1>1, <1>9 DEF ReadGet, AllOf, StreamTypes
  <2>2. told'[c].of = told'[c].read /\ Len(down'[c]) = 6 - 1
    BY <1>6, <1>9, <2>1
  <2> QED
    BY <1>1, <1>4, <1>5, <2>1, <2>2 DEF OneConversation, OnItsWay, Back
<1>10. CASE waiting[c] = "rest" /\ Len(down[c]) = 5
  <2>1. /\ down' = [down EXCEPT ![c] = Rest(c, 5)] /\ told' = told
        /\ waiting' = [waiting EXCEPT ![c] = "idle"]
    BY <1>10 DEF ClientStep, ReadAnswer, ReadGet, ReadCode, ReadList
  <2>2. Rest(c, 5) = <<>>
    <3>1. Rest(c, 5) = SubSeq(down[c], 6, 5)
      BY <1>10 DEF Rest
    <3> QED
      BY <3>1
  <2>3. down'[c] = <<>> /\ waiting'[c] = "idle"
    BY <1>1, <2>1, <2>2 DEF StreamTypes
  <2> QED
    BY <1>1, <1>4, <1>5, <2>1, <2>3 DEF OneConversation, OnItsWay
<1>11. AllOf(c) => ReadAnswer(c) \/ ReadGet(c)
  BY DEF AllOf, ClientStep, ReadAnswer, ReadGet, ReadCode, ReadList
<1> QED
  BY <1>4, <1>8, <1>9, <1>10, <1>11 DEF Back

(* The worker takes the header, has the request in hand, and answers it    *)
(* once: by looking, by creating, or when it deletes.                      *)
LEMMA ServingStep ==
  ASSUME StreamsInv, NEW c \in Client, WorkerStep(c), ~astray'[c]
  PROVE  OneConversation(c)'
<1>1. FilesInv /\ StreamTypes /\ WorkerTypes /\ OneConversation(c) /\ count[c] \in Nat
  <2>1. FilesInv /\ StreamTypes /\ WorkerTypes /\ count[c] \in Nat
    BY DEF StreamsInv, FilesInv, WorkerTypes
  <2>2. ~astray[c]
    BY <2>1, WorkerAnswers DEF StreamTypes
  <2> QED
    BY <2>1, <2>2 DEF StreamsInv
<1>2. UNCHANGED <<perms, waiting, count, told>>
  BY <1>1, WorkerAnswers
<1>3. /\ waiting[c] \in {"idle", "put", "delete", "get", "rest", "mkdir"}
      /\ told[c].of = told[c].read
      /\ OnItsWay(c) /\ \A i, j \in Headers(c) : i = j
  BY <1>1 DEF OneConversation
(* A header that is at the front is the only one, and the worker's answer  *)
(* to its request finds the stream to the client empty                     *)
<1>4. ASSUME pc[c] = "recv", up[c] # <<>>, First(c).op # "body"
      PROVE  /\ Headers(c) = {1} /\ First(c).op = waiting[c] /\ First(c).k = count[c]
             /\ down[c] = <<>> /\ Serving(c) = First(c) /\ First(c) \in Requests
             /\ waiting[c] \in {"put", "delete", "get", "mkdir"}
  <2>1. up[c] \in Seq(Requests)
    BY <1>1 DEF WorkerTypes
  <2>2. First(c) = up[c][1] /\ 1 \in 1 .. Len(up[c]) /\ First(c) \in Requests
    <3> HIDE DEF Requests
    <3> QED
      BY <1>4, <2>1 DEF First
  <2>3. 1 \in Headers(c)
    BY <1>4, <2>2 DEF Headers
  <2>4. Headers(c) = {1}
    BY <1>3, <2>3
  <2>5. First(c).op = waiting[c] /\ First(c).k = count[c]
    BY <1>3, <2>2, <2>3 DEF OnItsWay
  <2>6. First(c).op \in {"body", "put", "delete", "ls", "get", "mkdir"}
    BY <2>2 DEF Requests
  <2>7. waiting[c] \in {"put", "delete", "get", "mkdir"}
    BY <1>3, <2>5, <2>6, <1>4
  <2>8. down[c] = <<>>
    BY <1>1, <2>3 DEF OneConversation
  <2> QED
    BY <1>4, <2>2, <2>4, <2>5, <2>7, <2>8 DEF Serving
<1>5. ASSUME NEW n \in {1, 2}, Takes(c, n)
      PROVE  /\ \A i \in Headers(c)' : i + n \in Headers(c) /\ up'[c][i] = up[c][i + n]
             /\ Headers(c)' \in SUBSET Nat
  <2>1. up'[c] = SubSeq(up[c], n + 1, Len(up[c]))
    BY <1>1, <1>5 DEF Takes, WorkerTypes
  <2>2. Headers(c)' \in SUBSET Nat
    BY DEF Headers
  <2> QED
    BY <1>1, <2>1, <2>2, HeadersTaken
<1>6. ASSUME NEW n \in {1, 2}, Takes(c, n), Headers(c) \in {{}, {1}} PROVE Headers(c)' = {}
  <2>1. ASSUME NEW i \in Headers(c)' PROVE FALSE
    <3>1. i \in 1 .. Len(up'[c])
      BY DEF Headers
    <3>2. i + n = 1
      BY <1>5, <1>6
    <3> QED
      BY <3>1, <3>2
  <2> QED
    BY <2>1
<1>7. ASSUME NEW code \in Nat, server_response(c, code), down[c] = <<>>, Serving(c).k = count[c],
             waiting[c] \in {"put", "delete", "get", "mkdir"}, pc'[c] \in {"recv", "close"}, Headers(c)' = {}
      PROVE  OneConversation(c)'
  <2>1. Answer(code, count[c]) \in Seq(Byte)
    BY <1>1, AnswerProperties
  <2>2. down' = [down EXCEPT ![c] = down[c] \o Answer(code, count[c])]
    BY <1>7 DEF server_response
  <2>3. <<>> \o Answer(code, count[c]) = Answer(code, count[c])
    <3> HIDE DEF Byte
    <3> QED
      BY <2>1
  <2>4. down'[c] = Answer(code, count[c])
    BY <1>1, <1>7, <2>2, <2>3 DEF StreamTypes
  <2>5. Back(c)'
    BY <1>2, <1>7, <2>4 DEF Back, AllOf
  <2> QED
    BY <1>2, <1>3, <1>7, <2>5 DEF OneConversation, OnItsWay
(* A request that is not answered yet is in hand                           *)
<1>8. ASSUME pc[c] \in {"create", "delete", "login"}
      PROVE  /\ InHand(c) /\ down[c] = <<>> /\ Headers(c) = {}
             /\ Serving(c).k = count[c] /\ waiting[c] \in {"put", "delete", "get", "mkdir"}
  <2>1. InHand(c) /\ down[c] = <<>> /\ Headers(c) = {}
    BY <1>1, <1>8 DEF OneConversation
  <2>2. req[c].op \in {"body", "put", "delete", "ls", "get", "mkdir"}
    BY <1>1 DEF WorkerTypes, Requests
  <2> QED
    BY <1>3, <1>8, <2>1, <2>2 DEF InHand, Serving
<1>9. ASSUME NEW step, Serves(c, step)
      PROVE  pc'[c] = step /\ (step # "recv" => req'[c] = Serving(c))
  BY <1>1, <1>9 DEF Serves, WorkerTypes
<1>10. ASSUME NEW step \in {"create", "delete", "login"}, Serves(c, step), Headers(c)' = {},
              down' = down, down[c] = <<>>, Serving(c).k = count[c],
              waiting[c] = Serving(c).op
       PROVE  OneConversation(c)'
  BY <1>2, <1>3, <1>9, <1>10 DEF OneConversation, OnItsWay, InHand
<1>11. CASE SkipBytes(c)
  <2>1. up' = [up EXCEPT ![c] = Tail(@)] /\ UNCHANGED <<down, pc, req>> /\ up[c] # <<>>
        /\ pc[c] = "recv"
    BY <1>11 DEF SkipBytes, Arrived
  <2>2. Tail(up[c]) = SubSeq(up[c], 1 + 1, Len(up[c]))
    <3>1. up[c] \in Seq(Requests)
      BY <1>1 DEF WorkerTypes
    <3> HIDE DEF Requests
    <3> QED
      BY <2>1, <3>1
  <2>3. Takes(c, 1)
    BY <2>1, <2>2 DEF Takes
  <2>4. /\ \A i \in Headers(c)' : i + 1 \in Headers(c) /\ up'[c][i] = up[c][i + 1]
        /\ Headers(c)' \in SUBSET Nat
    BY <1>5, <2>3
  <2>5. OnItsWay(c)'
    BY <1>2, <1>3, <2>4 DEF OnItsWay
  <2>6. ASSUME NEW i \in Headers(c)', NEW j \in Headers(c)' PROVE i = j
    <3>1. i + 1 = j + 1 /\ i \in Nat /\ j \in Nat
      BY <1>3, <2>4
    <3> QED
      BY <3>1
  <2>7. Headers(c)' # {} => Headers(c) # {}
    BY <2>4
  <2> QED
    BY <1>1, <1>2, <2>1, <2>5, <2>6, <2>7 DEF OneConversation, Back, AllOf
(* An operation takes what is not a body.                                  *)
<1>19. ASSUME NEW as, Arrived(c, as), as # "none"
       PROVE  /\ Headers(c) = {1} /\ waiting[c] \in {"put", "delete", "get", "mkdir"}
              /\ waiting[c] = Serving(c).op /\ down[c] = <<>> /\ pc[c] = "recv"
              /\ Serving(c).k = count[c] /\ as # "ls"
  <2>1. pc[c] = "recv" /\ up[c] # <<>> /\ First(c).as = as
    BY <1>19 DEF Arrived
  <2>2. up[c] \in Seq(Requests)
    BY <1>1 DEF WorkerTypes
  <2>3. First(c) \in Requests
    <3> HIDE DEF Requests
    <3> QED
      BY <2>1, <2>2 DEF First
  <2>4. First(c).op # "body" /\ (as = "ls" => First(c).op = "ls")
    BY <1>19, <2>1, <2>3 DEF Requests
  <2> QED
    BY <1>4, <2>1, <2>4
<1>12. CASE put_file(c)
  <2>1. /\ Headers(c) = {1} /\ waiting[c] \in {"put", "delete", "get", "mkdir"}
        /\ waiting[c] = Serving(c).op /\ down[c] = <<>> /\ pc[c] = "recv"
        /\ Serving(c).k = count[c]
    BY <1>12, <1>19 DEF put_file
  <2>2. CASE Refuse(c)
    <3>1. Takes(c, 1) /\ server_response(c, Refusal(c)) /\ pc' = pc
      BY <2>2 DEF Refuse
    <3>2. Refusal(c) \in Nat
      BY DEF Refusal
    <3>3. Headers(c)' = {}
      BY <1>6, <2>1, <3>1
    <3> QED
      BY <1>7, <2>1, <3>1, <3>2, <3>3
  <2>3. ASSUME NEW found, Look(c, found, "create") PROVE OneConversation(c)'
    <3>1. Takes(c, 2) /\ IF found THEN Serves(c, "recv") /\ server_response(c, 5)
                                 ELSE Serves(c, "create") /\ UNCHANGED down
      BY <2>3 DEF Look
    <3>2. Headers(c)' = {}
      BY <1>6, <2>1, <3>1
    <3>3. CASE Serves(c, "recv") /\ server_response(c, 5)
      BY <1>7, <1>9, <2>1, <3>2, <3>3
    <3>4. CASE Serves(c, "create") /\ UNCHANGED down
      BY <1>10, <2>1, <3>2, <3>4
    <3> QED
      BY <3>1, <3>3, <3>4
  <2> QED
    BY <1>12, <2>2, <2>3 DEF put_file
<1>13. CASE PutCreate(c)
  <2>1. pc[c] = "create" /\ up' = up
    BY <1>13 DEF PutCreate
  <2>2. Headers(c)' = {}
    BY <1>8, <2>1 DEF Headers
  <2>3. \/ server_response(c, 255) /\ Serves(c, "recv")
        \/ server_response(c, 1) /\ Serves(c, "close")
    BY <1>13 DEF PutCreate
  <2> QED
    BY <1>7, <1>8, <1>9, <2>1, <2>2, <2>3
<1>14. CASE PutClose(c)
  <2>1. pc[c] = "close" /\ Serves(c, "recv") /\ UNCHANGED <<up, down>>
    BY <1>14 DEF PutClose
  <2>2. pc'[c] = "recv"
    BY <1>9, <2>1
  <2> QED
    BY <1>1, <1>2, <2>1, <2>2 DEF OneConversation, OnItsWay, Headers, Back, AllOf
<1>15. ~make_directory(c) /\ ~MakeMkdir(c)
  <2>1. ~Arrived(c, "ls")
    BY <1>19
  <2> QED
    BY <1>1, <2>1 DEF make_directory, MakeMkdir, OneConversation
<1>16. CASE delete_remote(c)
  <2>1. /\ Headers(c) = {1} /\ waiting[c] = Serving(c).op /\ down[c] = <<>>
        /\ Serving(c).k = count[c]
    BY <1>16, <1>19 DEF delete_remote
  <2>2. Takes(c, 1) /\ Serves(c, "delete") /\ down' = down
    <3>1. astray'[c] = (astray[c] \/ perms[c] < 3)
      BY <1>1, <1>16 DEF delete_remote, StreamTypes
    <3>2. ~(perms[c] < 3)
      BY <3>1
    <3> QED
      BY <1>16, <3>2, Zenon DEF delete_remote
  <2>3. Headers(c)' = {}
    BY <1>6, <2>1, <2>2
  <2> QED
    BY <1>10, <2>1, <2>2, <2>3
<1>17. CASE DeleteRefused(c)
  <2>1. pc[c] = "delete" /\ up' = up /\ Serves(c, "recv") /\ \E code \in {2, 255} : server_response(c, code)
    BY <1>17 DEF DeleteRefused
  <2>2. Headers(c)' = {}
    BY <1>8, <2>1 DEF Headers
  <2> QED
    BY <1>7, <1>8, <1>9, <2>1, <2>2
<1>18. CASE DeleteRemove(c)
  <2>1. pc[c] = "delete" /\ Takes(c, 1) /\ Serves(c, "recv") /\ \E code \in {1, 255} : server_response(c, code)
    BY <1>18 DEF DeleteRemove
  <2>2. Headers(c)' = {}
    BY <1>6, <1>8, <2>1
  <2> QED
    BY <1>7, <1>8, <1>9, <2>1, <2>2
<1>20. CASE RefuseOther(c)
  <2>1. /\ Headers(c) = {1} /\ waiting[c] \in {"put", "delete", "get", "mkdir"}
        /\ down[c] = <<>> /\ pc[c] = "recv" /\ Serving(c).k = count[c]
    BY <1>19, <1>20 DEF RefuseOther
  <2>2. Takes(c, 2) /\ pc' = pc /\ \E code \in {2, 255} : server_response(c, code)
    BY <1>20 DEF RefuseOther
  <2>3. Headers(c)' = {}
    BY <1>6, <2>1, <2>2
  <2> QED
    BY <1>7, <2>1, <2>2, <2>3
<1>21. CASE AwaitLogin(c)
  <2>1. /\ Headers(c) = {1} /\ waiting[c] = Serving(c).op /\ down[c] = <<>>
        /\ Serving(c).k = count[c]
    BY <1>19, <1>21 DEF AwaitLogin
  <2>2. Takes(c, 2) /\ Serves(c, "login") /\ down' = down
    BY <1>21 DEF AwaitLogin
  <2>3. Headers(c)' = {}
    BY <1>6, <2>1, <2>2
  <2> QED
    BY <1>10, <2>1, <2>2, <2>3
<1>22. CASE LoginTakes(c)
  <2>1. pc[c] = "login" /\ Takes(c, 2)
    BY <1>22 DEF LoginTakes
  <2>2. Headers(c)' = {}
    BY <1>6, <1>8, <2>1
  <2>3. CASE UNCHANGED <<down, pc, req>>
    BY <1>2, <1>3, <1>8, <2>1, <2>2, <2>3 DEF OneConversation, OnItsWay, InHand
  <2>4. CASE server_response(c, 255) /\ Serves(c, "recv")
    BY <1>7, <1>8, <1>9, <2>1, <2>2, <2>4
  <2> QED
    BY <1>22, <2>3, <2>4 DEF LoginTakes
<1> QED
  BY <1>11, <1>12, <1>13, <1>14, <1>15, <1>16, <1>17, <1>18, <1>20, <1>21, <1>22 DEF WorkerStep

(* Nobody else touches a client's connection.                              *)
LEMMA OtherConnections ==
  ASSUME StreamsInv, NEW d \in Client, UserStep(d) \/ ClientStep(d) \/ WorkerStep(d),
         NEW c \in Client, c # d
  PROVE  UNCHANGED <<up[c], down[c], pc[c], req[c], waiting[c], count[c], told[c], astray[c]>>
<1>1. FilesInv /\ StreamTypes /\ WorkerTypes
  BY DEF StreamsInv, FilesInv
<1>2. CASE UserStep(d)
  BY <1>1, <1>2, ZenonT(40) DEF UserStep, do_put, do_delete, do_ls, do_get, do_mkdir, Command,
                    WorkerTypes, StreamTypes
<1>3. CASE ClientStep(d)
  BY <1>1, <1>3, ClientReads
<1>4. CASE WorkerStep(d)
  <2>1. UNCHANGED <<down[c], waiting[c], count[c], told[c], astray[c]>>
    BY <1>1, <1>4, WorkerAnswers DEF server_response, StreamTypes
  <2>2. \A step : Serves(d, step) => UNCHANGED <<pc[c], req[c]>>
    BY <1>1 DEF Serves, WorkerTypes
  <2>3. \A n : Takes(d, n) => UNCHANGED up[c]
    BY <1>1 DEF Takes, WorkerTypes
  <2>4. Refuse(d) => UNCHANGED <<up[c], pc[c], req[c]>>
    BY <2>3 DEF Refuse
  <2>5. \A found, step : Look(d, found, step) => UNCHANGED <<up[c], pc[c], req[c]>>
    BY <2>2, <2>3 DEF Look
  <2>6. SkipBytes(d) \/ RefuseOther(d) => UNCHANGED <<up[c], pc[c], req[c]>>
    BY <1>1, <2>3 DEF SkipBytes, RefuseOther, WorkerTypes
  <2>7. UNCHANGED <<up[c], pc[c], req[c]>>
    BY <1>4, <2>2, <2>3, <2>4, <2>5, <2>6, ZenonT(40)
       DEF WorkerStep, put_file, PutCreate, PutClose, make_directory, MakeMkdir,
           delete_remote, DeleteRefused, DeleteRemove,
         RefuseOther, AwaitLogin, LoginTakes
  <2> QED
    BY <2>1, <2>7
<1> QED
  BY <1>2, <1>3, <1>4

LEMMA StreamsStart == Init => StreamsInv
<1> SUFFICES ASSUME Init PROVE StreamsInv
  OBVIOUS
<1>1. FilesInv
  BY FilesStart
<1>2. StreamTypes
  <2>1. <<>> \in Seq(Byte)
    OBVIOUS
  <2> QED
    BY <2>1 DEF Init, StreamTypes, NoTold, Waits
<1>3. ASSUME NEW c \in Client PROVE OneConversation(c)
  <2>1. Headers(c) = {}
    <3>1. Len(<<>>) = 0
      OBVIOUS
    <3> QED
      BY <3>1 DEF Init, Headers
  <2> QED
    BY <2>1 DEF Init, OneConversation, OnItsWay, NoTold
<1> QED
  BY <1>1, <1>2, <1>3 DEF StreamsInv

LEMMA StreamTypesNext ==
  ASSUME FilesInv, StreamTypes, NEW c \in Client, UserStep(c) \/ ClientStep(c) \/ WorkerStep(c)
  PROVE  StreamTypes'
<1>1. CASE UserStep(c)
  BY <1>1 DEF UserStep, do_put, do_delete, do_ls, do_get, do_mkdir, Command, StreamTypes, Waits
<1>2. CASE ClientStep(c)
  BY <1>2, ClientReads
<1>3. CASE WorkerStep(c)
  <2>1. ASSUME NEW code \in Nat, server_response(c, code) PROVE down' \in [Client -> Seq(Byte)]
    <3>1. down[c] \in Seq(Byte) /\ Answer(code, Serving(c).k) \in Seq(Byte)
      BY <1>3, AnswerProperties, WorkerAnswers DEF StreamTypes
    <3>2. down[c] \o Answer(code, Serving(c).k) \in Seq(Byte)
      <4> HIDE DEF Byte
      <4> QED
        BY <3>1
    <3> QED
      BY <2>1, <3>2 DEF server_response, StreamTypes
  <2> QED
    BY <1>3, <2>1, WorkerAnswers DEF StreamTypes
<1> QED
  BY <1>1, <1>2, <1>3

LEMMA StreamsNext == StreamsInv /\ FilesInv' /\ [Next]_vars => StreamsInv'
<1> SUFFICES ASSUME StreamsInv, FilesInv', [Next]_vars PROVE StreamsInv'
  OBVIOUS
<1>1. FilesInv /\ StreamTypes
  BY DEF StreamsInv
<1>2. CASE UNCHANGED vars
  BY <1>2 DEF vars, StreamsInv, StreamTypes, OneConversation, OnItsWay, InHand, Back, AllOf, Headers
<1>3. ASSUME NEW d \in Client, UserStep(d) \/ ClientStep(d) \/ WorkerStep(d) PROVE StreamsInv'
  <2>1. StreamTypes'
    BY <1>1, <1>3, StreamTypesNext
  <2>2. perms' = perms
    BY <1>3 DEF UserStep, ClientStep, WorkerStep
  <2>3. ASSUME NEW c \in Client, ~astray'[c] PROVE OneConversation(c)'
    <3>1. CASE c # d
      <4>1. UNCHANGED <<up[c], down[c], pc[c], req[c], waiting[c], count[c], told[c], astray[c]>>
        BY <1>3, <3>1, OtherConnections
      <4>2. OneConversation(c)
        BY <2>2, <2>3, <4>1 DEF StreamsInv
      <4> QED
        BY <4>1, <4>2 DEF OneConversation, OnItsWay, InHand, Back, AllOf, Headers
    <3>2. CASE c = d /\ UserStep(c)
      BY <2>2, <2>3, <3>2, CommandStep
    <3>3. CASE c = d /\ ClientStep(c)
      BY <1>1, <2>2, <2>3, <3>3, ReadingStep, ClientReads
    <3>4. CASE c = d /\ WorkerStep(c)
      BY <1>1, <2>2, <2>3, <3>4, ServingStep, WorkerAnswers
    <3> QED
      BY <1>3, <3>1, <3>2, <3>3, <3>4
  <2> QED
    BY <2>1, <2>3 DEF StreamsInv
<1> QED
  BY <1>2, <1>3 DEF Next

(* A client that never used ls, and never had a delete refused for the     *)
(* permission, reads with each command the answer to that command, in      *)
(* whatever order requests of any clients are served and refused, and for  *)
(* whatever a get or a mkdir is taken (client.py do_put, do_delete, do_get,*)
(* do_mkdir; chat.c handle_connection, put_file, delete_remote).           *)
THEOREM ClientsStayInStep == Spec => []InStep
<1>1. StreamsInv => InStep
  BY DEF StreamsInv, OneConversation, Back, AllOf, InStep
<1>2. Spec => []StreamsInv
  BY StreamsStart, StreamsNext, FilesInvariant, PTL DEF Spec
<1> QED
  BY <1>1, <1>2, PTL

-----------------------------------------------------------------------------
(* The older FTP server                                                    *)


Names == File \union Directory \union {Missing, Nothing}
Units == [kind : {"word", "creds", "name", "packet"}, n : Int, of : Names]

(* The types; the number of commands grows, and the first file is one.     *)
Types ==
  /\ toServer \in Seq(Units) /\ toClient \in Seq(Units)
  /\ name \in Names /\ packets \in Nat /\ sent \in Nat /\ listing \in Seq(File)
  /\ asked \in Names /\ expected \in Int /\ came \in Nat /\ copy \in Seq(Units)
  /\ commands \in Nat /\ served \in Nat /\ served <= commands

-----------------------------------------------------------------------------
(* Lemmas about the units and the streams                                  *)

LEMMA UnitTypes ==
  /\ \A n \in Int : Word(n) \in Units /\ Word(n).kind = "word" /\ Word(n).n = n
  /\ \A n \in Int : Unit("creds", n, Missing) \in Units
  /\ \A f \in Names : /\ Unit("name", 0, f) \in Units
                      /\ Unit("name", 0, f).kind = "name" /\ Unit("name", 0, f).of = f
  /\ \A f \in Names, i \in Int : Packet(f, i) \in Units /\ Packet(f, i).kind = "packet"
  BY DEF Word, Unit, Packet, Units, Names

LEMMA HeaderTypes ==
  ASSUME NEW a \in Int, NEW b \in Int
  PROVE  /\ Header(a, b) \in Seq(Units) /\ Len(Header(a, b)) = 2
         /\ Header(a, b)[1] = Word(a) /\ Header(a, b)[2] = Word(b)
         /\ \A i \in 1 .. 2 : Header(a, b)[i].kind = "word"
<1>1. Word(a) \in Units /\ Word(b) \in Units /\ Word(a).kind = "word" /\ Word(b).kind = "word"
  BY UnitTypes
<1> HIDE DEF Word, Units
<1>2. Header(a, b) \in Seq(Units) /\ Len(Header(a, b)) = 2
  BY <1>1 DEF Header
<1>3. Header(a, b)[1] = Word(a) /\ Header(a, b)[2] = Word(b)
  BY DEF Header
<1>4. \A i \in 1 .. 2 : i = 1 \/ i = 2
  OBVIOUS
<1> QED
  BY <1>1, <1>2, <1>3, <1>4

LEMMA OneUnit ==
  ASSUME NEW u \in Units
  PROVE  <<u>> \in Seq(Units) /\ Len(<<u>>) = 1 /\ <<u>>[1] = u
  OBVIOUS

(* The name that a get sends, if it sends one.                             *)
LEMMA NameSentTypes ==
  ASSUME NEW f \in Names
  PROVE  /\ NameSent(f) \in Seq(Units)
         /\ NameSent(f) # <<>> => NameSent(f) = <<Unit("name", 0, f)>>
<1>1. Unit("name", 0, f) \in Units
  BY UnitTypes
<1> HIDE DEF Units
<1>2. <<Unit("name", 0, f)>> \in Seq(Units) /\ <<>> \in Seq(Units)
  BY <1>1, OneUnit, EmptySeq
<1> QED
  BY <1>2 DEF NameSent

(* What recv takes is words, or nothing.                                   *)
LEMMA WordsTypes ==
  ASSUME NEW w \in Seq(Units), NEW n \in Nat
  PROVE  /\ Words(w, n) \in Seq(Units) /\ Beyond(w, Words(w, n)) \in Seq(Units)
         /\ \A i \in 1 .. Len(Words(w, n)) : Words(w, n)[i].n \in Int
<1> DEFINE got == Words(w, n)
           m == IF Len(w) < n THEN Len(w) ELSE n
<1>1. Len(w) \in Nat /\ \A i \in 1 .. Len(w) : w[i] \in Units
  BY LenProperties, ElementOfSeq
<1> HIDE DEF Units
<1>2. got = <<>> \/ got = SubSeq(w, 1, m)
  BY DEF Words
<1>3. SubSeq(w, 1, m) \in Seq(Units)
  <2>1. m \in Nat /\ \A i \in 1 .. m : w[i] \in Units
    BY <1>1
  <2> HIDE DEF m
  <2> QED
    BY <2>1, SubSeqProperties
<1>4. got \in Seq(Units)
  BY <1>2, <1>3, EmptySeq
<1> HIDE DEF got
<1>5. Len(got) \in Nat /\ \A i \in 1 .. Len(got) : got[i] \in Units
  BY <1>4, LenProperties, ElementOfSeq
<1>6. SubSeq(w, Len(got) + 1, Len(w)) \in Seq(Units)
  <2>1. \A i \in Len(got) + 1 .. Len(w) : w[i] \in Units
    BY <1>1, <1>5
  <2> QED
    BY <1>1, <1>5, <2>1, SubSeqProperties
<1> QED
  BY <1>4, <1>5, <1>6 DEF Beyond, got, Units

(* A sequence without its first m elements.                                *)
LEMMA UnreadProperties ==
  ASSUME NEW S, NEW s \in Seq(S), NEW m \in Nat, m <= Len(s),
         NEW r, r = SubSeq(s, m + 1, Len(s))
  PROVE  Len(r) = Len(s) - m /\ \A i \in 1 .. Len(s) - m : r[i] = s[i + m]
<1> DEFINE k == m + 1
<1>1. k \in Nat /\ k >= 1 /\ Len(s) \in Nat
  OBVIOUS
<1>2. r = [i \in 1 .. (1 + Len(s) - k) |-> s[i + k - 1]]
  BY <1>1
<1>3. \A i \in 1 .. (1 + Len(s) - k) : s[i + k - 1] \in S
  BY <1>1
<1>4. Len(r) = Len(s) - m
  BY <1>1, <1>2, <1>3
<1>5. \A i \in 1 .. Len(s) - m : r[i] = s[i + m]
  BY <1>1, <1>2
<1> QED
  BY <1>4, <1>5

(* As many words as there are, up to n.                                    *)
LEMMA WordsTaken ==
  ASSUME NEW w \in Seq(Units), NEW n \in Nat, NEW m \in Nat,
         (m = n /\ n <= Len(w)) \/ (m = Len(w) /\ m < n),
         \A i \in 1 .. m : w[i].kind = "word"
  PROVE  /\ Len(Words(w, n)) = m /\ \A i \in 1 .. m : Words(w, n)[i] = w[i]
         /\ Len(Beyond(w, Words(w, n))) = Len(w) - m
         /\ \A i \in 1 .. Len(w) - m : Beyond(w, Words(w, n))[i] = w[i + m]
<1> HIDE DEF Units
<1>1. Len(w) \in Nat /\ m <= Len(w) /\ \A i \in 1 .. Len(w) : w[i] \in Units
  BY LenProperties, ElementOfSeq
<1>2. Words(w, n) = SubSeq(w, 1, m)
  <2>1. m = IF Len(w) < n THEN Len(w) ELSE n
    BY <1>1
  <2> QED
    BY <2>1 DEF Words
<1>3. Len(Words(w, n)) = m /\ \A i \in 1 .. m : Words(w, n)[i] = w[i]
  <2>1. \A i \in 1 .. m : w[i] \in Units
    BY <1>1
  <2>2. Len(SubSeq(w, 1, m)) = m /\ \A i \in 1 .. m - 1 + 1 : SubSeq(w, 1, m)[i] = w[1 + i - 1]
    BY <1>1, <2>1, SubSeqProperties
  <2> QED
    BY <1>2, <2>2
<1>4. Beyond(w, Words(w, n)) = SubSeq(w, m + 1, Len(w))
  BY <1>3 DEF Beyond
<1>5. /\ Len(SubSeq(w, m + 1, Len(w))) = Len(w) - m
      /\ \A i \in 1 .. Len(w) - m : SubSeq(w, m + 1, Len(w))[i] = w[i + m]
  <2>1. PICK r : r = SubSeq(w, m + 1, Len(w))
    OBVIOUS
  <2>2. Len(r) = Len(w) - m /\ \A i \in 1 .. Len(w) - m : r[i] = w[i + m]
    BY <1>1, <2>1, UnreadProperties, ZenonT(60)
  <2> QED
    BY <2>1, <2>2, Zenon
<1> QED
  BY <1>3, <1>4, <1>5

(* As many words as are asked for, in front of the rest.                   *)
LEMMA FrontTaken ==
  ASSUME NEW z \in Seq(Units), NEW w \in Seq(Units),
         \A i \in 1 .. Len(z) : z[i].kind = "word"
  PROVE  z \o w \in Seq(Units) /\ Words(z \o w, Len(z)) = z /\ Beyond(z \o w, z) = w
<1> HIDE DEF Units
<1> DEFINE s == z \o w
           n == Len(z)
           got == Words(s, n)
           rest == Beyond(s, got)
<1>1. /\ s \in Seq(Units) /\ Len(s) = n + Len(w)
      /\ \A i \in 1 .. n + Len(w) : s[i] = IF i <= n THEN z[i] ELSE w[i - n]
  BY ConcatProperties
<1>2. n \in Nat /\ Len(w) \in Nat
  BY LenProperties
<1>3. n = Len(z) /\ \A i \in 1 .. n : z[i].kind = "word"
  OBVIOUS
<1> HIDE DEF n, s
<1>4. \A i \in 1 .. n : s[i] = z[i] /\ s[i].kind = "word"
  BY <1>1, <1>2, <1>3
<1>5. /\ got \in Seq(Units) /\ rest \in Seq(Units)
      /\ Len(got) = n /\ \A i \in 1 .. n : got[i] = s[i]
      /\ Len(rest) = Len(s) - n /\ \A i \in 1 .. Len(s) - n : rest[i] = s[i + n]
  <2>1. n <= Len(s)
    BY <1>1, <1>2
  <2>2. got \in Seq(Units) /\ rest \in Seq(Units)
    BY <1>1, <1>2, WordsTypes
  <2>3. (n = n /\ n <= Len(s)) \/ (n = Len(s) /\ n < n)
    BY <2>1
  <2>4. \A i \in 1 .. n : s[i].kind = "word"
    BY <1>4
  <2>5. /\ Len(got) = n /\ \A i \in 1 .. n : got[i] = s[i]
        /\ Len(rest) = Len(s) - n /\ \A i \in 1 .. Len(s) - n : rest[i] = s[i + n]
    BY <1>1, <1>2, <2>3, <2>4, WordsTaken
  <2> QED
    BY <2>2, <2>5
<1> HIDE DEF got, rest
<1>6. got = z
  BY <1>3, <1>4, <1>5, SeqEqual
<1>7. rest = w
  <2>1. Len(rest) = Len(w)
    BY <1>1, <1>2, <1>5
  <2>2. ASSUME NEW i \in 1 .. Len(w) PROVE rest[i] = w[i]
    <3>1. i \in 1 .. Len(s) - n /\ i + n \in 1 .. n + Len(w) /\ ~(i + n <= n) /\ (i + n) - n = i
      BY <1>1, <1>2
    <3>2. rest[i] = s[i + n]
      BY <1>5, <3>1
    <3>3. s[i + n] = w[(i + n) - n]
      BY <1>1, <3>1
    <3> QED
      BY <3>1, <3>2, <3>3
  <2> QED
    BY <1>5, <2>1, <2>2, SeqEqual
<1> QED
  BY <1>1, <1>6, <1>7 DEF s, n, got, rest

(* Words only, and no more than are asked for.                             *)
LEMMA AllTaken ==
  ASSUME NEW z \in Seq(Units), NEW n \in Nat, Len(z) <= n,
         \A i \in 1 .. Len(z) : z[i].kind = "word"
  PROVE  Words(z, n) = z /\ Beyond(z, z) = <<>>
<1> HIDE DEF Units
<1>1. Len(z) \in Nat
  BY LenProperties
<1>2. SubSeq(z, 1, Len(z)) = z
  BY SubSeqFull
<1>3. SubSeq(z, Len(z) + 1, Len(z)) = <<>>
  BY <1>1, SubSeqEmpty
<1>4. Len(z) = IF Len(z) < n THEN Len(z) ELSE n
  BY <1>1
<1>5. Words(z, n) = SubSeq(z, 1, Len(z))
  BY <1>4 DEF Words
<1> QED
  BY <1>2, <1>3, <1>5 DEF Beyond

LEMMA UnitsOnStream ==
  ASSUME NEW w \in Seq(Units)
  PROVE  /\ \A v \in Seq(Units) : w \o v \in Seq(Units)
         /\ \A u \in Units : w \o <<u>> \in Seq(Units) /\ Append(w, u) \in Seq(Units)
         /\ \A a, b \in Int : w \o Header(a, b) \in Seq(Units)
         /\ w # <<>> => Tail(w) \in Seq(Units) /\ Head(w) \in Units
<1> HIDE DEF Units
<1>1. \A v \in Seq(Units) : w \o v \in Seq(Units)
  BY ConcatProperties
<1>2. \A u \in Units : <<u>> \in Seq(Units)
  BY OneUnit
<1>3. \A a, b \in Int : Header(a, b) \in Seq(Units)
  BY HeaderTypes
<1>4. w # <<>> => Tail(w) \in Seq(Units) /\ Head(w) \in Units
  BY HeadTailProperties
<1>5. \A u \in Units : Append(w, u) \in Seq(Units)
  BY AppendProperties
<1> QED
  BY <1>1, <1>2, <1>3, <1>4, <1>5

(* The directory in the order in which it is listed: each file once.       *)
N == Cardinality(File)
Order == SetToSeq(File)

LEMMA OrderOfFiles ==
  /\ N \in Nat /\ Order \in Seq(File) /\ Len(Order) = N
  /\ \A i \in 1 .. N : Order[i] \in File
  /\ \A f \in File : \E i \in 1 .. N : Order[i] = f
<1>1. N \in Nat /\ ExistsBijection(1 .. N, File)
  BY FtpAssumption, FS_CardinalityType DEF N
<1>2. \E f \in [1 .. N -> File] : IsInjective(f)
  <2>1. PICK f : f \in Bijection(1 .. N, File)
    BY <1>1, Zenon DEF ExistsBijection
  <2> QED
    BY <2>1, Zenon DEF Bijection, Injection
<1>3. Order \in [1 .. N -> File] /\ IsInjective(Order)
  BY <1>2, Zenon DEF Order, N, SetToSeq
<1>4. Order \in Seq(File) /\ Len(Order) = N /\ \A i \in 1 .. N : Order[i] \in File
  BY <1>1, <1>3
<1>5. \A f \in File : \E i \in 1 .. N : Order[i] = f
  <2>2. Order \in Injection(1 .. N, File)
    BY <1>3, Zenon DEF Injection
  <2>3. IsFiniteSet(1 .. N) /\ Cardinality(1 .. N) = N
    BY <1>1, FS_Interval
  <2>4. Order \in Surjection(1 .. N, File)
    <3>1. IsFiniteSet(File)
      BY FtpAssumption
    <3>2. Cardinality(1 .. N) = Cardinality(File)
      BY <2>3 DEF N
    <3> QED
      BY <2>2, <3>1, <3>2, FS_Injection, Zenon
  <2> QED
    BY <2>4, Zenon DEF Surjection
<1> QED
  BY <1>1, <1>4, <1>5

LEMMA TypesInit == FtpInit => Types
<1> SUFFICES ASSUME FtpInit PROVE Types
  OBVIOUS
<1>1. <<>> \in Seq(Units) /\ <<>> \in Seq(File)
  BY EmptySeq
<1> HIDE DEF Units
<1> QED
  BY <1>1 DEF FtpInit, Types, Names

LEMMA UserTypes ==
  ASSUME Types, User
  PROVE  Types'
<1> HIDE DEF Units
<1>1. <<>> \in Seq(Units) /\ Missing \in Names /\ \A f \in File : f \in Names
  BY EmptySeq DEF Names
<1>2. ASSUME NEW good \in BOOLEAN, Login(good) PROVE Types'
  <2>1. PICK n \in {0, 1} : toServer' = toServer \o <<Unit("creds", n, Missing)>>
    BY <1>2 DEF Login, ClientAsks
  <2>2. toServer' \in Seq(Units)
    BY <2>1, UnitTypes, UnitsOnStream DEF Types
  <2> QED
    BY <1>2, <2>2 DEF Login, Types, server
<1>3. ASSUME NEW f \in Names, do_get_ftp(f) PROVE Types'
  <2>1. toServer' = toServer \o (Header(1, 1) \o NameSent(f))
    BY <1>3 DEF do_get_ftp, ClientAsks
  <2>2. Header(1, 1) \in Seq(Units) /\ NameSent(f) \in Seq(Units)
    BY HeaderTypes, NameSentTypes
  <2>3. toServer' \in Seq(Units)
    <3>1. Header(1, 1) \o NameSent(f) \in Seq(Units)
      BY <2>2, ConcatProperties
    <3> QED
      BY <2>1, <3>1, UnitsOnStream DEF Types
  <2> QED
    BY <1>1, <1>3, <2>3 DEF do_get_ftp, Given, Types, server
<1>4. ASSUME do_dir PROVE Types'
  <2>1. toServer' \in Seq(Units)
    BY <1>4, UnitsOnStream DEF do_dir, ClientAsks, Types
  <2> QED
    BY <1>1, <1>4, <2>1 DEF do_dir, Given, Types, server
<1> QED
  BY <1>2, <1>3, <1>4 DEF User, Names

LEMMA ClientTypes ==
  ASSUME Types, FtpClientStep
  PROVE  Types'
<1> HIDE DEF Units
<1>0. /\ <<>> \in Seq(Units) /\ \A u \in Units : u.n \in Int
      /\ toServer \in Seq(Units) /\ toClient \in Seq(Units) /\ copy \in Seq(Units)
  BY EmptySeq DEF Units, Types
<1>1. CASE LoginAnswered
  BY <1>0, <1>1 DEF LoginAnswered, Types, server
<1>2. CASE GetCount
  <2>1. UNCHANGED <<server, asked, came, copy, commands>>
    BY <1>2 DEF GetCount
  <2>2. PICK got : got = Words(toClient, 2)
    OBVIOUS
  <2>3. got \in Seq(Units) /\ Beyond(toClient, got) \in Seq(Units)
    BY <1>0, <2>2, WordsTypes
  <2>4. Len(got) \in Nat /\ (Len(got) >= 2 => got[1] \in Units)
    BY <2>3, LenProperties, ElementOfSeq
  <2>5. CASE Len(got) < 2
    BY <1>2, <2>1, <2>2, <2>5 DEF GetCount, Types, server
  <2>6. CASE ~(Len(got) < 2)
    <3>1. expected' = got[1].n /\ toClient' = Beyond(toClient, got) /\ toServer' = toServer \o got
      BY <1>2, <2>2, <2>6 DEF GetCount, ClientAsks
    <3>2. Len(got) >= 2
      BY <2>4, <2>6
    <3>3. expected' \in Int
      BY <1>0, <2>4, <3>1, <3>2
    <3>4. toServer' \in Seq(Units)
      BY <1>0, <2>3, <3>1, UnitsOnStream
    <3>5. toClient' \in Seq(Units)
      BY <2>3, <3>1
    <3> QED
      BY <2>1, <3>3, <3>4, <3>5 DEF Types, server
  <2> QED
    BY <2>5, <2>6
<1>3. CASE GetPacket
  <2>1. UNCHANGED <<server, asked, expected, commands>>
    BY <1>3 DEF GetPacket
  <2>2. PICK n : n = IF Head(toClient).kind = "packet" THEN 1 ELSE Len(Words(toClient, Len(toClient)))
    OBVIOUS
  <2>3. CASE n = 0
    BY <1>3, <2>1, <2>2, <2>3 DEF GetPacket, Types, server
  <2>4. CASE n # 0
    <3>1. /\ copy' = copy \o SubSeq(toClient, 1, n) /\ toClient' = SubSeq(toClient, n + 1, Len(toClient))
          /\ came' = came + 1 /\ toServer' = toServer \o Header(came + 1, 0)
      BY <1>3, <2>2, <2>4 DEF GetPacket, ClientAsks
    <3>2. n \in Nat /\ n <= Len(toClient) /\ Len(toClient) \in Nat
      <4>1. Len(toClient) \in Nat /\ toClient # <<>> /\ Len(toClient) # 0
        BY <1>0, <1>3, EmptySeq, LenProperties DEF GetPacket
      <4>2. CASE Head(toClient).kind = "packet"
        BY <2>2, <4>1, <4>2
      <4>3. CASE Head(toClient).kind # "packet"
        <5>1. Words(toClient, Len(toClient)) = SubSeq(toClient, 1, Len(toClient))
          BY <2>2, <2>4, <4>1, <4>3 DEF Words
        <5>2. Words(toClient, Len(toClient)) = toClient
          BY <1>0, <5>1, SubSeqFull
        <5> QED
          BY <2>2, <4>1, <4>3, <5>2
      <4> QED
        BY <4>2, <4>3
    <3>3. \A i \in 1 .. Len(toClient) : toClient[i] \in Units
      BY <1>0, ElementOfSeq
    <3>4. SubSeq(toClient, 1, n) \in Seq(Units)
      <4>1. \A i \in 1 .. n : toClient[i] \in Units
        BY <3>2, <3>3
      <4> QED
        BY <3>2, <4>1, SubSeqProperties
    <3>5. SubSeq(toClient, n + 1, Len(toClient)) \in Seq(Units)
      <4>1. \A i \in n + 1 .. Len(toClient) : toClient[i] \in Units
        BY <3>2, <3>3
      <4> QED
        BY <3>2, <4>1, SubSeqProperties
    <3>6. copy' \in Seq(Units) /\ toServer' \in Seq(Units) /\ came' \in Nat
      BY <1>0, <3>1, <3>4, UnitsOnStream DEF Types
    <3> QED
      BY <2>1, <3>1, <3>5, <3>6 DEF Types, server
  <2> QED
    BY <2>3, <2>4
<1>4. CASE DirCount
  <2>1. UNCHANGED <<server, asked, came, copy, commands>> /\ toClient # <<>>
    BY <1>4 DEF DirCount
  <2>2. PICK got : got = Words(toClient, 1)
    OBVIOUS
  <2>3. got \in Seq(Units) /\ (got # <<>> => got[1] \in Units)
    BY <1>0, <2>2, WordsTypes, EmptySeq, LenProperties, ElementOfSeq
  <2>4. CASE got = <<>>
    BY <1>4, <2>1, <2>2, <2>4 DEF DirCount, Types, server
  <2>5. CASE got # <<>>
    <3>1. expected' = got[1].n /\ toClient' = Tail(toClient) /\ toServer' = toServer \o Header(7, got[1].n)
      BY <1>4, <2>2, <2>5 DEF DirCount, ClientAsks
    <3>2. expected' \in Int
      BY <1>0, <2>3, <2>5, <3>1
    <3>3. toServer' \in Seq(Units)
      <4>1. toServer' = toServer \o Header(7, expected')
        BY <3>1
      <4>2. 7 \in Int
        OBVIOUS
      <4> QED
        BY <1>0, <3>2, <4>1, <4>2, UnitsOnStream
    <3>4. toClient' \in Seq(Units)
      BY <1>0, <2>1, <3>1, UnitsOnStream
    <3> QED
      BY <2>1, <3>2, <3>3, <3>4 DEF Types, server
  <2> QED
    BY <2>4, <2>5
<1>5. CASE DirLength
  <2>1. toClient' \in Seq(Units)
    BY <1>0, <1>5, UnitsOnStream DEF DirLength
  <2> QED
    BY <1>5, <2>1 DEF DirLength, Types, server
<1>6. CASE DirEntry
  <2>1. toClient' \in Seq(Units) /\ copy' \in Seq(Units) /\ came' \in Nat
    <3>1. Tail(toClient) \in Seq(Units) /\ Head(toClient) \in Units
      BY <1>0, <1>6, UnitsOnStream DEF DirEntry
    <3>2. Append(copy, Head(toClient)) \in Seq(Units)
      BY <1>0, <3>1, UnitsOnStream
    <3>3. CASE Head(toClient).kind = "name"
      <4>1. toClient' = Tail(toClient) /\ copy' = Append(copy, Head(toClient)) /\ came' = came + 1
        BY <1>6, <3>3 DEF DirEntry
      <4> QED
        BY <3>1, <3>2, <4>1 DEF Types
    <3>4. CASE Head(toClient).kind # "name"
      BY <1>0, <1>6, <3>4 DEF DirEntry, Types
    <3> QED
      BY <3>3, <3>4
  <2> QED
    BY <1>6, <2>1 DEF DirEntry, Types, server
<1> QED
  BY <1>1, <1>2, <1>3, <1>4, <1>5, <1>6 DEF FtpClientStep
LEMMA ServerTypes ==
  ASSUME Types, ServerStep
  PROVE  Types'
<1> HIDE DEF Units
<1>0. /\ <<>> \in Seq(Units) /\ <<>> \in Seq(File) /\ \A u \in Units : u.n \in Int /\ u.of \in Names
      /\ toServer \in Seq(Units) /\ toClient \in Seq(Units) /\ copy \in Seq(Units)
      /\ packets \in Nat /\ sent \in Nat /\ listing \in Seq(File) /\ name \in Names
      /\ served \in Nat /\ commands \in Nat /\ served <= commands
      /\ FailHeader \in Seq(Units)
      /\ PACKET_SIZE \in Int /\ \A f \in File \union Directory : Size[f] \in Nat
  <2>1. FailHeader \in Seq(Units)
    BY HeaderTypes DEF FailHeader
  <2> QED
    BY <2>1, FtpAssumption, EmptySeq DEF Units, Types
<1>1. /\ \A n \in Nat : /\ Words(toServer, n) \in Seq(Units)
                       /\ Beyond(toServer, Words(toServer, n)) \in Seq(Units)
      /\ toServer # <<>> => Tail(toServer) \in Seq(Units) /\ Head(toServer) \in Units
      /\ toClient \o FailHeader \in Seq(Units) /\ \A n \in Int : toClient \o <<Word(n)>> \in Seq(Units)
      /\ \A x, y \in Int : toClient \o Header(x, y) \in Seq(Units)
      /\ \A f \in Names, i \in Int : toClient \o <<Packet(f, i)>> \in Seq(Units)
  <2>1. \A n \in Int : Word(n) \in Units
    BY UnitTypes
  <2>2. \A f \in Names, i \in Int : Packet(f, i) \in Units
    BY UnitTypes
  <2>3. \A n \in Nat : /\ Words(toServer, n) \in Seq(Units)
                      /\ Beyond(toServer, Words(toServer, n)) \in Seq(Units)
    BY <1>0, WordsTypes
  <2>4. /\ toClient \o FailHeader \in Seq(Units) /\ \A u \in Units : toClient \o <<u>> \in Seq(Units)
        /\ \A x, y \in Int : toClient \o Header(x, y) \in Seq(Units)
    BY <1>0, UnitsOnStream
  <2>5. toServer # <<>> => Tail(toServer) \in Seq(Units) /\ Head(toServer) \in Units
    BY <1>0, UnitsOnStream
  <2> QED
    BY <2>1, <2>2, <2>3, <2>4, <2>5
<1>2. UNCHANGED client
  BY DEF ServerStep, CheckCreds, ReadHeader, OpenFile, ReadAck, SendPacket, AckPacket, ListCount,
         ListAck, ListEntry, Astray
<1>3. ASSUME NEW answer \in 1 .. 4, CheckCreds(answer) PROVE Types'
  <2>1. toServer' \in Seq(Units)
    BY <1>1, <1>3 DEF CheckCreds
  <2>2. toClient' \in Seq(Units)
    BY <1>1, <1>3 DEF CheckCreds, Answers
  <2> QED
    BY <1>3, <2>1, <2>2 DEF CheckCreds, Types, client
<1>4. CASE ReadHeader
  <2>1. toServer' \in Seq(Units)
    BY <1>0, <1>1, <1>4 DEF ReadHeader, Reads, Got, Astray
  <2>2. toClient' \in Seq(Units)
    BY <1>0, <1>1, <1>4 DEF ReadHeader, Answers, Astray
  <2>3. UNCHANGED <<name, packets, sent, listing, served>>
    BY <1>4 DEF ReadHeader, Astray
  <2> QED
    BY <1>2, <2>1, <2>2, <2>3 DEF Types, client
<1>5. CASE OpenFile
  <2>1. CASE Head(toServer).kind # "name"
    BY <1>5, <2>1 DEF OpenFile, Astray, Types, client
  <2>2. CASE Head(toServer).kind = "name"
    <3>1. /\ toServer' = Tail(toServer) /\ name' = Head(toServer).of /\ sent' = 0
          /\ UNCHANGED listing /\ toServer # <<>>
      BY <1>5, <2>2 DEF OpenFile
    <3>2. packets' = IF Opens(name') /\ Size[name'] > 1 THEN Size[name'] ELSE 1
      BY <1>5, <2>2 DEF OpenFile
    <3>3. packets' \in Nat
      BY <1>0, <3>2 DEF Opens
    <3>4. toServer' \in Seq(Units) /\ name' \in Names
      BY <1>0, <1>1, <3>1
    <3>5. CASE Opens(name')
      <4>1. /\ toClient' = toClient \o Header(packets', PACKET_SIZE)
            /\ served' = IF served = 0 THEN commands ELSE served
        BY <1>5, <2>2, <3>5 DEF OpenFile, Answers
      <4>2. toClient' \in Seq(Units)
        BY <1>0, <1>1, <3>3, <4>1
      <4>3. served' \in Nat /\ served' <= commands
        BY <1>0, <4>1
      <4> QED
        BY <1>2, <3>1, <3>3, <3>4, <4>2, <4>3 DEF Types, client
    <3>6. CASE ~Opens(name')
      <4>1. toClient' = toClient \o FailHeader /\ served' = served
        BY <1>5, <2>2, <3>6 DEF OpenFile, Answers
      <4> QED
        BY <1>1, <1>2, <3>1, <3>3, <3>4, <4>1 DEF Types, client
    <3> QED
      BY <3>5, <3>6
  <2> QED
    BY <2>1, <2>2
<1>6. CASE ReadAck
  <2>1. toServer' \in Seq(Units)
    BY <1>0, <1>1, <1>6 DEF ReadAck, Reads, Got, Astray
  <2>2. toClient' \in Seq(Units)
    BY <1>0, <1>1, <1>6 DEF ReadAck, Answers, Astray
  <2>3. UNCHANGED <<name, packets, sent, listing, served>>
    BY <1>6 DEF ReadAck, Astray
  <2> QED
    BY <1>2, <2>1, <2>2, <2>3 DEF Types, client
<1>7. CASE SendPacket
  <2>1. sent + 1 \in Int /\ UNCHANGED <<toServer, name, packets, listing, served>> /\ sent' \in Nat
    BY <1>0, <1>7 DEF SendPacket
  <2>2. toClient' \in Seq(Units)
    BY <1>0, <1>1, <1>7, <2>1 DEF SendPacket, Answers
  <2> QED
    BY <1>2, <2>1, <2>2 DEF Types, client
<1>8. CASE AckPacket
  <2>1. toServer' \in Seq(Units)
    BY <1>0, <1>1, <1>8 DEF AckPacket, Reads, Got, Astray
  <2>2. UNCHANGED <<toClient, name, packets, sent, listing, served>>
    BY <1>8 DEF AckPacket, Astray
  <2> QED
    BY <1>2, <2>1, <2>2 DEF Types, client
<1>9. CASE ListCount
  <2>1. toClient' = toClient \o <<Word(N)>> /\ N \in Int
    BY <1>9, OrderOfFiles DEF ListCount, Answers, N
  <2>2. toClient' \in Seq(Units)
    BY <1>1, <2>1
  <2> QED
    BY <1>9, <2>2 DEF ListCount, Types, client
<1>10. CASE ListAck
  <2>1. toServer' \in Seq(Units)
    BY <1>0, <1>1, <1>10 DEF ListAck, Reads, Got, Astray
  <2>2. listing' \in Seq(File)
    BY <1>0, <1>10, OrderOfFiles DEF ListAck, Astray, Order
  <2>3. UNCHANGED <<toClient, name, packets, sent, served>>
    BY <1>10 DEF ListAck, Astray
  <2> QED
    BY <1>2, <2>1, <2>2, <2>3 DEF Types, client
<1>11. CASE ListEntry
  <2>1. CASE listing = <<>>
    BY <1>11, <2>1 DEF ListEntry, Types, client
  <2>2. CASE listing # <<>>
    <3>1. toClient' = toClient \o <<Word(1), Unit("name", 0, Head(listing))>> /\ listing' = Tail(listing)
      BY <1>11, <2>2 DEF ListEntry, Answers
    <3>2. Tail(listing) \in Seq(File) /\ Head(listing) \in Names
      BY <1>0, <2>2, HeadTailProperties DEF Names
    <3>3. Word(1) \in Units /\ Unit("name", 0, Head(listing)) \in Units
      BY <3>2, UnitTypes
    <3>4. <<Word(1), Unit("name", 0, Head(listing))>> \in Seq(Units)
      BY <3>3
    <3>5. toClient' \in Seq(Units)
      BY <1>0, <3>1, <3>4, ConcatProperties
    <3> QED
      BY <1>2, <1>11, <3>1, <3>2, <3>5 DEF ListEntry, Types, client
  <2> QED
    BY <2>1, <2>2
<1> QED
  BY <1>3, <1>4, <1>5, <1>6, <1>7, <1>8, <1>9, <1>10, <1>11 DEF ServerStep

LEMMA TypesNext ==
  ASSUME Types, [FtpNext]_ftpVars
  PROVE  Types'
<1>1. CASE UNCHANGED ftpVars
  BY <1>1 DEF ftpVars, Types
<1> QED
  BY <1>1, UserTypes, ClientTypes, ServerTypes DEF FtpNext
-----------------------------------------------------------------------------
(* The inductive invariant: where each side is and what is on its way.     *)
Named(f) == Unit("name", 0, f)

(* The server has dealt with all but w of what it was sent, or will have   *)
(* without a word: left over are at most an acknowledgement it takes for a *)
(* command, and the end of a list.                                         *)
Ready(w) ==
  \/ spc = "header" /\ toServer = w
  \/ spc = "entries" /\ listing = <<>> /\ toServer = w
  \/ spc = "header" /\ toServer = FailHeader \o w
  \/ spc = "listack" /\ N = 0 /\ toServer = Header(7, 0) \o w

GetRequest(f) == Header(1, 1) \o NameSent(f)
DirRequest == Header(3, 0)

(* Before a file has been sent.                                            *)
LoggingIn ==
  /\ commands = 0
  /\ \/ cpc = "start" /\ spc = "login" /\ toServer = <<>> /\ toClient = <<>>
     \/ /\ cpc = "login" /\ spc = "login" /\ toClient = <<>>
        /\ \E n \in {0, 1} : toServer = <<Unit("creds", n, Missing)>>
     \/ /\ cpc = "login" /\ toServer = <<>>
        /\ \E answer \in 1 .. 4 :
             toClient = <<Word(answer)>> /\ spc = IF answer \in {1, 2} THEN "header" ELSE "login"

AllShown == {copy[i].of : i \in DOMAIN copy} = File /\ Len(copy) = N
AtRest ==
  /\ cpc = "prompt" /\ Ready(<<>>) /\ toClient = <<>>
  /\ commands > 0 /\ asked = Missing /\ expected > 0 => AllShown

Getting ==
  /\ cpc = "count" /\ commands > 0 /\ copy = <<>> /\ came = 0
  /\ \/ Ready(GetRequest(asked)) /\ toClient = <<>>
     \/ spc = "name" /\ toServer = NameSent(asked) /\ toClient = <<>>
     \/ spc = "header" /\ toServer = <<>> /\ toClient = FailHeader

Listing ==
  /\ cpc = "files" /\ copy = <<>> /\ came = 0
  /\ \/ Ready(DirRequest) /\ toClient = <<>>
     \/ spc = "list" /\ toServer = <<>> /\ toClient = <<>>
     \/ spc = "listack" /\ toServer = <<>> /\ toClient = <<Word(N)>>

(* Of k entries sent the client has shown count.                           *)
Entries(k) ==
  /\ cpc = "length" =>
       /\ Len(toClient) = 2 * (k - came)
       /\ \A i \in 1 .. k - came :
            toClient[2 * i - 1] = Word(1) /\ toClient[2 * i] = Named(Order[came + i])
  /\ cpc = "entry" =>
       /\ came < k /\ Len(toClient) = 2 * (k - came) - 1
       /\ \A i \in 1 .. k - came : toClient[2 * i - 1] = Named(Order[came + i])
       /\ \A i \in 1 .. k - came - 1 : toClient[2 * i] = Word(1)
Showing ==
  /\ cpc \in {"length", "entry"} /\ expected = N /\ came < N
  /\ Len(copy) = came /\ \A i \in 1 .. came : copy[i] = Named(Order[i])
  /\ \/ spc = "listack" /\ toServer = Header(7, N) /\ toClient = <<>> /\ cpc = "length" /\ came = 0
     \/ \E k \in came .. N :
          /\ spc = "entries" \/ (spc = "header" /\ k = N)
          /\ toServer = <<>> /\ Len(listing) = N - k
          /\ \A i \in 1 .. N - k : listing[i] = Order[k + i]
          /\ Entries(k)

Conversation == LoggingIn \/ AtRest \/ Getting \/ Listing \/ Showing

(* The first file.  Of the words of the acknowledgements the server takes  *)
(* up to two for each packet: it is a word ahead or it is not, and with    *)
(* its last packet it has taken all that has come.                         *)
Owed == IF spc = "wait" THEN sent - 1 ELSE sent
Flowing ==
  /\ spc \in {"send", "wait", "header"} /\ came <= sent /\ sent <= packets
  /\ spc = "send" => sent < packets
  /\ spc = "wait" => sent > 0
  /\ spc = "header" => sent = packets
  /\ \A i \in 1 .. Len(toServer) : toServer[i].kind = "word"
  /\ Len(toServer) + 2 * Owed - 2 * came \in {1, 2}
  /\ Len(toClient) = sent - came /\ \A i \in 1 .. sent - came : toClient[i] = Packet(asked, came + i)
  /\ Len(copy) = came /\ \A i \in 1 .. came : copy[i] = Packet(asked, i)

Arriving ==
  /\ asked \in File /\ name = asked
  /\ packets = IF Size[asked] > 1 THEN Size[asked] ELSE 1
  /\ \/ /\ cpc = "count" /\ spc = "ack" /\ sent = 0 /\ came = 0 /\ copy = <<>>
        /\ toServer = <<>> /\ toClient = Header(packets, PACKET_SIZE)
     \/ /\ cpc = "data" /\ expected = packets /\ came < packets
        /\ \/ /\ spc = "ack" /\ sent = 0 /\ came = 0 /\ copy = <<>>
              /\ toServer = Header(packets, PACKET_SIZE) /\ toClient = <<>>
           \/ /\ Size[asked] = 0 /\ came = 0 /\ copy = <<>>
              /\ toServer = <<>> \/ toServer = <<Word(PACKET_SIZE)>>
              /\ (spc = "send" /\ toClient = <<>>) \/ (spc = "header" /\ toClient = FailHeader)
           \/ Size[asked] > 0 /\ Flowing
FileIsThere == cpc = "prompt" /\ copy = IF Size[asked] = 0 THEN FailHeader ELSE Whole(asked)

PairInStep ==
  \/ served = 0 /\ Conversation
  \/ served > 0 /\ commands = served /\ (Arriving \/ FileIsThere \/ asked \in Directory)
  \/ served > 0 /\ commands > served

-----------------------------------------------------------------------------
(* Which steps there are, and what they take                               *)

LEMMA UserOf ==
  ASSUME User
  PROVE  /\ UNCHANGED <<server, toClient>> /\ cpc \in {"start", "prompt"}
         /\ cpc = "start" => \E good \in BOOLEAN : Login(good)
         /\ cpc = "prompt" => do_dir \/ \E f \in Names : do_get_ftp(f)
  BY DEF User, Login, do_get_ftp, do_dir, AtPrompt, Names

LEMMA ClientOf ==
  ASSUME FtpClientStep
  PROVE  /\ UNCHANGED server /\ toClient # <<>> /\ UNCHANGED <<asked, commands>>
         /\ cpc \in {"login", "count", "data", "files", "length", "entry"}
         /\ cpc = "login" => LoginAnswered
         /\ cpc = "count" => GetCount
         /\ cpc = "data" => GetPacket
         /\ cpc = "files" => DirCount
         /\ cpc = "length" => DirLength
         /\ cpc = "entry" => DirEntry
  BY DEF FtpClientStep, LoginAnswered, GetCount, GetPacket, DirCount, DirLength, DirEntry

LEMMA ServerOf ==
  ASSUME ServerStep
  PROVE  /\ UNCHANGED client
         /\ spc \in {"send", "list", "entries"} \/ toServer # <<>>
         /\ spc \in {"login", "header", "name", "ack", "send", "wait", "list", "listack", "entries"}
         /\ spc = "login" => \E answer \in 1 .. 4 : CheckCreds(answer)
         /\ spc = "header" => ReadHeader
         /\ spc = "name" => OpenFile
         /\ spc = "ack" => ReadAck
         /\ spc = "send" => SendPacket
         /\ spc = "wait" => AckPacket
         /\ spc = "list" => ListCount
         /\ spc = "listack" => ListAck
         /\ spc = "entries" => ListEntry
  BY DEF ServerStep, CheckCreds, ReadHeader, OpenFile, ReadAck, SendPacket, AckPacket, ListCount,
         ListAck, ListEntry, Astray

LEMMA HeaderTaken ==
  ASSUME NEW x \in Int, NEW y \in Int, NEW w \in Seq(Units)
  PROVE  /\ Words(Header(x, y) \o w, 2) = Header(x, y) /\ Beyond(Header(x, y) \o w, Header(x, y)) = w
         /\ Header(x, y) \o w # <<>> /\ Header(x, y) # <<>> /\ Len(Header(x, y)) = 2
         /\ Field(Header(x, y), 1) = x /\ Field(Header(x, y), 2) = y /\ Header(x, y)[1].n = x
<1> HIDE DEF Units
<1>1. /\ Header(x, y) \in Seq(Units) /\ Len(Header(x, y)) = 2
      /\ Header(x, y)[1] = Word(x) /\ Header(x, y)[2] = Word(y)
      /\ \A i \in 1 .. 2 : Header(x, y)[i].kind = "word"
  BY HeaderTypes
<1>2. Word(x).n = x /\ Word(y).n = y
  BY UnitTypes
<1> HIDE DEF Header, Word
<1>3. Words(Header(x, y) \o w, 2) = Header(x, y) /\ Beyond(Header(x, y) \o w, Header(x, y)) = w
  BY <1>1, FrontTaken
<1>0. Len(<<>>) = 0
  OBVIOUS
<1>4. Header(x, y) # <<>>
  <2>1. Len(Header(x, y)) = 2 /\ 2 # 0
    BY <1>1
  <2> QED
    BY <1>0, <2>1, Zenon
<1>5. Header(x, y) \o w # <<>>
  <2>1. Len(w) \in Nat
    BY LenProperties
  <2>2. Len(Header(x, y) \o w) = Len(Header(x, y)) + Len(w)
    <3>1. Header(x, y) \in Seq(Units)
      BY <1>1
    <3> QED
      BY <3>1, ConcatProperties
  <2>3. Len(Header(x, y) \o w) # 0
    BY <1>1, <2>1, <2>2
  <2> QED
    BY <1>0, <2>3, Zenon
<1>6. Field(Header(x, y), 1) = x /\ Field(Header(x, y), 2) = y
  BY <1>1, <1>2 DEF Field
<1>7. Header(x, y)[1].n = x
  BY <1>1, <1>2
<1> QED
  BY <1>1, <1>3, <1>4, <1>5, <1>6, <1>7

(* The server takes a header that is no GET of nothing.                    *)
LEMMA HeaderRead ==
  ASSUME NEW x \in Int, NEW y \in Int, NEW w \in Seq(Units), toServer = Header(x, y) \o w,
         x = 1 => y # 0, spc = "header", ServerStep
  PROVE  /\ toServer' = w /\ UNCHANGED <<toClient, name, packets, sent, listing, served, client>>
         /\ x = 1 => spc' = "name"
         /\ x = 3 => spc' = "list"
         /\ x \notin {1, 3} => spc' = "header"
<1> HIDE DEF Units
<1>1. ReadHeader
  BY ServerOf
<1>2. /\ Words(toServer, 2) = Header(x, y) /\ Header(x, y) # <<>> /\ Beyond(toServer, Header(x, y)) = w
      /\ Field(Header(x, y), 1) = x /\ Field(Header(x, y), 2) = y
  BY HeaderTaken
<1> HIDE DEF Header
<1> QED
  BY <1>1, <1>2 DEF ReadHeader, Got, Reads

(* What is left for a ready server does not change what it is ready for.   *)
LEMMA ReadyStep ==
  ASSUME Types, NEW w \in Seq(Units), Ready(w), ServerStep
  PROVE  \/ Ready(w)' /\ UNCHANGED <<toClient, served, client>>
         \/ spc = "header" /\ toServer = w
<1> HIDE DEF Units
<1>1. CASE spc = "header" /\ toServer = w
  BY <1>1
<1>2. CASE spc = "entries" /\ listing = <<>> /\ toServer = w
  BY <1>2, ServerOf DEF ListEntry, Ready
<1>3. CASE spc = "header" /\ toServer = FailHeader \o w
  <2>1. toServer = Header(0, 0) \o w /\ spc = "header"
    BY <1>3 DEF FailHeader
  <2> HIDE DEF Header, client
  <2>2. toServer' = w /\ UNCHANGED <<toClient, served, client>> /\ spc' = "header"
    BY <2>1, HeaderRead
  <2> QED
    BY <2>2 DEF Ready
<1>4. CASE spc = "listack" /\ N = 0 /\ toServer = Header(7, 0) \o w
  <2>1. /\ Words(toServer, 2) = Header(7, 0) /\ Header(7, 0) # <<>> /\ Beyond(toServer, Header(7, 0)) = w
        /\ Field(Header(7, 0), 1) = 7 /\ Field(Header(7, 0), 2) = 0
    <3> HIDE DEF Header
    <3>1. 7 \in Int /\ 0 \in Int
      OBVIOUS
    <3> QED
      BY <1>4, <3>1, HeaderTaken, ZenonT(40)
  <2>2. Order = <<>>
    BY <1>4, OrderOfFiles, EmptySeq
  <2>3. ListAck
    BY <1>4, ServerOf
  <2> HIDE DEF Header
  <2> QED
    BY <1>4, <2>1, <2>2, <2>3 DEF ListAck, Got, Reads, Ready, N, Order
<1> QED
  BY <1>1, <1>2, <1>3, <1>4 DEF Ready

(* What a client asks of a ready server.                                   *)
LEMMA ReadyAsked ==
  ASSUME NEW w \in Seq(Units), Ready(<<>>), toServer' = toServer \o w, UNCHANGED <<spc, listing>>
  PROVE  Ready(w)'
<1> HIDE DEF Units
<1>1. <<>> \o w = w /\ FailHeader \o <<>> = FailHeader /\ Header(7, 0) \o <<>> = Header(7, 0)
  BY HeaderTypes, ConcatEmptySeq DEF FailHeader
<1> QED
  BY <1>1 DEF Ready
-----------------------------------------------------------------------------
(* The phases                                                              *)

LEMMA LoginStep ==
  ASSUME Types, served = 0, LoggingIn, FtpNext
  PROVE  served' = 0 /\ (LoggingIn \/ AtRest)'
<1> HIDE DEF Units
<1>1. CASE cpc = "start" /\ spc = "login" /\ toServer = <<>> /\ toClient = <<>>
  <2>1. \E good \in BOOLEAN : Login(good)
    BY <1>1, UserOf, ClientOf, ServerOf DEF FtpNext
  <2>2. PICK n \in {0, 1} : toServer' = toServer \o <<Unit("creds", n, Missing)>>
    BY <2>1 DEF Login, ClientAsks
  <2>3. <<>> \o <<Unit("creds", n, Missing)>> = <<Unit("creds", n, Missing)>>
    OBVIOUS
  <2> QED
    BY <1>1, <2>1, <2>2, <2>3 DEF Login, LoggingIn, server
<1>2. CASE /\ cpc = "login" /\ spc = "login" /\ toClient = <<>>
           /\ \E n \in {0, 1} : toServer = <<Unit("creds", n, Missing)>>
  <2>1. PICK answer \in 1 .. 4 : CheckCreds(answer)
    BY <1>2, UserOf, ClientOf, ServerOf DEF FtpNext
  <2>2. PICK n \in {0, 1} : toServer = <<Unit("creds", n, Missing)>>
    BY <1>2
  <2>3. Tail(<<Unit("creds", n, Missing)>>) = <<>> /\ <<>> \o <<Word(answer)>> = <<Word(answer)>>
    OBVIOUS
  <2> QED
    BY <1>2, <2>1, <2>2, <2>3 DEF CheckCreds, Answers, LoggingIn, client
<1>3. CASE cpc = "login" /\ toServer = <<>> /\ \E answer \in 1 .. 4 :
             toClient = <<Word(answer)>> /\ spc = IF answer \in {1, 2} THEN "header" ELSE "login"
  <2>1. PICK answer \in 1 .. 4 :
          toClient = <<Word(answer)>> /\ spc = IF answer \in {1, 2} THEN "header" ELSE "login"
    BY <1>3
  <2>2. LoginAnswered
    BY <1>3, <2>1, UserOf, ClientOf, ServerOf DEF FtpNext
  <2>3. Head(<<Word(answer)>>).n = answer
    BY DEF Word, Unit
  <2> QED
    BY <1>3, <2>1, <2>2, <2>3 DEF LoginAnswered, LoggingIn, AtRest, Ready, server
<1> QED
  BY <1>1, <1>2, <1>3 DEF LoggingIn

LEMMA RequestTypes ==
  ASSUME NEW f \in Names
  PROVE  GetRequest(f) \in Seq(Units) /\ DirRequest \in Seq(Units) /\ NameSent(f) \in Seq(Units)
<1> HIDE DEF Units
<1>1. Header(1, 1) \in Seq(Units) /\ Header(3, 0) \in Seq(Units)
  BY HeaderTypes
<1>2. NameSent(f) \in Seq(Units)
  BY NameSentTypes
<1> HIDE DEF Header, NameSent
<1> QED
  BY <1>1, <1>2, ConcatProperties DEF GetRequest, DirRequest

LEMMA RestStep ==
  ASSUME Types, served = 0, AtRest, FtpNext
  PROVE  served' = 0 /\ (AtRest \/ Getting \/ Listing)'
<1> HIDE DEF Units
<1>0. <<>> \in Seq(Units) /\ commands \in Nat
  BY EmptySeq DEF Types
<1>1. ASSUME NEW f \in Names, do_get_ftp(f) PROVE served' = 0 /\ Getting'
  <2>1. /\ asked' = f /\ toServer' = toServer \o GetRequest(f) /\ UNCHANGED <<server, toClient>>
        /\ Given /\ cpc' = "count"
    BY <1>1 DEF do_get_ftp, ClientAsks, GetRequest
  <2>2. GetRequest(f) \in Seq(Units)
    BY RequestTypes
  <2> HIDE DEF GetRequest
  <2>3. Ready(<<>>) /\ UNCHANGED <<spc, listing>>
    BY <2>1 DEF AtRest, server
  <2>4. Ready(GetRequest(f))'
    BY <2>1, <2>2, <2>3, ReadyAsked
  <2>5. GetRequest(asked)' = GetRequest(f)
    BY <2>1 DEF GetRequest
  <2>6. Ready(GetRequest(asked))'
    BY <2>1, <2>4 DEF Ready, GetRequest
  <2> QED
    BY <1>0, <2>1, <2>6 DEF AtRest, Getting, Given, server
<1>2. ASSUME do_dir PROVE served' = 0 /\ Listing'
  <2>1. toServer' = toServer \o DirRequest /\ UNCHANGED <<server, toClient>> /\ Given /\ cpc' = "files"
    BY <1>2 DEF do_dir, ClientAsks, DirRequest
  <2>2. DirRequest \in Seq(Units)
    BY RequestTypes DEF Names
  <2> HIDE DEF DirRequest
  <2>3. Ready(<<>>) /\ UNCHANGED <<spc, listing>>
    BY <2>1 DEF AtRest, server
  <2>4. Ready(DirRequest)'
    BY <2>1, <2>2, <2>3, ReadyAsked
  <2> QED
    BY <2>1, <2>4 DEF AtRest, Listing, Given, server
<1>3. ASSUME ServerStep PROVE served' = 0 /\ AtRest'
  <2>1. Ready(<<>>)' /\ UNCHANGED <<toClient, served, client>>
    <3>1. ~(spc = "header" /\ toServer = <<>>)
      BY <1>3, ServerOf
    <3> QED
      BY <1>0, <1>3, <3>1, ReadyStep DEF AtRest
  <2> QED
    BY <2>1 DEF AtRest, AllShown, client
<1>4. ~FtpClientStep
  BY ClientOf DEF AtRest
<1>5. User => do_dir \/ \E f \in Names : do_get_ftp(f)
  BY UserOf DEF AtRest
<1> QED
  BY <1>1, <1>2, <1>3, <1>4, <1>5 DEF FtpNext
LEMMA GettingStep ==
  ASSUME Types, served = 0, Getting, FtpNext
  PROVE  \/ served' = 0 /\ (AtRest \/ Getting)'
         \/ served' > 0 /\ commands' = served' /\ (Arriving \/ asked \in Directory)'
<1> HIDE DEF Units
<1>0. /\ <<>> \in Seq(Units) /\ commands \in Nat /\ asked \in Names
      /\ cpc = "count" /\ commands > 0 /\ copy = <<>> /\ came = 0 /\ ~User
  BY EmptySeq, UserOf DEF Types, Getting
<1>1. CASE Ready(GetRequest(asked)) /\ toClient = <<>>
  <2>1. ServerStep /\ UNCHANGED client
    BY <1>0, <1>1, ClientOf, ServerOf DEF FtpNext
  <2>2. GetRequest(asked) \in Seq(Units) /\ NameSent(asked) \in Seq(Units)
    BY <1>0, RequestTypes
  <2>3. CASE spc = "header" /\ toServer = GetRequest(asked)
    <3>1. toServer = Header(1, 1) \o NameSent(asked) /\ spc = "header"
      BY <2>3 DEF GetRequest
    <3> HIDE DEF Header, client, NameSent
    <3>2. /\ toServer' = NameSent(asked) /\ UNCHANGED <<toClient, served, client>>
          /\ spc' = "name"
      <4>1. PICK w \in Seq(Units) : w = NameSent(asked)
        BY <2>2
      <4>2. toServer = Header(1, 1) \o w
        BY <3>1, <4>1
      <4>3. toServer' = w /\ UNCHANGED <<toClient, served, client>> /\ spc' = "name"
        <5>1. PICK x \in Int, y \in Int : x = 1 /\ y = 1
          OBVIOUS
        <5>2. toServer = Header(x, y) \o w /\ (x = 1 => y # 0)
          BY <4>2, <5>1
        <5> QED
          BY <2>1, <3>1, <5>1, <5>2, HeaderRead
      <4> QED
        BY <4>1, <4>3
    <3>3. asked' = asked /\ NameSent(asked)' = NameSent(asked)
      BY <2>1 DEF client, NameSent
    <3> QED
      BY <1>0, <1>1, <2>1, <3>2, <3>3 DEF Getting, client
  <2>4. CASE ~(spc = "header" /\ toServer = GetRequest(asked))
    <3>1. PICK w \in Seq(Units) : w = GetRequest(asked)
      BY <2>2
    <3>2. Ready(w)
      BY <1>1, <3>1
    <3>3. Ready(w)' /\ UNCHANGED <<toClient, served, client>>
      BY <2>1, <2>4, <3>1, <3>2, ReadyStep
    <3>4. GetRequest(asked)' = w
      BY <2>1, <3>1 DEF GetRequest, client
    <3>5. Ready(GetRequest(asked))'
      BY <3>3, <3>4 DEF Ready
    <3> QED
      BY <1>0, <1>1, <2>1, <3>3, <3>5 DEF Getting, client
  <2> QED
    BY <2>3, <2>4
<1>2. CASE spc = "name" /\ toServer = NameSent(asked) /\ toClient = <<>>
  <2>1. OpenFile /\ UNCHANGED client
    BY <1>0, <1>2, ClientOf, ServerOf DEF FtpNext
  <2>2. Head(toServer).kind = "name" /\ Head(toServer).of = asked /\ Tail(toServer) = <<>>
    <3>1. toServer = <<Unit("name", 0, asked)>>
      BY <1>0, <1>2, ServerOf, <2>1, NameSentTypes DEF OpenFile
    <3> QED
      BY <3>1 DEF Unit
  <2>3. /\ toServer' = <<>> /\ name' = asked /\ sent' = 0
        /\ packets' = IF Opens(name') /\ Size[name'] > 1 THEN Size[name'] ELSE 1
    BY <2>1, <2>2 DEF OpenFile
  <2>4. CASE Opens(asked)
    <3>1. /\ toClient' = toClient \o Header(packets', PACKET_SIZE) /\ spc' = "ack"
          /\ served' = IF served = 0 THEN commands ELSE served
      BY <2>1, <2>2, <2>3, <2>4 DEF OpenFile, Answers
    <3>2. packets' \in Int /\ PACKET_SIZE \in Int
      BY <2>3, <2>4, FtpAssumption DEF Opens
    <3>3. toClient' = Header(packets', PACKET_SIZE)
      <4>1. Header(packets', PACKET_SIZE) \in Seq(Units)
        BY <3>2, HeaderTypes
      <4> QED
        BY <1>2, <3>1, <4>1, ConcatEmptySeq
    <3>4. served' > 0 /\ commands' = served' /\ asked' = asked
      BY <1>0, <2>1, <3>1 DEF client
    <3>5. CASE asked \in File
      BY <1>0, <2>1, <2>3, <3>1, <3>3, <3>4, <3>5 DEF Arriving, client, Opens
    <3>6. CASE asked \in Directory
      BY <3>4, <3>6
    <3> QED
      BY <2>4, <3>5, <3>6 DEF Opens
  <2>5. CASE ~Opens(asked)
    <3>1. toClient' = toClient \o FailHeader /\ spc' = "header" /\ served' = served
      BY <2>1, <2>2, <2>3, <2>5 DEF OpenFile, Answers
    <3>2. toClient' = FailHeader
      BY <1>2, <3>1, HeaderTypes, ConcatEmptySeq DEF FailHeader
    <3> QED
      BY <1>0, <2>1, <2>3, <3>1, <3>2 DEF Getting, client
  <2> QED
    BY <2>4, <2>5
<1>3. CASE spc = "header" /\ toServer = <<>> /\ toClient = FailHeader
  <2>1. GetCount /\ UNCHANGED server
    BY <1>0, <1>3, ClientOf, ServerOf DEF FtpNext
  <2>2. /\ FailHeader \o <<>> = FailHeader /\ <<>> \o FailHeader = FailHeader
        /\ Words(toClient, 2) = FailHeader /\ Beyond(toClient, FailHeader) = <<>>
        /\ Len(FailHeader) = 2 /\ FailHeader[1].n = 0
    <3>1. FailHeader \o <<>> = FailHeader /\ <<>> \o FailHeader = FailHeader
      BY HeaderTypes, ConcatEmptySeq DEF FailHeader
    <3> HIDE DEF Header
    <3>2. 0 \in Int /\ <<>> \in Seq(Units)
      BY <1>0
    <3>3. /\ Words(Header(0, 0) \o <<>>, 2) = Header(0, 0)
          /\ Beyond(Header(0, 0) \o <<>>, Header(0, 0)) = <<>>
          /\ Len(Header(0, 0)) = 2 /\ Header(0, 0)[1].n = 0
      BY <3>2, HeaderTaken
    <3> QED
      BY <1>3, <3>1, <3>3 DEF FailHeader
  <2> HIDE DEF FailHeader
  <2>3. expected' = 0 /\ toClient' = <<>> /\ toServer' = FailHeader /\ cpc' = "prompt"
    BY <1>3, <2>1, <2>2 DEF GetCount, ClientAsks
  <2> QED
    BY <1>3, <2>1, <2>2, <2>3 DEF AtRest, Ready, server
<1> QED
  BY <1>1, <1>2, <1>3 DEF Getting

LEMMA ListingStep ==
  ASSUME Types, served = 0, Listing, FtpNext
  PROVE  served' = 0 /\ (AtRest \/ Listing \/ Showing)'
<1> HIDE DEF Units
<1>0. <<>> \in Seq(Units) /\ cpc = "files" /\ copy = <<>> /\ came = 0 /\ ~User /\ N \in Nat
  BY EmptySeq, UserOf, OrderOfFiles DEF Types, Listing
<1>1. CASE Ready(DirRequest) /\ toClient = <<>>
  <2>1. ServerStep /\ UNCHANGED client
    BY <1>0, <1>1, ClientOf, ServerOf DEF FtpNext
  <2>2. DirRequest \in Seq(Units) /\ DirRequest \o <<>> = DirRequest
    BY HeaderTypes, ConcatEmptySeq DEF DirRequest
  <2>3. CASE spc = "header" /\ toServer = DirRequest
    <3>1. toServer = Header(3, 0) \o <<>> /\ spc = "header"
      BY <2>2, <2>3 DEF DirRequest
    <3> HIDE DEF Header, client
    <3>2. /\ toServer' = <<>> /\ UNCHANGED <<toClient, served, client>>
          /\ spc' = "list"
      <4>1. PICK w \in Seq(Units) : w = <<>>
        BY <1>0
      <4>2. toServer = Header(3, 0) \o w
        BY <3>1, <4>1
      <4>3. toServer' = w /\ UNCHANGED <<toClient, served, client>> /\ spc' = "list"
        BY <2>1, <3>1, <4>2, HeaderRead
      <4> QED
        BY <4>1, <4>3
    <3> QED
      BY <1>0, <1>1, <2>1, <3>2 DEF Listing, client
  <2>4. CASE ~(spc = "header" /\ toServer = DirRequest)
    <3> HIDE DEF DirRequest
    <3>1. Ready(DirRequest)' /\ UNCHANGED <<toClient, served, client>>
      BY <1>1, <2>1, <2>2, <2>4, ReadyStep
    <3> QED
      BY <1>0, <1>1, <3>1 DEF Listing, client
  <2> QED
    BY <2>3, <2>4
<1>2. CASE spc = "list" /\ toServer = <<>> /\ toClient = <<>>
  <2>1. ListCount /\ UNCHANGED client
    BY <1>0, <1>2, ClientOf, ServerOf DEF FtpNext
  <2>2. <<>> \o <<Word(N)>> = <<Word(N)>>
    OBVIOUS
  <2> QED
    BY <1>0, <1>2, <2>1, <2>2 DEF ListCount, Answers, Listing, client, N
<1>3. CASE spc = "listack" /\ toServer = <<>> /\ toClient = <<Word(N)>>
  <2>1. DirCount /\ UNCHANGED server
    BY <1>0, <1>3, ClientOf, ServerOf DEF FtpNext
  <2>2. Word(N) \in Units /\ Word(N).kind = "word" /\ Word(N).n = N
    BY <1>0, UnitTypes
  <2> HIDE DEF Word
  <2>3. Words(toClient, 1) = <<Word(N)>>
    <3>1. /\ <<Word(N)>> \in Seq(Units) /\ Len(<<Word(N)>>) = 1
          /\ \A i \in 1 .. Len(<<Word(N)>>) : <<Word(N)>>[i].kind = "word"
      BY <2>2, OneUnit
    <3>2. Len(<<Word(N)>>) <= 1
      BY <3>1
    <3> QED
      BY <1>3, <3>1, <3>2, AllTaken
  <2>4. Words(toClient, 1) # <<>> /\ Words(toClient, 1)[1].n = N /\ Tail(toClient) = <<>>
    BY <1>3, <2>2, <2>3
  <2>5. /\ expected' = N /\ toClient' = <<>> /\ toServer' = toServer \o Header(7, N)
        /\ cpc' = IF N = 0 THEN "prompt" ELSE "length"
    BY <2>1, <2>4 DEF DirCount, ClientAsks
  <2>6. toServer' = Header(7, N)
    <3>1. Header(7, N) \in Seq(Units)
      BY <1>0, HeaderTypes
    <3> HIDE DEF Header
    <3> QED
      BY <1>3, <2>5, <3>1, ConcatEmptySeq
  <2>7. CASE N = 0
    <3>1. Header(7, 0) \o <<>> = Header(7, 0)
      BY HeaderTypes, ConcatEmptySeq
    <3> HIDE DEF Header
    <3> QED
      BY <1>3, <2>1, <2>5, <2>6, <2>7, <3>1 DEF AtRest, Ready, server
  <2>8. CASE N # 0
    <3> HIDE DEF Header
    <3>1. Len(copy) = 0 /\ came' = 0 /\ copy' = copy /\ 0 < N
      BY <1>0, <2>1, <2>8 DEF DirCount
    <3> QED
      BY <1>3, <2>1, <2>5, <2>6, <2>8, <3>1 DEF Showing, server
  <2> QED
    BY <2>7, <2>8
<1> QED
  BY <1>1, <1>2, <1>3 DEF Listing
LEMMA TwoUnitsMore ==
  ASSUME NEW w \in Seq(Units), NEW u \in Units, NEW v \in Units
  PROVE  /\ Len(w \o <<u, v>>) = Len(w) + 2
         /\ \A i \in 1 .. Len(w) : (w \o <<u, v>>)[i] = w[i]
         /\ (w \o <<u, v>>)[Len(w) + 1] = u /\ (w \o <<u, v>>)[Len(w) + 2] = v
<1> HIDE DEF Units
<1>1. <<u, v>> \in Seq(Units) /\ Len(<<u, v>>) = 2 /\ <<u, v>>[1] = u /\ <<u, v>>[2] = v
  OBVIOUS
<1>2. PICK t : t = <<u, v>>
  OBVIOUS
<1>3. t \in Seq(Units) /\ Len(t) = 2 /\ t[1] = u /\ t[2] = v
  BY <1>1, <1>2
<1>4. Len(w) \in Nat
  BY LenProperties
<1>5. /\ Len(w \o t) = Len(w) + Len(t)
      /\ \A i \in 1 .. Len(w) + Len(t) : (w \o t)[i] = IF i <= Len(w) THEN w[i] ELSE t[i - Len(w)]
  BY <1>3, ConcatProperties
<1>6. (w \o t)[Len(w) + 1] = t[1] /\ (w \o t)[Len(w) + 2] = t[2]
  BY <1>3, <1>4, <1>5
<1>7. \A i \in 1 .. Len(w) : (w \o t)[i] = w[i]
  BY <1>3, <1>4, <1>5
<1> QED
  BY <1>2, <1>3, <1>5, <1>6, <1>7

LEMMA FirstTaken ==
  ASSUME NEW w \in Seq(Units), Len(w) # 0
  PROVE  /\ Tail(w) \in Seq(Units) /\ Len(Tail(w)) = Len(w) - 1 /\ Head(w) = w[1]
         /\ \A i \in 1 .. Len(w) - 1 : Tail(w)[i] = w[i + 1]
<1> HIDE DEF Units
<1>1. w # <<>>
  OBVIOUS
<1> QED
  BY <1>1, HeadTailProperties

(* The server sends one entry more.                                        *)
LEMMA EntrySent ==
  ASSUME Types, NEW k \in Nat, k < N, came <= k, Entries(k), UNCHANGED <<cpc, came>>,
         toClient' = toClient \o <<Word(1), Named(Order[k + 1])>>
  PROVE  Entries(k + 1)'
<1> HIDE DEF Units
<1>0. came \in Nat /\ toClient \in Seq(Units) /\ Len(toClient) \in Nat /\ N \in Nat
  BY OrderOfFiles, LenProperties DEF Types
<1>1. Word(1) \in Units /\ Named(Order[k + 1]) \in Units
  <2>1. Order[k + 1] \in File
    BY <1>0, OrderOfFiles
  <2> QED
    BY <2>1, UnitTypes DEF Named, Names
<1>2. PICK u \in Units, v \in Units : u = Word(1) /\ v = Named(Order[k + 1])
  BY <1>1
<1> HIDE DEF Word
<1>3. /\ Len(toClient') = Len(toClient) + 2 /\ \A i \in 1 .. Len(toClient) : toClient'[i] = toClient[i]
      /\ toClient'[Len(toClient) + 1] = u /\ toClient'[Len(toClient) + 2] = v
  BY <1>0, <1>2, TwoUnitsMore
<1>4. \A f : Named(f)' = Named(f)
  BY DEF Named
<1>5. ASSUME cpc = "length" PROVE Entries(k + 1)'
  <2>1. /\ Len(toClient) = 2 * (k - came)
        /\ \A i \in 1 .. k - came :
             toClient[2 * i - 1] = Word(1) /\ toClient[2 * i] = Named(Order[came + i])
    BY <1>5 DEF Entries
  <2>2. ASSUME NEW i \in 1 .. (k + 1) - came
        PROVE  toClient'[2 * i - 1] = Word(1) /\ toClient'[2 * i] = Named(Order[came + i])
    <3>1. CASE i <= k - came
      <4>1. 2 * i - 1 \in 1 .. Len(toClient) /\ 2 * i \in 1 .. Len(toClient) /\ i \in 1 .. k - came
        BY <1>0, <2>1, <3>1
      <4>2. toClient'[2 * i - 1] = toClient[2 * i - 1] /\ toClient'[2 * i] = toClient[2 * i]
        BY <1>3, <4>1
      <4> QED
        BY <2>1, <4>1, <4>2
    <3>2. CASE ~(i <= k - came)
      <4>1. 2 * i - 1 = Len(toClient) + 1 /\ 2 * i = Len(toClient) + 2 /\ came + i = k + 1
        BY <1>0, <2>1, <3>2
      <4> QED
        BY <1>2, <1>3, <4>1
    <3> QED
      BY <3>1, <3>2
  <2>3. Len(toClient') = 2 * ((k + 1) - came)
    BY <1>0, <1>3, <2>1
  <2> QED
    BY <1>4, <1>5, <2>2, <2>3 DEF Entries, Word, Order
<1>6. ASSUME cpc = "entry" PROVE Entries(k + 1)'
  <2>1. /\ came < k /\ Len(toClient) = 2 * (k - came) - 1
        /\ \A i \in 1 .. k - came : toClient[2 * i - 1] = Named(Order[came + i])
        /\ \A i \in 1 .. k - came - 1 : toClient[2 * i] = Word(1)
    BY <1>6 DEF Entries
  <2>2. ASSUME NEW i \in 1 .. (k + 1) - came PROVE toClient'[2 * i - 1] = Named(Order[came + i])
    <3>1. CASE i <= k - came
      <4>1. 2 * i - 1 \in 1 .. Len(toClient) /\ i \in 1 .. k - came
        BY <1>0, <2>1, <3>1
      <4>2. toClient'[2 * i - 1] = toClient[2 * i - 1]
        BY <1>3, <4>1
      <4> QED
        BY <2>1, <4>1, <4>2
    <3>2. CASE ~(i <= k - came)
      <4>1. 2 * i - 1 = Len(toClient) + 2 /\ came + i = k + 1
        BY <1>0, <2>1, <3>2
      <4> QED
        BY <1>2, <1>3, <4>1
    <3> QED
      BY <3>1, <3>2
  <2>3. ASSUME NEW i \in 1 .. (k + 1) - came - 1 PROVE toClient'[2 * i] = Word(1)
    <3>1. CASE i <= k - came - 1
      <4>1. 2 * i \in 1 .. Len(toClient) /\ i \in 1 .. k - came - 1
        BY <1>0, <2>1, <3>1
      <4>2. toClient'[2 * i] = toClient[2 * i]
        BY <1>3, <4>1
      <4> QED
        BY <2>1, <4>1, <4>2
    <3>2. CASE ~(i <= k - came - 1)
      <4>1. 2 * i = Len(toClient) + 1
        BY <1>0, <2>1, <3>2
      <4> QED
        BY <1>2, <1>3, <4>1
    <3> QED
      BY <3>1, <3>2
  <2>4. Len(toClient') = 2 * ((k + 1) - came) - 1 /\ came < k + 1
    <3>1. Len(toClient') = Len(toClient) + 2 /\ Len(toClient) = 2 * (k - came) - 1 /\ came < k
      BY <1>3, <2>1
    <3> QED
      BY <1>0, <3>1
  <2> QED
    BY <1>4, <1>6, <2>2, <2>3, <2>4 DEF Entries, Word, Order
<1>7. CASE cpc \notin {"length", "entry"}
  BY <1>7 DEF Entries
<1> QED
  BY <1>5, <1>6, <1>7
LEMMA ShowingServer ==
  ASSUME Types, Showing, ServerStep
  PROVE  Showing' /\ UNCHANGED served
<1> HIDE DEF Units
<1>0. /\ <<>> \in Seq(Units) /\ N \in Nat /\ Order \in Seq(File) /\ Len(Order) = N
      /\ came \in Nat /\ toClient \in Seq(Units) /\ listing \in Seq(File)
      /\ \A f : Named(f)' = Named(f)
  BY EmptySeq, OrderOfFiles DEF Types, Named
<1>1. UNCHANGED client
  BY ServerOf
<1>2. CASE spc = "listack" /\ toServer = Header(7, N) /\ toClient = <<>> /\ cpc = "length" /\ came = 0
  <2>1. /\ Words(toServer, 2) = toServer /\ toServer # <<>> /\ Beyond(toServer, toServer) = <<>>
        /\ Field(toServer, 1) = 7 /\ Field(toServer, 2) = N
    <3>1. 7 \in Int /\ N \in Int
      BY <1>0
    <3>2. Header(7, N) \o <<>> = Header(7, N)
      BY <3>1, HeaderTypes, ConcatEmptySeq
    <3>3. /\ Words(Header(7, N) \o <<>>, 2) = Header(7, N)
          /\ Beyond(Header(7, N) \o <<>>, Header(7, N)) = <<>> /\ Header(7, N) # <<>>
          /\ Field(Header(7, N), 1) = 7 /\ Field(Header(7, N), 2) = N
      <4> HIDE DEF Header
      <4>1. PICK w \in Seq(Units), n \in Int : w = <<>> /\ n = N
        BY <1>0, <3>1
      <4>2. /\ Words(Header(7, n) \o w, 2) = Header(7, n)
            /\ Beyond(Header(7, n) \o w, Header(7, n)) = w /\ Header(7, n) # <<>>
            /\ Field(Header(7, n), 1) = 7 /\ Field(Header(7, n), 2) = n
        BY <3>1, HeaderTaken
      <4> QED
        BY <4>1, <4>2
    <3> HIDE DEF Header
    <3> QED
      BY <1>2, <3>2, <3>3
  <2>2. ListAck
    BY <1>2, ServerOf
  <2>3. toServer' = <<>> /\ spc' = "entries" /\ listing' = Order /\ UNCHANGED <<toClient, served>>
    BY <2>1, <2>2 DEF ListAck, Got, Reads, N, Order
  <2>4. Entries(0)'
    <3>1. toClient = <<>> /\ Len(<<>>) = 0
      BY <1>2
    <3>2. Len(toClient') = 2 * (0 - came') /\ cpc' = "length" /\ came' = 0
      BY <1>1, <1>2, <2>3, <3>1 DEF client
    <3> QED
      BY <3>2 DEF Entries
  <2>5. /\ 0 \in came' .. N /\ Len(listing') = N - 0 /\ \A i \in 1 .. N - 0 : listing'[i] = Order[0 + i]
    BY <1>0, <1>1, <1>2, <2>3 DEF client
  <2>6. cpc \in {"length", "entry"} /\ expected = N /\ came < N /\ Len(copy) = came
    BY DEF Showing
  <2>7. \A i \in 1 .. came : copy[i] = Named(Order[i])
    BY DEF Showing
  <2> QED
    BY <1>1, <2>3, <2>4, <2>5, <2>6, <2>7 DEF Showing, client, N, Order, Named
<1>3. ASSUME NEW k \in came .. N, spc = "entries" \/ (spc = "header" /\ k = N),
             toServer = <<>>, Len(listing) = N - k,
             \A i \in 1 .. N - k : listing[i] = Order[k + i], Entries(k)
      PROVE  Showing' /\ UNCHANGED served
  <2>1. ListEntry /\ spc = "entries" /\ k \in Nat
    BY <1>0, <1>3, ServerOf
  <2>2. cpc \in {"length", "entry"} /\ expected = N /\ came < N /\ Len(copy) = came
    BY DEF Showing
  <2>3. \A i \in 1 .. came : copy[i] = Named(Order[i])
    BY DEF Showing
  <2>4. UNCHANGED <<toServer, served>>
    BY <2>1 DEF ListEntry
  <2>5. CASE listing = <<>>
    <3>1. Len(<<>>) = 0
      OBVIOUS
    <3>2. k = N
      BY <1>0, <1>3, <2>1, <2>5, <3>1
    <3>3. spc' = "header" /\ UNCHANGED <<toClient, listing>>
      BY <2>1, <2>5 DEF ListEntry
    <3>4. Entries(k)'
      BY <1>1, <1>3, <3>3 DEF Entries, client, Word, Named, Order
    <3> QED
      BY <1>1, <1>3, <2>2, <2>3, <2>4, <3>2, <3>3, <3>4 DEF Showing, client, N, Order, Named
  <2>6. CASE listing # <<>>
    <3>1. Len(listing) # 0
      BY <1>0, <2>6, EmptySeq
    <3>2. k < N /\ k + 1 \in came .. N
      BY <1>0, <1>3, <2>1, <3>1
    <3>3. /\ toClient' = toClient \o <<Word(1), Named(Head(listing))>>
          /\ listing' = Tail(listing) /\ spc' = spc
      BY <2>1, <2>6 DEF ListEntry, Answers, Named
    <3>4. Head(listing) = Order[k + 1]
      <4>1. Head(listing) = listing[1]
        BY <1>0, <2>6
      <4>2. 1 \in 1 .. N - k
        BY <1>0, <2>1, <3>2
      <4> QED
        BY <1>3, <4>1, <4>2
    <3>5. Entries(k + 1)'
      <4>1. UNCHANGED <<cpc, came>>
        BY <1>1 DEF client
      <4>2. k < N /\ came <= k
        BY <1>0, <1>3, <3>2
      <4>3. toClient' = toClient \o <<Word(1), Named(Order[k + 1])>>
        BY <3>3, <3>4
      <4> QED
        BY <1>3, <2>1, <4>1, <4>2, <4>3, EntrySent
    <3>6. Len(listing') = N - (k + 1)
      <4>1. Len(Tail(listing)) = Len(listing) - 1
        BY <1>0, <2>6, HeadTailProperties
      <4> QED
        BY <1>0, <1>3, <2>1, <3>3, <4>1
    <3>7. ASSUME NEW i \in 1 .. N - (k + 1) PROVE listing'[i] = Order[(k + 1) + i]
      <4>1. i \in 1 .. Len(Tail(listing)) /\ i + 1 \in 1 .. N - k /\ k + (i + 1) = (k + 1) + i
        BY <1>0, <2>1, <3>3, <3>6
      <4>2. Tail(listing)[i] = listing[i + 1]
        BY <1>0, <2>6, <4>1, HeadTailProperties
      <4>3. listing[i + 1] = Order[k + (i + 1)]
        BY <1>3, <4>1
      <4> QED
        BY <3>3, <4>1, <4>2, <4>3
    <3> HIDE DEF Entries
    <3>8. \E j \in came .. N : /\ spc' = "entries" /\ toServer' = <<>> /\ Len(listing') = N - j
                               /\ \A i \in 1 .. N - j : listing'[i] = Order[j + i]
                               /\ Entries(j)'
      <4>1. spc' = "entries" /\ toServer' = <<>>
        BY <1>3, <2>1, <2>4, <3>3
      <4> QED
        BY <3>2, <3>5, <3>6, <3>7, <4>1, Zenon
    <3>9. Showing'
      BY <1>1, <2>2, <2>3, <3>8 DEF Showing, client, N, Order, Named
    <3> QED
      BY <2>4, <3>9
  <2> QED
    BY <2>5, <2>6
<1> QED
  BY <1>2, <1>3 DEF Showing
(* When the last file has been shown, each has been, once.                 *)
LEMMA AllOfThem ==
  ASSUME NEW c \in Seq(Units), Len(c) = N, \A i \in 1 .. N : c[i] = Named(Order[i])
  PROVE  {c[i].of : i \in DOMAIN c} = File
<1> HIDE DEF Units
<1>1. /\ N \in Nat /\ \A i \in 1 .. N : Order[i] \in File
      /\ \A f \in File : \E i \in 1 .. N : Order[i] = f
  BY OrderOfFiles
<1>2. DOMAIN c = 1 .. N
  BY LenProperties
<1>3. \A i \in 1 .. N : c[i].of = Order[i]
  BY DEF Named, Unit
<1> DEFINE shown == {c[i].of : i \in DOMAIN c}
<1>4. ASSUME NEW f \in File PROVE f \in shown
  <2>1. PICK i \in 1 .. N : Order[i] = f
    BY <1>1
  <2>2. i \in DOMAIN c /\ c[i].of = f
    BY <1>2, <1>3, <2>1
  <2> QED
    BY <2>2
<1>5. ASSUME NEW f \in shown PROVE f \in File
  <2>1. PICK i \in DOMAIN c : f = c[i].of
    OBVIOUS
  <2> QED
    BY <1>1, <1>2, <1>3, <2>1
<1> HIDE DEF shown
<1>6. shown = File
  BY <1>4, <1>5
<1> QED
  BY <1>6 DEF shown

LEMMA ShowingClient ==
  ASSUME Types, Showing, FtpClientStep
  PROVE  (Showing \/ AtRest)' /\ UNCHANGED served
<1> HIDE DEF Units
<1>0. /\ <<>> \in Seq(Units) /\ N \in Nat /\ Order \in Seq(File) /\ Len(Order) = N
      /\ came \in Nat /\ toClient \in Seq(Units) /\ copy \in Seq(Units) /\ Len(toClient) \in Nat
      /\ toClient # <<>> /\ Len(toClient) # 0
  BY EmptySeq, OrderOfFiles, LenProperties, ClientOf DEF Types
<1>1. UNCHANGED server /\ UNCHANGED <<asked, commands, expected, toServer>>
  BY ClientOf DEF Showing, DirLength, DirEntry
<1>2. PICK k \in came .. N :
        /\ spc = "entries" \/ (spc = "header" /\ k = N)
        /\ toServer = <<>> /\ Len(listing) = N - k
        /\ \A i \in 1 .. N - k : listing[i] = Order[k + i]
        /\ Entries(k)
  BY <1>0 DEF Showing
<1>3. /\ cpc \in {"length", "entry"} /\ expected = N /\ came < N /\ Len(copy) = came
      /\ \A i \in 1 .. came : copy[i] = Named(Order[i])
  BY DEF Showing
<1>4. /\ Tail(toClient) \in Seq(Units) /\ Len(Tail(toClient)) = Len(toClient) - 1
      /\ Head(toClient) = toClient[1]
      /\ \A i \in 1 .. Len(toClient) - 1 : Tail(toClient)[i] = toClient[i + 1]
  BY <1>0, FirstTaken
<1>5. Word(1).kind = "word" /\ \A f : Named(f).kind = "name" /\ Named(f)' = Named(f)
  BY DEF Word, Named, Unit
<1>6. /\ spc' = "entries" \/ (spc' = "header" /\ k = N)
      /\ toServer' = <<>> /\ Len(listing') = N - k
      /\ \A i \in 1 .. N - k : listing'[i] = Order[k + i]
  BY <1>1, <1>2 DEF server
<1> HIDE DEF Word, Named
<1>7. CASE cpc = "length"
  <2>1. /\ Len(toClient) = 2 * (k - came)
        /\ \A i \in 1 .. k - came :
             toClient[2 * i - 1] = Word(1) /\ toClient[2 * i] = Named(Order[came + i])
    BY <1>2, <1>7 DEF Entries
  <2>2. came < k
    BY <1>0, <1>2, <2>1
  <2>3. toClient[1] = Word(1)
    <3>1. 1 \in 1 .. k - came /\ 2 * 1 - 1 = 1
      BY <1>0, <1>2, <2>2
    <3> QED
      BY <2>1, <3>1
  <2>4. DirLength
    BY <1>7, ClientOf
  <2>5. cpc' = "entry" /\ toClient' = Tail(toClient) /\ came' = came /\ copy' = copy
    BY <1>4, <1>5, <2>3, <2>4 DEF DirLength
  <2>6. ASSUME NEW i \in 1 .. k - came PROVE toClient'[2 * i - 1] = Named(Order[came + i])
    <3>1. 2 * i - 1 \in 1 .. Len(toClient) - 1 /\ (2 * i - 1) + 1 = 2 * i
      BY <1>0, <1>2, <2>1
    <3> QED
      BY <1>4, <2>1, <2>5, <3>1
  <2>7. ASSUME NEW i \in 1 .. k - came - 1 PROVE toClient'[2 * i] = Word(1)
    <3>1. 2 * i \in 1 .. Len(toClient) - 1 /\ 2 * i + 1 = 2 * (i + 1) - 1 /\ i + 1 \in 1 .. k - came
      BY <1>0, <1>2, <2>1
    <3>2. toClient'[2 * i] = toClient[2 * i + 1]
      BY <1>4, <2>5, <3>1
    <3>3. toClient[2 * (i + 1) - 1] = Word(1)
      BY <2>1, <3>1
    <3> QED
      BY <3>1, <3>2, <3>3
  <2>8. Len(toClient') = 2 * (k - came) - 1
    BY <1>4, <2>1, <2>5
  <2>9. Entries(k)'
    BY <1>5, <2>2, <2>5, <2>6, <2>7, <2>8 DEF Entries, Order, Word
  <2>10. \E j \in came' .. N : /\ spc' = "entries" \/ (spc' = "header" /\ j = N)
                               /\ toServer' = <<>> /\ Len(listing') = N - j
                               /\ \A i \in 1 .. N - j : listing'[i] = Order[j + i]
                               /\ Entries(j)'
    <3> HIDE DEF Entries
    <3>1. k \in came' .. N
      BY <2>5
    <3> QED
      BY <1>6, <2>9, <3>1, Zenon
  <2>11. Showing'
    BY <1>1, <1>3, <2>5, <2>10 DEF Showing, N, Order, Named
  <2> QED
    BY <1>1, <2>11 DEF server
<1>8. CASE cpc = "entry"
  <2>1. /\ came < k /\ Len(toClient) = 2 * (k - came) - 1
        /\ \A i \in 1 .. k - came : toClient[2 * i - 1] = Named(Order[came + i])
        /\ \A i \in 1 .. k - came - 1 : toClient[2 * i] = Word(1)
    BY <1>2, <1>8 DEF Entries
  <2>2. toClient[1] = Named(Order[came + 1])
    <3>1. 1 \in 1 .. k - came /\ 2 * 1 - 1 = 1
      BY <1>0, <1>2, <2>1
    <3> QED
      BY <2>1, <3>1
  <2>3. DirEntry
    BY <1>8, ClientOf
  <2>4. /\ copy' = Append(copy, Head(toClient)) /\ toClient' = Tail(toClient) /\ came' = came + 1
        /\ cpc' = IF came + 1 = expected THEN "prompt" ELSE "length"
    BY <1>4, <1>5, <2>2, <2>3 DEF DirEntry
  <2>5. /\ copy' \in Seq(Units) /\ Len(copy') = came + 1
        /\ \A i \in 1 .. came + 1 : copy'[i] = Named(Order[i])
    <3>1. Head(toClient) \in Units
      BY <1>0, HeadTailProperties
    <3>2. /\ Append(copy, Head(toClient)) \in Seq(Units)
          /\ Len(Append(copy, Head(toClient))) = Len(copy) + 1
          /\ \A i \in 1 .. Len(copy) : Append(copy, Head(toClient))[i] = copy[i]
          /\ Append(copy, Head(toClient))[Len(copy) + 1] = Head(toClient)
      BY <1>0, <3>1, AppendProperties
    <3>3. \A i \in 1 .. came + 1 : i \in 1 .. came \/ i = came + 1
      BY <1>0
    <3> QED
      BY <1>3, <1>4, <2>2, <2>4, <3>2, <3>3
  <2>6. CASE came + 1 = N
    <3>1. k = N
      BY <1>0, <1>2, <2>1, <2>6
    <3>2. toClient' = <<>>
      <4>1. Len(toClient') = 0
        <5>1. Len(toClient) = 2 * (N - came) - 1 /\ N - came = 1
          BY <1>0, <2>1, <2>6, <3>1
        <5>2. Len(toClient) = 1
          BY <5>1
        <5> QED
          BY <1>4, <2>4, <5>2
      <4>2. toClient' \in Seq(Units)
        BY <1>4, <2>4
      <4> QED
        BY <4>1, <4>2, EmptySeq
    <3>3. spc' = "header" \/ (spc' = "entries" /\ listing' = <<>>)
      <4>1. Len(listing) = 0 /\ listing \in Seq(File) /\ listing' = listing
        BY <1>0, <1>1, <1>2, <3>1 DEF Types, server
      <4>2. listing' = <<>>
        BY <4>1, EmptySeq
      <4> QED
        BY <1>6, <4>2
    <3>4. Ready(<<>>)'
      BY <1>6, <3>3 DEF Ready
    <3>5. {copy'[i].of : i \in DOMAIN copy'} = File /\ Len(copy') = N
      BY <2>5, <2>6, AllOfThem
    <3>6. AllShown'
      BY <3>5 DEF AllShown, N
    <3>7. cpc' = "prompt"
      BY <1>3, <2>4, <2>6
    <3>8. AtRest'
      BY <3>2, <3>4, <3>6, <3>7 DEF AtRest
    <3> QED
      BY <1>1, <3>8 DEF server
  <2>7. CASE came + 1 # N
    <3>0. cpc' = "length" /\ came + 1 < N /\ k \in came' .. N
      BY <1>0, <1>2, <1>3, <2>1, <2>4, <2>7, SMTT(30)
    <3>1. ASSUME NEW i \in 1 .. k - (came + 1)
          PROVE  toClient'[2 * i - 1] = Word(1) /\ toClient'[2 * i] = Named(Order[(came + 1) + i])
      <4>1. /\ 2 * i - 1 \in 1 .. Len(toClient) - 1 /\ (2 * i - 1) + 1 = 2 * i
            /\ 2 * i \in 1 .. Len(toClient) - 1 /\ 2 * i + 1 = 2 * (i + 1) - 1
            /\ i + 1 \in 1 .. k - came /\ i \in 1 .. k - came - 1 /\ came + (i + 1) = (came + 1) + i
        BY <1>0, <1>2, <2>1
      <4>2. toClient'[2 * i - 1] = toClient[2 * i]
        BY <1>4, <2>4, <4>1
      <4>3. toClient'[2 * i] = toClient[2 * i + 1]
        BY <1>4, <2>4, <4>1
      <4>4. toClient[2 * i] = Word(1) /\ toClient[2 * (i + 1) - 1] = Named(Order[came + (i + 1)])
        BY <2>1, <4>1
      <4> QED
        BY <4>1, <4>2, <4>3, <4>4
    <3>2. Len(toClient') = 2 * (k - (came + 1))
      BY <1>0, <1>2, <1>4, <2>1, <2>4
    <3>3. Entries(k)'
      BY <1>5, <2>4, <3>0, <3>1, <3>2 DEF Entries, Order, Word
    <3>4. \E j \in came' .. N : /\ spc' = "entries" \/ (spc' = "header" /\ j = N)
                                /\ toServer' = <<>> /\ Len(listing') = N - j
                                /\ \A i \in 1 .. N - j : listing'[i] = Order[j + i]
                                /\ Entries(j)'
      <4> HIDE DEF Entries
      <4> QED
        BY <1>6, <3>0, <3>3, Zenon
    <3>5. /\ came' < N /\ Len(copy') = came'
          /\ \A i \in 1 .. came' : copy'[i] = Named(Order[i])
      BY <2>4, <2>5, <3>0
    <3>6. Showing'
      BY <1>1, <1>3, <3>0, <3>4, <3>5 DEF Showing, N, Order, Named
    <3> QED
      BY <1>1, <3>6 DEF server
  <2> QED
    BY <2>6, <2>7
<1> QED
  BY <1>3, <1>7, <1>8

LEMMA ShowingStep ==
  ASSUME Types, served = 0, Showing, FtpNext
  PROVE  served' = 0 /\ (AtRest \/ Showing)'
<1>1. ~User
  BY UserOf DEF Showing
<1> QED
  BY <1>1, ShowingServer, ShowingClient DEF FtpNext
-----------------------------------------------------------------------------
(* The first file                                                          *)

(* The file, and how many packets it takes; kept while it arrives.         *)
TakesFile ==
  /\ asked \in File /\ name = asked
  /\ packets = IF Size[asked] > 1 THEN Size[asked] ELSE 1

LEMMA TakesTypes ==
  ASSUME TakesFile
  PROVE  /\ Size[asked] \in Nat /\ packets \in Nat \ {0}
         /\ Size[asked] = 0 => packets = 1
         /\ Size[asked] > 0 => packets = Size[asked]
  BY FtpAssumption DEF TakesFile

LEMMA TakesKept ==
  ASSUME TakesFile, UNCHANGED <<asked, name, packets>>
  PROVE  TakesFile'
  BY DEF TakesFile

(* The client learns how many packets there are, and sends it back.        *)
LEMMA CountStep ==
  ASSUME Types, TakesFile, FtpNext,
         cpc = "count" /\ spc = "ack" /\ sent = 0 /\ came = 0 /\ copy = <<>>,
         toServer = <<>> /\ toClient = Header(packets, PACKET_SIZE)
  PROVE  Arriving' /\ UNCHANGED <<commands, served>>
<1> HIDE DEF Units
<1>1. GetCount /\ UNCHANGED server /\ UNCHANGED <<asked, commands>>
  BY UserOf, ClientOf, ServerOf DEF FtpNext
<1>2. PICK x \in Int, y \in Int, w \in Seq(Units) : x = packets /\ y = PACKET_SIZE /\ w = <<>>
  <2>1. packets \in Int /\ PACKET_SIZE \in Int
    BY FtpAssumption DEF Types
  <2>2. <<>> \in Seq(Units)
    BY EmptySeq
  <2> QED
    BY <2>1, <2>2
<1>3. Header(x, y) \in Seq(Units)
  BY HeaderTypes
<1> HIDE DEF Header
<1>4. /\ Words(Header(x, y) \o w, 2) = Header(x, y) /\ Beyond(Header(x, y) \o w, Header(x, y)) = w
      /\ Len(Header(x, y)) = 2 /\ Header(x, y)[1].n = x
  BY HeaderTaken
<1>5. Header(x, y) \o <<>> = Header(x, y) /\ <<>> \o Header(x, y) = Header(x, y)
  BY <1>3, ConcatEmptySeq
<1>6. toClient = Header(x, y) \o w /\ toClient = Header(x, y)
  BY <1>2, <1>5
<1>7. /\ Words(toClient, 2) = Header(x, y) /\ Beyond(toClient, Header(x, y)) = <<>>
      /\ Len(Header(x, y)) = 2 /\ Header(x, y)[1].n = packets
  BY <1>2, <1>4, <1>6
<1>8. packets \in Nat \ {0}
  BY TakesTypes
<1>9. /\ expected' = packets /\ toClient' = <<>> /\ toServer' = toServer \o Header(x, y) /\ cpc' = "data"
      /\ UNCHANGED <<came, copy>>
  <2>1. PICK got : got = Words(toClient, 2)
    OBVIOUS
  <2>2. got = Header(x, y) /\ Len(got) = 2 /\ got[1].n = packets /\ packets # 0 /\ Beyond(toClient, got) = <<>>
    BY <1>7, <1>8, <2>1
  <2>3. ~(Len(got) < 2) /\ ~(got[1].n = 0)
    BY <2>2
  <2>4. /\ expected' = got[1].n /\ toClient' = Beyond(toClient, got) /\ toServer' = toServer \o got
        /\ cpc' = IF got[1].n = 0 THEN "prompt" ELSE "data"
    BY <1>1, <2>1, <2>3 DEF GetCount, ClientAsks
  <2>5. UNCHANGED <<came, copy>>
    BY <1>1 DEF GetCount
  <2> QED
    BY <2>2, <2>3, <2>4, <2>5
<1>10. toServer' = Header(packets, PACKET_SIZE)
  BY <1>2, <1>5, <1>9
<1>11. TakesFile' /\ UNCHANGED <<packets, spc, sent, served>>
  BY <1>1, TakesKept DEF server
<1> QED
  BY <1>1, <1>8, <1>9, <1>10, <1>11 DEF Arriving, TakesFile

(* The server takes half of what the client sent back.                     *)
LEMMA AckStep ==
  ASSUME Types, TakesFile, FtpNext,
         cpc = "data" /\ expected = packets /\ came < packets,
         spc = "ack" /\ sent = 0 /\ came = 0 /\ copy = <<>>,
         toServer = Header(packets, PACKET_SIZE) /\ toClient = <<>>
  PROVE  Arriving' /\ UNCHANGED <<commands, served>>
<1> HIDE DEF Units
<1>1. ReadAck /\ UNCHANGED client
  BY UserOf, ClientOf, ServerOf DEF FtpNext
<1>2. packets \in Nat \ {0} /\ PACKET_SIZE \in Int
  BY TakesTypes, FtpAssumption
<1>3. /\ toServer \in Seq(Units) /\ Len(toServer) = 2
      /\ toServer[1] = Word(packets) /\ toServer[2] = Word(PACKET_SIZE)
      /\ \A i \in 1 .. 2 : toServer[i].kind = "word"
  <2>1. PICK x \in Int, y \in Int : x = packets /\ y = PACKET_SIZE
    BY <1>2
  <2>2. /\ Header(x, y) \in Seq(Units) /\ Len(Header(x, y)) = 2
        /\ Header(x, y)[1] = Word(x) /\ Header(x, y)[2] = Word(y)
        /\ \A i \in 1 .. 2 : Header(x, y)[i].kind = "word"
    BY HeaderTypes
  <2> HIDE DEF Header, Word
  <2> QED
    BY <2>1, <2>2
<1>4. Word(packets).n = packets /\ Word(PACKET_SIZE) \in Units /\ Word(PACKET_SIZE).kind = "word"
  BY <1>2, UnitTypes
<1> HIDE DEF Header, Word
<1> DEFINE got == Words(toServer, 1)
           rest == Beyond(toServer, got)
<1>5. got \in Seq(Units) /\ rest \in Seq(Units)
  BY <1>3, WordsTypes
<1>6. Len(got) = 1 /\ got[1] = toServer[1] /\ Len(rest) = 1 /\ rest[1] = toServer[2]
  <2>1. PICK n \in Nat, m \in Nat : n = 1 /\ m = 1
    OBVIOUS
  <2>2. (m = n /\ n <= Len(toServer)) \/ (m = Len(toServer) /\ m < n)
    BY <1>3, <2>1
  <2>3. \A i \in 1 .. m : toServer[i].kind = "word"
    BY <1>3, <2>1
  <2>4. /\ Len(Words(toServer, n)) = m /\ \A i \in 1 .. m : Words(toServer, n)[i] = toServer[i]
        /\ Len(Beyond(toServer, Words(toServer, n))) = Len(toServer) - m
        /\ \A i \in 1 .. Len(toServer) - m : Beyond(toServer, Words(toServer, n))[i] = toServer[i + m]
    BY <1>3, <2>2, <2>3, WordsTaken
  <2> QED
    BY <1>3, <2>1, <2>4
<1>7. got # <<>>
  <2>1. Len(<<>>) = 0 /\ 1 # 0
    OBVIOUS
  <2> QED
    BY <1>6, <2>1
<1>8. toServer' = rest /\ spc' = "send" /\ UNCHANGED <<toClient, name, packets, sent, listing, served>>
  BY <1>1, <1>3, <1>4, <1>6, <1>7 DEF ReadAck, Got, Reads
<1>9. rest = <<Word(PACKET_SIZE)>>
  <2>1. /\ <<Word(PACKET_SIZE)>> \in Seq(Units) /\ Len(<<Word(PACKET_SIZE)>>) = 1
        /\ <<Word(PACKET_SIZE)>>[1] = Word(PACKET_SIZE)
    BY <1>4, OneUnit
  <2>2. \A i \in 1 .. Len(rest) : rest[i] = <<Word(PACKET_SIZE)>>[i]
    BY <1>3, <1>6, <2>1
  <2> HIDE DEF rest
  <2> QED
    BY <1>5, <1>6, <2>1, <2>2, SeqEqual
<1> HIDE DEF got, rest
<1>10. TakesFile'
  BY <1>1, <1>8, TakesKept DEF client
<1>11. /\ cpc' = "data" /\ expected' = packets' /\ came' < packets' /\ sent' = 0 /\ came' = 0 /\ copy' = <<>>
       /\ toServer' = <<Word(PACKET_SIZE)>> /\ toClient' = <<>> /\ asked' = asked /\ commands' = commands
  BY <1>1, <1>8, <1>9 DEF client
<1>12. CASE Size[asked] = 0
  BY <1>8, <1>10, <1>11, <1>12 DEF Arriving, TakesFile, Word
<1>13. CASE Size[asked] # 0
  <2>1. Len(toServer') = 1 /\ \A i \in 1 .. Len(toServer') : toServer'[i].kind = "word"
    BY <1>4, <1>11
  <2>2. Owed' = 0
    BY <1>8, <1>11 DEF Owed
  <2>3. Len(toServer') + 2 * Owed' - 2 * came' \in {1, 2}
    BY <1>11, <2>1, <2>2
  <2>4. Len(toClient') = 0 /\ Len(copy') = 0
    BY <1>11
  <2>5. Flowing'
    BY <1>2, <1>8, <1>11, <2>1, <2>3, <2>4 DEF Flowing
  <2>6. Size[asked] > 0
    BY <1>13, TakesTypes
  <2> QED
    BY <1>8, <1>10, <1>11, <2>5, <2>6 DEF Arriving, TakesFile
<1> QED
  BY <1>8, <1>11, <1>12, <1>13
(* An empty file is answered by a failure, which the client takes for its  *)
(* only packet.                                                            *)
LEMMA EmptyStep ==
  ASSUME Types, TakesFile, FtpNext,
         cpc = "data" /\ expected = packets /\ came < packets,
         Size[asked] = 0 /\ came = 0 /\ copy = <<>>,
         toServer = <<>> \/ toServer = <<Word(PACKET_SIZE)>>,
         (spc = "send" /\ toClient = <<>>) \/ (spc = "header" /\ toClient = FailHeader)
  PROVE  (Arriving \/ FileIsThere)' /\ UNCHANGED <<commands, served>>
<1> HIDE DEF Units
<1>0. PACKET_SIZE \in Int \ {1, 3} /\ packets = 1
  BY TakesTypes, FtpAssumption
<1>1. /\ FailHeader \in Seq(Units) /\ Len(FailHeader) = 2 /\ FailHeader[1] = Word(0)
      /\ \A i \in 1 .. Len(FailHeader) : FailHeader[i].kind = "word"
      /\ <<>> \o FailHeader = FailHeader /\ FailHeader # <<>>
  <2>1. /\ FailHeader \in Seq(Units) /\ Len(FailHeader) = 2 /\ FailHeader[1] = Word(0)
        /\ \A i \in 1 .. 2 : FailHeader[i].kind = "word"
    BY HeaderTypes DEF FailHeader
  <2>2. <<>> \o FailHeader = FailHeader
    BY <2>1, ConcatEmptySeq
  <2>3. Len(<<>>) = 0 /\ 2 # 0
    OBVIOUS
  <2>4. FailHeader # <<>>
    BY <2>1, <2>3
  <2> QED
    BY <2>1, <2>2, <2>4
<1>2. ASSUME ServerStep, spc = "send" PROVE Arriving' /\ UNCHANGED <<commands, served>>
  <2>1. SendPacket /\ UNCHANGED client
    BY <1>2, ServerOf
  <2>2. /\ toClient' = FailHeader /\ spc' = "header"
        /\ UNCHANGED <<sent, toServer, name, packets, listing, served>>
    BY <1>1, <1>2, <2>1 DEF SendPacket, Answers, TakesFile, NothingToRead
  <2>3. TakesFile'
    BY <2>1, <2>2, TakesKept DEF client
  <2>4. FailHeader' = FailHeader
    BY DEF FailHeader, Header, Word, Unit
  <2> HIDE DEF Word, FailHeader
  <2> QED
    BY <2>1, <2>2, <2>3, <2>4 DEF Arriving, TakesFile, client, Word
<1>3. ASSUME ServerStep, spc = "header" PROVE Arriving' /\ UNCHANGED <<commands, served>>
  <2>1. ReadHeader /\ UNCHANGED client /\ toServer = <<Word(PACKET_SIZE)>>
    BY <1>3, ServerOf
  <2>2. Word(PACKET_SIZE) \in Units /\ Word(PACKET_SIZE).kind = "word" /\ Word(PACKET_SIZE).n = PACKET_SIZE
    BY <1>0, UnitTypes
  <2> HIDE DEF Word
  <2>3. PICK z : z = <<Word(PACKET_SIZE)>>
    OBVIOUS
  <2>4. z \in Seq(Units) /\ Len(z) = 1 /\ z[1] = Word(PACKET_SIZE)
    BY <2>2, <2>3, OneUnit
  <2>5. \A i \in 1 .. Len(z) : z[i].kind = "word"
    BY <2>2, <2>4
  <2>6. Words(toServer, 2) = z /\ Beyond(toServer, z) = <<>> /\ z # <<>>
    <3>1. PICK n \in Nat : n = 2
      OBVIOUS
    <3>2. Len(z) <= n
      BY <2>4, <3>1
    <3>3. z \in Seq(Units)
      BY <2>4
    <3>4. Words(z, n) = z /\ Beyond(z, z) = <<>>
      BY <2>5, <3>2, <3>3, AllTaken
    <3> QED
      BY <2>1, <2>3, <2>4, <3>1, <3>4
  <2>7. Field(z, 1) = PACKET_SIZE /\ Field(z, 2) = 0
    BY <2>2, <2>4 DEF Field
  <2>8. toServer' = <<>> /\ spc' = "header" /\ UNCHANGED <<toClient, name, packets, sent, listing, served>>
    BY <1>0, <1>3, <2>1, <2>6, <2>7 DEF ReadHeader, Got, Reads
  <2>9. TakesFile'
    BY <2>1, <2>8, TakesKept DEF client
  <2>10. FailHeader' = FailHeader /\ toClient = FailHeader
    BY <1>3 DEF FailHeader, Header, Word, Unit
  <2> HIDE DEF FailHeader
  <2> QED
    BY <1>3, <2>1, <2>8, <2>9, <2>10 DEF Arriving, TakesFile, client
<1>4. ASSUME FtpClientStep PROVE FileIsThere' /\ UNCHANGED <<commands, served>>
  <2>1. /\ GetPacket /\ UNCHANGED server /\ UNCHANGED <<asked, commands>>
        /\ toClient = FailHeader /\ toClient # <<>>
    BY <1>4, ClientOf
  <2>2. Head(toClient).kind = "word"
    BY <1>1, <2>1, FirstTaken
  <2>3. Words(toClient, Len(toClient)) = toClient /\ Len(toClient) = 2
    <3>1. PICK n \in Nat : n = Len(FailHeader)
      BY <1>1
    <3>2. PICK z \in Seq(Units) : z = FailHeader
      BY <1>1
    <3>3. Len(z) <= n /\ \A i \in 1 .. Len(z) : z[i].kind = "word"
      <4>1. \A i \in 1 .. Len(FailHeader) : FailHeader[i].kind = "word"
        BY <1>1
      <4>2. \A i \in 1 .. Len(z) : z[i].kind = "word"
        BY <3>2, <4>1, Zenon
      <4>3. Len(z) = n
        BY <3>1, <3>2
      <4> QED
        BY <3>1, <4>2, <4>3
    <3>4. Words(z, n) = z
      BY <3>3, AllTaken
    <3> QED
      BY <1>1, <2>1, <3>1, <3>2, <3>4
  <2>4. SubSeq(toClient, 1, 2) = FailHeader
    BY <1>1, <2>1, <2>3, SubSeqFull
  <2> HIDE DEF FailHeader, Header
  <2>5. copy' = copy \o SubSeq(toClient, 1, 2) /\ cpc' = IF came + 1 = expected THEN "prompt" ELSE "data"
    BY <2>1, <2>2, <2>3 DEF GetPacket
  <2>6. copy' = FailHeader /\ cpc' = "prompt"
    BY <1>0, <1>1, <2>4, <2>5
  <2>7. FailHeader' = FailHeader
    BY DEF FailHeader, Header, Word, Unit
  <2> QED
    BY <2>1, <2>6, <2>7 DEF FileIsThere, server
<1>5. ~User
  BY UserOf
<1> QED
  BY <1>2, <1>3, <1>4, <1>5 DEF FtpNext
(* Packets of a file that takes some.                                      *)
FlowState ==
  TakesFile /\ Size[asked] > 0 /\ Flowing /\ cpc = "data" /\ expected = packets /\ came < packets

LEMMA FlowSend ==
  ASSUME Types, FlowState, ServerStep, spc = "send"
  PROVE  FlowState' /\ UNCHANGED <<commands, served>>
<1> HIDE DEF Units
<1>0. /\ sent \in Nat /\ came \in Nat /\ packets \in Nat /\ toClient \in Seq(Units) /\ Len(toClient) \in Nat
      /\ asked \in Names
  BY LenProperties DEF Types
<1>1. SendPacket /\ UNCHANGED client
  BY ServerOf
<1>2. Packet(asked, sent + 1) \in Units
  BY <1>0, UnitTypes
<1>3. /\ toClient' = toClient \o <<Packet(asked, sent + 1)>> /\ spc' = "wait" /\ sent' = sent + 1
      /\ UNCHANGED <<toServer, name, packets, listing, served>>
  <2>1. ~NothingToRead(name) /\ name = asked
    BY FtpAssumption DEF FlowState, TakesFile, NothingToRead
  <2> QED
    BY <1>1, <2>1 DEF SendPacket, Answers
<1>4. /\ Len(toClient') = Len(toClient) + 1 /\ \A i \in 1 .. Len(toClient) : toClient'[i] = toClient[i]
      /\ toClient'[Len(toClient) + 1] = Packet(asked, sent + 1)
  <2>1. PICK u \in Units : u = Packet(asked, sent + 1)
    BY <1>2
  <2>2. toClient' = Append(toClient, u)
    BY <1>0, <1>3, <2>1, AppendIsConcat
  <2> QED
    BY <1>0, <2>1, <2>2, AppendProperties
<1>5. /\ Len(toClient) = sent - came /\ \A i \in 1 .. sent - came : toClient[i] = Packet(asked, came + i)
      /\ came <= sent /\ sent < packets /\ \A i \in 1 .. Len(toServer) : toServer[i].kind = "word"
      /\ Len(toServer) + 2 * sent - 2 * came \in {1, 2}
      /\ Len(copy) = came /\ \A i \in 1 .. came : copy[i] = Packet(asked, i)
  BY DEF FlowState, Flowing, Owed
<1>6. ASSUME NEW i \in 1 .. (sent + 1) - came PROVE toClient'[i] = Packet(asked, came + i)
  <2>1. CASE i \in 1 .. Len(toClient)
    BY <1>0, <1>4, <1>5, <2>1
  <2>2. CASE i \notin 1 .. Len(toClient)
    <3>1. Len(toClient) = sent - came /\ came <= sent /\ sent \in Nat /\ came \in Nat
      BY <1>0, <1>5
    <3>2. i = Len(toClient) + 1 /\ came + i = sent + 1
      BY <2>2, <3>1
    <3> QED
      BY <1>4, <3>2
  <2> QED
    BY <2>1, <2>2
<1>7. Owed' = sent
  BY <1>0, <1>3 DEF Owed
<1>8. Len(toServer)' + 2 * Owed' - 2 * came' \in {1, 2}
  BY <1>1, <1>3, <1>5, <1>7 DEF client
<1>9. Len(toClient') = sent' - came' /\ \A i \in 1 .. sent' - came' : toClient'[i] = Packet(asked, came + i)
  <2>1. came' = came /\ sent' = sent + 1
    BY <1>1, <1>3 DEF client
  <2>2. Len(toClient') = (sent + 1) - came
    BY <1>0, <1>4, <1>5
  <2> QED
    BY <1>6, <2>1, <2>2
<1>10. came' <= sent' /\ sent' <= packets' /\ sent' > 0
  BY <1>0, <1>1, <1>3, <1>5, SMTT(40) DEF client
<1>11. Flowing'
  BY <1>1, <1>3, <1>5, <1>8, <1>9, <1>10 DEF Flowing, client, Packet, Unit
<1>12. TakesFile'
  BY <1>1, <1>3, TakesKept DEF client, FlowState
<1> QED
  BY <1>1, <1>3, <1>11, <1>12 DEF FlowState, client

LEMMA FlowWait ==
  ASSUME Types, FlowState, ServerStep, spc = "wait"
  PROVE  FlowState' /\ UNCHANGED <<commands, served>>
<1> HIDE DEF Units
<1>0. /\ sent \in Nat /\ came \in Nat /\ packets \in Nat /\ toServer \in Seq(Units) /\ Len(toServer) \in Nat
  BY LenProperties DEF Types
<1>1. AckPacket /\ UNCHANGED client /\ toServer # <<>>
  BY ServerOf
<1>2. /\ came <= sent /\ sent <= packets /\ sent > 0
      /\ \A i \in 1 .. Len(toServer) : toServer[i].kind = "word"
      /\ Len(toServer) + 2 * (sent - 1) - 2 * came \in {1, 2}
  BY DEF FlowState, Flowing, Owed
<1>3. PICK m \in Nat : (m = 1 /\ Len(toServer) < 2) \/ (m = 2 /\ ~(Len(toServer) < 2))
  <2>1. 1 \in Nat /\ 2 \in Nat
    OBVIOUS
  <2> QED
    BY <2>1, Zenon
<1>4. Len(toServer) # 0
  BY <1>0, <1>1, EmptySeq
<1>5. PICK n \in Nat : n = 2
  OBVIOUS
<1>6. /\ Len(Words(toServer, n)) = m
      /\ Len(Beyond(toServer, Words(toServer, n))) = Len(toServer) - m
      /\ \A i \in 1 .. Len(toServer) - m : Beyond(toServer, Words(toServer, n))[i] = toServer[i + m]
  <2>1. (m = n /\ n <= Len(toServer)) \/ (m = Len(toServer) /\ m < n)
    BY <1>0, <1>3, <1>4, <1>5
  <2>2. \A i \in 1 .. m : toServer[i].kind = "word"
    BY <1>0, <1>2, <2>1, SMTT(30)
  <2>3. PICK w \in Seq(Units) : w = toServer
    BY <1>0
  <2>4. (m = n /\ n <= Len(w)) \/ (m = Len(w) /\ m < n)
    BY <2>1, <2>3
  <2>5. \A i \in 1 .. m : w[i].kind = "word"
    BY <2>2, <2>3
  <2>6. /\ Len(Words(w, n)) = m
        /\ Len(Beyond(w, Words(w, n))) = Len(w) - m
        /\ \A i \in 1 .. Len(w) - m : Beyond(w, Words(w, n))[i] = w[i + m]
    BY <2>4, <2>5, WordsTaken
  <2> QED
    BY <2>3, <2>6
<1>7. Words(toServer, n) # <<>>
  <2>1. Len(<<>>) = 0
    OBVIOUS
  <2> QED
    BY <1>3, <1>6, <2>1
<1>8. /\ toServer' = Beyond(toServer, Words(toServer, n))
      /\ spc' = IF sent = packets THEN "header" ELSE "send"
      /\ UNCHANGED <<toClient, name, packets, sent, listing, served>>
  BY <1>1, <1>5, <1>7 DEF AckPacket, Got, Reads
<1>9. Len(toServer') = Len(toServer) - m /\ \A i \in 1 .. Len(toServer') : toServer'[i].kind = "word"
  <2>1. Len(toServer') = Len(toServer) - m
    BY <1>6, <1>8
  <2>2. ASSUME NEW i \in 1 .. Len(toServer') PROVE toServer'[i].kind = "word"
    <3>1. i + m \in 1 .. Len(toServer) /\ i \in 1 .. Len(toServer) - m
      BY <1>0, <1>3, <2>1
    <3>2. toServer'[i] = toServer[i + m]
      BY <1>6, <1>8, <3>1
    <3> QED
      BY <1>2, <3>1, <3>2
  <2> QED
    BY <2>1, <2>2
<1>10. Len(toServer') + 2 * sent - 2 * came \in {1, 2}
  <2>1. PICK L \in Nat, s \in Nat, c \in Nat : L = Len(toServer) /\ s = sent /\ c = came
    BY <1>0
  <2>2. L # 0 /\ L + 2 * (s - 1) - 2 * c \in {1, 2}
    BY <1>2, <1>4, <2>1
  <2>3. (m = 1 /\ L < 2) \/ (m = 2 /\ ~(L < 2))
    BY <1>3, <2>1
  <2>4. (L - m) + 2 * s - 2 * c \in {1, 2}
    BY <2>2, <2>3
  <2>5. Len(toServer') = L - m
    BY <1>9, <2>1
  <2> QED
    BY <2>1, <2>4, <2>5
<1>11. Owed' = sent
  BY <1>8 DEF Owed
<1>12. Len(toServer') + 2 * Owed' - 2 * came' \in {1, 2}
  BY <1>1, <1>10, <1>11 DEF client
<1>13. /\ Len(toClient) = sent - came /\ \A i \in 1 .. sent - came : toClient[i] = Packet(asked, came + i)
       /\ Len(copy) = came /\ \A i \in 1 .. came : copy[i] = Packet(asked, i)
  BY DEF FlowState, Flowing
<1>14. spc' = "send" => sent < packets
  BY <1>0, <1>2, <1>8
<1>15. Flowing'
  BY <1>1, <1>2, <1>8, <1>9, <1>12, <1>13, <1>14 DEF Flowing, client, Packet, Unit
<1>16. TakesFile'
  BY <1>1, <1>8, TakesKept DEF client, FlowState
<1> QED
  BY <1>1, <1>8, <1>15, <1>16 DEF FlowState, client

(* After its last packet the server has taken all that has come.           *)
LEMMA FlowServer ==
  ASSUME Types, FlowState, ServerStep
  PROVE  FlowState' /\ UNCHANGED <<commands, served>>
<1>1. spc # "header"
  <2>1. SUFFICES ASSUME spc = "header" PROVE FALSE
    OBVIOUS
  <2>2. Len(toServer) + 2 * packets - 2 * came \in {1, 2} /\ came < packets
    BY <2>1 DEF FlowState, Flowing, Owed
  <2>3. Len(toServer) \in Nat /\ packets \in Nat /\ came \in Nat
    BY LenProperties DEF Types
  <2>4. Len(toServer) = 0
    BY <2>2, <2>3
  <2>5. toServer \in Seq(Units) /\ toServer # <<>>
    BY <2>1, ServerOf DEF Types
  <2> HIDE DEF Units
  <2> QED
    BY <2>4, <2>5, EmptySeq
<1> QED
  BY <1>1, FlowSend, FlowWait DEF FlowState, Flowing
LEMMA FirstOf ==
  ASSUME NEW w \in Seq(Units), NEW c \in Seq(Units), Len(w) # 0
  PROVE  c \o SubSeq(w, 1, 1) = Append(c, w[1]) /\ SubSeq(w, 2, Len(w)) = Tail(w)
<1> HIDE DEF Units
<1>1. w # <<>> /\ w[1] \in Units /\ Len(w) \in Nat
  BY EmptySeq, LenProperties, ElementOfSeq
<1>2. SubSeq(w, 2, Len(w)) = Tail(w)
  BY <1>1, TailIsSubSeq
<1>3. SubSeq(w, 1, 1) = <<w[1]>>
  <2>1. /\ Len(SubSeq(w, 1, 1)) = 1 /\ SubSeq(w, 1, 1) \in Seq(Units) /\ SubSeq(w, 1, 1)[1] = w[1]
    <3>1. PICK m \in Nat : m = 1
      OBVIOUS
    <3>2. \A i \in m .. m : w[i] \in Units
      BY <1>1, <3>1
    <3>3. /\ SubSeq(w, m, m) \in Seq(Units)
          /\ Len(SubSeq(w, m, m)) = IF m <= m THEN m - m + 1 ELSE 0
          /\ \A i \in 1 .. m - m + 1 : SubSeq(w, m, m)[i] = w[m + i - 1]
      BY <1>1, <3>2, SubSeqProperties
    <3> QED
      BY <3>1, <3>3
  <2>2. <<w[1]>> \in Seq(Units) /\ Len(<<w[1]>>) = 1 /\ <<w[1]>>[1] = w[1]
    BY <1>1, OneUnit
  <2>3. PICK s \in Seq(Units), t \in Seq(Units) : s = SubSeq(w, 1, 1) /\ t = <<w[1]>>
    BY <2>1, <2>2
  <2>4. Len(s) = Len(t) /\ \A i \in 1 .. Len(s) : s[i] = t[i]
    BY <2>1, <2>2, <2>3
  <2>5. s = t
    BY <2>4, SeqEqual
  <2> QED
    BY <2>3, <2>5
<1>4. c \o <<w[1]>> = Append(c, w[1])
  BY <1>1, AppendIsConcat
<1> QED
  BY <1>2, <1>3, <1>4

LEMMA FlowClient ==
  ASSUME Types, FlowState, FtpClientStep
  PROVE  (FlowState \/ FileIsThere)' /\ UNCHANGED <<commands, served>>
<1> HIDE DEF Units
<1>0. /\ sent \in Nat /\ came \in Nat /\ packets \in Nat /\ toServer \in Seq(Units) /\ Len(toServer) \in Nat
      /\ toClient \in Seq(Units) /\ Len(toClient) \in Nat /\ copy \in Seq(Units)
  BY LenProperties DEF Types
<1>1. GetPacket /\ toClient # <<>> /\ UNCHANGED server /\ UNCHANGED <<asked, commands, expected>>
  <2>1. GetPacket
    BY ClientOf DEF FlowState
  <2> QED
    BY <2>1, ClientOf DEF GetPacket
<1>2. /\ Len(toClient) = sent - came /\ \A i \in 1 .. sent - came : toClient[i] = Packet(asked, came + i)
      /\ came <= sent /\ sent <= packets /\ \A i \in 1 .. Len(toServer) : toServer[i].kind = "word"
      /\ Len(toServer) + 2 * Owed - 2 * came \in {1, 2}
      /\ Len(copy) = came /\ \A i \in 1 .. came : copy[i] = Packet(asked, i)
      /\ came < packets /\ expected = packets /\ TakesFile /\ Size[asked] > 0
      /\ spc \in {"send", "wait", "header"} /\ (spc = "send" => sent < packets)
      /\ (spc = "wait" => sent > 0) /\ (spc = "header" => sent = packets)
  BY DEF FlowState, Flowing
<1>3. Len(toClient) # 0
  BY <1>0, <1>1, EmptySeq
<1>4. toClient[1] = Packet(asked, came + 1) /\ Head(toClient) = toClient[1] /\ Head(toClient).kind = "packet"
  <2>1. 1 \in 1 .. sent - came
    BY <1>0, <1>2, <1>3
  <2>2. toClient[1] = Packet(asked, came + 1)
    BY <1>2, <2>1
  <2>3. Head(toClient) = toClient[1]
    BY <1>0, <1>3, FirstTaken
  <2> QED
    BY <2>2, <2>3 DEF Packet, Unit
<1>5. /\ copy' = Append(copy, toClient[1]) /\ toClient' = Tail(toClient) /\ came' = came + 1
      /\ toServer' = toServer \o Header(came + 1, 0)
      /\ cpc' = IF came + 1 = packets THEN "prompt" ELSE "data"
  <2>1. /\ copy' = copy \o SubSeq(toClient, 1, 1) /\ toClient' = SubSeq(toClient, 1 + 1, Len(toClient))
        /\ came' = came + 1
        /\ toServer' = toServer \o Header(came + 1, 0)
        /\ cpc' = IF came + 1 = packets THEN "prompt" ELSE "data"
    BY <1>1, <1>2, <1>4, SMTT(30) DEF GetPacket, ClientAsks
  <2>2. /\ copy \o SubSeq(toClient, 1, 1) = Append(copy, toClient[1])
        /\ SubSeq(toClient, 2, Len(toClient)) = Tail(toClient)
    BY <1>0, <1>3, FirstOf
  <2>3. SubSeq(toClient, 1 + 1, Len(toClient)) = SubSeq(toClient, 2, Len(toClient))
    OBVIOUS
  <2> QED
    BY <2>1, <2>2, <2>3
<1>6. /\ copy' \in Seq(Units) /\ Len(copy') = came + 1
      /\ \A i \in 1 .. came + 1 : copy'[i] = Packet(asked, i)
  <2>1. PICK u \in Units : u = toClient[1]
    BY <1>0, <1>3, ElementOfSeq
  <2>2. /\ Append(copy, u) \in Seq(Units) /\ Len(Append(copy, u)) = Len(copy) + 1
        /\ \A i \in 1 .. Len(copy) : Append(copy, u)[i] = copy[i] /\ Append(copy, u)[Len(copy) + 1] = u
    BY <1>0, <2>1, AppendProperties
  <2>3. \A i \in 1 .. came + 1 : i \in 1 .. came \/ i = came + 1
    BY <1>0
  <2>4. copy' = Append(copy, u) /\ u = Packet(asked, came + 1)
    BY <1>4, <1>5, <2>1
  <2>5. Append(copy, u)[came + 1] = u
    BY <1>0, <1>2, <2>1, AppendProperties
  <2> QED
    BY <1>2, <2>2, <2>3, <2>4, <2>5
<1>7. TakesFile' /\ UNCHANGED <<commands, served, sent, packets, spc, asked>>
  BY <1>1, <1>2, TakesKept DEF server
<1>8. CASE came + 1 = packets
  <2>1. packets = Size[asked] /\ Size[asked] \in Nat
    BY <1>2, TakesTypes
  <2>2. PICK w : w = Whole(asked)
    OBVIOUS
  <2>3. w \in Seq(Units) /\ Len(w) = packets /\ \A i \in 1 .. packets : w[i] = Packet(asked, i)
    <3>1. \A i \in 1 .. packets : Packet(asked, i) \in Units
      BY UnitTypes DEF Types
    <3>2. w = [i \in 1 .. packets |-> Packet(asked, i)]
      BY <2>1, <2>2 DEF Whole
    <3> QED
      BY <1>0, <3>1, <3>2
  <2>4. \A i \in 1 .. Len(w) : copy'[i] = w[i]
    BY <1>6, <1>8, <2>3
  <2>5. copy' = w
    BY <1>6, <1>8, <2>3, <2>4, SeqEqual
  <2>6. Whole(asked)' = w
    BY <1>7, <2>2 DEF Whole, Packet, Unit
  <2>7. Size[asked'] # 0 /\ cpc' = "prompt"
    BY <1>2, <1>5, <1>7, <1>8
  <2> QED
    BY <1>7, <2>5, <2>6, <2>7 DEF FileIsThere
<1>9. CASE came + 1 # packets
  <2>1. cpc' = "data" /\ came' < packets' /\ expected' = packets'
    BY <1>0, <1>1, <1>2, <1>5, <1>7, <1>9
  <2>2. Len(toServer') = Len(toServer) + 2 /\ \A i \in 1 .. Len(toServer') : toServer'[i].kind = "word"
    <3>1. PICK h \in Seq(Units) : h = Header(came + 1, 0) /\ Len(h) = 2 /\ \A i \in 1 .. 2 : h[i].kind = "word"
      <4>1. PICK x \in Int, y \in Int : x = came + 1 /\ y = 0
        BY <1>0
      <4>2. /\ Header(x, y) \in Seq(Units) /\ Len(Header(x, y)) = 2
            /\ \A i \in 1 .. 2 : Header(x, y)[i].kind = "word"
        BY HeaderTypes
      <4> QED
        BY <4>1, <4>2
    <3>2. toServer' = toServer \o h
      BY <1>5, <3>1
    <3>3. /\ Len(toServer \o h) = Len(toServer) + Len(h)
          /\ \A i \in 1 .. Len(toServer) + Len(h) :
               (toServer \o h)[i] = IF i <= Len(toServer) THEN toServer[i] ELSE h[i - Len(toServer)]
      BY <1>0, ConcatProperties
    <3>4. ASSUME NEW i \in 1 .. Len(toServer) + 2 PROVE toServer'[i].kind = "word"
      <4>1. CASE i <= Len(toServer)
        BY <1>0, <1>2, <3>1, <3>2, <3>3, <4>1
      <4>2. CASE ~(i <= Len(toServer))
        <5>1. i - Len(toServer) \in 1 .. 2
          BY <1>0, <4>2, SMTT(40)
        <5>2. toServer'[i] = h[i - Len(toServer)]
          BY <3>1, <3>2, <3>3, <4>2
        <5> QED
          BY <3>1, <5>1, <5>2
      <4> QED
        BY <4>1, <4>2
    <3> QED
      BY <3>1, <3>2, <3>3, <3>4
  <2>3. Owed' = Owed /\ Owed \in Int
    BY <1>0, <1>7 DEF Owed
  <2>4. Len(toServer') + 2 * Owed' - 2 * came' \in {1, 2}
    <3>1. PICK L \in Nat, v \in Int, c \in Nat : L = Len(toServer) /\ v = Owed /\ c = came
      BY <1>0, <2>3
    <3>2. (L + 2) + 2 * v - 2 * (c + 1) \in {1, 2}
      <4>1. L + 2 * v - 2 * c \in {1, 2}
        BY <1>2, <3>1
      <4> QED
        BY <4>1
    <3>3. Len(toServer') = L + 2 /\ Owed' = v /\ came' = c + 1
      BY <1>5, <2>2, <2>3, <3>1
    <3> QED
      BY <3>2, <3>3
  <2>5. /\ Len(Tail(toClient)) = Len(toClient) - 1
        /\ \A i \in 1 .. Len(toClient) - 1 : Tail(toClient)[i] = toClient[i + 1]
    BY <1>0, <1>3, FirstTaken
  <2>6. Len(toClient') = sent - (came + 1) /\ came + 1 <= sent
    BY <1>0, <1>2, <1>3, <1>5, <2>5
  <2>7. ASSUME NEW i \in 1 .. sent - (came + 1) PROVE toClient'[i] = Packet(asked, (came + 1) + i)
    <3>1. i \in 1 .. Len(toClient) - 1 /\ i + 1 \in 1 .. sent - came /\ came + (i + 1) = (came + 1) + i
      BY <1>0, <1>2
    <3>2. toClient[i + 1] = Packet(asked, came + (i + 1))
      BY <1>2, <3>1
    <3>3. toClient'[i] = toClient[i + 1]
      BY <1>5, <2>5, <3>1
    <3> QED
      BY <3>1, <3>2, <3>3
  <2>8. Flowing'
    BY <1>2, <1>5, <1>6, <1>7, <2>2, <2>4, <2>6, <2>7 DEF Flowing, Packet, Unit
  <2>9. FlowState'
    BY <1>2, <1>7, <2>1, <2>8 DEF FlowState
  <2> QED
    BY <1>7, <2>9
<1> QED
  BY <1>8, <1>9
(* The first file on its way, or there.                                    *)
LEMMA ArrivingIs ==
  /\ FlowState => Arriving
  /\ Arriving => TakesFile
  /\ Arriving =>
       \/ /\ cpc = "count" /\ spc = "ack" /\ sent = 0 /\ came = 0 /\ copy = <<>>
          /\ toServer = <<>> /\ toClient = Header(packets, PACKET_SIZE)
       \/ /\ cpc = "data" /\ expected = packets /\ came < packets
          /\ spc = "ack" /\ sent = 0 /\ came = 0 /\ copy = <<>>
          /\ toServer = Header(packets, PACKET_SIZE) /\ toClient = <<>>
       \/ /\ cpc = "data" /\ expected = packets /\ came < packets
          /\ Size[asked] = 0 /\ came = 0 /\ copy = <<>>
          /\ toServer = <<>> \/ toServer = <<Word(PACKET_SIZE)>>
          /\ (spc = "send" /\ toClient = <<>>) \/ (spc = "header" /\ toClient = FailHeader)
       \/ FlowState
<1> HIDE DEF Units
<1>1. FlowState => Arriving
  BY DEF FlowState, TakesFile, Arriving
<1>2. Arriving => TakesFile
  BY DEF TakesFile, Arriving
<1> QED
  BY <1>1, <1>2 DEF Arriving, FlowState

LEMMA FlowStep ==
  ASSUME Types, FlowState, FtpNext
  PROVE  (Arriving \/ FileIsThere)' /\ UNCHANGED <<commands, served>>
<1>1. ~User
  BY UserOf DEF FlowState
<1>2. (FlowState \/ FileIsThere)' /\ UNCHANGED <<commands, served>>
  BY <1>1, FlowServer, FlowClient DEF FtpNext
<1>3. FlowState' => Arriving'
  BY DEF FlowState, TakesFile, Arriving
<1> QED
  BY <1>2, <1>3

LEMMA ArrivingStep ==
  ASSUME Types, Arriving, FtpNext
  PROVE  (Arriving \/ FileIsThere)' /\ UNCHANGED <<commands, served>>
<1>1. TakesFile
  BY ArrivingIs
<1>2. CASE /\ cpc = "count" /\ spc = "ack" /\ sent = 0 /\ came = 0 /\ copy = <<>>
           /\ toServer = <<>> /\ toClient = Header(packets, PACKET_SIZE)
  BY <1>1, <1>2, CountStep
<1>3. CASE /\ cpc = "data" /\ expected = packets /\ came < packets
           /\ spc = "ack" /\ sent = 0 /\ came = 0 /\ copy = <<>>
           /\ toServer = Header(packets, PACKET_SIZE) /\ toClient = <<>>
  BY <1>1, <1>3, AckStep
<1>4. CASE /\ cpc = "data" /\ expected = packets /\ came < packets
           /\ Size[asked] = 0 /\ came = 0 /\ copy = <<>>
           /\ toServer = <<>> \/ toServer = <<Word(PACKET_SIZE)>>
           /\ (spc = "send" /\ toClient = <<>>) \/ (spc = "header" /\ toClient = FailHeader)
  BY <1>1, <1>4, EmptyStep
<1>5. CASE FlowState
  BY <1>5, FlowStep
<1> QED
  BY <1>2, <1>3, <1>4, <1>5, ArrivingIs

(* After it the client may ask for more, and what the server then takes    *)
(* for what is not stated.                                                 *)
LEMMA ArrivedStep ==
  ASSUME Types, served > 0, commands = served, FileIsThere, FtpNext
  PROVE  served' > 0 /\ ((commands' = served' /\ FileIsThere') \/ commands' > served')
<1>1. CASE User
  <2>1. do_dir \/ \E f \in Names : do_get_ftp(f)
    BY <1>1, UserOf DEF FileIsThere
  <2>2. commands' = commands + 1 /\ served' = served
    BY <2>1 DEF do_dir, do_get_ftp, Given, server
  <2> QED
    BY <2>2 DEF Types
<1>2. CASE ServerStep
  <2>1. UNCHANGED client /\ served' = served
    BY <1>2, ServerOf DEF ServerStep, CheckCreds, ReadHeader, OpenFile, ReadAck, SendPacket, AckPacket,
       ListCount, ListAck, ListEntry, Astray
  <2> QED
    BY <2>1 DEF FileIsThere, client, FailHeader, Header, Word, Unit, Whole, Packet
<1>3. ~FtpClientStep
  BY ClientOf DEF FileIsThere
<1> QED
  BY <1>1, <1>2, <1>3 DEF FtpNext

(* Of a directory only that it was asked for.                              *)
LEMMA DirectoryStep ==
  ASSUME Types, served > 0, commands = served, asked \in Directory, FtpNext
  PROVE  served' > 0 /\ ((commands' = served' /\ asked' \in Directory) \/ commands' > served')
<1>1. CASE User
  <2>1. /\ served' = served
        /\ (commands' = commands /\ asked' = asked) \/ commands' = commands + 1
    BY <1>1 DEF User, Login, do_dir, do_get_ftp, Given, server
  <2> QED
    BY <2>1 DEF Types
<1>2. CASE ServerStep
  <2>1. UNCHANGED client /\ served' = served
    BY <1>2, ServerOf DEF ServerStep, CheckCreds, ReadHeader, OpenFile, ReadAck, SendPacket, AckPacket,
       ListCount, ListAck, ListEntry, Astray
  <2> QED
    BY <2>1 DEF client
<1>3. CASE FtpClientStep
  BY <1>3, ClientOf DEF server
<1> QED
  BY <1>1, <1>2, <1>3 DEF FtpNext

LEMMA LaterStep ==
  ASSUME Types, served > 0, commands > served, FtpNext
  PROVE  served' > 0 /\ commands' > served'
<1>1. CASE User
  <2>1. served' = served /\ (commands' = commands \/ commands' = commands + 1)
    BY <1>1 DEF User, Login, do_dir, do_get_ftp, Given, server
  <2> QED
    BY <2>1 DEF Types
<1>2. CASE ServerStep
  BY <1>2, ServerOf, SMTT(40) DEF ServerStep, CheckCreds, ReadHeader, OpenFile, ReadAck, SendPacket, AckPacket,
     ListCount, ListAck, ListEntry, Astray, client
<1>3. CASE FtpClientStep
  BY <1>3, ClientOf DEF server
<1> QED
  BY <1>1, <1>2, <1>3 DEF FtpNext

-----------------------------------------------------------------------------
LEMMA InStepInit == FtpInit => PairInStep
  BY DEF FtpInit, PairInStep, Conversation, LoggingIn

LEMMA InStepNext ==
  ASSUME Types, PairInStep, [FtpNext]_ftpVars
  PROVE  PairInStep'
<1>1. CASE UNCHANGED ftpVars
  <2>1. LoggingIn => LoggingIn'
    BY <1>1 DEF ftpVars, LoggingIn, Word, Unit
  <2>2. AtRest => AtRest'
    BY <1>1 DEF ftpVars, AtRest, AllShown, Ready, FailHeader, Header, Word, Unit, N
  <2>3. Getting => Getting'
    <3>1. Ready(GetRequest(asked)) => Ready(GetRequest(asked))'
      BY <1>1 DEF ftpVars, Ready, GetRequest, NameSent, FailHeader, Header, Word, Unit, N
    <3> QED
      BY <1>1, <3>1 DEF ftpVars, Getting, NameSent, FailHeader, Header, Word, Unit
  <2>4. Listing => Listing'
    <3>1. Ready(DirRequest) => Ready(DirRequest)'
      BY <1>1 DEF ftpVars, Ready, DirRequest, FailHeader, Header, Word, Unit, N
    <3> QED
      BY <1>1, <3>1 DEF ftpVars, Listing, Word, Unit, N
  <2>5. Showing => Showing'
    BY <1>1 DEF ftpVars, Showing, Entries, Named, Header, Word, Unit, N, Order
  <2>6. Arriving => Arriving'
    BY <1>1 DEF ftpVars, Arriving, Flowing, Owed, FailHeader, Header, Word, Unit, Packet
  <2>7. FileIsThere => FileIsThere'
    BY <1>1 DEF ftpVars, FileIsThere, FailHeader, Header, Word, Unit, Whole, Packet
  <2>8. UNCHANGED <<served, commands, asked>>
    BY <1>1 DEF ftpVars
  <2>9. Conversation => Conversation'
    BY <2>1, <2>2, <2>3, <2>4, <2>5 DEF Conversation
  <2> QED
    BY <2>6, <2>7, <2>8, <2>9 DEF PairInStep
<1>2. ASSUME FtpNext, served = 0, Conversation PROVE PairInStep'
  <2>1. served' = 0 /\ Conversation' => PairInStep'
    BY DEF PairInStep
  <2>2. served' > 0 /\ commands' = served' /\ (Arriving \/ asked \in Directory)' => PairInStep'
    BY DEF PairInStep
  <2>3. (LoggingIn' \/ AtRest' \/ Getting' \/ Listing' \/ Showing') => Conversation'
    BY DEF Conversation
  <2> QED
    BY <1>2, <2>1, <2>2, <2>3, LoginStep, RestStep, GettingStep, ListingStep, ShowingStep DEF Conversation
<1>3. ASSUME FtpNext, served > 0, commands = served, Arriving PROVE PairInStep'
  <2>1. (Arriving \/ FileIsThere)' /\ UNCHANGED <<commands, served>>
    BY <1>3, ArrivingStep
  <2> QED
    BY <1>3, <2>1 DEF PairInStep
<1>4. ASSUME FtpNext, served > 0, commands = served, FileIsThere PROVE PairInStep'
  BY <1>4, ArrivedStep DEF PairInStep
<1>5. ASSUME FtpNext, served > 0, commands = served, asked \in Directory PROVE PairInStep'
  BY <1>5, DirectoryStep DEF PairInStep
<1>6. ASSUME FtpNext, served > 0, commands > served PROVE PairInStep'
  BY <1>6, LaterStep DEF PairInStep
<1> QED
  BY <1>1, <1>2, <1>3, <1>4, <1>5, <1>6 DEF PairInStep

LEMMA InStepSays ==
  ASSUME Types, PairInStep
  PROVE  FtpInStep
<1>1. InStepUntilServed
  <2> SUFFICES ASSUME served = 0, cpc = "prompt" PROVE InStepUntilServed
    BY DEF InStepUntilServed
  <2>1. AtRest
    BY DEF PairInStep, Conversation, LoggingIn, Getting, Listing, Showing
  <2> QED
    BY <2>1 DEF AtRest, AllShown, InStepUntilServed, N
<1>2. FirstFileWhole
  <2> SUFFICES ASSUME cpc = "prompt", served > 0, commands = served, asked \in File
               PROVE  FirstFileWhole
    BY DEF FirstFileWhole
  <2>1. commands \in Nat /\ served \in Nat
    BY DEF Types
  <2>2. Arriving \/ FileIsThere
    BY <2>1, FtpAssumption DEF PairInStep
  <2>3. FileIsThere
    BY <2>2 DEF Arriving
  <2> QED
    BY <2>3 DEF FileIsThere, FirstFileWhole
<1> QED
  BY <1>1, <1>2 DEF FtpInStep

(* Until the server first opens something the two sides are in step,       *)
(* whatever the user asks for and however many files there are: a dir      *)
(* shows each file of the directory once; and if what is opened is a file  *)
(* it arrives whole, each packet once and in order, an empty one as the    *)
(* eight bytes of a failure.  Of a directory nothing is said (server.c     *)
(* get_file, list_it; client2.py do_get, do_dir).                          *)
THEOREM FirstFileArrives == FtpSpec => []FtpInStep
<1>1. FtpInit => Types /\ PairInStep
  BY TypesInit, InStepInit
<1>2. Types /\ PairInStep /\ [FtpNext]_ftpVars => (Types /\ PairInStep)'
  BY TypesNext, InStepNext
<1>3. Types /\ PairInStep => FtpInStep
  BY InStepSays
<1> QED
  BY <1>1, <1>2, <1>3, PTL DEF FtpSpec
=============================================================================
