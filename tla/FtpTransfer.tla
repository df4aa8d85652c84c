---------------------------- MODULE FtpTransfer ----------------------------
(***************************************************************************)
(* One connection of the older FTP server, jqr_stuff/ftp: server.c against *)
(* client/client2.py.  Both sides read from a stream what has arrived, up  *)
(* to as many bytes as they ask for, so where one of them asks for fewer   *)
(* or more than the other sent at once, they no longer mean the same.      *)
(*                                                                         *)
(* Units of a stream are words of four bytes, credentials, names and       *)
(* packets; what one call sends arrives together.  Whoever would have to   *)
(* take a name or a packet for numbers is "astray" and stays there.        *)
(***************************************************************************)
EXTENDS Integers, Sequences, SequencesExt, FiniteSets

CONSTANTS
  File,           \* the files in the server's directory
  Directory,      \* the directories in it
  Size,           \* how many packets each takes; 0 for an empty file
  Missing,        \* a name of neither
  Nothing,        \* the name in a get without an argument
  PACKET_SIZE,
  MaxFtpCommands  \* bounds the commands of the client

(* The packet size, 1024 in server.c 25, must only not be the code of a    *)
(* request: left over, it is taken for one.                                *)
ASSUME FtpAssumption ==
  /\ IsFiniteSet(File) /\ File \cap Directory = {}
  /\ Size \in [File \union Directory -> Nat]
  /\ {Missing, Nothing} \cap (File \union Directory) = {} /\ Missing # Nothing
  /\ PACKET_SIZE \in Nat \ {1, 3}

VARIABLES
  toServer, toClient,          \* the two streams
  spc,            \* of the worker
  name, packets, sent,         \* get_file: file, packets, how many were sent
  listing,        \* list_it: the files still to be sent
  cpc,            \* of the client
  asked, expected, came, copy, \* do_get, do_dir: for what, how many, what came
  commands,       \* how many the user has given
  served          \* the first of them for which something was opened, or 0

ftpVars == <<toServer, toClient, spc, name, packets, sent, listing, cpc, asked, expected,
             came, copy, commands, served>>
server == <<spc, name, packets, sent, listing, served>>
client == <<cpc, asked, expected, came, copy, commands>>

Unit(kind, n, of) == [kind |-> kind, n |-> n, of |-> of]
Word(n) == Unit("word", n, Missing)
Header(code, pay_len) == <<Word(code), Word(pay_len)>>
FailHeader == Header(0, 0)
Packet(f, i) == Unit("packet", i, f)

FtpInit ==
  /\ toServer = <<>> /\ toClient = <<>>
  /\ spc = "login" /\ name = Missing /\ packets = 0 /\ sent = 0 /\ listing = <<>>
  /\ cpc = "start" /\ asked = Missing /\ expected = 0 /\ came = 0 /\ copy = <<>>
  /\ commands = 0 /\ served = 0

(* Words that recv finds, n at most.                                       *)
Words(s, n) ==
  LET len == IF Len(s) < n THEN Len(s) ELSE n
  IN  IF \E i \in 1 .. len : s[i].kind # "word" THEN <<>> ELSE SubSeq(s, 1, len)
Beyond(s, got) == SubSeq(s, Len(got) + 1, Len(s))
(* A header that came in part: the code was cleared before.                *)
Field(got, i) == IF i <= Len(got) THEN got[i].n ELSE 0

-----------------------------------------------------------------------------
(* The client.                                                             *)
ClientAsks(units) == toServer' = toServer \o units

Login(good) ==
  /\ cpc = "start"
  /\ ClientAsks(<<Unit("creds", IF good THEN 1 ELSE 0, Missing)>>)
  /\ cpc' = "login"
  /\ UNCHANGED <<server, toClient, asked, expected, came, copy, commands>>

(* 1 and 2 are the two levels, 3 and 4 the two failures.                   *)
LoginAnswered ==
  /\ cpc = "login" /\ toClient # <<>>
  /\ cpc' = IF Head(toClient).n \in {1, 2} THEN "prompt" ELSE "start"
  /\ toClient' = <<>>
  /\ UNCHANGED <<server, toServer, asked, expected, came, copy, commands>>

AtPrompt == cpc = "prompt" /\ commands < MaxFtpCommands
Given == commands' = commands + 1 /\ copy' = <<>> /\ expected' = 0 /\ came' = 0

(* A get without an argument announces a name of one byte and sends none.  *)
NameSent(f) == IF f = Nothing THEN <<>> ELSE <<Unit("name", 0, f)>>

do_get_ftp(f) ==
  /\ AtPrompt /\ Given
  /\ ClientAsks(Header(1, 1) \o NameSent(f))
  /\ cpc' = "count" /\ asked' = f
  /\ UNCHANGED <<server, toClient>>

(* The header goes back as it came; the server takes half of it.           *)
GetCount ==
  /\ cpc = "count" /\ toClient # <<>>
  /\ LET got == Words(toClient, 2)
     IN  IF Len(got) < 2
         THEN cpc' = "astray" /\ UNCHANGED <<toServer, toClient, expected>>
         ELSE /\ expected' = got[1].n
              /\ toClient' = Beyond(toClient, got)
              /\ ClientAsks(got)
              /\ cpc' = IF got[1].n = 0 THEN "prompt" ELSE "data"
  /\ UNCHANGED <<server, asked, came, copy, commands>>

(* Words that stand where a packet should are written to the file as well. *)
GetPacket ==
  /\ cpc = "data" /\ toClient # <<>>
  /\ LET n == IF Head(toClient).kind = "packet" THEN 1 ELSE Len(Words(toClient, Len(toClient)))
     IN  IF n = 0
         THEN cpc' = "astray" /\ UNCHANGED <<toServer, toClient, came, copy>>
         ELSE /\ copy' = copy \o SubSeq(toClient, 1, n)
              /\ toClient' = SubSeq(toClient, n + 1, Len(toClient))
              /\ came' = came + 1
              /\ ClientAsks(Header(came + 1, 0))
              /\ cpc' = IF came + 1 = expected THEN "prompt" ELSE "data"
  /\ UNCHANGED <<server, asked, expected, commands>>

do_dir ==
  /\ AtPrompt /\ Given
  /\ ClientAsks(Header(3, 0))
  /\ cpc' = "files" /\ asked' = Missing
  /\ UNCHANGED <<server, toClient>>

DirCount ==
  /\ cpc = "files" /\ toClient # <<>>
  /\ LET got == Words(toClient, 1)
     IN  IF got = <<>>
         THEN cpc' = "astray" /\ UNCHANGED <<toServer, toClient, expected>>
         ELSE /\ expected' = got[1].n
              /\ toClient' = Tail(toClient)
              /\ ClientAsks(Header(7, got[1].n))
              /\ cpc' = IF got[1].n = 0 THEN "prompt" ELSE "length"
  /\ UNCHANGED <<server, asked, came, copy, commands>>

DirLength ==
  /\ cpc = "length" /\ toClient # <<>>
  /\ IF Head(toClient).kind = "word"
     THEN cpc' = "entry" /\ toClient' = Tail(toClient)
     ELSE cpc' = "astray" /\ UNCHANGED toClient
  /\ UNCHANGED <<server, toServer, asked, expected, came, copy, commands>>

DirEntry ==
  /\ cpc = "entry" /\ toClient # <<>>
  /\ IF Head(toClient).kind = "name"
     THEN /\ copy' = Append(copy, Head(toClient)) /\ toClient' = Tail(toClient)
          /\ came' = came + 1
          /\ cpc' = IF came + 1 = expected THEN "prompt" ELSE "length"
     ELSE cpc' = "astray" /\ UNCHANGED <<toClient, came, copy>>
  /\ UNCHANGED <<server, toServer, asked, expected, commands>>

-----------------------------------------------------------------------------
(* The server.  Got: what recv(n) took.                                    *)
Answers(units) == toClient' = toClient \o units
Got(n) == Words(toServer, n)
Reads(got) == toServer' = Beyond(toServer, got)
Astray == /\ spc' = "astray"
          /\ UNCHANGED <<toServer, toClient, name, packets, sent, listing, served, client>>

(* handle_connection, its first loop.                                      *)
CheckCreds(answer) ==
  /\ spc = "login" /\ toServer # <<>>
  /\ answer \in IF Head(toServer).n = 1 THEN {1, 2} ELSE {3, 4}
  /\ toServer' = Tail(toServer) /\ Answers(<<Word(answer)>>)
  /\ spc' = IF answer \in {1, 2} THEN "header" ELSE "login"
  /\ UNCHANGED <<name, packets, sent, listing, served, client>>

(* Its second loop: GET, DIR, and codes that do nothing.  A GET of a name  *)
(* of no bytes opens no file.                                              *)
ReadHeader ==
  /\ spc = "header" /\ toServer # <<>>
  /\ LET got == Got(2)
         code == Field(got, 1)
     IN  IF got = <<>> THEN Astray
         ELSE /\ Reads(got)
              /\ IF code = 1 /\ Field(got, 2) = 0
                 THEN Answers(FailHeader) /\ spc' = "header"
                 ELSE /\ UNCHANGED toClient
                      /\ spc' = CASE code = 1 -> "name" [] code = 3 -> "list"
                                 [] OTHER -> "header"
              /\ UNCHANGED <<name, packets, sent, listing, served, client>>

(* fopen(..., "r") opens a directory as it opens a file.                   *)
Opens(f) == f \in File \union Directory

OpenFile ==
  /\ spc = "name" /\ toServer # <<>>
  /\ IF Head(toServer).kind # "name" THEN Astray
     ELSE /\ toServer' = Tail(toServer)
          /\ name' = Head(toServer).of /\ sent' = 0
          /\ packets' = IF Opens(name') /\ Size[name'] > 1 THEN Size[name'] ELSE 1
          /\ IF Opens(name')
             THEN /\ Answers(Header(packets', PACKET_SIZE)) /\ spc' = "ack"
                  /\ served' = IF served = 0 THEN commands ELSE served
             ELSE Answers(FailHeader) /\ spc' = "header" /\ UNCHANGED served
          /\ UNCHANGED <<listing, client>>

(* Four of the eight bytes that the client sends back.                     *)
ReadAck ==
  /\ spc = "ack" /\ toServer # <<>>
  /\ LET got == Got(1)
     IN  IF got = <<>> THEN Astray
         ELSE /\ Reads(got)
              /\ IF got[1].n = packets
                 THEN spc' = "send" /\ UNCHANGED toClient
                 ELSE Answers(FailHeader) /\ spc' = "header"
              /\ UNCHANGED <<name, packets, sent, listing, served, client>>

NothingToRead(f) == f \in Directory \/ Size[f] = 0

(* Mutant: the file is read from its beginning for every packet.           *)
SendFirstPacket ==
  /\ spc = "send"
  /\ IF NothingToRead(name)
     THEN Answers(FailHeader) /\ spc' = "header" /\ UNCHANGED sent
     ELSE Answers(<<Packet(name, 1)>>) /\ spc' = "wait" /\ sent' = sent + 1
  /\ UNCHANGED <<toServer, name, packets, listing, served, client>>

(* Where nothing is read a failure is sent as the packet, and no other     *)
(* follows, however many were announced.                                   *)
SendPacket ==
  /\ spc = "send"
  /\ IF NothingToRead(name)
     THEN Answers(FailHeader) /\ spc' = "header" /\ UNCHANGED sent
     ELSE Answers(<<Packet(name, sent + 1)>>) /\ spc' = "wait" /\ sent' = sent + 1
  /\ UNCHANGED <<toServer, name, packets, listing, served, client>>

AckPacket ==
  /\ spc = "wait" /\ toServer # <<>>
  /\ LET got == Got(2)
     IN  IF got = <<>> THEN Astray
         ELSE /\ Reads(got)
              /\ spc' = IF sent = packets THEN "header" ELSE "send"
              /\ UNCHANGED <<toClient, name, packets, sent, listing, served, client>>

(* list_it.                                                                *)
ListCount ==
  /\ spc = "list"
  /\ Answers(<<Word(Cardinality(File))>>) /\ spc' = "listack"
  /\ UNCHANGED <<toServer, name, packets, sent, listing, served, client>>

ListAck ==
  /\ spc = "listack" /\ toServer # <<>>
  /\ LET got == Got(2)
     IN  IF got = <<>> THEN Astray
         ELSE /\ Reads(got)
              /\ IF Field(got, 1) = 7 /\ Field(got, 2) = Cardinality(File)
                 THEN spc' = "entries" /\ listing' = SetToSeq(File)
                 ELSE spc' = "header" /\ UNCHANGED listing
              /\ UNCHANGED <<toClient, name, packets, sent, served, client>>

ListEntry ==
  /\ spc = "entries"
  /\ IF listing = <<>>
     THEN spc' = "header" /\ UNCHANGED <<toClient, listing>>
     ELSE /\ Answers(<<Word(1), Unit("name", 0, Head(listing))>>)
          /\ listing' = Tail(listing) /\ UNCHANGED spc
  /\ UNCHANGED <<toServer, name, packets, sent, served, client>>

-----------------------------------------------------------------------------
FtpClientStep ==
  \/ LoginAnswered \/ GetCount \/ GetPacket \/ DirCount \/ DirLength \/ DirEntry
ServerStep ==
  \/ \E answer \in 1 .. 4 : CheckCreds(answer)
  \/ ReadHeader \/ OpenFile \/ ReadAck \/ SendPacket \/ AckPacket
  \/ ListCount \/ ListAck \/ ListEntry
User ==
  \/ \E good \in BOOLEAN : Login(good)
  \/ \E f \in File \union Directory \union {Missing, Nothing} : do_get_ftp(f)
  \/ do_dir

FtpNext == User \/ FtpClientStep \/ ServerStep

FtpSpec == FtpInit /\ [][FtpNext]_ftpVars
FtpFairness == WF_ftpVars(FtpClientStep) /\ WF_ftpVars(ServerStep)

-----------------------------------------------------------------------------
Whole(f) == [i \in 1 .. Size[f] |-> Packet(f, i)]

(* Until something has been opened, client and server are in step,         *)
(* whatever was asked for: nothing is left over when a command ends, and a *)
(* dir has shown each file of the directory once, or found that there is   *)
(* none.                                                                   *)
InStepUntilServed ==
  served = 0 /\ cpc = "prompt" =>
    /\ toClient = <<>>
    /\ commands > 0 /\ asked = Missing /\ expected > 0
         => {copy[i].of : i \in DOMAIN copy} = File /\ Len(copy) = Cardinality(File)

(* The first file that is sent arrives whole, each packet once and in      *)
(* order, although the acknowledgements are read out of step; an empty one *)
(* arrives as the eight bytes of a failure.                                *)
FirstFileWhole ==
  cpc = "prompt" /\ served > 0 /\ commands = served /\ asked \in File =>
    copy = IF Size[asked] = 0 THEN FailHeader ELSE Whole(asked)

(* Until the server first opens what a client asks for, the two agree on   *)
(* what each byte of their streams means, and a dir shows every file once. *)
(* If what it opens is a file, it arrives whole and in order, although     *)
(* each acknowledgement is read only in part, and an empty one as a        *)
(* failure.  Nothing is said of a directory, or of what comes later.       *)
FtpInStep == InStepUntilServed /\ FirstFileWhole

(* A get without a name, for which client and server both wait, and one of *)
(* a directory, of which more packets are announced than are sent.         *)
Unanswerable == cpc \in {"count", "data"} /\ asked \in Directory \union {Nothing}

(* Up to the first file every command comes to an end but these two.       *)
FirstAnswered == served = 0 /\ cpc # "prompt" ~> cpc \in {"start", "prompt"} \/ Unanswerable
=============================================================================
