------------------------------- MODULE ChatRoom -------------------------------
(***************************************************************************)
(* One lobby while the workers of its members run at the same time:        *)
(* enter_lobby, send_all and exit_room of chat.c, one access to the shared *)
(* list, one send or one change of lobby_size a step, and the receiver     *)
(* thread of client.py at the other end of each socket.  Lobbies has all   *)
(* the requests, one after the other; here they overlap, as far as Overlap *)
(* lets them: the code itself takes no lock.                               *)
(*                                                                         *)
(* Users have different names, so exit_room finds the caller's own node,   *)
(* and a member is named for its session.  send_all compares the sender's  *)
(* name with a blank at its end and skips nobody.  What one send writes    *)
(* arrives in one piece.                                                   *)
(***************************************************************************)
EXTENDS Integers, Sequences, FiniteSets

CONSTANTS
  Session, NULL,
  Overlap,       \* the pairs of requests that users have under way together
  MaxRequests    \* bound: requests in a behaviour

Request == {"enter", "sendall", "exit"}

ASSUME ChatRoomAssumption ==
  /\ IsFiniteSet(Session) /\ NULL \notin Session /\ MaxRequests \in Nat
  /\ Overlap \subseteq {{a, b} : a, b \in Request}

VARIABLES
  head, next,    \* l->clients->head, and the next field of each node
  alive,         \* the nodes that are allocated
  size,          \* l->lobby_size
  asked,         \* the requests of each session its worker has still to finish
  requests,      \* how many there were
  pc, at,        \* where each worker is, and its cursor c
  seen,          \* lobby_size as a worker has loaded it
  wire,          \* what was sent to each client and not read
  screen, reads, \* the client's loop, and what is to be read next
  from,          \* whose message the client is reading
  told,          \* the sessions whose request to enter has been answered
  due            \* the members each broadcast has still to reach

list   == <<head, next, alive, size>>
worker == <<asked, pc, at, seen>>
client == <<screen, reads, from>>
roomVars == <<list, worker, client, requests, wire, told, due>>

PerSession(x) == [s \in Session |-> x]

RoomInit ==
  /\ head = NULL /\ next = PerSession(NULL) /\ alive = {} /\ size = 0
  /\ asked = PerSession(<<>>) /\ requests = 0
  /\ pc = PerSession("idle") /\ at = PerSession(NULL) /\ seen = PerSession(0)
  /\ wire = PerSession(<<>>)
  /\ screen = PerSession("menu") /\ reads = PerSession("nothing") /\ from = PerSession(NULL)
  /\ told = {} /\ due = PerSession({})

-----------------------------------------------------------------------------
(* The client *)

UnderWay(s) == {asked[s][i] : i \in DOMAIN asked[s]}
MayAsk(s, op) == \A t \in Session \ {s} : \A o \in UnderWay(t) : {op, o} \in Overlap

Ask(s, op) ==
  /\ requests < MaxRequests /\ MayAsk(s, op)
  /\ asked' = [asked EXCEPT ![s] = Append(@, op)]
  /\ requests' = requests + 1
  /\ UNCHANGED <<list, pc, at, seen, wire, from, told, due>>

do_enter(s) ==
  /\ screen[s] = "menu" /\ Ask(s, "enter")
  /\ screen' = [screen EXCEPT ![s] = "entering"]
  /\ reads' = [reads EXCEPT ![s] = "code"]

(* A broadcast has no answer: the next command may follow at once.         *)
do_sendall(s) == screen[s] = "lobby" /\ Ask(s, "sendall") /\ UNCHANGED <<screen, reads>>

do_exit(s) ==
  /\ screen[s] = "lobby" /\ Ask(s, "exit")
  /\ screen' = [screen EXCEPT ![s] = "leaving"]
  /\ UNCHANGED reads

(* What is expected after a part that was expected itself.                 *)
Following == [code |-> "number", number |-> "header", header |-> "name",
              name |-> "text", text |-> "header", exit |-> "nothing"]
Expected(s, part) ==
  \/ part.kind = reads[s] /\ (part.kind \in {"name", "text"} => part.by = from[s])
  \/ part.kind = "exit" /\ reads[s] = "header"

(* do_enter reads a code and a number, thread_function what follows them   *)
(* until the exit packet.  The client goes astray when what arrives is not *)
(* what the lengths it has read belong to.                                 *)
ClientRead(s) ==
  /\ wire[s] # <<>> /\ reads[s] \notin {"nothing", "astray"}
  /\ LET part == Head(wire[s])
     IN  /\ wire' = [wire EXCEPT ![s] = Tail(@)]
         /\ from' = [from EXCEPT ![s] = IF part.kind \in {"header", "name"} THEN part.by ELSE NULL]
         /\ reads' = [reads EXCEPT ![s] =
                        IF Expected(s, part) THEN Following[part.kind] ELSE "astray"]
         /\ screen' = [screen EXCEPT ![s] =
                         CASE Expected(s, part) /\ part.kind = "number" -> "lobby"
                           [] Expected(s, part) /\ part.kind = "exit"   -> "menu"
                           [] OTHER -> @]
  /\ UNCHANGED <<list, worker, requests, told, due>>

-----------------------------------------------------------------------------
(* The workers *)

At(s, label, op) == pc[s] = label /\ asked[s] # <<>> /\ Head(asked[s]) = op
Goto(s, label) == pc' = [pc EXCEPT ![s] = label]
Point(s, n) == at' = [at EXCEPT ![s] = n]
Send(to, kind, s) == wire' = [wire EXCEPT ![to] = Append(@, [kind |-> kind, by |-> s])]

Done(s) ==
  /\ Goto(s, "idle") /\ Point(s, NULL)
  /\ asked' = [asked EXCEPT ![s] = Tail(@)]
  /\ seen' = [seen EXCEPT ![s] = 0]

(* A step of a handler leaves the client and what it names alone.          *)
Keep(rest) == UNCHANGED <<client, requests, rest>>

(* enter_lobby: a node for the client, which goes behind the last node.    *)
EnterAlloc(s) ==
  /\ At(s, "idle", "enter")
  /\ alive' = alive \union {s} /\ next' = [next EXCEPT ![s] = NULL]
  /\ Goto(s, "look")
  /\ Keep(<<head, size, asked, at, seen, wire, told, due>>)

EnterLook(s) ==
  /\ At(s, "look", "enter")
  /\ Point(s, head) /\ Goto(s, IF head = NULL THEN "first" ELSE "walk")
  /\ Keep(<<list, asked, seen, wire, told, due>>)

EnterWalk(s) ==
  /\ At(s, "walk", "enter") /\ at[s] \in alive
  /\ IF next[at[s]] = NULL THEN Goto(s, "link") /\ UNCHANGED at
                           ELSE Point(s, next[at[s]]) /\ UNCHANGED pc
  /\ Keep(<<list, asked, seen, wire, told, due>>)

EnterFirst(s) ==
  /\ At(s, "first", "enter")
  /\ head' = s /\ Goto(s, "load")
  /\ Keep(<<next, alive, size, asked, at, seen, wire, told, due>>)

(* Mutant: the node goes behind the head.                                  *)
EnterLinkAtHead(s) ==
  /\ At(s, "link", "enter") /\ at[s] \in alive
  /\ next' = [next EXCEPT ![head] = s] /\ Goto(s, "load")
  /\ Keep(<<head, alive, size, asked, at, seen, wire, told, due>>)

EnterLink(s) ==
  /\ At(s, "link", "enter") /\ at[s] \in alive
  /\ next' = [next EXCEPT ![at[s]] = s] /\ Goto(s, "load")
  /\ Keep(<<head, alive, size, asked, at, seen, wire, told, due>>)

(* lobby_size++ and lobby_size--: a load, and a store.                     *)
Load(s, op) ==
  /\ At(s, "load", op)
  /\ seen' = [seen EXCEPT ![s] = size] /\ Goto(s, "store")
  /\ Keep(<<list, asked, at, wire, told, due>>)

EnterStore(s) ==
  /\ At(s, "store", "enter")
  /\ size' = seen[s] + 1 /\ Goto(s, "code")
  /\ Keep(<<head, next, alive, asked, at, seen, wire, told, due>>)

(* The answer: server_response, then the number of the lobby.              *)
EnterCode(s) ==
  /\ At(s, "code", "enter")
  /\ Send(s, "code", s) /\ Goto(s, "number")
  /\ Keep(<<list, asked, at, seen, told, due>>)

EnterNumber(s) ==
  /\ At(s, "number", "enter")
  /\ Send(s, "number", s) /\ told' = told \union {s} /\ Done(s)
  /\ Keep(<<list, due>>)

(* Mutant: nor when it has two.                                            *)
SendSizeTwo(s) ==
  /\ At(s, "idle", "sendall")
  /\ IF size <= 2 THEN Done(s) ELSE Goto(s, "head") /\ UNCHANGED <<asked, at, seen>>
  /\ due' = [due EXCEPT ![s] = told \ {s}]
  /\ Keep(<<list, wire, told>>)

(* send_all: nothing is sent when the lobby has one member.                *)
SendSize(s) ==
  /\ At(s, "idle", "sendall")
  /\ IF size = 1 THEN Done(s) ELSE Goto(s, "head") /\ UNCHANGED <<asked, at, seen>>
  /\ due' = [due EXCEPT ![s] = told \ {s}]
  /\ Keep(<<list, wire, told>>)

SendTo(s, n) ==
  IF n = NULL THEN Done(s) ELSE Point(s, n) /\ Goto(s, "header") /\ UNCHANGED <<asked, seen>>

SendHead(s) ==
  /\ At(s, "head", "sendall")
  /\ SendTo(s, head)
  /\ Keep(<<list, wire, told, due>>)

(* A message is three sends to each member.                                *)
SendHeader(s) ==
  /\ At(s, "header", "sendall") /\ at[s] \in alive
  /\ Send(at[s], "header", s) /\ Goto(s, "name")
  /\ Keep(<<list, asked, at, seen, told, due>>)

(* Mutant: the text is not sent.                                           *)
SendNameOnly(s) ==
  /\ At(s, "name", "sendall") /\ at[s] \in alive
  /\ Send(at[s], "name", s) /\ Goto(s, "next")
  /\ Keep(<<list, asked, at, seen, told, due>>)

SendName(s) ==
  /\ At(s, "name", "sendall") /\ at[s] \in alive
  /\ Send(at[s], "name", s) /\ Goto(s, "text")
  /\ Keep(<<list, asked, at, seen, told, due>>)

SendText(s) ==
  /\ At(s, "text", "sendall") /\ at[s] \in alive
  /\ Send(at[s], "text", s) /\ Goto(s, "next")
  /\ due' = [due EXCEPT ![s] = @ \ {at[s]}]
  /\ Keep(<<list, asked, at, seen, told>>)

SendNext(s) ==
  /\ At(s, "next", "sendall") /\ at[s] \in alive
  /\ SendTo(s, next[at[s]])
  /\ Keep(<<list, wire, told, due>>)

(* exit_room: from here on no broadcast owes the client anything.          *)
ExitLook(s) ==
  /\ At(s, "idle", "exit")
  /\ Point(s, head) /\ Goto(s, IF head = s THEN "behead" ELSE "find")
  /\ told' = told \ {s} /\ due' = [t \in Session |-> due[t] \ {s}]
  /\ Keep(<<list, asked, seen, wire>>)

ExitFind(s) ==
  /\ At(s, "find", "exit") /\ at[s] \in alive /\ next[at[s]] \in alive
  /\ IF next[at[s]] = s THEN Goto(s, "unlink") /\ UNCHANGED at
                        ELSE Point(s, next[at[s]]) /\ UNCHANGED pc
  /\ Keep(<<list, asked, seen, wire, told, due>>)

ExitBehead(s) ==
  /\ At(s, "behead", "exit")
  /\ head' = next[s] /\ Goto(s, "bye")
  /\ Keep(<<next, alive, size, asked, at, seen, wire, told, due>>)

ExitUnlink(s) ==
  /\ At(s, "unlink", "exit") /\ at[s] \in alive
  /\ next' = [next EXCEPT ![at[s]] = next[s]] /\ Goto(s, "bye")
  /\ Keep(<<head, alive, size, asked, at, seen, wire, told, due>>)

(* Mutant: the answer goes to the member in front of the one who leaves.   *)
ExitByeToCursor(s) ==
  /\ At(s, "bye", "exit")
  /\ Send(at[s], "exit", s) /\ Goto(s, "free")
  /\ Keep(<<list, asked, at, seen, told, due>>)

ExitBye(s) ==
  /\ At(s, "bye", "exit")
  /\ Send(s, "exit", s) /\ Goto(s, "free")
  /\ Keep(<<list, asked, at, seen, told, due>>)

ExitFree(s) ==
  /\ At(s, "free", "exit")
  /\ alive' = alive \ {s} /\ Goto(s, "load")
  /\ Keep(<<head, next, size, asked, at, seen, wire, told, due>>)

ExitStore(s) ==
  /\ At(s, "store", "exit")
  /\ size' = seen[s] - 1 /\ Done(s)
  /\ Keep(<<head, next, alive, wire, told, due>>)

-----------------------------------------------------------------------------
WorkerStep(s) ==
  \/ EnterAlloc(s) \/ EnterLook(s) \/ EnterWalk(s) \/ EnterFirst(s) \/ EnterLink(s)
  \/ Load(s, "enter") \/ EnterStore(s) \/ EnterCode(s) \/ EnterNumber(s)
  \/ SendSize(s) \/ SendHead(s) \/ SendHeader(s) \/ SendName(s) \/ SendText(s) \/ SendNext(s)
  \/ ExitLook(s) \/ ExitFind(s) \/ ExitBehead(s) \/ ExitUnlink(s) \/ ExitBye(s)
  \/ ExitFree(s) \/ Load(s, "exit") \/ ExitStore(s)

RoomNext ==
  \E s \in Session :
    \/ do_enter(s) \/ do_sendall(s) \/ do_exit(s) \/ ClientRead(s) \/ WorkerStep(s)

RoomSpec == RoomInit /\ [][RoomNext]_roomVars

-----------------------------------------------------------------------------
Labels == {"idle", "look", "walk", "first", "link", "load", "store", "code", "number",
           "head", "header", "name", "text", "next",
           "find", "behead", "unlink", "bye", "free"}
Part == [kind : DOMAIN Following, by : Session]

RoomTypeOK ==
  /\ head \in Session \union {NULL} /\ next \in [Session -> Session \union {NULL}]
  /\ alive \subseteq Session /\ size \in 0 .. Cardinality(Session)
  /\ asked \in [Session -> Seq(Request)] /\ requests \in 0 .. MaxRequests
  /\ pc \in [Session -> Labels] /\ at \in [Session -> Session \union {NULL}]
  /\ seen \in [Session -> Int] /\ wire \in [Session -> Seq(Part)]
  /\ screen \in [Session -> {"menu", "entering", "lobby", "leaving"}]
  /\ reads \in [Session -> DOMAIN Following \union {"nothing", "astray"}]
  /\ from \in [Session -> Session \union {NULL}]
  /\ told \subseteq Session /\ due \in [Session -> SUBSET Session]

(* The nodes on the list: those that the head and the nodes on it lead to. *)
Closed(S) ==
  /\ head # NULL => head \in S
  /\ \A m \in S : next[m] # NULL => next[m] \in S
Members == {n \in Session : \A S \in SUBSET Session : Closed(S) => n \in S}

(* Whoever was told that it is in the lobby (chat.c 1440-1465) is on the   *)
(* list, while others come and broadcast; the list ends, and between two   *)
(* requests its length is lobby_size.                                      *)
MembersKept ==
  /\ head # NULL => \E m \in Members : next[m] = NULL
  /\ told \subseteq Members
  /\ (\A s \in Session : pc[s] = "idle") => size = Cardinality(Members)

(* No handler is about to use a node that exit_room has freed, or to run   *)
(* off the end of the list.                                                *)
Follows == {"walk", "link", "header", "name", "text", "next", "find", "unlink"}
OnlyLiveNodes ==
  \A s \in Session :
    /\ pc[s] \in Follows => at[s] \in alive
    /\ pc[s] = "find" => next[at[s]] \in alive

(* The list survives the overlap: it keeps its members, and nobody is about *)
(* to follow a pointer out of it.                                          *)
ListKept == RoomTypeOK /\ MembersKept /\ OnlyLiveNodes

(* "sends a message to everyone that is in the same lobby" (client.py      *)
(* 987): a broadcast that is over has reached all who were told that they  *)
(* are in the lobby when it began.                                         *)
BroadcastArrives == \A s \in Session : pc[s] = "idle" => due[s] = {}

(* The receiver thread reads whole messages, each of one sender, and once  *)
(* it has ended nothing more comes that the next command would read.  Only *)
(* a client still waiting for the answer to enter may be misled, by a      *)
(* broadcast that overtakes the answer.                                    *)
LobbyInStep ==
  \A s \in Session :
    /\ reads[s] = "astray" => screen[s] = "entering"
    /\ screen[s] = "menu" => wire[s] = <<>>

(* Whoever asked to enter or to leave gets the answer: when nothing is     *)
(* under way, everybody is at the menu or in the lobby, but for the misled.*)
NobodyWaits ==
  (\A s \in Session : asked[s] = <<>> /\ wire[s] = <<>>)
    => \A s \in Session : screen[s] \in {"menu", "lobby"} \/ reads[s] = "astray"
=============================================================================
