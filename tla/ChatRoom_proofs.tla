--------------------------- MODULE ChatRoom_proofs ---------------------------
(***************************************************************************)
(* Proofs about ChatRoom.  That everybody is answered needs no more than   *)
(* the turns of each session and holds whatever overlaps.  That the list,  *)
(* lobby_size and the broadcasts survive is proved for arrivals and        *)
(* broadcasts that overlap, if no two users enter at the same time and     *)
(* whoever leaves has the lobby for itself: the list is a sequence of      *)
(* sessions (ListInv), to which an arrival adds one and from which a       *)
(* departure takes one in a single step each.  If broadcasts do not        *)
(* overlap one another either, what a client expects when it has read all  *)
(* that is on its wire is what the workers will send it (StreamsInv).      *)
(***************************************************************************)
EXTENDS ChatRoom, FiniteSetTheorems, SequenceTheorems, WellFoundedInduction, TLAPS

(* The requests of a session, and what its worker is doing.                *)
Doing(s) == IF asked[s] = <<>> THEN "none" ELSE Head(asked[s])
On(s, op, labels) == Doing(s) = op /\ pc[s] \in labels

LabelsOf(op) ==
  CASE op = "enter"   -> {"look", "walk", "first", "link", "load", "store", "code", "number"}
    [] op = "sendall" -> {"head", "header", "name", "text", "next"}
    [] op = "exit"    -> {"find", "behead", "unlink", "bye", "free", "load", "store"}
    [] OTHER          -> {}

(* Where the answer to exit has been sent.                                 *)
Released == {"free", "load", "store"}

(* The types, but for the range of lobby_size.                             *)
RoomTypes ==
  /\ head \in Session \union {NULL} /\ next \in [Session -> Session \union {NULL}]
  /\ alive \subseteq Session /\ size \in Int
  /\ asked \in [Session -> Seq(Request)] /\ requests \in 0 .. MaxRequests
  /\ pc \in [Session -> Labels] /\ at \in [Session -> Session \union {NULL}]
  /\ seen \in [Session -> Int] /\ wire \in [Session -> Seq(Part)]
  /\ screen \in [Session -> {"menu", "entering", "lobby", "leaving"}]
  /\ reads \in [Session -> DOMAIN Following \union {"nothing", "astray"}]
  /\ from \in [Session -> Session \union {NULL}]
  /\ told \subseteq Session /\ due \in [Session -> SUBSET Session]

(* A worker is idle or at a label of its first request.                    *)
AtItsLabel(s) == pc[s] = "idle" \/ pc[s] \in LabelsOf(Doing(s))

(* Which requests a session has under way, by the loop of its client.      *)
Broadcasts(s, n) == \A i \in 1 .. n : asked[s][i] = "sendall"
Turn(s) ==
  /\ screen[s] = "menu" =>
       /\ s \notin told
       /\ asked[s] = <<>> \/ (asked[s] = <<"exit">> /\ pc[s] \in Released)
  /\ screen[s] = "entering" =>
       \/ asked[s] = <<>> /\ s \in told
       \/ asked[s] = <<"enter">> /\ s \notin told
       \/ asked[s] = <<"exit", "enter">> /\ s \notin told /\ pc[s] \in Released
  /\ screen[s] = "lobby" => s \in told /\ Broadcasts(s, Len(asked[s]))
  /\ screen[s] = "leaving" =>
       \/ asked[s] = <<>> /\ s \notin told
       \/ /\ asked[s] # <<>> /\ asked[s][Len(asked[s])] = "exit"
          /\ Broadcasts(s, Len(asked[s]) - 1)
          /\ s \in told <=> (Doing(s) = "sendall" \/ pc[s] = "idle")

(* The two parts that end a loop of the client are sent when nothing is    *)
(* left of the request that could concern it, and once; and then they are  *)
(* on their way.                                                           *)
Has(w, kind) == \E i \in 1 .. Len(w) : w[i].kind = kind
Once(w, kind) == \A i, j \in 1 .. Len(w) : w[i].kind = kind /\ w[j].kind = kind => i = j

Entered(s) == screen[s] = "entering" /\ asked[s] = <<>>
Left(s) == screen[s] = "leaving" /\ (asked[s] = <<>> \/ On(s, "exit", Released))

Answer(s) ==
  /\ Has(wire[s], "number") => Entered(s)
  /\ Has(wire[s], "exit") => Left(s)
  /\ Once(wire[s], "number") /\ Once(wire[s], "exit")
  /\ Entered(s) => Has(wire[s], "number") \/ reads[s] = "astray"
  /\ Left(s) => Has(wire[s], "exit") \/ reads[s] = "astray"

TurnsInv == \A s \in Session : AtItsLabel(s) /\ Turn(s) /\ Answer(s)

-----------------------------------------------------------------------------
(* Lemmas about the model's operators                                      *)

LEMMA PartKinds ==
  /\ DOMAIN Following = {"code", "number", "header", "name", "text", "exit"}
  /\ Following["code"] = "number" /\ Following["number"] = "header"
  /\ Following["header"] = "name" /\ Following["name"] = "text"
  /\ Following["text"] = "header" /\ Following["exit"] = "nothing"
  BY DEF Following

(* A part behind the others.                                               *)
LEMMA PartAdded ==
  ASSUME NEW w \in Seq(Part), NEW p \in Part, NEW v, v = Append(w, p)
  PROVE  /\ v \in Seq(Part) /\ Len(v) = Len(w) + 1 /\ v[Len(v)] = p
         /\ \A i \in 1 .. Len(w) : v[i] = w[i]
         /\ \A kind : Has(v, kind) <=> Has(w, kind) \/ p.kind = kind
         /\ \A kind : Once(w, kind) /\ (p.kind = kind => ~Has(w, kind)) => Once(v, kind)
<1> HIDE DEF Part
<1>1. /\ v \in Seq(Part) /\ Len(v) = Len(w) + 1 /\ v[Len(v)] = p
      /\ \A i \in 1 .. Len(w) : v[i] = w[i]
  BY AppendProperties
<1>2. Len(w) \in Nat
  BY LenProperties
<1>3. \A kind : Has(v, kind) <=> Has(w, kind) \/ p.kind = kind
  BY <1>1, <1>2 DEF Has
<1>4. ASSUME NEW kind, Once(w, kind), p.kind = kind => ~Has(w, kind)
      PROVE  Once(v, kind)
  BY <1>1, <1>2, <1>4 DEF Has, Once
<1> QED
  BY <1>1, <1>3, <1>4

(* The first part taken.                                                   *)
LEMMA PartTaken ==
  ASSUME NEW w \in Seq(Part), w # <<>>, NEW v, v = Tail(w)
  PROVE  /\ v \in Seq(Part) /\ Head(w) \in Part /\ Len(v) = Len(w) - 1
         /\ Head(w) = w[1] /\ \A i \in 1 .. Len(v) : v[i] = w[i + 1]
         /\ \A kind : Has(w, kind) <=> Has(v, kind) \/ Head(w).kind = kind
         /\ \A kind : Once(w, kind) => Once(v, kind) /\ (Head(w).kind = kind => ~Has(v, kind))
<1>1. /\ v \in Seq(Part) /\ Head(w) \in Part /\ Len(v) = Len(w) - 1 /\ Len(w) \in Nat \ {0}
      /\ Head(w) = w[1] /\ \A i \in 1 .. Len(v) : v[i] = w[i + 1]
  BY EmptySeq, LenProperties
<1>2. ASSUME NEW kind PROVE Has(w, kind) <=> Has(v, kind) \/ Head(w).kind = kind
  <2>1. ASSUME Has(w, kind) PROVE Has(v, kind) \/ Head(w).kind = kind
    <3>1. PICK i \in 1 .. Len(w) : w[i].kind = kind
      BY <2>1 DEF Has
    <3>2. CASE i = 1
      BY <1>1, <3>1, <3>2
    <3>3. CASE i # 1
      <4>1. i - 1 \in 1 .. Len(v) /\ v[i - 1] = w[(i - 1) + 1]
        BY <1>1, <3>3
      <4> QED
        BY <3>1, <4>1 DEF Has
    <3> QED
      BY <3>2, <3>3
  <2>2. ASSUME Has(v, kind) PROVE Has(w, kind)
    <3>1. PICK i \in 1 .. Len(v) : v[i].kind = kind
      BY <2>2 DEF Has
    <3>2. i + 1 \in 1 .. Len(w) /\ w[i + 1].kind = kind
      BY <1>1, <3>1
    <3> QED
      BY <3>2 DEF Has
  <2>3. ASSUME Head(w).kind = kind PROVE Has(w, kind)
    BY <1>1, <2>3 DEF Has
  <2> QED
    BY <2>1, <2>2, <2>3
<1>3. ASSUME NEW kind, Once(w, kind)
      PROVE  Once(v, kind) /\ (Head(w).kind = kind => ~Has(v, kind))
  <2>1. ASSUME NEW i \in 1 .. Len(v), v[i].kind = kind
        PROVE  i + 1 \in 1 .. Len(w) /\ w[i + 1].kind = kind
    BY <1>1, <2>1
  <2>2. Once(v, kind)
    <3> SUFFICES ASSUME NEW i \in 1 .. Len(v), NEW j \in 1 .. Len(v), v[i].kind = kind, v[j].kind = kind
                 PROVE  i = j
      BY DEF Once
    <3>1. i + 1 = j + 1
      BY <1>3, <2>1 DEF Once
    <3> QED
      BY <3>1
  <2>3. ASSUME Head(w).kind = kind, Has(v, kind) PROVE FALSE
    <3>1. PICK i \in 1 .. Len(v) : v[i].kind = kind
      BY <2>3 DEF Has
    <3>2. i + 1 = 1
      BY <1>1, <1>3, <2>1, <2>3, <3>1 DEF Once
    <3> QED
      BY <3>2
  <2> QED
    BY <2>2, <2>3
<1> QED
  BY <1>1, <1>2, <1>3

(* The first request finished.                                             *)
LEMMA RequestTaken ==
  ASSUME NEW w \in Seq(Request), w # <<>>, NEW v, v = Tail(w)
  PROVE  /\ v \in Seq(Request) /\ Len(v) = Len(w) - 1 /\ Len(w) \in Nat \ {0}
         /\ \A i \in 1 .. Len(v) : v[i] = w[i + 1]
         /\ v = <<>> <=> Len(w) = 1
         /\ w = <<"exit", "enter">> => v = <<"enter">>
<1>1. /\ v \in Seq(Request) /\ Len(v) = Len(w) - 1 /\ Len(w) \in Nat \ {0}
      /\ \A i \in 1 .. Len(v) : v[i] = w[i + 1]
  BY EmptySeq, LenProperties
<1>2. v = <<>> <=> Len(w) = 1
  <2>1. ASSUME NEW u \in Seq(Request) PROVE u = <<>> <=> Len(u) = 0
    BY EmptySeq
  <2>2. v = <<>> <=> Len(v) = 0
    BY <1>1, <2>1, Zenon
  <2> QED
    BY <1>1, <2>2
<1>3. ASSUME w = <<"exit", "enter">> PROVE v = <<"enter">>
  <2>1. Len(w) = 2 /\ w[2] = "enter"
    BY <1>3
  <2>2. Len(v) = 1
    BY <1>1, <2>1
  <2>3. v[1] = "enter"
    <3>1. v[1] = w[1 + 1]
      BY <1>1, <2>2
    <3>2. w[1 + 1] = w[2]
      OBVIOUS
    <3> QED
      BY <2>1, <3>1, <3>2
  <2>4. \E x : x = <<"enter">> /\ x \in Seq(Request) /\ Len(x) = 1 /\ x[1] = "enter"
    <3>1. <<"enter">> \in Seq(Request)
      BY DEF Request
    <3>2. Len(<<"enter">>) = 1 /\ <<"enter">>[1] = "enter"
      OBVIOUS
    <3> QED
      BY <3>1, <3>2
  <2>5. PICK x : x = <<"enter">> /\ x \in Seq(Request) /\ Len(x) = 1 /\ x[1] = "enter"
    BY <2>4
  <2>6. v = x
    <3>1. ASSUME NEW i \in 1 .. Len(v) PROVE v[i] = x[i]
      <4>1. i = 1
        BY <2>2
      <4> QED
        BY <2>3, <2>5, <4>1
    <3> QED
      BY <1>1, <2>2, <2>5, <3>1, SeqEqual
  <2> QED
    BY <2>5, <2>6
<1> QED
  BY <1>1, <1>2, <1>3

(* What a worker's or a client's step leaves alone, and the bound of at.   *)
LEMMA SendKeepsTypes ==
  ASSUME RoomTypes, NEW n \in Session, NEW s \in Session, NEW kind \in DOMAIN Following,
         Send(n, kind, s)
  PROVE  wire' \in [Session -> Seq(Part)]
<1>1. [kind |-> kind, by |-> s] \in Part
  BY DEF Part
<1>2. Append(wire[n], [kind |-> kind, by |-> s]) \in Seq(Part)
  BY <1>1, AppendProperties DEF RoomTypes
<1> QED
  BY <1>2 DEF RoomTypes, Send

LEMMA DoneKeepsTypes ==
  ASSUME RoomTypes, NEW s \in Session, asked[s] # <<>>, Done(s)
  PROVE  /\ asked' \in [Session -> Seq(Request)] /\ pc' \in [Session -> Labels]
         /\ at' \in [Session -> Session \union {NULL}] /\ seen' \in [Session -> Int]
<1>1. Tail(asked[s]) \in Seq(Request)
  BY DEF RoomTypes
<1> QED
  BY <1>1 DEF RoomTypes, Done, Goto, Point, Labels

LEMMA RoomTypesInit == RoomInit => RoomTypes
<1> SUFFICES ASSUME RoomInit PROVE RoomTypes
  OBVIOUS
<1>1. asked \in [Session -> Seq(Request)] /\ wire \in [Session -> Seq(Part)]
  BY EmptySeq DEF RoomInit, PerSession
<1> QED
  BY <1>1, ChatRoomAssumption DEF RoomInit, RoomTypes, PerSession, Labels

LEMMA EnterKeepsTypes ==
  ASSUME RoomTypes, NEW s \in Session,
         \/ EnterAlloc(s) \/ EnterLook(s) \/ EnterWalk(s) \/ EnterFirst(s) \/ EnterLink(s)
         \/ Load(s, "enter") \/ EnterStore(s) \/ EnterCode(s) \/ EnterNumber(s)
  PROVE  RoomTypes'
<1> USE DEF Keep, client, list, Goto, Point
<1>1. CASE EnterAlloc(s)
  BY <1>1 DEF RoomTypes, EnterAlloc, Labels
<1>2. CASE EnterLook(s)
  BY <1>2 DEF RoomTypes, EnterLook, Labels
<1>3. CASE EnterWalk(s)
  BY <1>3 DEF RoomTypes, EnterWalk, Labels
<1>4. CASE EnterFirst(s)
  BY <1>4 DEF RoomTypes, EnterFirst, Labels
<1>5. CASE EnterLink(s)
  BY <1>5 DEF RoomTypes, EnterLink, Labels
<1>6. CASE Load(s, "enter")
  BY <1>6 DEF RoomTypes, Load, Labels
<1>7. CASE EnterStore(s)
  BY <1>7 DEF RoomTypes, EnterStore, Labels
<1>8. CASE EnterCode(s)
  <2>1. wire' \in [Session -> Seq(Part)]
    BY <1>8, PartKinds, SendKeepsTypes DEF EnterCode
  <2> QED
    BY <1>8, <2>1 DEF RoomTypes, EnterCode, Labels
<1>9. CASE EnterNumber(s)
  <2>1. wire' \in [Session -> Seq(Part)]
    BY <1>9, PartKinds, SendKeepsTypes DEF EnterNumber
  <2>2. asked[s] # <<>> /\ Done(s)
    BY <1>9 DEF EnterNumber, At
  <2> QED
    BY <1>9, <2>1, <2>2, DoneKeepsTypes DEF RoomTypes, EnterNumber
<1> QED
  BY <1>1, <1>2, <1>3, <1>4, <1>5, <1>6, <1>7, <1>8, <1>9

LEMMA SendKeepsRoomTypes ==
  ASSUME RoomTypes, NEW s \in Session,
         \/ SendSize(s) \/ SendHead(s) \/ SendHeader(s)
         \/ SendName(s) \/ SendText(s) \/ SendNext(s)
  PROVE  RoomTypes'
<1> USE DEF Keep, client, list, Goto, Point
<1>1. CASE SendSize(s)
  <2>1. asked[s] # <<>> /\ due' \in [Session -> SUBSET Session]
    BY <1>1 DEF RoomTypes, SendSize, At
  <2>2. CASE size = 1
    BY <1>1, <2>1, <2>2, DoneKeepsTypes DEF RoomTypes, SendSize
  <2>3. CASE size # 1
    <3>1. /\ pc' = [pc EXCEPT ![s] = "head"]
          /\ UNCHANGED <<asked, at, seen, wire, told, client, requests, list>>
      BY <1>1, <2>3, Zenon DEF SendSize
    <3>2. pc' \in [Session -> Labels]
      BY <3>1 DEF RoomTypes, Labels
    <3> QED
      BY <2>1, <3>1, <3>2 DEF RoomTypes
  <2> QED
    BY <2>2, <2>3
<1>2. ASSUME NEW n \in Session \union {NULL}, asked[s] # <<>>, SendTo(s, n),
             Keep(<<list, wire, told, due>>)
      PROVE  RoomTypes'
  <2>1. CASE n = NULL
    BY <1>2, <2>1, DoneKeepsTypes DEF RoomTypes, SendTo
  <2>2. CASE n # NULL
    BY <1>2, <2>2, ZenonT(40) DEF RoomTypes, SendTo, Labels
  <2> QED
    BY <2>1, <2>2
<1>3. CASE SendHead(s)
  BY <1>2, <1>3 DEF RoomTypes, SendHead, At
<1>4. CASE SendNext(s)
  <2>1. next[at[s]] \in Session \union {NULL}
    BY <1>4 DEF RoomTypes, SendNext
  <2> QED
    BY <1>2, <1>4, <2>1 DEF SendNext, At
<1>5. CASE SendHeader(s)
  <2>1. wire' \in [Session -> Seq(Part)]
    BY <1>5, PartKinds, SendKeepsTypes DEF SendHeader, RoomTypes
  <2> QED
    BY <1>5, <2>1 DEF RoomTypes, SendHeader, Labels
<1>6. CASE SendName(s)
  <2>1. wire' \in [Session -> Seq(Part)]
    BY <1>6, PartKinds, SendKeepsTypes DEF SendName, RoomTypes
  <2> QED
    BY <1>6, <2>1 DEF RoomTypes, SendName, Labels
<1>7. CASE SendText(s)
  <2>1. wire' \in [Session -> Seq(Part)]
    BY <1>7, PartKinds, SendKeepsTypes DEF SendText, RoomTypes
  <2> QED
    BY <1>7, <2>1 DEF RoomTypes, SendText, Labels
<1> QED
  BY <1>1, <1>3, <1>4, <1>5, <1>6, <1>7

LEMMA ExitKeepsTypes ==
  ASSUME RoomTypes, NEW s \in Session,
         \/ ExitLook(s) \/ ExitFind(s) \/ ExitBehead(s) \/ ExitUnlink(s) \/ ExitBye(s)
         \/ ExitFree(s) \/ Load(s, "exit") \/ ExitStore(s)
  PROVE  RoomTypes'
<1> USE DEF Keep, client, list, Goto, Point
<1>1. CASE ExitLook(s)
  BY <1>1 DEF RoomTypes, ExitLook, Labels
<1>2. CASE ExitFind(s)
  BY <1>2 DEF RoomTypes, ExitFind, Labels
<1>3. CASE ExitBehead(s)
  BY <1>3 DEF RoomTypes, ExitBehead, Labels
<1>4. CASE ExitUnlink(s)
  BY <1>4 DEF RoomTypes, ExitUnlink, Labels
<1>5. CASE ExitBye(s)
  <2>1. wire' \in [Session -> Seq(Part)]
    BY <1>5, PartKinds, SendKeepsTypes DEF ExitBye
  <2> QED
    BY <1>5, <2>1 DEF RoomTypes, ExitBye, Labels
<1>6. CASE ExitFree(s)
  BY <1>6 DEF RoomTypes, ExitFree, Labels
<1>7. CASE Load(s, "exit")
  BY <1>7 DEF RoomTypes, Load, Labels
<1>8. CASE ExitStore(s)
  <2>1. asked[s] # <<>> /\ Done(s)
    BY <1>8 DEF ExitStore, At
  <2>2. size' \in Int
    BY <1>8 DEF RoomTypes, ExitStore
  <2> QED
    BY <1>8, <2>1, <2>2, DoneKeepsTypes DEF RoomTypes, ExitStore
<1> QED
  BY <1>1, <1>2, <1>3, <1>4, <1>5, <1>6, <1>7, <1>8

LEMMA RoomTypesNext ==
  ASSUME RoomTypes, [RoomNext]_roomVars
  PROVE  RoomTypes'
<1>1. CASE UNCHANGED roomVars
  BY <1>1 DEF RoomTypes, roomVars, list, worker, client
<1>2. ASSUME NEW s \in Session, NEW op \in Request, Ask(s, op)
      PROVE  asked' \in [Session -> Seq(Request)] /\ requests' \in 0 .. MaxRequests
  <2>1. Append(asked[s], op) \in Seq(Request)
    BY AppendProperties DEF RoomTypes
  <2>2. asked' \in [Session -> Seq(Request)]
    BY <1>2, <2>1 DEF Ask, RoomTypes
  <2>3. requests' \in 0 .. MaxRequests
    BY <1>2, ChatRoomAssumption DEF Ask, RoomTypes
  <2> QED
    BY <2>2, <2>3
<1>3. ASSUME NEW s \in Session, do_enter(s) PROVE RoomTypes'
  BY <1>2, <1>3, PartKinds DEF RoomTypes, do_enter, Ask, list, Request
<1>4. ASSUME NEW s \in Session, do_sendall(s) PROVE RoomTypes'
  BY <1>2, <1>4 DEF RoomTypes, do_sendall, Ask, list, Request
<1>5. ASSUME NEW s \in Session, do_exit(s) PROVE RoomTypes'
  BY <1>2, <1>5 DEF RoomTypes, do_exit, Ask, list, Request
<1>6. ASSUME NEW s \in Session, ClientRead(s) PROVE RoomTypes'
  <2>1. wire[s] \in Seq(Part) /\ wire[s] # <<>>
    BY <1>6 DEF RoomTypes, ClientRead
  <2> DEFINE part == Head(wire[s])
  <2>2. part.kind \in DOMAIN Following /\ part.by \in Session /\ Tail(wire[s]) \in Seq(Part)
    BY <2>1, PartTaken DEF Part
  <2>3. wire' \in [Session -> Seq(Part)]
    BY <1>6, <2>2 DEF ClientRead, RoomTypes
  <2> HIDE DEF part
  <2>4. /\ reads' = [reads EXCEPT ![s] = IF Expected(s, part) THEN Following[part.kind] ELSE "astray"]
        /\ from' = [from EXCEPT ![s] = IF part.kind \in {"header", "name"} THEN part.by ELSE NULL]
        /\ screen' = [screen EXCEPT ![s] =
                        CASE Expected(s, part) /\ part.kind = "number" -> "lobby"
                          [] Expected(s, part) /\ part.kind = "exit"   -> "menu"
                          [] OTHER -> @]
    BY <1>6 DEF ClientRead, part
  <2>5. Following[part.kind] \in DOMAIN Following \union {"nothing", "astray"}
    BY <2>2, PartKinds
  <2>6. reads' \in [Session -> DOMAIN Following \union {"nothing", "astray"}]
    BY <2>4, <2>5 DEF RoomTypes
  <2>7. from' \in [Session -> Session \union {NULL}]
    BY <2>2, <2>4 DEF RoomTypes
  <2>8. screen' \in [Session -> {"menu", "entering", "lobby", "leaving"}]
    BY <2>4 DEF RoomTypes
  <2> QED
    BY <1>6, <2>3, <2>6, <2>7, <2>8 DEF RoomTypes, ClientRead, list, worker
<1>7. ASSUME NEW s \in Session, WorkerStep(s) PROVE RoomTypes'
  BY <1>7, EnterKeepsTypes, SendKeepsRoomTypes, ExitKeepsTypes DEF WorkerStep
<1> QED
  BY <1>1, <1>3, <1>4, <1>5, <1>6, <1>7 DEF RoomNext

-----------------------------------------------------------------------------
(* The turns of a session                                                  *)

(* No answer to enter or exit was sent to t or read by it.                 *)
NoAnswerMoves(t) ==
  \A kind \in {"number", "exit"} :
    /\ Has(wire'[t], kind) <=> Has(wire[t], kind)
    /\ Once(wire[t], kind) => Once(wire'[t], kind)

(* The worker of t moves on inside its request, but not to where an answer *)
(* to exit has been sent.                                                  *)
WithinRequest(t) ==
  \/ pc'[t] = pc[t]
  \/ /\ pc'[t] \in LabelsOf(Doing(t))
     /\ Doing(t) = "exit" => pc[t] # "idle" /\ (pc[t] \in Released <=> pc'[t] \in Released)

LEMMA TurnKept ==
  ASSUME RoomTypes, NEW t \in Session, AtItsLabel(t), Turn(t), Answer(t),
         asked'[t] = asked[t], screen'[t] = screen[t], reads'[t] = reads[t],
         t \in told' <=> t \in told, NoAnswerMoves(t), WithinRequest(t)
  PROVE  AtItsLabel(t)' /\ Turn(t)' /\ Answer(t)'
<1>1. asked[t] \in Seq(Request) /\ (asked[t] # <<>> => Len(asked[t]) \in Nat \ {0} /\ Head(asked[t]) = asked[t][1])
  BY EmptySeq, LenProperties DEF RoomTypes
<1>2. Doing(t)' = Doing(t)
  BY DEF Doing
<1>3. AtItsLabel(t)'
  BY <1>2 DEF AtItsLabel, WithinRequest
<1>4. Doing(t) = "exit" => (pc'[t] \in Released <=> pc[t] \in Released) /\ (pc'[t] = "idle" <=> pc[t] = "idle")
  BY DEF WithinRequest, LabelsOf
<1>5. screen[t] = "leaving" /\ asked[t] # <<>> => Doing(t) \in {"exit", "sendall"}
  BY <1>1 DEF Turn, Broadcasts, Doing
<1>6. asked[t] = <<"exit">> \/ asked[t] = <<"exit", "enter">> => Doing(t) = "exit"
  BY SMTT(90) DEF Doing
<1>7. Turn(t)'
  BY <1>2, <1>4, <1>5, <1>6 DEF Turn, Broadcasts
<1>8. (Entered(t)' <=> Entered(t)) /\ (Left(t)' <=> Left(t))
  BY <1>2, <1>4 DEF Entered, Left, On
<1>9. Answer(t)'
  BY <1>8 DEF Answer, NoAnswerMoves
<1> QED
  BY <1>3, <1>7, <1>9

LEMMA BroadcastMovesNoAnswer ==
  ASSUME RoomTypes, NEW n \in Session, NEW s \in Session, NEW t \in Session,
         NEW kind \in DOMAIN Following \ {"number", "exit"}, Send(n, kind, s)
  PROVE  NoAnswerMoves(t)
<1> DEFINE p == [kind |-> kind, by |-> s]
<1>1. p \in Part /\ wire[n] \in Seq(Part)
  BY DEF Part, RoomTypes
<1>2. wire'[n] = Append(wire[n], p) /\ (t # n => wire'[t] = wire[t])
  BY DEF Send, RoomTypes
<1>3. p.kind = kind /\ p.kind \notin {"number", "exit"}
  OBVIOUS
<1> HIDE DEF p
<1> DEFINE w == wire[n]
           v == Append(w, p)
<1>4. /\ \A k : Has(v, k) <=> Has(w, k) \/ p.kind = k
      /\ \A k : Once(w, k) /\ (p.kind = k => ~Has(w, k)) => Once(v, k)
  <2> HIDE DEF w
  <2> QED
    BY <1>1, PartAdded, ZenonT(40) DEF w
<1> QED
  BY <1>2, <1>3, <1>4 DEF NoAnswerMoves

(* What the steps of one worker leave to the other sessions.               *)
LEMMA OthersTurnKept ==
  ASSUME RoomTypes, TurnsInv, NEW s \in Session, NEW t \in Session \ {s}, WorkerStep(s)
  PROVE  AtItsLabel(t)' /\ Turn(t)' /\ Answer(t)'
<1> USE DEF Keep, client, list, Goto, Point
<1>1. asked'[t] = asked[t] /\ pc'[t] = pc[t]
  BY SMTT(40) DEF RoomTypes, WorkerStep, EnterAlloc, EnterLook, EnterWalk, EnterFirst, EnterLink, Load,
         EnterStore, EnterCode, EnterNumber, SendSize, SendHead, SendHeader, SendName, SendText,
         SendNext, SendTo, Done, ExitLook, ExitFind, ExitBehead, ExitUnlink, ExitBye, ExitFree, ExitStore
<1>2. UNCHANGED <<screen, reads>>
  BY DEF WorkerStep, EnterAlloc, EnterLook, EnterWalk, EnterFirst, EnterLink, Load,
         EnterStore, EnterCode, EnterNumber, SendSize, SendHead, SendHeader, SendName, SendText,
         SendNext, ExitLook, ExitFind, ExitBehead, ExitUnlink, ExitBye, ExitFree, ExitStore
<1>3. t \in told' <=> t \in told
  BY DEF WorkerStep, EnterAlloc, EnterLook, EnterWalk, EnterFirst, EnterLink, Load,
         EnterStore, EnterCode, EnterNumber, SendSize, SendHead, SendHeader, SendName, SendText,
         SendNext, ExitLook, ExitFind, ExitBehead, ExitUnlink, ExitBye, ExitFree, ExitStore
<1>4. NoAnswerMoves(t)
  <2>1. CASE SendHeader(s) \/ SendName(s) \/ SendText(s)
    <3>1. at[s] \in Session
      BY <2>1 DEF SendHeader, SendName, SendText, RoomTypes
    <3> QED
      BY <2>1, <3>1, PartKinds, BroadcastMovesNoAnswer DEF SendHeader, SendName, SendText
  <2>2. ASSUME NEW kind, Send(s, kind, s) PROVE NoAnswerMoves(t)
    BY <2>2 DEF Send, RoomTypes, NoAnswerMoves
  <2>3. CASE EnterCode(s) \/ EnterNumber(s) \/ ExitBye(s)
    BY <2>2, <2>3 DEF EnterCode, EnterNumber, ExitBye
  <2>4. CASE wire' = wire
    BY <2>4 DEF NoAnswerMoves
  <2>5. \/ wire' = wire \/ SendHeader(s) \/ SendName(s) \/ SendText(s)
        \/ EnterCode(s) \/ EnterNumber(s) \/ ExitBye(s)
    BY DEF WorkerStep, EnterAlloc, EnterLook, EnterWalk, EnterFirst, EnterLink, Load, EnterStore,
           SendSize, SendHead, SendNext, ExitLook, ExitFind, ExitBehead, ExitUnlink, ExitFree, ExitStore
  <2> QED
    BY <2>1, <2>3, <2>4, <2>5
<1>5. AtItsLabel(t) /\ Turn(t) /\ Answer(t) /\ WithinRequest(t)
  BY <1>1 DEF TurnsInv, WithinRequest
<1>6. screen'[t] = screen[t] /\ reads'[t] = reads[t]
  BY <1>2
<1> QED
  BY <1>1, <1>3, <1>4, <1>5, <1>6, TurnKept

(* What else is known of a session by its first request.                   *)
LEMMA FirstRequest ==
  ASSUME RoomTypes, NEW s \in Session, AtItsLabel(s), Turn(s)
  PROVE  /\ Doing(s) = "enter" => screen[s] = "entering" /\ asked[s] = <<"enter">> /\ s \notin told
         /\ Doing(s) = "sendall" => screen[s] \in {"lobby", "leaving"} /\ s \in told
         /\ Doing(s) = "exit" /\ screen[s] = "leaving" => asked[s] = <<"exit">>
         /\ Doing(s) = "exit" =>
              /\ screen[s] \in {"menu", "entering", "leaving"}
              /\ pc[s] \notin Released => screen[s] = "leaving"
              /\ s \in told <=> pc[s] = "idle"
<1>1. asked[s] \in Seq(Request)
  BY DEF RoomTypes
<1>2. asked[s] # <<>> => Len(asked[s]) \in Nat \ {0} /\ Head(asked[s]) = asked[s][1]
  BY <1>1, EmptySeq, LenProperties
<1>3. screen[s] \in {"menu", "entering", "lobby", "leaving"}
  BY DEF RoomTypes
<1>4. Doing(s) \in {"enter", "sendall", "exit"} => asked[s] # <<>> /\ Doing(s) = asked[s][1]
  BY <1>2 DEF Doing
<1>5. asked[s] = <<"exit">> \/ asked[s] = <<"exit", "enter">> => Doing(s) = "exit"
  BY DEF Doing
<1>6. asked[s] = <<"enter">> => Doing(s) = "enter"
  BY DEF Doing
<1>7. pc[s] \in Released => pc[s] # "idle"
  BY DEF Released
<1>8. Doing(s) = "enter" => screen[s] = "entering" /\ asked[s] = <<"enter">> /\ s \notin told
  BY <1>2, <1>3, <1>4, <1>5 DEF Turn, Broadcasts
<1>9. Doing(s) = "sendall" => screen[s] \in {"lobby", "leaving"} /\ s \in told
  BY <1>2, <1>3, <1>4, <1>5, <1>6 DEF Turn, Broadcasts
<1>10. ASSUME Doing(s) = "exit"
       PROVE  /\ screen[s] \in {"menu", "entering", "leaving"}
              /\ pc[s] \notin Released => screen[s] = "leaving"
              /\ s \in told <=> pc[s] = "idle"
  <2>1. screen[s] # "lobby"
    BY <1>2, <1>4, <1>10 DEF Turn, Broadcasts
  <2>2. screen[s] \in {"menu", "entering"} => pc[s] \in Released /\ s \notin told
    BY <1>4, <1>6, <1>10 DEF Turn
  <2>3. screen[s] = "leaving" => (s \in told <=> pc[s] = "idle")
    BY <1>4, <1>10 DEF Turn
  <2> QED
    BY <1>3, <1>7, <2>1, <2>2, <2>3
<1>11. ASSUME Doing(s) = "exit", screen[s] = "leaving" PROVE asked[s] = <<"exit">>
  <2>1. asked[s] # <<>> /\ asked[s][Len(asked[s])] = "exit" /\ Broadcasts(s, Len(asked[s]) - 1)
    BY <1>4, <1>11 DEF Turn
  <2>2. Len(asked[s]) = 1
    <3>1. Len(asked[s]) \in Nat \ {0} /\ asked[s][1] = "exit"
      BY <1>2, <1>4, <1>11
    <3>2. \A i \in 1 .. Len(asked[s]) - 1 : asked[s][i] = "sendall"
      BY <2>1 DEF Broadcasts
    <3> DEFINE n == Len(asked[s])
    <3>3. ASSUME 1 \in 1 .. n - 1 PROVE FALSE
      <4>1. asked[s][1] = "sendall"
        BY <3>2, <3>3
      <4> QED
        BY <3>1, <4>1
    <3>4. n \in Nat \ {0}
      BY <3>1
    <3> HIDE DEF n
    <3>5. n = 1
      BY <3>3, <3>4
    <3> QED
      BY <3>5 DEF n
  <2> QED
    BY <1>1, <2>1, <2>2
<1> QED
  BY <1>8, <1>9, <1>10, <1>11

(* A broadcast that is over.                                               *)
LEMMA BroadcastDone ==
  ASSUME RoomTypes, TurnsInv, NEW s \in Session, Doing(s) = "sendall", Done(s),
         UNCHANGED <<client, wire, told>>
  PROVE  AtItsLabel(s)' /\ Turn(s)' /\ Answer(s)'
<1> USE DEF client
<1>1. AtItsLabel(s) /\ Turn(s) /\ Answer(s) /\ s \in told /\ screen[s] \in {"lobby", "leaving"}
  BY FirstRequest DEF TurnsInv
<1>2. asked[s] \in Seq(Request) /\ asked[s] # <<>> /\ asked[s][1] = "sendall"
  BY EmptySeq DEF Doing, RoomTypes
<1>3. /\ asked'[s] = Tail(asked[s]) /\ pc'[s] = "idle"
      /\ UNCHANGED <<screen, reads, wire, told>>
  BY DEF Done, Goto, RoomTypes
<1>4. /\ Len(asked[s]) \in Nat \ {0} /\ Tail(asked[s]) \in Seq(Request)
      /\ Len(Tail(asked[s])) = Len(asked[s]) - 1
      /\ \A i \in 1 .. Len(asked[s]) - 1 : Tail(asked[s])[i] = asked[s][i + 1]
      /\ Tail(asked[s]) = <<>> <=> Len(asked[s]) = 1
  <2> DEFINE w == asked[s]
             v == Tail(w)
  <2>1. w \in Seq(Request) /\ w # <<>>
    BY <1>2
  <2>2. /\ v \in Seq(Request) /\ Len(v) = Len(w) - 1 /\ Len(w) \in Nat \ {0}
        /\ \A i \in 1 .. Len(v) : v[i] = w[i + 1]
        /\ v = <<>> <=> Len(w) = 1
    <3> HIDE DEF w
    <3> QED
      BY <2>1, RequestTaken
  <2> QED
    BY <2>2
<1>6. AtItsLabel(s)'
  BY <1>3 DEF AtItsLabel
<1>7. CASE screen[s] = "lobby"
  <2>1. Broadcasts(s, Len(asked[s]))
    BY <1>1, <1>7 DEF Turn
  <2>2. Broadcasts(s, Len(asked[s]))'
    BY <1>3, <1>4, <2>1, SMTT(40) DEF Broadcasts
  <2>3. Turn(s)'
    BY <1>1, <1>3, <1>7, <2>2 DEF Turn
  <2>4. Answer(s)'
    BY <1>1, <1>3, <1>7 DEF Answer, Entered, Left
  <2> QED
    BY <1>6, <2>3, <2>4
<1>8. CASE screen[s] = "leaving"
  <2>1. asked[s][Len(asked[s])] = "exit" /\ Broadcasts(s, Len(asked[s]) - 1)
    BY <1>1, <1>2, <1>8 DEF Turn
  <2>2. Len(asked[s]) > 1 /\ asked'[s] # <<>>
    BY <1>2, <1>3, <1>4, <2>1
  <2>3. asked'[s][Len(asked'[s])] = "exit" /\ Broadcasts(s, Len(asked[s]) - 1)'
    BY <1>3, <1>4, <2>1, <2>2 DEF Broadcasts
  <2>4. Turn(s)'
    BY <1>1, <1>3, <1>8, <2>2, <2>3 DEF Turn
  <2>5. ~Left(s) /\ ~Left(s)' /\ ~Entered(s)'
    BY <1>2, <1>3, <1>8, <2>2 DEF Left, Entered, On, Released
  <2>6. Answer(s)'
    BY <1>1, <1>3, <2>5, <1>8 DEF Answer, Entered
  <2> QED
    BY <1>6, <2>4, <2>6
<1> QED
  BY <1>1, <1>7, <1>8

(* The steps that stay within a request.                                   *)
LEMMA WithinTurnKept ==
  ASSUME RoomTypes, TurnsInv, NEW s \in Session,
         \/ EnterAlloc(s) \/ EnterLook(s) \/ EnterWalk(s) \/ EnterFirst(s) \/ EnterLink(s)
         \/ Load(s, "enter") \/ EnterStore(s) \/ EnterCode(s)
         \/ SendHeader(s) \/ SendName(s) \/ SendText(s)
         \/ ExitFind(s) \/ ExitBehead(s) \/ ExitUnlink(s) \/ ExitFree(s) \/ Load(s, "exit")
  PROVE  AtItsLabel(s)' /\ Turn(s)' /\ Answer(s)'
<1> USE DEF Keep, client, list, Goto, Point
<1>1. /\ asked'[s] = asked[s] /\ screen'[s] = screen[s] /\ reads'[s] = reads[s]
      /\ s \in told' <=> s \in told
  BY DEF EnterAlloc, EnterLook, EnterWalk, EnterFirst, EnterLink, Load, EnterStore, EnterCode,
         SendHeader, SendName, SendText, ExitFind, ExitBehead, ExitUnlink, ExitFree
<1>2. NoAnswerMoves(s)
  <2>1. CASE SendHeader(s) \/ SendName(s) \/ SendText(s)
    <3>1. at[s] \in Session
      BY <2>1 DEF SendHeader, SendName, SendText, RoomTypes
    <3> QED
      BY <2>1, <3>1, PartKinds, BroadcastMovesNoAnswer DEF SendHeader, SendName, SendText
  <2>2. CASE EnterCode(s)
    BY <2>2, PartKinds, BroadcastMovesNoAnswer DEF EnterCode
  <2>3. CASE wire' = wire
    BY <2>3 DEF NoAnswerMoves
  <2>4. wire' = wire \/ SendHeader(s) \/ SendName(s) \/ SendText(s) \/ EnterCode(s)
    BY DEF EnterAlloc, EnterLook, EnterWalk, EnterFirst, EnterLink, Load, EnterStore,
           ExitFind, ExitBehead, ExitUnlink, ExitFree
  <2> QED
    BY <2>1, <2>2, <2>3, <2>4
<1>3. WithinRequest(s)
  <2> USE DEF At, Doing, WithinRequest, LabelsOf, Released, RoomTypes
  <2>1. CASE EnterAlloc(s) \/ EnterLook(s) \/ EnterWalk(s) \/ EnterFirst(s) \/ EnterLink(s)
    BY <2>1 DEF EnterAlloc, EnterLook, EnterWalk, EnterFirst, EnterLink
  <2>2. CASE Load(s, "enter") \/ EnterStore(s) \/ EnterCode(s)
    BY <2>2 DEF Load, EnterStore, EnterCode
  <2>3. CASE SendHeader(s) \/ SendName(s) \/ SendText(s)
    BY <2>3 DEF SendHeader, SendName, SendText
  <2>4. CASE ExitFind(s) \/ ExitBehead(s) \/ ExitUnlink(s)
    BY <2>4 DEF ExitFind, ExitBehead, ExitUnlink
  <2>5. CASE ExitFree(s) \/ Load(s, "exit")
    BY <2>5 DEF ExitFree, Load
  <2> QED
    BY <2>1, <2>2, <2>3, <2>4, <2>5
<1>4. AtItsLabel(s) /\ Turn(s) /\ Answer(s)
  BY DEF TurnsInv
<1> QED
  BY <1>1, <1>2, <1>3, <1>4, TurnKept

(* The steps that begin or end a broadcast.                                *)
LEMMA BroadcastTurnKept ==
  ASSUME RoomTypes, TurnsInv, NEW s \in Session, SendSize(s) \/ SendHead(s) \/ SendNext(s)
  PROVE  AtItsLabel(s)' /\ Turn(s)' /\ Answer(s)'
<1> USE DEF Keep, client, list
<1>1. Doing(s) = "sendall" /\ UNCHANGED <<screen, reads, from, wire, told>>
  BY DEF SendSize, SendHead, SendNext, At, Doing
<1>2. CASE Done(s)
  BY <1>1, <1>2, BroadcastDone
<1>3. CASE ~Done(s)
  <2>1. asked'[s] = asked[s] /\ pc'[s] \in {"head", "header"}
    BY <1>3 DEF SendSize, SendHead, SendNext, SendTo, Goto, RoomTypes
  <2>2. WithinRequest(s) /\ NoAnswerMoves(s)
    BY <1>1, <2>1 DEF WithinRequest, LabelsOf, NoAnswerMoves
  <2>3. AtItsLabel(s) /\ Turn(s) /\ Answer(s)
    BY DEF TurnsInv
  <2> QED
    BY <1>1, <2>1, <2>2, <2>3, TurnKept
<1> QED
  BY <1>2, <1>3

(* The steps that answer, or leave the lobby for good.                     *)
LEMMA AnswerTurnKept ==
  ASSUME RoomTypes, TurnsInv, NEW s \in Session,
         EnterNumber(s) \/ ExitLook(s) \/ ExitBye(s) \/ ExitStore(s)
  PROVE  AtItsLabel(s)' /\ Turn(s)' /\ Answer(s)'
<1> USE DEF Keep, client, list, Goto, Point
<1>0. AtItsLabel(s) /\ Turn(s) /\ Answer(s) /\ asked[s] \in Seq(Request)
  BY DEF TurnsInv, RoomTypes
<1>1. ASSUME NEW kind \in DOMAIN Following, Send(s, kind, s)
      PROVE  /\ \A k : Has(wire'[s], k) <=> Has(wire[s], k) \/ kind = k
             /\ \A k : Once(wire[s], k) /\ (kind = k => ~Has(wire[s], k)) => Once(wire'[s], k)
  <2> DEFINE p == [kind |-> kind, by |-> s]
             w == wire[s]
             v == Append(w, p)
  <2>1. p \in Part /\ w \in Seq(Part) /\ p.kind = kind
    BY DEF Part, RoomTypes
  <2>2. wire'[s] = v
    BY <1>1 DEF Send, RoomTypes
  <2>3. /\ \A k : Has(v, k) <=> Has(w, k) \/ kind = k
        /\ \A k : Once(w, k) /\ (kind = k => ~Has(w, k)) => Once(v, k)
    <3> HIDE DEF p, w
    <3> QED
      BY <2>1, PartAdded
  <2> QED
    BY <2>2, <2>3
<1>2. CASE EnterNumber(s)
  <2>1. Doing(s) = "enter" /\ pc[s] = "number"
    BY <1>2 DEF EnterNumber, At, Doing
  <2>2. screen[s] = "entering" /\ asked[s] = <<"enter">>
    BY <1>0, <2>1, FirstRequest
  <2>3. /\ asked'[s] = <<>> /\ pc'[s] = "idle" /\ s \in told'
        /\ screen'[s] = screen[s] /\ reads'[s] = reads[s]
    BY <1>2, <2>2 DEF EnterNumber, Done, RoomTypes
  <2>4. Turn(s)' /\ AtItsLabel(s)' /\ Entered(s)' /\ ~Left(s)'
    BY <2>2, <2>3 DEF Turn, AtItsLabel, Entered, Left
  <2>5. ~Has(wire[s], "number") /\ ~Has(wire[s], "exit")
    BY <1>0, <2>2 DEF Answer, Entered, Left
  <2>6. Send(s, "number", s)
    BY <1>2 DEF EnterNumber
  <2>7. Has(wire'[s], "number") /\ ~Has(wire'[s], "exit") /\ Once(wire'[s], "number") /\ Once(wire'[s], "exit")
    BY <1>0, <1>1, <2>5, <2>6, PartKinds DEF Answer
  <2> QED
    BY <2>4, <2>7 DEF Answer
<1>3. CASE ExitLook(s)
  <2>1. Doing(s) = "exit" /\ pc[s] = "idle" /\ pc[s] \notin Released
    BY <1>3 DEF ExitLook, At, Doing, Released
  <2>2. screen[s] = "leaving" /\ asked[s] = <<"exit">>
    BY <1>0, <2>1, FirstRequest
  <2>3. /\ asked'[s] = asked[s] /\ pc'[s] \in {"behead", "find"} /\ s \notin told'
        /\ screen'[s] = screen[s] /\ reads'[s] = reads[s] /\ wire'[s] = wire[s]
    BY <1>3 DEF ExitLook, RoomTypes
  <2>4. Doing(s)' = "exit"
    BY <2>2, <2>3 DEF Doing
  <2>5. AtItsLabel(s)'
    BY <2>3, <2>4 DEF AtItsLabel, LabelsOf
  <2>6. Turn(s)'
    BY <1>0, <2>2, <2>3, <2>4 DEF Turn, Broadcasts
  <2>7. ~Entered(s)' /\ ~Left(s)' /\ ~Entered(s) /\ ~Left(s)
    BY <2>1, <2>2, <2>3 DEF Entered, Left, On, Released
  <2>8. Answer(s)'
    BY <1>0, <2>3, <2>7 DEF Answer
  <2> QED
    BY <2>5, <2>6, <2>8
<1>4. CASE ExitBye(s)
  <2>1. Doing(s) = "exit" /\ pc[s] = "bye" /\ pc[s] \notin Released
    BY <1>4 DEF ExitBye, At, Doing, Released
  <2>2. screen[s] = "leaving" /\ asked[s] = <<"exit">> /\ s \notin told
    BY <1>0, <2>1, FirstRequest
  <2>3. /\ asked'[s] = asked[s] /\ pc'[s] = "free" /\ s \notin told'
        /\ screen'[s] = screen[s] /\ reads'[s] = reads[s]
    BY <1>4, <2>2 DEF ExitBye, RoomTypes
  <2>4. Doing(s)' = "exit"
    BY <2>2, <2>3 DEF Doing
  <2>5. AtItsLabel(s)'
    BY <2>3, <2>4 DEF AtItsLabel, LabelsOf
  <2>6. Turn(s)'
    BY <1>0, <2>2, <2>3, <2>4 DEF Turn, Broadcasts
  <2>7. ~Entered(s)' /\ Left(s)' /\ ~Entered(s) /\ ~Left(s)
    BY <2>1, <2>2, <2>3, <2>4 DEF Entered, Left, On, Released
  <2>8. ~Has(wire[s], "number") /\ ~Has(wire[s], "exit")
    BY <1>0, <2>7 DEF Answer
  <2>9. Send(s, "exit", s)
    BY <1>4 DEF ExitBye
  <2>10. Has(wire'[s], "exit") /\ ~Has(wire'[s], "number") /\ Once(wire'[s], "number") /\ Once(wire'[s], "exit")
    BY <1>0, <1>1, <2>8, <2>9, PartKinds DEF Answer
  <2> QED
    BY <2>5, <2>6, <2>7, <2>10 DEF Answer
<1>5. CASE ExitStore(s)
  <2>1. Doing(s) = "exit" /\ pc[s] = "store" /\ pc[s] \in Released /\ pc[s] # "idle"
    BY <1>5 DEF ExitStore, At, Doing, Released
  <2>2. /\ s \notin told /\ screen[s] \in {"menu", "entering", "leaving"}
        /\ screen[s] = "leaving" => asked[s] = <<"exit">>
    BY <1>0, <2>1, FirstRequest
  <2>3. /\ asked'[s] = Tail(asked[s]) /\ pc'[s] = "idle" /\ s \notin told'
        /\ screen'[s] = screen[s] /\ reads'[s] = reads[s] /\ wire'[s] = wire[s]
    BY <1>5, <2>2 DEF ExitStore, Done, RoomTypes
  <2>4. /\ screen[s] = "menu" => asked[s] = <<"exit">>
        /\ screen[s] = "entering" => asked[s] = <<"exit", "enter">>
    <3>1. asked[s] # <<>> /\ asked[s] # <<"enter">>
      BY <2>1 DEF Doing
    <3> QED
      BY <1>0, <3>1 DEF Turn
  <2>5. /\ screen[s] \in {"menu", "leaving"} => asked'[s] = <<>>
        /\ screen[s] = "entering" => asked'[s] = <<"enter">>
    <3>1. asked[s] # <<>>
      BY <2>1 DEF Doing
    <3> QED
      BY <1>0, <2>2, <2>3, <2>4, <3>1, RequestTaken
  <2>6. AtItsLabel(s)' /\ Turn(s)'
    BY <2>2, <2>3, <2>5 DEF AtItsLabel, Turn, Broadcasts
  <2>7. (Left(s)' <=> Left(s)) /\ ~Entered(s) /\ ~Entered(s)'
    BY <2>1, <2>2, <2>3, <2>4, <2>5 DEF Entered, Left, On
  <2>8. Answer(s)'
    BY <1>0, <2>3, <2>7 DEF Answer
  <2> QED
    BY <2>6, <2>8
<1> QED
  BY <1>2, <1>3, <1>4, <1>5

LEMMA RequestAdded ==
  ASSUME NEW w \in Seq(Request), NEW op \in Request, NEW v, v = Append(w, op)
  PROVE  /\ v \in Seq(Request) /\ Len(v) = Len(w) + 1 /\ Len(w) \in Nat /\ v[Len(v)] = op
         /\ \A i \in 1 .. Len(w) : v[i] = w[i]
         /\ v # <<>> /\ Head(v) = IF w = <<>> THEN op ELSE Head(w)
         /\ w = <<>> => v = <<op>>
<1>1. /\ v \in Seq(Request) /\ Len(v) = Len(w) + 1 /\ Len(w) \in Nat /\ v[Len(v)] = op
      /\ \A i \in 1 .. Len(w) : v[i] = w[i]
  BY AppendProperties, LenProperties
<1>2. v # <<>>
  BY <1>1, EmptySeq
<1>3. Head(v) = v[1]
  BY <1>1, <1>2
<1>4. w # <<>> => Len(w) # 0 /\ Head(w) = w[1]
  BY EmptySeq
<1>5. Head(v) = IF w = <<>> THEN op ELSE Head(w)
  <2>1. CASE w = <<>>
    <3>1. Len(v) = 1
      BY <1>1, <2>1, EmptySeq
    <3> QED
      BY <1>1, <1>3, <2>1, <3>1
  <2>2. CASE w # <<>>
    BY <1>1, <1>3, <1>4, <2>2
  <2> QED
    BY <2>1, <2>2
<1>6. w = <<>> => v = <<op>>
  OBVIOUS
<1> QED
  BY <1>1, <1>2, <1>5, <1>6

LEMMA EnterBehindExit == Append(<<"exit">>, "enter") = <<"exit", "enter">>
<1>1. PICK w, v, x : w = <<"exit">> /\ v = Append(w, "enter") /\ x = <<"exit", "enter">>
  OBVIOUS
<1>2. w \in Seq(Request) /\ Len(w) = 1 /\ w[1] = "exit"
  BY <1>1 DEF Request
<1>3. x \in Seq(Request) /\ Len(x) = 2 /\ x[1] = "exit" /\ x[2] = "enter"
  BY <1>1 DEF Request
<1>4. v \in Seq(Request) /\ Len(v) = 2 /\ v[1] = "exit" /\ v[2] = "enter"
  <2>1. "enter" \in Request
    BY DEF Request
  <2> QED
    BY <1>1, <1>2, <2>1, AppendProperties
<1>5. ASSUME NEW i \in 1 .. Len(v) PROVE v[i] = x[i]
  <2>1. i \in {1, 2}
    BY <1>4
  <2> QED
    BY <1>3, <1>4, <2>1
<1> QED
  BY <1>1, <1>3, <1>4, <1>5, SeqEqual

(* A request made.                                                         *)
LEMMA AskTurnKept ==
  ASSUME RoomTypes, TurnsInv, NEW s \in Session, do_enter(s) \/ do_sendall(s) \/ do_exit(s)
  PROVE  AtItsLabel(s)' /\ Turn(s)' /\ Answer(s)'
<1>0. AtItsLabel(s) /\ Turn(s) /\ Answer(s) /\ asked[s] \in Seq(Request)
  BY DEF TurnsInv, RoomTypes
<1>1. ASSUME asked[s] = <<>> PROVE pc[s] = "idle"
  BY <1>0, <1>1 DEF AtItsLabel, Doing, LabelsOf
<1>2. UNCHANGED <<pc, wire, told>>
  BY DEF do_enter, do_sendall, do_exit, Ask
<1>3. ASSUME NEW op \in Request, Ask(s, op)
      PROVE  /\ asked'[s] \in Seq(Request) /\ Len(asked'[s]) = Len(asked[s]) + 1 /\ Len(asked[s]) \in Nat
             /\ asked'[s][Len(asked'[s])] = op
             /\ \A i \in 1 .. Len(asked[s]) : asked'[s][i] = asked[s][i]
             /\ asked'[s] # <<>> /\ Doing(s)' = IF asked[s] = <<>> THEN op ELSE Doing(s)
             /\ asked[s] = <<>> => asked'[s] = <<op>>
             /\ asked'[s] = Append(asked[s], op)
             /\ AtItsLabel(s)'
  <2> DEFINE w == asked[s]
             v == Append(w, op)
  <2>1. w \in Seq(Request) /\ asked'[s] = v
    BY <1>0, <1>3 DEF Ask, RoomTypes
  <2>2. /\ v \in Seq(Request) /\ Len(v) = Len(w) + 1 /\ Len(w) \in Nat /\ v[Len(v)] = op
        /\ \A i \in 1 .. Len(w) : v[i] = w[i]
        /\ v # <<>> /\ Head(v) = IF w = <<>> THEN op ELSE Head(w)
        /\ w = <<>> => v = <<op>>
    <3> HIDE DEF w
    <3> QED
      BY <2>1, RequestAdded
  <2>3. Doing(s)' = IF asked[s] = <<>> THEN op ELSE Doing(s)
    <3> HIDE DEF v
    <3> QED
      BY <2>1, <2>2 DEF Doing
  <2>4. AtItsLabel(s)'
    BY <1>0, <1>1, <1>2, <2>3 DEF AtItsLabel
  <2>5. asked'[s] = Append(asked[s], op)
    BY <2>1
  <2> HIDE DEF v
  <2> QED
    BY <2>1, <2>2, <2>3, <2>4, <2>5
<1>4. CASE do_enter(s)
  <2>1. screen[s] = "menu" /\ Ask(s, "enter") /\ screen'[s] = "entering"
    BY <1>4 DEF do_enter, RoomTypes
  <2>2. /\ asked'[s] # <<>> /\ AtItsLabel(s)'
        /\ Doing(s)' = IF asked[s] = <<>> THEN "enter" ELSE Doing(s)
        /\ asked[s] = <<>> => asked'[s] = <<"enter">>
        /\ asked'[s] = Append(asked[s], "enter")
    BY <1>3, <2>1 DEF Request
  <2>6. asked[s] = <<"exit">> => asked'[s] = <<"exit", "enter">>
    BY <2>2, EnterBehindExit
  <2>3. Turn(s)'
    BY <1>0, <1>2, <2>1, <2>2, <2>6 DEF Turn
  <2>4. ~Entered(s) /\ ~Left(s) /\ ~Entered(s)' /\ ~Left(s)'
    BY <2>1, <2>2 DEF Entered, Left
  <2>5. Answer(s)'
    BY <1>0, <1>2, <2>4 DEF Answer
  <2> QED
    BY <2>2, <2>3, <2>5
<1>5. CASE do_sendall(s)
  <2>1. screen[s] = "lobby" /\ Ask(s, "sendall") /\ screen'[s] = "lobby"
    BY <1>5 DEF do_sendall, RoomTypes
  <2>2. Broadcasts(s, Len(asked[s])) /\ s \in told
    BY <1>0, <2>1 DEF Turn
  <2>3. Broadcasts(s, Len(asked[s]))' /\ AtItsLabel(s)'
    BY <1>3, <2>1, <2>2 DEF Broadcasts, Request
  <2>4. Turn(s)'
    BY <1>2, <2>1, <2>2, <2>3 DEF Turn
  <2>5. ~Entered(s) /\ ~Left(s) /\ ~Entered(s)' /\ ~Left(s)'
    BY <2>1 DEF Entered, Left
  <2>6. Answer(s)'
    BY <1>0, <1>2, <2>5 DEF Answer
  <2> QED
    BY <2>3, <2>4, <2>6
<1>6. CASE do_exit(s)
  <2>1. screen[s] = "lobby" /\ Ask(s, "exit") /\ screen'[s] = "leaving"
    BY <1>6 DEF do_exit, RoomTypes
  <2>2. Broadcasts(s, Len(asked[s])) /\ s \in told
    BY <1>0, <2>1 DEF Turn
  <2>3. /\ asked'[s] # <<>> /\ asked'[s][Len(asked'[s])] = "exit" /\ AtItsLabel(s)'
        /\ Doing(s)' = IF asked[s] = <<>> THEN "exit" ELSE Doing(s)
        /\ \A i \in 1 .. Len(asked[s]) : asked'[s][i] = asked[s][i]
        /\ Len(asked'[s]) - 1 = Len(asked[s])
    BY <1>3, <2>1 DEF Request
  <2>4. Broadcasts(s, Len(asked[s]) - 1)'
    BY <2>2, <2>3 DEF Broadcasts
  <2>5. asked[s] # <<>> => Doing(s) = "sendall"
    BY <1>0, <2>2, EmptySeq DEF Broadcasts, Doing
  <2>6. Turn(s)'
    BY <1>1, <1>2, <2>1, <2>2, <2>3, <2>4, <2>5 DEF Turn
  <2>7. ~Entered(s) /\ ~Left(s) /\ ~Entered(s)' /\ ~Left(s)'
    BY <1>1, <1>2, <2>1, <2>3, <2>5 DEF Entered, Left, On, Released
  <2>8. Answer(s)'
    BY <1>0, <1>2, <2>7 DEF Answer
  <2> QED
    BY <2>3, <2>6, <2>8
<1> QED
  BY <1>4, <1>5, <1>6

(* A part read.                                                            *)
LEMMA ReadTurnKept ==
  ASSUME RoomTypes, TurnsInv, NEW s \in Session, ClientRead(s)
  PROVE  AtItsLabel(s)' /\ Turn(s)' /\ Answer(s)'
<1>0. AtItsLabel(s) /\ Turn(s) /\ Answer(s)
  BY DEF TurnsInv
<1> DEFINE w == wire[s]
           v == Tail(w)
           part == Head(w)
<1>1. w \in Seq(Part) /\ w # <<>>
  BY DEF RoomTypes, ClientRead
<1>2. /\ \A kind : Has(w, kind) <=> Has(v, kind) \/ part.kind = kind
      /\ \A kind : Once(w, kind) => Once(v, kind) /\ (part.kind = kind => ~Has(v, kind))
  <2> HIDE DEF w
  <2> QED
    BY <1>1, PartTaken
<1>3. /\ wire'[s] = v /\ UNCHANGED <<asked, pc, told>>
      /\ reads'[s] = IF Expected(s, part) THEN Following[part.kind] ELSE "astray"
      /\ screen'[s] = CASE Expected(s, part) /\ part.kind = "number" -> "lobby"
                        [] Expected(s, part) /\ part.kind = "exit"   -> "menu"
                        [] OTHER -> screen[s]
  BY DEF ClientRead, RoomTypes, worker
<1> HIDE DEF v, part
<1>4. AtItsLabel(s)' /\ Doing(s)' = Doing(s)
  BY <1>0, <1>3 DEF AtItsLabel, Doing
<1>5. CASE part.kind \notin {"number", "exit"} \/ ~Expected(s, part)
  <2>1. screen'[s] = screen[s]
    BY <1>3, <1>5
  <2>2. Turn(s)' /\ (Entered(s)' <=> Entered(s)) /\ (Left(s)' <=> Left(s))
    BY <1>0, <1>3, <1>4, <2>1 DEF Turn, Broadcasts, Entered, Left, On
  <2>3. CASE part.kind \notin {"number", "exit"}
    <3>1. reads[s] # "astray"
      BY DEF ClientRead
    <3>2. Answer(s)'
      BY <1>0, <1>2, <1>3, <2>2, <2>3, <3>1 DEF Answer
    <3> QED
      BY <1>4, <2>2, <3>2
  <2>4. CASE ~Expected(s, part)
    <3>1. Answer(s)'
      BY <1>0, <1>2, <1>3, <2>2, <2>4 DEF Answer
    <3> QED
      BY <1>4, <2>2, <3>1
  <2> QED
    BY <1>5, <2>3, <2>4
<1>6. CASE part.kind = "number" /\ Expected(s, part)
  <2>1. Entered(s) /\ ~Left(s) /\ ~Has(v, "number") /\ ~Has(v, "exit")
    BY <1>0, <1>2, <1>6 DEF Answer, Entered, Left
  <2>2. screen'[s] = "lobby" /\ asked[s] = <<>> /\ s \in told
    BY <1>0, <1>3, <1>6, <2>1 DEF Turn, Entered
  <2>3. Turn(s)' /\ ~Entered(s)' /\ ~Left(s)'
    BY <1>3, <2>2 DEF Turn, Broadcasts, Entered, Left
  <2>4. Answer(s)'
    BY <1>0, <1>2, <1>3, <2>1, <2>3 DEF Answer
  <2> QED
    BY <1>4, <2>3, <2>4
<1>7. CASE part.kind = "exit" /\ Expected(s, part)
  <2>1. Left(s) /\ ~Entered(s) /\ ~Has(v, "number") /\ ~Has(v, "exit")
    BY <1>0, <1>2, <1>7 DEF Answer, Entered, Left
  <2>2. screen'[s] = "menu" /\ screen[s] = "leaving"
    BY <1>3, <1>7, <2>1 DEF Left
  <2>3. s \notin told /\ (asked[s] = <<>> \/ (asked[s] = <<"exit">> /\ pc[s] \in Released))
    <3>1. CASE asked[s] = <<>>
      BY <1>0, <2>2, <3>1 DEF Turn
    <3>2. CASE asked[s] # <<>>
      <4>1. Doing(s) = "exit" /\ pc[s] \in Released
        BY <2>1, <3>2 DEF Left, On
      <4> QED
        BY <1>0, <2>2, <4>1, FirstRequest DEF Released
    <3> QED
      BY <3>1, <3>2
  <2>4. Turn(s)' /\ ~Entered(s)' /\ ~Left(s)'
    BY <1>3, <2>2, <2>3 DEF Turn, Entered, Left
  <2>5. Answer(s)'
    BY <1>0, <1>2, <1>3, <2>1, <2>4 DEF Answer
  <2> QED
    BY <1>4, <2>4, <2>5
<1> QED
  BY <1>5, <1>6, <1>7

LEMMA TurnsInit == RoomInit => TurnsInv
<1> SUFFICES ASSUME RoomInit, NEW s \in Session PROVE AtItsLabel(s) /\ Turn(s) /\ Answer(s)
  BY DEF TurnsInv
<1>1. /\ asked[s] = <<>> /\ pc[s] = "idle" /\ wire[s] = <<>> /\ screen[s] = "menu" /\ s \notin told
  BY DEF RoomInit, PerSession
<1>2. ~\E i \in 1 .. Len(wire[s]) : TRUE
  BY <1>1
<1> QED
  BY <1>1, <1>2 DEF AtItsLabel, Turn, Answer, Entered, Left, Has, Once

LEMMA TurnsNext ==
  ASSUME RoomTypes, TurnsInv, [RoomNext]_roomVars
  PROVE  TurnsInv'
<1> SUFFICES ASSUME NEW t \in Session
             PROVE  AtItsLabel(t)' /\ Turn(t)' /\ Answer(t)'
  BY DEF TurnsInv
<1>0. AtItsLabel(t) /\ Turn(t) /\ Answer(t)
  BY DEF TurnsInv
<1>1. ASSUME asked'[t] = asked[t], screen'[t] = screen[t], reads'[t] = reads[t], wire'[t] = wire[t],
             UNCHANGED <<told, pc>>
      PROVE  AtItsLabel(t)' /\ Turn(t)' /\ Answer(t)'
  <2>1. NoAnswerMoves(t) /\ WithinRequest(t)
    BY <1>1 DEF NoAnswerMoves, WithinRequest
  <2> QED
    BY <1>0, <1>1, <2>1, TurnKept
<1>2. CASE UNCHANGED roomVars
  BY <1>1, <1>2 DEF roomVars, worker, client
<1>3. ASSUME NEW s \in Session, do_enter(s) \/ do_sendall(s) \/ do_exit(s) \/ ClientRead(s)
      PROVE  AtItsLabel(t)' /\ Turn(t)' /\ Answer(t)'
  <2>1. CASE s = t
    BY <1>3, <2>1, AskTurnKept, ReadTurnKept
  <2>2. CASE s # t
    <3>1. /\ asked'[t] = asked[t] /\ screen'[t] = screen[t] /\ reads'[t] = reads[t] /\ wire'[t] = wire[t]
          /\ UNCHANGED <<told, pc>>
      BY <1>3, <2>2 DEF do_enter, do_sendall, do_exit, Ask, ClientRead, RoomTypes, worker
    <3> QED
      BY <1>1, <3>1
  <2> QED
    BY <2>1, <2>2
<1>4. ASSUME NEW s \in Session, WorkerStep(s)
      PROVE  AtItsLabel(t)' /\ Turn(t)' /\ Answer(t)'
  <2>1. CASE s # t
    BY <1>4, <2>1, OthersTurnKept
  <2>2. CASE s = t
    BY <1>4, <2>2, WithinTurnKept, BroadcastTurnKept, AnswerTurnKept DEF WorkerStep
  <2> QED
    BY <2>1, <2>2
<1> QED
  BY <1>2, <1>3, <1>4 DEF RoomNext

LEMMA TurnsInvariant == RoomSpec => [](RoomTypes /\ TurnsInv)
<1>1. RoomInit => RoomTypes /\ TurnsInv
  BY RoomTypesInit, TurnsInit
<1>2. RoomTypes /\ TurnsInv /\ [RoomNext]_roomVars => (RoomTypes /\ TurnsInv)'
  BY RoomTypesNext, TurnsNext
<1> QED
  BY <1>1, <1>2, PTL DEF RoomSpec

(* Whoever asks to enter or to leave is answered: when nothing is under    *)
(* way everybody is at the menu, in the lobby or misled, whichever         *)
(* requests overlap (chat.c enter_lobby, exit_room; client.py do_enter,    *)
(* do_exit).                                                               *)
THEOREM NobodyIsKeptWaiting == RoomSpec => []NobodyWaits
<1>1. RoomTypes /\ TurnsInv => NobodyWaits
  <2> SUFFICES ASSUME RoomTypes, TurnsInv, \A s \in Session : asked[s] = <<>> /\ wire[s] = <<>>,
                      NEW s \in Session
               PROVE  screen[s] \in {"menu", "lobby"} \/ reads[s] = "astray"
    BY DEF NobodyWaits
  <2>1. Answer(s) /\ asked[s] = <<>> /\ wire[s] = <<>>
    BY DEF TurnsInv
  <2>2. ~Has(wire[s], "number") /\ ~Has(wire[s], "exit")
    BY <2>1 DEF Has
  <2>3. screen[s] \in {"menu", "entering", "lobby", "leaving"}
    BY DEF RoomTypes
  <2> QED
    BY <2>1, <2>2, <2>3 DEF Answer, Entered, Left
<1> QED
  BY <1>1, TurnsInvariant, PTL

-----------------------------------------------------------------------------
(* The list, when arrivals and broadcasts overlap but no two arrivals, and *)
(* departures with nothing.                                                *)

OneComesAtATime == Overlap \subseteq {{"enter", "sendall"}, {"sendall"}}

Exclusive ==
  \A s, t \in Session : s # t =>
    \A a \in UnderWay(s), b \in UnderWay(t) : {a, b} \in Overlap

(* What that leaves the others to do.                                      *)
Apart ==
  \A s, t \in Session : s # t =>
    /\ Doing(s) = "exit"  => Doing(t) = "none"
    /\ Doing(s) = "enter" => Doing(t) \in {"none", "sendall"}

Listed(q, s) == \E i \in 1 .. Len(q) : q[i] = s

(* The nodes on the list are those of the sessions in q, in their order.   *)
IsList(q) ==
  /\ \A i, j \in 1 .. Len(q) : q[i] = q[j] => i = j
  /\ head = IF q = <<>> THEN NULL ELSE q[1]
  /\ \A i \in 1 .. Len(q) : next[q[i]] = IF i = Len(q) THEN NULL ELSE q[i + 1]

(* A member has a node on the list from when it is linked until it is      *)
(* unlinked; a new node is at first on its own.                            *)
Seated(s) ==
  \/ s \in told
  \/ On(s, "enter", {"load", "store", "code", "number"})
  \/ On(s, "exit", {"find", "behead", "unlink"})
Fresh(s) == On(s, "enter", {"look", "walk", "first", "link"})
Seats(q) ==
  \A s \in Session :
    /\ Listed(q, s) <=> Seated(s)
    /\ Seated(s) \/ Fresh(s) => s \in alive
    /\ Fresh(s) => next[s] = NULL

(* Where the cursors of an arrival and a departure are.                    *)
Cursor(q, s) ==
  /\ On(s, "enter", {"first"}) => q = <<>>
  /\ On(s, "enter", {"walk"}) => Listed(q, at[s])
  /\ On(s, "enter", {"link"}) => q # <<>> /\ at[s] = q[Len(q)]
  /\ On(s, "exit", {"behead"}) => q # <<>> /\ q[1] = s
  /\ On(s, "exit", {"find"}) => \E k, m \in 1 .. Len(q) : k < m /\ at[s] = q[k] /\ s = q[m]
  /\ On(s, "exit", {"unlink"}) => \E k \in 1 .. Len(q) : k < Len(q) /\ at[s] = q[k] /\ s = q[k + 1]

(* lobby_size lags behind the list by who is about to count.               *)
Coming(s) == On(s, "enter", {"load", "store"})
Going(s) == On(s, "exit", {"bye", "free", "load", "store"})
Count(q) ==
  /\ \A s \in Session : Coming(s) => size = Len(q) - 1
  /\ \A s \in Session : Going(s) => size = Len(q) + 1
  /\ (\A s \in Session : ~Coming(s) /\ ~Going(s)) => size = Len(q)
  /\ \A s \in Session : pc[s] = "store" => seen[s] = size

(* A broadcast owes its message to members from its cursor on.             *)
Owes(q, s) ==
  /\ On(s, "sendall", {"head"}) => \A d \in due[s] : Listed(q, d)
  /\ On(s, "sendall", {"header", "name", "text"}) =>
       \E k \in 1 .. Len(q) :
         at[s] = q[k] /\ \A d \in due[s] : \E m \in 1 .. Len(q) : q[m] = d /\ m >= k
  /\ On(s, "sendall", {"next"}) =>
       \E k \in 1 .. Len(q) :
         at[s] = q[k] /\ \A d \in due[s] : \E m \in 1 .. Len(q) : q[m] = d /\ m > k
  /\ pc[s] \notin LabelsOf("sendall") => due[s] = {}

Fits(q) == IsList(q) /\ Seats(q) /\ Count(q) /\ \A s \in Session : Cursor(q, s) /\ Owes(q, s)
ListInv == \E q \in Seq(Session) : Fits(q)

LEMMA UnderWayTypes ==
  ASSUME RoomTypes, NEW s \in Session
  PROVE  /\ Doing(s) # "none" => asked[s] # <<>> /\ Doing(s) \in UnderWay(s)
         /\ Doing(s) \in {"none"} \union Request
         /\ UnderWay(s) \subseteq Request
<1>1. asked[s] \in Seq(Request) /\ DOMAIN asked[s] = 1 .. Len(asked[s]) /\ Len(asked[s]) \in Nat
  BY LenProperties DEF RoomTypes
<1>2. asked[s] # <<>> => Head(asked[s]) = asked[s][1] /\ 1 \in 1 .. Len(asked[s])
  BY <1>1, EmptySeq
<1>3. UnderWay(s) \subseteq Request
  BY <1>1, ElementOfSeq DEF UnderWay
<1>4. asked[s] # <<>> => Doing(s) \in UnderWay(s)
  BY <1>1, <1>2 DEF UnderWay, Doing
<1> QED
  BY <1>3, <1>4 DEF Doing

LEMMA ExclusiveApart ==
  ASSUME RoomTypes, Exclusive, OneComesAtATime
  PROVE  Apart
<1> SUFFICES ASSUME NEW s \in Session, NEW t \in Session, s # t, Doing(s) \in {"exit", "enter"}
             PROVE  /\ Doing(s) = "exit"  => Doing(t) = "none"
                    /\ Doing(s) = "enter" => Doing(t) \in {"none", "sendall"}
  BY DEF Apart
<1>1. Doing(s) \in UnderWay(s) /\ Doing(t) \in {"none", "enter", "sendall", "exit"}
  BY UnderWayTypes DEF Request
<1>2. CASE Doing(t) = "none"
  BY <1>2
<1>3. CASE Doing(t) # "none"
  <2>1. {Doing(s), Doing(t)} \in {{"enter", "sendall"}, {"sendall"}}
    BY <1>1, <1>3, UnderWayTypes DEF Exclusive, OneComesAtATime
  <2>2. Doing(s) \in {"enter", "sendall"} /\ Doing(t) \in {"enter", "sendall"}
    BY <2>1
  <2>3. ~(Doing(s) = "enter" /\ Doing(t) = "enter")
    BY <2>1
  <2> QED
    BY <2>2, <2>3
<1> QED
  BY <1>2, <1>3

LEMMA ExclusiveInit == RoomInit => Exclusive
<1> SUFFICES ASSUME RoomInit, NEW s \in Session PROVE UnderWay(s) = {}
  BY DEF Exclusive
<1> QED
  BY DEF RoomInit, PerSession, UnderWay

LEMMA ExclusiveNext ==
  ASSUME RoomTypes, Exclusive, [RoomNext]_roomVars
  PROVE  Exclusive'
<1>1. ASSUME NEW s \in Session, NEW op \in Request, Ask(s, op) PROVE Exclusive'
  <2>1. /\ asked' = [asked EXCEPT ![s] = Append(@, op)] /\ MayAsk(s, op)
    BY <1>1 DEF Ask
  <2>2. UnderWay(s)' \subseteq UnderWay(s) \union {op}
    <3>1. PICK w, v : w = asked[s] /\ v = Append(w, op)
      OBVIOUS
    <3>2. w \in Seq(Request) /\ asked'[s] = v
      BY <2>1, <3>1 DEF RoomTypes
    <3>3. /\ v \in Seq(Request) /\ Len(v) = Len(w) + 1 /\ Len(w) \in Nat /\ v[Len(v)] = op
          /\ \A i \in 1 .. Len(w) : v[i] = w[i]
      BY <3>1, <3>2, RequestAdded
    <3>4. DOMAIN v = 1 .. Len(v) /\ DOMAIN w = 1 .. Len(w)
      BY <3>2, <3>3, LenProperties
    <3>5. ASSUME NEW i \in DOMAIN v PROVE v[i] = op \/ (i \in DOMAIN w /\ v[i] = w[i])
      BY <3>3, <3>4
    <3>6. UnderWay(s)' = {v[i] : i \in DOMAIN v} /\ UnderWay(s) = {w[i] : i \in DOMAIN w}
      BY <3>1, <3>2 DEF UnderWay
    <3> QED
      BY <3>5, <3>6
  <2>3. \A t \in Session \ {s} : UnderWay(t)' = UnderWay(t)
    BY <2>1 DEF UnderWay, RoomTypes
  <2>4. SUFFICES ASSUME NEW t \in Session, NEW u \in Session, t # u,
                        NEW a \in UnderWay(t)', NEW b \in UnderWay(u)'
                 PROVE  {a, b} \in Overlap
    BY DEF Exclusive
  <2>5. CASE t # s /\ u # s
    BY <2>3, <2>4, <2>5 DEF Exclusive
  <2>6. CASE t = s
    <3>0. \A o \in UnderWay(u) : u # s => {op, o} \in Overlap
      BY <2>1 DEF MayAsk
    <3>1. u # s /\ b \in UnderWay(u) /\ (a \in UnderWay(t) \/ a = op)
      BY <2>2, <2>3, <2>4, <2>6
    <3> QED
      BY <2>4, <2>6, <3>0, <3>1 DEF Exclusive
  <2>7. CASE u = s
    <3>1. t # s /\ a \in UnderWay(t) /\ (b \in UnderWay(u) \/ b = op)
      BY <2>2, <2>3, <2>4, <2>7
    <3>2. {b, a} \in Overlap
      BY <2>1, <2>4, <2>7, <3>1 DEF Exclusive, MayAsk
    <3>3. {a, b} = {b, a}
      OBVIOUS
    <3> QED
      BY <3>2, <3>3
  <2> QED
    BY <2>5, <2>6, <2>7
<1>2. ASSUME \A t \in Session : UnderWay(t)' \subseteq UnderWay(t) PROVE Exclusive'
  BY <1>2 DEF Exclusive
<1>3. CASE asked' = asked
  BY <1>2, <1>3 DEF UnderWay
<1>4. ASSUME NEW s \in Session, asked[s] # <<>>, Done(s) PROVE Exclusive'
  <2>1. asked' = [asked EXCEPT ![s] = Tail(@)]
    BY <1>4 DEF Done
  <2>2. UnderWay(s)' \subseteq UnderWay(s)
    <3>1. PICK w, v : w = asked[s] /\ v = Tail(w)
      OBVIOUS
    <3>2. w \in Seq(Request) /\ w # <<>> /\ asked'[s] = v
      BY <1>4, <2>1, <3>1 DEF RoomTypes
    <3>3. /\ v \in Seq(Request) /\ Len(v) = Len(w) - 1 /\ Len(w) \in Nat \ {0}
          /\ \A i \in 1 .. Len(v) : v[i] = w[i + 1]
      BY <3>1, <3>2, RequestTaken
    <3>4. DOMAIN v = 1 .. Len(v) /\ DOMAIN w = 1 .. Len(w)
      BY <3>2, <3>3, LenProperties
    <3>5. ASSUME NEW i \in DOMAIN v PROVE i + 1 \in DOMAIN w /\ v[i] = w[i + 1]
      BY <3>3, <3>4
    <3>6. UnderWay(s)' = {v[i] : i \in DOMAIN v} /\ UnderWay(s) = {w[i] : i \in DOMAIN w}
      BY <3>1, <3>2 DEF UnderWay
    <3> QED
      BY <3>5, <3>6
  <2>3. \A t \in Session \ {s} : UnderWay(t)' = UnderWay(t)
    BY <2>1 DEF UnderWay, RoomTypes
  <2> QED
    BY <1>2, <2>2, <2>3
<1>5. ASSUME NEW s \in Session, WorkerStep(s) PROVE asked' = asked \/ (asked[s] # <<>> /\ Done(s))
  BY <1>5 DEF WorkerStep, EnterAlloc, EnterLook, EnterWalk, EnterFirst, EnterLink, Load,
         EnterStore, EnterCode, EnterNumber, SendSize, SendHead, SendHeader, SendName, SendText,
         SendNext, SendTo, ExitLook, ExitFind, ExitBehead, ExitUnlink, ExitBye, ExitFree, ExitStore, Keep, At
<1>6. ASSUME NEW s \in Session, do_enter(s) \/ do_sendall(s) \/ do_exit(s)
      PROVE  \E op \in Request : Ask(s, op)
  BY <1>6 DEF do_enter, do_sendall, do_exit, Request
<1>7. UNCHANGED roomVars \/ (\E s \in Session : ClientRead(s)) => asked' = asked
  BY DEF roomVars, worker, ClientRead
<1> QED
  BY <1>1, <1>3, <1>4, <1>5, <1>6, <1>7 DEF RoomNext

(* What a step of another session leaves of t.                             *)
Untouched(t) ==
  /\ Doing(t)' = Doing(t) /\ pc'[t] = pc[t] /\ at'[t] = at[t] /\ seen'[t] = seen[t]
  /\ due'[t] = due[t] /\ (t \in told' <=> t \in told)

LEMMA UntouchedFits ==
  ASSUME NEW q \in Seq(Session), NEW t \in Session, Untouched(t)
  PROVE  /\ Cursor(q, t) => Cursor(q, t)'
         /\ Owes(q, t) => Owes(q, t)'
         /\ Seated(t)' <=> Seated(t)
         /\ Fresh(t)' <=> Fresh(t)
         /\ Coming(t)' <=> Coming(t)
         /\ Going(t)' <=> Going(t)
<1>1. Cursor(q, t) => Cursor(q, t)'
  BY DEF Untouched, Cursor, On, Listed
<1>2. Owes(q, t) => Owes(q, t)'
  BY DEF Untouched, Owes, On, Listed, LabelsOf
<1>3. Seated(t)' <=> Seated(t)
  BY DEF Untouched, Seated, On
<1>4. /\ Fresh(t)' <=> Fresh(t)
      /\ Coming(t)' <=> Coming(t)
      /\ Going(t)' <=> Going(t)
  BY DEF Untouched, Fresh, Coming, Going, On
<1> QED
  BY <1>1, <1>2, <1>3, <1>4

(* A step of s that leaves the sequence as it is.                          *)
LEMMA FitsKept ==
  ASSUME NEW q \in Seq(Session), Fits(q), NEW s \in Session,
         \A t \in Session \ {s} : Untouched(t) /\ (t \in alive => t \in alive') /\ (Fresh(t) => next'[t] = next[t]),
         IsList(q)', Count(q)', Cursor(q, s)', Owes(q, s)',
         Listed(q, s) <=> Seated(s)', Seated(s)' \/ Fresh(s)' => s \in alive', Fresh(s)' => next'[s] = NULL
  PROVE  ListInv'
<1>1. ASSUME NEW t \in Session PROVE Cursor(q, t)' /\ Owes(q, t)'
  BY UntouchedFits DEF Fits
<1>2. ASSUME NEW t \in Session
      PROVE  /\ Listed(q, t) <=> Seated(t)'
             /\ Seated(t)' \/ Fresh(t)' => t \in alive'
             /\ Fresh(t)' => next'[t] = NULL
  <2>1. CASE t = s
    BY <2>1
  <2>2. CASE t # s
    <3>1. (Seated(t)' <=> Seated(t)) /\ (Fresh(t)' <=> Fresh(t))
      BY <2>2, UntouchedFits
    <3> QED
      BY <2>2, <3>1 DEF Fits, Seats
  <2> QED
    BY <2>1, <2>2
<1>3. Seats(q)'
  BY <1>2 DEF Seats, Listed
<1>4. Fits(q)'
  BY <1>1, <1>3 DEF Fits
<1> QED
  BY <1>4 DEF ListInv

(* ... and lobby_size.                                                     *)
LEMMA CountKept ==
  ASSUME NEW q \in Seq(Session), Count(q), NEW s \in Session,
         \A t \in Session \ {s} : Untouched(t),
         size' = size, Coming(s)' <=> Coming(s), Going(s)' <=> Going(s),
         pc'[s] = "store" => seen'[s] = size
  PROVE  Count(q)'
<1>1. ASSUME NEW t \in Session PROVE (Coming(t)' <=> Coming(t)) /\ (Going(t)' <=> Going(t))
  BY UntouchedFits
<1>2. ASSUME NEW t \in Session, pc'[t] = "store" PROVE seen'[t] = size'
  <2>1. CASE t = s
    BY <1>2, <2>1
  <2>2. CASE t # s
    BY <1>2, <2>2 DEF Count, Untouched
  <2> QED
    BY <2>1, <2>2
<1> QED
  BY <1>1, <1>2 DEF Count

LEMMA SameList ==
  ASSUME NEW q \in Seq(Session), IsList(q), head' = head,
         \A i \in 1 .. Len(q) : next'[q[i]] = next[q[i]]
  PROVE  IsList(q)'
  BY DEF IsList

(* The step of a worker and the other sessions; only ExitLook takes        *)
(* something away from them.                                               *)
LEMMA OthersUntouched ==
  ASSUME RoomTypes, NEW s \in Session, WorkerStep(s), ~ExitLook(s), NEW t \in Session \ {s}
  PROVE  Untouched(t) /\ asked'[t] = asked[t]
<1> USE DEF Keep, client, list, Goto, Point
<1>1. asked'[t] = asked[t] /\ pc'[t] = pc[t] /\ at'[t] = at[t] /\ seen'[t] = seen[t]
  <2>1. CASE SendSize(s) \/ SendHead(s) \/ SendHeader(s) \/ SendName(s) \/ SendText(s) \/ SendNext(s)
    BY <2>1 DEF RoomTypes, SendSize, SendHead, SendHeader, SendName, SendText, SendNext, SendTo, Done
  <2>2. CASE EnterNumber(s) \/ ExitStore(s)
    BY <2>2 DEF RoomTypes, EnterNumber, ExitStore, Done
  <2>3. CASE \/ EnterAlloc(s) \/ EnterLook(s) \/ EnterWalk(s) \/ EnterFirst(s) \/ EnterLink(s)
             \/ Load(s, "enter") \/ EnterStore(s) \/ EnterCode(s)
             \/ ExitFind(s) \/ ExitBehead(s) \/ ExitUnlink(s) \/ ExitBye(s)
             \/ ExitFree(s) \/ Load(s, "exit")
    BY <2>3 DEF RoomTypes, EnterAlloc, EnterLook, EnterWalk, EnterFirst, EnterLink, Load, EnterStore,
           EnterCode, ExitFind, ExitBehead, ExitUnlink, ExitBye, ExitFree
  <2> QED
    BY <2>1, <2>2, <2>3 DEF WorkerStep
<1>2. due'[t] = due[t] /\ (t \in told' <=> t \in told)
  BY DEF RoomTypes, WorkerStep, EnterAlloc, EnterLook, EnterWalk, EnterFirst, EnterLink, Load,
         EnterStore, EnterCode, EnterNumber, SendSize, SendHead, SendHeader, SendName, SendText,
         SendNext, ExitFind, ExitBehead, ExitUnlink, ExitBye, ExitFree, ExitStore
<1> QED
  BY <1>1, <1>2 DEF Untouched, Doing

LEMMA InSequence ==
  ASSUME NEW q \in Seq(Session)
  PROVE  /\ Len(q) \in Nat /\ (q # <<>> <=> Len(q) # 0)
         /\ \A i \in 1 .. Len(q) : q[i] \in Session /\ q[i] # NULL
         /\ \A t : Listed(q, t) => t \in Session /\ q # <<>>
<1>1. Len(q) \in Nat /\ (q # <<>> <=> Len(q) # 0)
  BY LenProperties, EmptySeq
<1>2. \A i \in 1 .. Len(q) : q[i] \in Session /\ q[i] # NULL
  BY ElementOfSeq, ChatRoomAssumption
<1> QED
  BY <1>1, <1>2 DEF Listed

(* An arrival that looks for the end of the list.                          *)
LEMMA ArrivalLooks ==
  ASSUME RoomTypes, TurnsInv, Apart, ListInv, NEW s \in Session,
         EnterAlloc(s) \/ EnterLook(s) \/ EnterWalk(s)
  PROVE  ListInv'
<1> USE DEF Keep, client, list, Goto, Point
<1>0. PICK q \in Seq(Session) : Fits(q)
  BY DEF ListInv
<1>1. /\ IsList(q) /\ Seats(q) /\ Count(q) /\ Cursor(q, s) /\ Owes(q, s)
      /\ Len(q) \in Nat /\ (q # <<>> <=> Len(q) # 0)
      /\ \A i \in 1 .. Len(q) : q[i] \in Session /\ q[i] # NULL
  BY <1>0, InSequence DEF Fits
<1>2. /\ Doing(s) = "enter" /\ pc[s] \in {"idle", "look", "walk"} /\ s \notin told
  <2>1. Doing(s) = "enter" /\ pc[s] \in {"idle", "look", "walk"}
    BY DEF EnterAlloc, EnterLook, EnterWalk, At, Doing
  <2> QED
    BY <2>1, FirstRequest DEF TurnsInv
<1>3. /\ Doing(s)' = "enter" /\ pc'[s] \in {"look", "walk", "first", "link"}
      /\ UNCHANGED <<asked, seen, size, told, due, head>>
  <2>1. UNCHANGED <<asked, seen, size, told, due, head>>
    BY DEF EnterAlloc, EnterLook, EnterWalk
  <2>2. pc'[s] \in {"look", "walk", "first", "link"}
    BY DEF EnterAlloc, EnterLook, EnterWalk, At, RoomTypes
  <2> QED
    BY <1>2, <2>1, <2>2 DEF Doing
<1>4. ~Seated(s) /\ ~Seated(s)' /\ Fresh(s)' /\ ~Coming(s) /\ ~Coming(s)' /\ ~Going(s) /\ ~Going(s)'
  BY <1>2, <1>3 DEF Seated, Fresh, Coming, Going, On
<1>5. \A i \in 1 .. Len(q) : q[i] # s
  BY <1>1, <1>4 DEF Seats, Listed
<1>6. /\ \A t \in Session \ {s} : Untouched(t) /\ (t \in alive => t \in alive') /\ next'[t] = next[t]
      /\ s \in alive' /\ next'[s] = NULL
  <2>1. \A t \in Session \ {s} : Untouched(t)
    BY OthersUntouched DEF WorkerStep, EnterAlloc, EnterLook, EnterWalk, ExitLook, At
  <2>2. CASE EnterAlloc(s)
    BY <2>1, <2>2 DEF EnterAlloc, RoomTypes
  <2>3. CASE EnterLook(s) \/ EnterWalk(s)
    <3>1. Fresh(s) /\ UNCHANGED <<alive, next>>
      BY <1>2, <2>3 DEF EnterLook, EnterWalk, Fresh, On, At
    <3> QED
      BY <1>1, <2>1, <3>1 DEF Seats
  <2> QED
    BY <2>2, <2>3
<1>7. IsList(q)'
  BY <1>1, <1>3, <1>5, <1>6, SameList
<1>8. Count(q)'
  BY <1>1, <1>3, <1>4, <1>6, CountKept
<1>9. due'[s] = {} /\ Owes(q, s)'
  BY <1>1, <1>2, <1>3 DEF Owes, On, LabelsOf
<1>10. Cursor(q, s)'
  <2>1. CASE EnterAlloc(s)
    <3>1. pc'[s] = "look"
      BY <2>1 DEF EnterAlloc, RoomTypes
    <3> QED
      BY <1>3, <3>1 DEF Cursor, On
  <2>2. CASE EnterLook(s)
    <3>1. at'[s] = head /\ pc'[s] = IF head = NULL THEN "first" ELSE "walk"
      BY <2>2 DEF EnterLook, RoomTypes
    <3>2. head = NULL => q = <<>>
      BY <1>1 DEF IsList
    <3>3. head # NULL => Listed(q, head)
      BY <1>1 DEF IsList, Listed
    <3>4. Listed(q, head) => Listed(q, at[s])'
      BY <3>1 DEF Listed
    <3> QED
      BY <1>3, <3>1, <3>2, <3>3, <3>4 DEF Cursor, On
  <2>3. CASE EnterWalk(s)
    <3>1. Listed(q, at[s])
      BY <1>1, <1>2, <2>3 DEF EnterWalk, At, Cursor, On
    <3>2. PICK k \in 1 .. Len(q) : q[k] = at[s]
      BY <3>1 DEF Listed
    <3>3. next[at[s]] = IF k = Len(q) THEN NULL ELSE q[k + 1]
      BY <1>1, <3>2 DEF IsList
    <3>4. CASE next[at[s]] = NULL
      <4>1. pc'[s] = "link" /\ at'[s] = at[s]
        BY <2>3, <3>4 DEF EnterWalk, RoomTypes
      <4>2. k = Len(q) /\ q # <<>>
        BY <1>1, <3>3, <3>4
      <4> QED
        BY <1>3, <3>2, <4>1, <4>2 DEF Cursor, On
    <3>5. CASE next[at[s]] # NULL
      <4>1. pc'[s] = "walk" /\ at'[s] = next[at[s]]
        BY <2>3, <3>5 DEF EnterWalk, RoomTypes, At
      <4>2. k + 1 \in 1 .. Len(q) /\ q[k + 1] = at'[s]
        BY <1>1, <3>3, <3>5, <4>1
      <4>3. Listed(q, at[s])'
        BY <4>2 DEF Listed
      <4> QED
        BY <1>3, <4>1, <4>3 DEF Cursor, On
    <3> QED
      BY <3>4, <3>5
  <2> QED
    BY <2>1, <2>2, <2>3
<1>11. ~Listed(q, s)
  BY <1>5 DEF Listed
<1> QED
  BY <1>0, <1>4, <1>6, <1>7, <1>8, <1>9, <1>10, <1>11, FitsKept

(* An arrival that counts itself and is answered.                          *)
LEMMA ArrivalCounts ==
  ASSUME RoomTypes, TurnsInv, Apart, ListInv, NEW s \in Session,
         Load(s, "enter") \/ EnterStore(s) \/ EnterCode(s) \/ EnterNumber(s)
  PROVE  ListInv'
<1> USE DEF Keep, client, list, Goto, Point
<1>0. PICK q \in Seq(Session) : Fits(q)
  BY DEF ListInv
<1>1. /\ IsList(q) /\ Seats(q) /\ Count(q) /\ Cursor(q, s) /\ Owes(q, s) /\ Len(q) \in Nat
  BY <1>0, InSequence DEF Fits
<1>2. Doing(s) = "enter" /\ pc[s] \in {"load", "store", "code", "number"}
  BY DEF Load, EnterStore, EnterCode, EnterNumber, At, Doing
<1>3. UNCHANGED <<head, next, alive, due>>
  BY DEF Load, EnterStore, EnterCode, EnterNumber
<1>4. \A t \in Session \ {s} : Untouched(t)
  BY OthersUntouched DEF WorkerStep, Load, EnterStore, EnterCode, EnterNumber, ExitLook, At
<1>5. /\ \/ Doing(s)' = "enter" /\ pc'[s] \in {"store", "code", "number"}
         \/ pc'[s] = "idle" /\ s \in told'
      /\ Seated(s)' /\ ~Fresh(s)' /\ ~Going(s)' /\ ~Going(s)
  <2>1. CASE EnterNumber(s)
    <3>1. pc'[s] = "idle" /\ s \in told'
      BY <2>1 DEF EnterNumber, Done, RoomTypes
    <3> QED
      BY <1>2, <3>1 DEF Seated, Fresh, Going, On
  <2>2. CASE Load(s, "enter") \/ EnterStore(s) \/ EnterCode(s)
    <3>1. Doing(s)' = "enter" /\ pc'[s] \in {"store", "code", "number"}
      BY <1>2, <2>2 DEF Load, EnterStore, EnterCode, RoomTypes, Doing
    <3> QED
      BY <1>2, <3>1 DEF Seated, Fresh, Going, On
  <2> QED
    BY <2>1, <2>2
<1>6. Listed(q, s) /\ s \in alive'
  <2>1. Seated(s)
    BY <1>2 DEF Seated, On
  <2> QED
    BY <1>1, <1>3, <2>1 DEF Seats
<1>7. IsList(q)'
  BY <1>1, <1>3, SameList
<1>8. Cursor(q, s)' /\ Owes(q, s)'
  <2>1. due'[s] = {}
    BY <1>1, <1>2, <1>3 DEF Owes, On, LabelsOf
  <2> QED
    BY <1>2, <1>5, <2>1 DEF Cursor, Owes, On
<1>9. Count(q)'
  <2>1. CASE Load(s, "enter")
    <3>1. pc[s] = "load" /\ pc'[s] = "store" /\ Doing(s)' = "enter" /\ seen'[s] = size /\ size' = size
      BY <1>2, <2>1 DEF Load, At, RoomTypes, Doing
    <3>2. Coming(s)' /\ Coming(s)
      BY <1>2, <3>1 DEF Coming, On
    <3> QED
      BY <1>1, <1>4, <1>5, <3>1, <3>2, CountKept
  <2>2. CASE EnterCode(s) \/ EnterNumber(s)
    <3>1. pc[s] \in {"code", "number"} /\ pc'[s] \in {"number", "idle"} /\ size' = size
      BY <2>2 DEF EnterCode, EnterNumber, Done, At, RoomTypes
    <3>2. ~Coming(s)' /\ ~Coming(s)
      BY <3>1 DEF Coming, On
    <3> QED
      BY <1>1, <1>4, <1>5, <3>1, <3>2, CountKept
  <2>3. CASE EnterStore(s)
    <3>1. pc[s] = "store" /\ pc'[s] = "code" /\ size' = seen[s] + 1
      BY <2>3 DEF EnterStore, At, RoomTypes
    <3>2. size' = Len(q)
      BY <1>1, <1>2, <3>1 DEF Count, Coming, On
    <3>3. ASSUME NEW t \in Session PROVE ~Coming(t)' /\ ~Going(t)' /\ pc'[t] # "store"
      <4>1. CASE t = s
        BY <1>5, <3>1, <4>1 DEF Coming, On
      <4>2. CASE t # s
        <5>1. Doing(t) \in {"none", "sendall"}
          BY <1>2, <4>2 DEF Apart
        <5>2. ~Coming(t) /\ ~Going(t)
          BY <5>1 DEF Coming, Going, On
        <5>3. pc[t] # "store"
          BY <5>1 DEF TurnsInv, AtItsLabel, LabelsOf
        <5> QED
          BY <1>4, <4>2, <5>2, <5>3, UntouchedFits DEF Untouched
      <4> QED
        BY <4>1, <4>2
    <3> QED
      BY <3>2, <3>3 DEF Count
  <2> QED
    BY <2>1, <2>2, <2>3
<1> QED
  BY <1>0, <1>3, <1>4, <1>5, <1>6, <1>7, <1>8, <1>9, FitsKept

(* A broadcast owes nobody who comes now, and its cursor stays where it is. *)
LEMMA OwesWithOneMore ==
  ASSUME NEW q \in Seq(Session), NEW s \in Session, NEW r, r = Append(q, s),
         NEW t \in Session, Untouched(t), Owes(q, t)
  PROVE  Owes(r, t)'
<1>1. /\ Len(q) \in Nat /\ Len(r) = Len(q) + 1
      /\ \A i \in 1 .. Len(q) : i \in 1 .. Len(r) /\ r[i] = q[i]
  <2>1. Len(q) \in Nat /\ Len(r) = Len(q) + 1 /\ \A i \in 1 .. Len(q) : r[i] = q[i]
    BY AppendProperties, LenProperties
  <2> QED
    BY <2>1
<1>2. CASE On(t, "sendall", {"head"})
  <2>1. \A d \in due[t] : Listed(r, d)
    BY <1>1, <1>2 DEF Owes, Listed
  <2>2. pc'[t] = "head" /\ due'[t] = due[t] /\ \A d : Listed(r, d)' <=> Listed(r, d)
    BY <1>2 DEF Untouched, On, Listed
  <2> QED
    BY <2>1, <2>2 DEF Owes, On, LabelsOf
<1>3. CASE On(t, "sendall", {"header", "name", "text"})
  <2>1. PICK k \in 1 .. Len(q) : at[t] = q[k] /\ \A d \in due[t] : \E m \in 1 .. Len(q) : q[m] = d /\ m >= k
    BY <1>3 DEF Owes
  <2>2. k \in 1 .. Len(r) /\ at[t] = r[k] /\ \A d \in due[t] : \E m \in 1 .. Len(r) : r[m] = d /\ m >= k
    BY <1>1, <2>1
  <2>3. pc'[t] \in {"header", "name", "text"} /\ due'[t] = due[t] /\ at'[t] = at[t]
    BY <1>3 DEF Untouched, On
  <2> QED
    BY <2>2, <2>3 DEF Owes, On, LabelsOf
<1>4. CASE On(t, "sendall", {"next"})
  <2>1. PICK k \in 1 .. Len(q) : at[t] = q[k] /\ \A d \in due[t] : \E m \in 1 .. Len(q) : q[m] = d /\ m > k
    BY <1>4 DEF Owes
  <2>2. k \in 1 .. Len(r) /\ at[t] = r[k] /\ \A d \in due[t] : \E m \in 1 .. Len(r) : r[m] = d /\ m > k
    BY <1>1, <2>1
  <2>3. pc'[t] = "next" /\ due'[t] = due[t] /\ at'[t] = at[t]
    BY <1>4 DEF Untouched, On
  <2> QED
    BY <2>2, <2>3 DEF Owes, On, LabelsOf
<1>5. CASE ~On(t, "sendall", {"head", "header", "name", "text", "next"})
  <2>1. ~On(t, "sendall", {"head", "header", "name", "text", "next"})'
    BY <1>5 DEF Untouched, On
  <2>2. pc'[t] \notin LabelsOf("sendall") => due'[t] = {}
    BY DEF Untouched, Owes
  <2> QED
    BY <2>1, <2>2 DEF Owes, On
<1> QED
  BY <1>2, <1>3, <1>4, <1>5 DEF On

(* An arrival that puts itself at the end.                                 *)
LEMMA ArrivalLinks ==
  ASSUME RoomTypes, TurnsInv, Apart, ListInv, NEW s \in Session,
         EnterFirst(s) \/ EnterLink(s)
  PROVE  ListInv'
<1> USE DEF Keep, client, list, Goto, Point
<1>0. PICK q \in Seq(Session) : Fits(q)
  BY DEF ListInv
<1>1. /\ IsList(q) /\ Seats(q) /\ Count(q) /\ Cursor(q, s) /\ Owes(q, s)
      /\ Len(q) \in Nat /\ (q # <<>> <=> Len(q) # 0)
      /\ \A i \in 1 .. Len(q) : q[i] \in Session /\ q[i] # NULL
  BY <1>0, InSequence DEF Fits
<1>2. Doing(s) = "enter" /\ pc[s] \in {"first", "link"} /\ s \notin told
  <2>1. Doing(s) = "enter" /\ pc[s] \in {"first", "link"}
    BY DEF EnterFirst, EnterLink, At, Doing
  <2> QED
    BY <2>1, FirstRequest DEF TurnsInv
<1>3. /\ Doing(s)' = "enter" /\ pc'[s] = "load"
      /\ UNCHANGED <<asked, seen, size, told, due, alive>>
  BY <1>2 DEF EnterFirst, EnterLink, RoomTypes, Doing
<1>4. \A t \in Session \ {s} : Untouched(t)
  BY OthersUntouched DEF WorkerStep, EnterFirst, EnterLink, ExitLook, At
<1>5. ~Seated(s) /\ Fresh(s) /\ Seated(s)' /\ ~Fresh(s)'
  BY <1>2, <1>3 DEF Seated, Fresh, On
<1>6. \A i \in 1 .. Len(q) : q[i] # s
  BY <1>1, <1>5 DEF Seats, Listed
<1>7. next[s] = NULL /\ s \in alive /\ s # NULL
  BY <1>1, <1>5, ChatRoomAssumption DEF Seats
<1> DEFINE r == Append(q, s)
<1>8. /\ r \in Seq(Session) /\ Len(r) = Len(q) + 1 /\ r[Len(r)] = s /\ r # <<>>
      /\ \A i \in 1 .. Len(q) : r[i] = q[i]
  <2>1. /\ r \in Seq(Session) /\ Len(r) = Len(q) + 1 /\ r[Len(r)] = s
        /\ \A i \in 1 .. Len(q) : r[i] = q[i]
    BY <1>1, AppendProperties
  <2> QED
    BY <1>1, <2>1, EmptySeq
<1>15. ASSUME NEW t \in Session PROVE Owes(r, t)'
  <2>1. CASE t # s
    BY <1>0, <1>4, <2>1, OwesWithOneMore DEF Fits
  <2>2. CASE t = s
    <3>1. due'[s] = {}
      BY <1>1, <1>2, <1>3 DEF Owes, LabelsOf
    <3> QED
      BY <1>3, <2>2, <3>1 DEF Owes, On
  <2> QED
    BY <2>1, <2>2
<1> HIDE DEF r
<1>9. ASSUME NEW t \in Session PROVE Listed(r, t) <=> Listed(q, t) \/ t = s
  BY <1>1, <1>8 DEF Listed
<1>10. IsList(r)'
  <2>1. \A i, j \in 1 .. Len(r) : r[i] = r[j] => i = j
    BY <1>1, <1>6, <1>8 DEF IsList
  <2>2. CASE EnterFirst(s)
    <3>1. q = <<>> /\ Len(q) = 0
      BY <1>1, <1>2, <2>2 DEF EnterFirst, At, Cursor, On
    <3>2. head' = s /\ next' = next
      BY <2>2 DEF EnterFirst
    <3>3. Len(r) = 1 /\ r[1] = s
      BY <1>8, <3>1
    <3> QED
      BY <1>7, <1>8, <3>2, <3>3 DEF IsList
  <2>3. CASE EnterLink(s)
    <3>1. q # <<>> /\ at[s] = q[Len(q)]
      BY <1>1, <1>2, <2>3 DEF EnterLink, At, Cursor, On
    <3>2. head' = head /\ next' = [next EXCEPT ![q[Len(q)]] = s]
      BY <2>3, <3>1 DEF EnterLink
    <3>3. Len(q) # 0 /\ 1 \in 1 .. Len(q) /\ Len(q) \in 1 .. Len(q)
      BY <1>1, <3>1
    <3>4. head' = r[1]
      BY <1>1, <1>8, <3>1, <3>2, <3>3 DEF IsList
    <3>5. ASSUME NEW i \in 1 .. Len(r) PROVE next'[r[i]] = IF i = Len(r) THEN NULL ELSE r[i + 1]
      <4>1. CASE i = Len(r)
        BY <1>6, <1>7, <1>8, <3>2, <3>3, <4>1 DEF RoomTypes
      <4>2. CASE i = Len(q)
        BY <1>1, <1>8, <3>2, <3>3, <4>2 DEF RoomTypes
      <4>3. CASE i < Len(q)
        <5>1. r[i] = q[i] /\ r[i + 1] = q[i + 1] /\ q[i] # q[Len(q)] /\ i \in 1 .. Len(q)
          BY <1>1, <1>8, <3>3, <4>3 DEF IsList
        <5>2. next[q[i]] = q[i + 1]
          BY <1>1, <4>3, <5>1 DEF IsList
        <5> QED
          BY <1>1, <1>8, <3>2, <4>3, <5>1, <5>2 DEF RoomTypes
      <4> QED
        BY <1>1, <1>8, <4>1, <4>2, <4>3
    <3> QED
      BY <1>8, <2>1, <3>4, <3>5 DEF IsList
  <2> QED
    BY <2>2, <2>3
<1>11. ASSUME NEW t \in Session \ {s}
       PROVE  /\ (Seated(t)' <=> Seated(t)) /\ ~Fresh(t)' /\ ~Coming(t) /\ ~Going(t)
              /\ ~Coming(t)' /\ ~Going(t)' /\ pc'[t] # "store"
  <2>1. Doing(t) \in {"none", "sendall"}
    BY <1>2 DEF Apart
  <2>2. ~Fresh(t) /\ ~Coming(t) /\ ~Going(t)
    BY <2>1 DEF Fresh, Coming, Going, On
  <2>3. pc[t] # "store"
    BY <2>1 DEF TurnsInv, AtItsLabel, LabelsOf
  <2> QED
    BY <1>4, <2>2, <2>3, UntouchedFits DEF Untouched
<1>12. Seats(r)'
  <2> SUFFICES ASSUME NEW t \in Session
               PROVE  /\ Listed(r, t) <=> Seated(t)'
                      /\ Seated(t)' \/ Fresh(t)' => t \in alive'
                      /\ Fresh(t)' => next'[t] = NULL
    BY DEF Seats, Listed
  <2>1. CASE t = s
    BY <1>3, <1>5, <1>7, <1>9, <2>1
  <2>2. CASE t # s
    BY <1>1, <1>3, <1>9, <1>11, <2>2 DEF Seats
  <2> QED
    BY <2>1, <2>2
<1>13. Count(r)'
  <2>1. ~Coming(s) /\ ~Going(s)
    BY <1>2 DEF Coming, Going, On
  <2>2. size = Len(q)
    BY <1>1, <1>11, <2>1 DEF Count
  <2>3. size' = Len(r) - 1
    BY <1>1, <1>3, <1>8, <2>2
  <2>4. Coming(s)' /\ ~Going(s)' /\ pc'[s] # "store"
    BY <1>3 DEF Coming, Going, On
  <2> QED
    BY <1>11, <2>3, <2>4 DEF Count
<1>14. ASSUME NEW t \in Session PROVE Cursor(r, t)'
  <2>1. CASE t = s
    BY <1>3, <2>1 DEF Cursor, On
  <2>2. CASE t # s
    <3>1. Doing(t)' \in {"none", "sendall"}
      BY <1>2, <1>4, <2>2 DEF Apart, Untouched
    <3> QED
      BY <3>1 DEF Cursor, On
  <2> QED
    BY <2>1, <2>2
<1>16. Fits(r)'
  BY <1>10, <1>12, <1>13, <1>14, <1>15 DEF Fits
<1> QED
  BY <1>8, <1>16 DEF ListInv

(* A step of a broadcast changes only what the broadcast owes.             *)
LEMMA BroadcastFits ==
  ASSUME RoomTypes, TurnsInv, NEW q \in Seq(Session), Fits(q), NEW s \in Session,
         \/ SendSize(s) \/ SendHead(s) \/ SendHeader(s)
         \/ SendName(s) \/ SendText(s) \/ SendNext(s),
         Owes(q, s)'
  PROVE  ListInv'
<1> USE DEF Keep, client, list, Goto, Point
<1>1. Doing(s) = "sendall" /\ s \in told
  <2>1. Doing(s) = "sendall"
    BY DEF SendSize, SendHead, SendHeader, SendName, SendText, SendNext, At, Doing
  <2> QED
    BY <2>1, FirstRequest DEF TurnsInv
<1>2. /\ UNCHANGED <<head, next, alive, size, told>>
      /\ pc'[s] \in {"idle", "head", "header", "name", "text", "next"}
  <2>1. UNCHANGED <<head, next, alive, size, told>>
    BY DEF SendSize, SendHead, SendHeader, SendName, SendText, SendNext
  <2>2. pc'[s] \in {"idle", "head", "header", "name", "text", "next"}
    BY DEF SendSize, SendHead, SendHeader, SendName, SendText, SendNext, SendTo, Done, RoomTypes
  <2> QED
    BY <2>1, <2>2
<1>3. \A t \in Session \ {s} : Untouched(t)
  BY OthersUntouched DEF WorkerStep, SendSize, SendHead, SendHeader, SendName, SendText, SendNext, ExitLook, At
<1>4. /\ Seated(s) /\ Seated(s)' /\ ~Fresh(s)' /\ ~Coming(s) /\ ~Coming(s)' /\ ~Going(s) /\ ~Going(s)'
      /\ Cursor(q, s)' /\ pc'[s] # "store"
  BY <1>1, <1>2 DEF Seated, Fresh, Coming, Going, Cursor, On
<1>5. Listed(q, s) /\ s \in alive' /\ IsList(q) /\ Count(q)
  BY <1>2, <1>4 DEF Fits, Seats
<1>6. IsList(q)'
  BY <1>2, <1>5, SameList
<1>7. Count(q)'
  BY <1>2, <1>3, <1>4, <1>5, CountKept
<1> QED
  BY <1>2, <1>3, <1>4, <1>5, <1>6, <1>7, FitsKept

LEMMA BroadcastSteps ==
  ASSUME RoomTypes, TurnsInv, Apart, ListInv, NEW s \in Session,
         \/ SendSize(s) \/ SendHead(s) \/ SendHeader(s)
         \/ SendName(s) \/ SendText(s) \/ SendNext(s)
  PROVE  ListInv'
<1> USE DEF Keep, client, list, Goto, Point
<1>0. PICK q \in Seq(Session) : Fits(q)
  BY DEF ListInv
<1>1. /\ IsList(q) /\ Seats(q) /\ Count(q) /\ Owes(q, s)
      /\ Len(q) \in Nat /\ (q # <<>> <=> Len(q) # 0)
      /\ \A i \in 1 .. Len(q) : q[i] \in Session /\ q[i] # NULL
  BY <1>0, InSequence DEF Fits
<1>2. Doing(s) = "sendall" /\ s \in told
  <2>1. Doing(s) = "sendall"
    BY DEF SendSize, SendHead, SendHeader, SendName, SendText, SendNext, At, Doing
  <2> QED
    BY <2>1, FirstRequest DEF TurnsInv
<1>3. \A t \in told : Listed(q, t)
  BY <1>1 DEF Seats, Seated, RoomTypes
<1>4. SUFFICES Owes(q, s)'
  BY <1>0, BroadcastFits
<1>5. ASSUME pc'[s] = "idle", due'[s] = {} PROVE Owes(q, s)'
  BY <1>5 DEF Owes, On
<1>6. CASE SendSize(s)
  <2>1. due'[s] = told \ {s}
    BY <1>6 DEF SendSize, RoomTypes
  <2>2. CASE size = 1
    <3>1. pc'[s] = "idle"
      BY <1>6, <2>2 DEF SendSize, Done, RoomTypes
    <3>2. due'[s] = {}
      <4>1. SUFFICES ASSUME NEW t \in told, t # s PROVE FALSE
        BY <2>1
      <4>2. PICK i, j : i \in 1 .. Len(q) /\ j \in 1 .. Len(q) /\ q[i] = s /\ q[j] = t
        BY <1>2, <1>3, <4>1 DEF Listed
      <4>3. i # j
        BY <4>1, <4>2
      <4>4. Len(q) >= 2
        BY <1>1, <4>2, <4>3
      <4>5. ~\A u \in Session : ~Coming(u) /\ ~Going(u)
        BY <1>1, <2>2, <4>4 DEF Count
      <4>6. PICK u \in Session : Coming(u) \/ Going(u)
        BY <4>5
      <4>7. ~Going(u)
        <5>1. u # s
          BY <1>2, <4>6 DEF Coming, Going, On
        <5> QED
          BY <1>2, <5>1 DEF Apart, Going, On
      <4>8. Len(q) = 2 /\ Coming(u)
        BY <1>1, <2>2, <4>6, <4>7 DEF Count
      <4>9. u \notin told
        BY <4>8, FirstRequest DEF TurnsInv, Coming, On
      <4>10. Listed(q, u)
        BY <1>1, <4>8 DEF Seats, Seated, Coming, On
      <4>11. PICK k \in 1 .. Len(q) : q[k] = u
        BY <4>10 DEF Listed
      <4>12. k # i /\ k # j
        BY <1>2, <4>1, <4>2, <4>9, <4>11
      <4> QED
        BY <4>2, <4>3, <4>8, <4>11, <4>12
    <3> QED
      BY <1>5, <3>1, <3>2
  <2>3. CASE size # 1
    <3>1. pc'[s] = "head"
      BY <1>6, <2>3 DEF SendSize, RoomTypes
    <3>2. \A d \in due'[s] : Listed(q, d)'
      BY <1>3, <2>1 DEF Listed
    <3> QED
      BY <3>1, <3>2 DEF Owes, On, LabelsOf
  <2> QED
    BY <2>2, <2>3
<1>7. ASSUME NEW k \in 1 .. Len(q), at'[s] = q[k], pc'[s] \in {"header", "name", "text"},
             \A d \in due'[s] : \E m \in 1 .. Len(q) : q[m] = d /\ m >= k
      PROVE  Owes(q, s)'
  BY <1>7 DEF Owes, On, LabelsOf
<1>8. CASE SendHead(s)
  <2>1. pc[s] = "head" /\ due'[s] = due[s] /\ \A d \in due[s] : Listed(q, d)
    BY <1>1, <1>2, <1>8 DEF SendHead, At, Owes, On
  <2>2. CASE head = NULL
    <3>1. q = <<>>
      BY <1>1, <2>2 DEF IsList
    <3>2. due'[s] = {}
      BY <1>1, <2>1, <3>1, InSequence
    <3>3. pc'[s] = "idle"
      BY <1>8, <2>2 DEF SendHead, SendTo, Done, RoomTypes
    <3> QED
      BY <1>5, <3>2, <3>3
  <2>3. CASE head # NULL
    <3>1. 1 \in 1 .. Len(q) /\ head = q[1]
      BY <1>1, <2>3 DEF IsList
    <3>2. at'[s] = q[1] /\ pc'[s] = "header"
      BY <1>8, <2>3, <3>1 DEF SendHead, SendTo, RoomTypes
    <3>3. \A d \in due'[s] : \E m \in 1 .. Len(q) : q[m] = d /\ m >= 1
      BY <2>1 DEF Listed
    <3> QED
      BY <1>7, <3>1, <3>2, <3>3
  <2> QED
    BY <2>2, <2>3
<1>9. ASSUME pc[s] \in {"header", "name", "text"}
      PROVE  \E k \in 1 .. Len(q) :
               at[s] = q[k] /\ \A d \in due[s] : \E m \in 1 .. Len(q) : q[m] = d /\ m >= k
  BY <1>1, <1>2, <1>9 DEF Owes, On
<1>10. CASE SendHeader(s) \/ SendName(s)
  <2>1. /\ pc[s] \in {"header", "name", "text"} /\ pc'[s] \in {"header", "name", "text"}
        /\ at'[s] = at[s] /\ due'[s] = due[s]
    BY <1>10 DEF SendHeader, SendName, At, RoomTypes
  <2> QED
    BY <1>7, <1>9, <2>1
<1>11. CASE SendText(s)
  <2>1. /\ pc[s] = "text" /\ pc'[s] = "next" /\ at'[s] = at[s] /\ due'[s] = due[s] \ {at[s]}
    BY <1>11 DEF SendText, At, RoomTypes
  <2>2. PICK k \in 1 .. Len(q) :
          at[s] = q[k] /\ \A d \in due[s] : \E m \in 1 .. Len(q) : q[m] = d /\ m >= k
    BY <1>9, <2>1
  <2>3. ASSUME NEW d \in due'[s] PROVE \E m \in 1 .. Len(q) : q[m] = d /\ m > k
    <3>1. d \in due[s] /\ d # q[k]
      BY <2>1, <2>2, <2>3
    <3>2. PICK m \in 1 .. Len(q) : q[m] = d /\ m >= k
      BY <2>2, <3>1
    <3> QED
      BY <3>1, <3>2
  <2> QED
    BY <2>1, <2>2, <2>3 DEF Owes, On, LabelsOf
<1>12. CASE SendNext(s)
  <2>1. pc[s] = "next" /\ due'[s] = due[s]
    BY <1>12 DEF SendNext, At
  <2>2. PICK k \in 1 .. Len(q) :
          at[s] = q[k] /\ \A d \in due[s] : \E m \in 1 .. Len(q) : q[m] = d /\ m > k
    BY <1>1, <1>2, <2>1 DEF Owes, On
  <2>3. next[at[s]] = IF k = Len(q) THEN NULL ELSE q[k + 1]
    BY <1>1, <2>2 DEF IsList
  <2>4. CASE k = Len(q)
    <3>1. due'[s] = {}
      BY <1>1, <2>1, <2>2, <2>4
    <3>2. pc'[s] = "idle"
      BY <1>12, <2>3, <2>4 DEF SendNext, SendTo, Done, RoomTypes
    <3> QED
      BY <1>5, <3>1, <3>2
  <2>5. CASE k # Len(q)
    <3>1. k + 1 \in 1 .. Len(q) /\ next[at[s]] = q[k + 1] /\ q[k + 1] # NULL
      BY <1>1, <2>3, <2>5
    <3>2. at'[s] = q[k + 1] /\ pc'[s] = "header"
      BY <1>12, <3>1 DEF SendNext, SendTo, RoomTypes
    <3>3. \A d \in due'[s] : \E m \in 1 .. Len(q) : q[m] = d /\ m >= k + 1
      BY <2>1, <2>2
    <3> QED
      BY <1>7, <3>1, <3>2, <3>3
  <2> QED
    BY <2>4, <2>5
<1> QED
  BY <1>6, <1>8, <1>10, <1>11, <1>12

(* Whoever leaves has the lobby for itself.                                *)
LEMMA OthersRest ==
  ASSUME RoomTypes, TurnsInv, Apart, NEW q \in Seq(Session), Fits(q), NEW s \in Session,
         \/ ExitLook(s) \/ ExitFind(s) \/ ExitBehead(s) \/ ExitUnlink(s) \/ ExitBye(s)
         \/ ExitFree(s) \/ Load(s, "exit") \/ ExitStore(s),
         NEW t \in Session \ {s}
  PROVE  /\ Untouched(t) /\ due'[t] = {}
         /\ Doing(t)' = "none" /\ pc'[t] = "idle" /\ ~Fresh(t)
         /\ ~Coming(t)' /\ ~Going(t)' /\ (Seated(t)' <=> Seated(t)) /\ ~Fresh(t)'
<1> USE DEF Keep, client, list, Goto, Point
<1>1. Doing(s) = "exit"
  BY DEF ExitLook, ExitFind, ExitBehead, ExitUnlink, ExitBye, ExitFree, Load, ExitStore, At, Doing
<1>2. Doing(t) = "none"
  BY <1>1 DEF Apart
<1>3. pc[t] = "idle"
  BY <1>2 DEF TurnsInv, AtItsLabel, LabelsOf
<1>4. due[t] = {}
  BY <1>3 DEF Fits, Owes, LabelsOf
<1>5. Untouched(t)
  <2>1. CASE ExitLook(s)
    <3>1. asked'[t] = asked[t] /\ pc'[t] = pc[t] /\ at'[t] = at[t] /\ seen'[t] = seen[t]
      BY <2>1 DEF ExitLook, RoomTypes
    <3>2. due'[t] = due[t] /\ (t \in told' <=> t \in told)
      BY <1>4, <2>1 DEF ExitLook
    <3> QED
      BY <3>1, <3>2 DEF Untouched, Doing
  <2>2. CASE ~ExitLook(s)
    BY <2>2, OthersUntouched DEF WorkerStep
  <2> QED
    BY <2>1, <2>2
<1>6. Doing(t)' = "none" /\ pc'[t] = "idle" /\ due'[t] = {}
  BY <1>2, <1>3, <1>4, <1>5 DEF Untouched
<1>7. ~Fresh(t) /\ ~Coming(t)' /\ ~Going(t)' /\ ~Fresh(t)'
  BY <1>2, <1>6 DEF Fresh, Coming, Going, On
<1> QED
  BY <1>5, <1>6, <1>7, UntouchedFits

(* A departure that looks for its node.                                    *)
LEMMA DepartureLooks ==
  ASSUME RoomTypes, TurnsInv, Apart, ListInv, NEW s \in Session,
         ExitLook(s) \/ ExitFind(s)
  PROVE  ListInv'
<1> USE DEF Keep, client, list, Goto, Point
<1>0. PICK q \in Seq(Session) : Fits(q)
  BY DEF ListInv
<1>1. /\ IsList(q) /\ Seats(q) /\ Count(q) /\ Cursor(q, s) /\ Owes(q, s)
      /\ Len(q) \in Nat /\ (q # <<>> <=> Len(q) # 0)
      /\ \A i \in 1 .. Len(q) : q[i] \in Session /\ q[i] # NULL
  BY <1>0, InSequence DEF Fits
<1>2. Doing(s) = "exit" /\ pc[s] \in {"idle", "find"} /\ (pc[s] = "idle" => s \in told)
  <2>1. Doing(s) = "exit" /\ pc[s] \in {"idle", "find"}
    BY DEF ExitLook, ExitFind, At, Doing
  <2> QED
    BY <2>1, FirstRequest DEF TurnsInv
<1>3. /\ Doing(s)' = "exit" /\ pc'[s] \in {"find", "behead", "unlink"}
      /\ UNCHANGED <<head, next, alive, size, asked, seen>>
  <2>1. UNCHANGED <<head, next, alive, size, asked, seen>>
    BY DEF ExitLook, ExitFind
  <2>2. pc'[s] \in {"find", "behead", "unlink"}
    BY DEF ExitLook, ExitFind, At, RoomTypes
  <2> QED
    BY <1>2, <2>1, <2>2 DEF Doing
<1>4. \A t \in Session \ {s} : Untouched(t) /\ ~Fresh(t)
  BY <1>0, OthersRest
<1>5. /\ Seated(s) /\ Seated(s)' /\ ~Fresh(s)' /\ ~Coming(s) /\ ~Coming(s)' /\ ~Going(s) /\ ~Going(s)'
      /\ pc'[s] # "store"
  BY <1>2, <1>3 DEF Seated, Fresh, Coming, Going, On
<1>6. Listed(q, s) /\ s \in alive'
  BY <1>1, <1>3, <1>5 DEF Seats
<1>7. IsList(q)' /\ Count(q)'
  BY <1>1, <1>3, <1>4, <1>5, SameList, CountKept
<1>8. Owes(q, s)'
  <2>1. due[s] = {}
    BY <1>1, <1>2 DEF Owes, LabelsOf
  <2>2. due'[s] = {}
    BY <2>1 DEF ExitLook, ExitFind
  <2> QED
    BY <1>3, <2>2 DEF Owes, On
<1>9. ASSUME NEW k \in 1 .. Len(q), NEW m \in 1 .. Len(q), k < m, at'[s] = q[k], s = q[m], pc'[s] = "find"
      PROVE  Cursor(q, s)'
  BY <1>3, <1>9 DEF Cursor, On
<1>10. CASE ExitLook(s)
  <2>1. at'[s] = head /\ pc'[s] = IF head = s THEN "behead" ELSE "find"
    BY <1>10 DEF ExitLook, RoomTypes
  <2>2. PICK m \in 1 .. Len(q) : q[m] = s
    BY <1>6 DEF Listed
  <2>3. q # <<>> /\ 1 \in 1 .. Len(q) /\ head = q[1]
    BY <1>1, <2>2 DEF IsList
  <2>4. ASSUME head = s PROVE Cursor(q, s)'
    BY <1>3, <2>1, <2>3, <2>4 DEF Cursor, On
  <2>5. ASSUME head # s PROVE Cursor(q, s)'
    <3>1. 1 < m
      BY <1>1, <2>2, <2>3, <2>5
    <3> QED
      BY <1>9, <2>1, <2>2, <2>3, <2>5, <3>1
  <2> QED
    BY <1>0, <1>3, <1>4, <1>5, <1>6, <1>7, <1>8, <2>4, <2>5, FitsKept
<1>11. CASE ExitFind(s)
  <2>1. pc[s] = "find"
    BY <1>11 DEF ExitFind, At
  <2>2. \E k, m \in 1 .. Len(q) : k < m /\ at[s] = q[k] /\ s = q[m]
    BY <1>1, <1>2, <2>1 DEF Cursor, On
  <2>3. PICK k, m : k \in 1 .. Len(q) /\ m \in 1 .. Len(q) /\ k < m /\ at[s] = q[k] /\ s = q[m]
    BY <2>2
  <2>4. next[at[s]] = q[k + 1] /\ k + 1 \in 1 .. Len(q) /\ k < Len(q)
    BY <1>1, <2>3 DEF IsList
  <2>5. ASSUME next[at[s]] = s PROVE Cursor(q, s)'
    <3>1. pc'[s] = "unlink" /\ at'[s] = at[s]
      BY <1>11, <2>5 DEF ExitFind, RoomTypes
    <3> QED
      BY <1>3, <2>3, <2>4, <2>5, <3>1 DEF Cursor, On
  <2>6. ASSUME next[at[s]] # s PROVE Cursor(q, s)'
    <3>1. pc'[s] = "find" /\ at'[s] = q[k + 1]
      BY <1>11, <2>1, <2>4, <2>6 DEF ExitFind, RoomTypes
    <3>2. k + 1 < m
      BY <1>1, <2>3, <2>4, <2>6
    <3> QED
      BY <1>9, <2>3, <2>4, <3>1, <3>2
  <2> QED
    BY <1>0, <1>3, <1>4, <1>5, <1>6, <1>7, <1>8, <2>5, <2>6, FitsKept
<1> QED
  BY <1>10, <1>11

(* A departure that is off the list.                                       *)
LEMMA DepartureCounts ==
  ASSUME RoomTypes, TurnsInv, Apart, ListInv, NEW s \in Session,
         ExitBye(s) \/ ExitFree(s) \/ Load(s, "exit") \/ ExitStore(s)
  PROVE  ListInv'
<1> USE DEF Keep, client, list, Goto, Point
<1>0. PICK q \in Seq(Session) : Fits(q)
  BY DEF ListInv
<1>1. /\ IsList(q) /\ Seats(q) /\ Count(q) /\ Cursor(q, s) /\ Owes(q, s) /\ Len(q) \in Nat
  BY <1>0, InSequence DEF Fits
<1>2. Doing(s) = "exit" /\ pc[s] \in {"bye", "free", "load", "store"} /\ s \notin told
  <2>1. Doing(s) = "exit" /\ pc[s] \in {"bye", "free", "load", "store"}
    BY DEF ExitBye, ExitFree, Load, ExitStore, At, Doing
  <2> QED
    BY <2>1, FirstRequest DEF TurnsInv
<1>3. UNCHANGED <<head, next, told, due>>
  BY DEF ExitBye, ExitFree, Load, ExitStore
<1>4. \A t \in Session \ {s} : Untouched(t) /\ ~Fresh(t) /\ ~Coming(t)' /\ ~Going(t)' /\ pc'[t] # "store"
  BY <1>0, OthersRest
<1>5. \A t \in Session \ {s} : t \in alive => t \in alive'
  BY DEF ExitBye, ExitFree, Load, ExitStore
<1>6. /\ \/ Doing(s)' = "exit" /\ pc'[s] \in {"free", "load", "store"}
         \/ pc'[s] = "idle"
      /\ ~Seated(s)' /\ ~Fresh(s)' /\ ~Seated(s)
  <2>1. CASE ExitStore(s)
    <3>1. pc'[s] = "idle"
      BY <2>1 DEF ExitStore, Done, RoomTypes
    <3> QED
      BY <1>2, <1>3, <3>1 DEF Seated, Fresh, On
  <2>2. CASE ExitBye(s) \/ ExitFree(s) \/ Load(s, "exit")
    <3>1. Doing(s)' = "exit" /\ pc'[s] \in {"free", "load", "store"}
      BY <1>2, <2>2 DEF ExitBye, ExitFree, Load, RoomTypes, Doing
    <3> QED
      BY <1>2, <1>3, <3>1 DEF Seated, Fresh, On
  <2> QED
    BY <2>1, <2>2
<1>7. ~Listed(q, s)
  BY <1>1, <1>6 DEF Seats
<1>8. IsList(q)'
  BY <1>1, <1>3, SameList
<1>9. Cursor(q, s)' /\ Owes(q, s)'
  <2>1. due'[s] = {}
    BY <1>1, <1>2, <1>3 DEF Owes, LabelsOf
  <2> QED
    BY <1>6, <2>1 DEF Cursor, Owes, On
<1>10. Count(q)'
  <2>1. CASE ExitBye(s) \/ ExitFree(s) \/ Load(s, "exit")
    <3>1. Doing(s)' = "exit" /\ pc'[s] \in {"free", "load", "store"} /\ size' = size
      BY <1>2, <2>1 DEF ExitBye, ExitFree, Load, RoomTypes, Doing
    <3>2. Going(s)' /\ Going(s) /\ ~Coming(s) /\ ~Coming(s)'
      BY <1>2, <3>1 DEF Coming, Going, On
    <3>3. pc'[s] = "store" => seen'[s] = size
      BY <2>1 DEF ExitBye, ExitFree, Load, RoomTypes
    <3> QED
      BY <1>1, <1>4, <3>1, <3>2, <3>3, CountKept
  <2>2. CASE ExitStore(s)
    <3>1. pc[s] = "store" /\ pc'[s] = "idle" /\ size' = seen[s] - 1
      BY <2>2 DEF ExitStore, Done, At, RoomTypes
    <3>2. size' = Len(q)
      BY <1>1, <1>2, <3>1 DEF Count, Going, On
    <3>3. ~Coming(s)' /\ ~Going(s)'
      BY <3>1 DEF Coming, Going, On
    <3> QED
      BY <1>4, <3>1, <3>2, <3>3 DEF Count
  <2> QED
    BY <2>1, <2>2
<1> QED
  BY <1>0, <1>3, <1>4, <1>5, <1>6, <1>7, <1>8, <1>9, <1>10, FitsKept

(* A sequence of different sessions without its m-th.                      *)
Without(q, m) == [i \in 1 .. Len(q) - 1 |-> IF i < m THEN q[i] ELSE q[i + 1]]

LEMMA TakenOut ==
  ASSUME NEW q \in Seq(Session), \A i, j \in 1 .. Len(q) : q[i] = q[j] => i = j,
         NEW m \in 1 .. Len(q), NEW r, r = Without(q, m)
  PROVE  /\ r \in Seq(Session) /\ Len(r) = Len(q) - 1 /\ (r = <<>> <=> Len(q) = 1)
         /\ \A i \in 1 .. Len(r) : r[i] = IF i < m THEN q[i] ELSE q[i + 1]
         /\ \A i, j \in 1 .. Len(r) : r[i] = r[j] => i = j
         /\ \A t : Listed(r, t) <=> Listed(q, t) /\ t # q[m]
<1>1. Len(q) \in Nat /\ Len(q) - 1 \in Nat
  BY LenProperties
<1>2. \A i \in 1 .. Len(q) - 1 : (IF i < m THEN q[i] ELSE q[i + 1]) \in Session
  BY <1>1, ElementOfSeq
<1>3. r \in Seq(Session) /\ Len(r) = Len(q) - 1
  BY <1>1, <1>2 DEF Without
<1>4. r = <<>> <=> Len(q) = 1
  <2>1. \A u \in Seq(Session) : u = <<>> <=> Len(u) = 0
    BY EmptySeq
  <2>2. r = <<>> <=> Len(r) = 0
    BY <1>3, <2>1, Zenon
  <2> QED
    BY <1>1, <1>3, <2>2
<1>5. \A i \in 1 .. Len(r) : r[i] = IF i < m THEN q[i] ELSE q[i + 1]
  BY <1>1, <1>3 DEF Without
<1> SUFFICES /\ \A i, j \in 1 .. Len(r) : r[i] = r[j] => i = j
             /\ \A t : Listed(r, t) <=> Listed(q, t) /\ t # q[m]
  BY <1>3, <1>4, <1>5
<1>6. ASSUME NEW i \in 1 .. Len(r), NEW j \in 1 .. Len(r), r[i] = r[j] PROVE i = j
  BY <1>1, <1>3, <1>5, <1>6
<1>7. ASSUME NEW t, Listed(r, t) PROVE Listed(q, t) /\ t # q[m]
  <2>1. PICK i \in 1 .. Len(r) : r[i] = t
    BY <1>7 DEF Listed
  <2>2. PICK j \in 1 .. Len(q) : q[j] = t /\ j # m
    BY <1>1, <1>3, <1>5, <2>1
  <2> QED
    BY <2>2 DEF Listed
<1>8. ASSUME NEW t, Listed(q, t), t # q[m] PROVE Listed(r, t)
  <2>1. PICK j \in 1 .. Len(q) : q[j] = t
    BY <1>8 DEF Listed
  <2>2. j # m
    BY <1>8, <2>1
  <2>3. CASE j < m
    <3>1. j \in 1 .. Len(r) /\ r[j] = q[j]
      BY <1>1, <1>3, <1>5, <2>3
    <3> QED
      BY <2>1, <3>1 DEF Listed
  <2>4. CASE j > m
    <3>1. j - 1 \in 1 .. Len(r) /\ r[j - 1] = q[(j - 1) + 1] /\ (j - 1) + 1 = j
      BY <1>1, <1>3, <1>5, <2>4
    <3> QED
      BY <2>1, <3>1 DEF Listed
  <2> QED
    BY <2>2, <2>3, <2>4
<1> QED
  BY <1>6, <1>7, <1>8

(* A departure that takes its node out.                                    *)
LEMMA DepartureUnlinks ==
  ASSUME RoomTypes, TurnsInv, Apart, ListInv, NEW s \in Session,
         ExitBehead(s) \/ ExitUnlink(s)
  PROVE  ListInv'
<1> USE DEF Keep, client, list, Goto, Point
<1>0. PICK q \in Seq(Session) : Fits(q)
  BY DEF ListInv
<1>1. /\ IsList(q) /\ Seats(q) /\ Count(q) /\ Cursor(q, s) /\ Owes(q, s)
      /\ Len(q) \in Nat /\ (q # <<>> <=> Len(q) # 0)
      /\ \A i \in 1 .. Len(q) : q[i] \in Session /\ q[i] # NULL
  BY <1>0, InSequence DEF Fits
<1>2. Doing(s) = "exit" /\ pc[s] \in {"behead", "unlink"} /\ s \notin told
  <2>1. Doing(s) = "exit" /\ pc[s] \in {"behead", "unlink"}
    BY DEF ExitBehead, ExitUnlink, At, Doing
  <2> QED
    BY <2>1, FirstRequest DEF TurnsInv
<1>3. /\ Doing(s)' = "exit" /\ pc'[s] = "bye"
      /\ UNCHANGED <<asked, seen, size, told, due, alive>>
  BY <1>2 DEF ExitBehead, ExitUnlink, RoomTypes, Doing
<1>4. ASSUME NEW t \in Session \ {s}
      PROVE  /\ Untouched(t) /\ due'[t] = {} /\ Doing(t)' = "none" /\ pc'[t] = "idle" /\ ~Fresh(t)'
             /\ ~Coming(t)' /\ ~Going(t)' /\ (Seated(t)' <=> Seated(t)) /\ ~Coming(t) /\ ~Going(t)
  <2>1. /\ Untouched(t) /\ due'[t] = {} /\ Doing(t)' = "none" /\ pc'[t] = "idle" /\ ~Fresh(t)'
        /\ ~Coming(t)' /\ ~Going(t)' /\ (Seated(t)' <=> Seated(t))
    BY <1>0, OthersRest
  <2> QED
    BY <2>1, UntouchedFits
<1>5. \E m \in 1 .. Len(q) : /\ q[m] = s
                             /\ ExitBehead(s) => m = 1
                             /\ ExitUnlink(s) => m # 1 /\ at[s] = q[m - 1]
  <2>1. CASE ExitBehead(s)
    <3>1. pc[s] = "behead" /\ ~ExitUnlink(s)
      BY <2>1 DEF ExitBehead, ExitUnlink, At
    <3>2. q # <<>> /\ q[1] = s
      BY <1>1, <1>2, <3>1 DEF Cursor, On
    <3>3. 1 \in 1 .. Len(q)
      BY <1>1, <3>2
    <3> QED
      BY <3>1, <3>2, <3>3
  <2>2. CASE ExitUnlink(s)
    <3>1. pc[s] = "unlink" /\ ~ExitBehead(s)
      BY <2>2 DEF ExitBehead, ExitUnlink, At
    <3>2. PICK k \in 1 .. Len(q) : k < Len(q) /\ at[s] = q[k] /\ s = q[k + 1]
      BY <1>1, <1>2, <3>1 DEF Cursor, On
    <3>3. k + 1 \in 1 .. Len(q) /\ k + 1 # 1 /\ (k + 1) - 1 = k
      BY <1>1, <3>2
    <3> QED
      BY <3>1, <3>2, <3>3
  <2> QED
    BY <2>1, <2>2
<1>6. PICK m \in 1 .. Len(q) : /\ q[m] = s
                               /\ ExitBehead(s) => m = 1
                               /\ ExitUnlink(s) => m # 1 /\ at[s] = q[m - 1]
  BY <1>5
<1>7. next[s] = IF m = Len(q) THEN NULL ELSE q[m + 1]
  BY <1>1, <1>6 DEF IsList
<1>8. PICK r : r = Without(q, m)
  OBVIOUS
<1>9. /\ r \in Seq(Session) /\ Len(r) = Len(q) - 1 /\ (r = <<>> <=> Len(q) = 1)
      /\ \A i \in 1 .. Len(r) : r[i] = IF i < m THEN q[i] ELSE q[i + 1]
      /\ \A i, j \in 1 .. Len(r) : r[i] = r[j] => i = j
      /\ \A t : Listed(r, t) <=> Listed(q, t) /\ t # q[m]
  <2>1. \A i, j \in 1 .. Len(q) : q[i] = q[j] => i = j
    BY <1>1 DEF IsList
  <2>2. r \in Seq(Session) /\ Len(r) = Len(q) - 1 /\ (r = <<>> <=> Len(q) = 1)
    BY <1>8, <2>1, TakenOut
  <2>3. \A i \in 1 .. Len(r) : r[i] = IF i < m THEN q[i] ELSE q[i + 1]
    BY <1>8, <2>1, TakenOut
  <2>4. \A i, j \in 1 .. Len(r) : r[i] = r[j] => i = j
    BY <1>8, <2>1, TakenOut
  <2>5. \A t : Listed(r, t) <=> Listed(q, t) /\ t # q[m]
    BY <1>8, <2>1, TakenOut
  <2> QED
    BY <2>2, <2>3, <2>4, <2>5
<1>10. IsList(r)'
  <2>1. CASE ExitBehead(s)
    <3>1. head' = next[s] /\ next' = next /\ m = 1
      BY <1>6, <2>1 DEF ExitBehead
    <3>2. head' = IF r = <<>> THEN NULL ELSE r[1]
      BY <1>1, <1>7, <1>9, <3>1
    <3>3. ASSUME NEW i \in 1 .. Len(r) PROVE next'[r[i]] = IF i = Len(r) THEN NULL ELSE r[i + 1]
      <4>1. r[i] = q[i + 1] /\ i + 1 \in 1 .. Len(q)
        BY <1>1, <1>9, <3>1
      <4>2. next[q[i + 1]] = IF i + 1 = Len(q) THEN NULL ELSE q[(i + 1) + 1]
        BY <1>1, <4>1 DEF IsList
      <4>3. i # Len(r) => r[i + 1] = q[(i + 1) + 1]
        BY <1>1, <1>9, <3>1
      <4> QED
        BY <1>1, <1>9, <3>1, <4>1, <4>2, <4>3
    <3> QED
      BY <1>9, <3>2, <3>3 DEF IsList
  <2>2. CASE ExitUnlink(s)
    <3>1. /\ head' = head /\ next' = [next EXCEPT ![q[m - 1]] = next[s]]
          /\ m # 1 /\ m - 1 \in 1 .. Len(q) /\ q[m - 1] \in Session
      <4>1. m # 1 /\ at[s] = q[m - 1]
        BY <1>6, <2>2
      <4>2. m - 1 \in 1 .. Len(q)
        BY <1>1, <4>1
      <4>3. head' = head /\ next' = [next EXCEPT ![at[s]] = next[s]]
        BY <2>2 DEF ExitUnlink
      <4> QED
        BY <1>1, <4>1, <4>2, <4>3
    <3>2. head' = IF r = <<>> THEN NULL ELSE r[1]
      <4>0. Len(q) # 1 /\ 1 < m /\ 1 \in 1 .. Len(r)
        BY <1>1, <1>9, <3>1
      <4>1. r # <<>> /\ 1 \in 1 .. Len(r) /\ r[1] = q[1]
        BY <1>9, <4>0
      <4>2. head = q[1]
        BY <1>1, <3>1 DEF IsList
      <4> QED
        BY <3>1, <4>1, <4>2
    <3>3. ASSUME NEW i \in 1 .. Len(r) PROVE next'[r[i]] = IF i = Len(r) THEN NULL ELSE r[i + 1]
      <4>1. CASE i = m - 1
        <5>0. i < m
          BY <4>1
        <5>1. r[i] = q[m - 1] /\ next'[r[i]] = next[s]
          BY <1>9, <3>1, <4>1, <5>0 DEF RoomTypes
        <5>2. i = Len(r) <=> m = Len(q)
          BY <1>1, <1>9, <4>1
        <5>3. i # Len(r) => r[i + 1] = q[m + 1]
          BY <1>1, <1>9, <4>1
        <5> QED
          BY <1>7, <5>1, <5>2, <5>3
      <4>2. CASE i < m - 1
        <5>1. r[i] = q[i] /\ r[i + 1] = q[i + 1] /\ i # Len(r) /\ i \in 1 .. Len(q) /\ i # Len(q)
          BY <1>1, <1>9, <4>2
        <5>2. next[q[i]] = q[i + 1]
          BY <1>1, <5>1 DEF IsList
        <5>3. q[i] # q[m - 1]
          <6>1. i # m - 1
            BY <4>2
          <6> QED
            BY <1>1, <3>1, <5>1, <6>1 DEF IsList
        <5> QED
          BY <1>1, <3>1, <5>1, <5>2, <5>3 DEF RoomTypes
      <4>3. CASE i >= m
        <5>1. r[i] = q[i + 1] /\ i + 1 \in 1 .. Len(q) /\ i + 1 # m - 1
          BY <1>1, <1>9, <4>3
        <5>2. next[q[i + 1]] = IF i + 1 = Len(q) THEN NULL ELSE q[(i + 1) + 1]
          BY <1>1, <5>1 DEF IsList
        <5>3. i # Len(r) => r[i + 1] = q[(i + 1) + 1]
          BY <1>1, <1>9, <4>3
        <5>4. q[i + 1] # q[m - 1]
          BY <1>1, <3>1, <5>1 DEF IsList
        <5>5. next'[r[i]] = next[q[i + 1]]
          BY <1>1, <3>1, <5>1, <5>4 DEF RoomTypes
        <5> QED
          BY <1>1, <1>9, <5>2, <5>3, <5>5
      <4> QED
        BY <1>1, <4>1, <4>2, <4>3
    <3> QED
      BY <1>9, <3>2, <3>3 DEF IsList
  <2> QED
    BY <2>1, <2>2
<1>11. Seats(r)'
  <2> SUFFICES ASSUME NEW t \in Session
               PROVE  /\ Listed(r, t) <=> Seated(t)'
                      /\ Seated(t)' \/ Fresh(t)' => t \in alive'
                      /\ Fresh(t)' => next'[t] = NULL
    BY DEF Seats, Listed
  <2>1. CASE t = s
    <3>1. ~Seated(s)' /\ ~Fresh(s)'
      BY <1>2, <1>3 DEF Seated, Fresh, On
    <3> QED
      BY <1>6, <1>9, <2>1, <3>1
  <2>2. CASE t # s
    <3>1. Listed(r, t) <=> Listed(q, t)
      BY <1>6, <1>9, <2>2
    <3> QED
      BY <1>1, <1>3, <1>4, <2>2, <3>1 DEF Seats
  <2> QED
    BY <2>1, <2>2
<1>12. Count(r)'
  <2>1. ~Coming(s) /\ ~Going(s)
    BY <1>2 DEF Coming, Going, On
  <2>2. size = Len(q)
    BY <1>1, <1>4, <2>1 DEF Count
  <2>3. size' = Len(r) + 1
    BY <1>1, <1>3, <1>9, <2>2
  <2>4. Going(s)' /\ ~Coming(s)' /\ pc'[s] # "store"
    BY <1>3 DEF Coming, Going, On
  <2> QED
    BY <1>4, <2>3, <2>4 DEF Count
<1>13. ASSUME NEW t \in Session PROVE Cursor(r, t)' /\ Owes(r, t)'
  <2>1. CASE t = s
    <3>1. due'[s] = {}
      BY <1>1, <1>2, <1>3 DEF Owes, LabelsOf
    <3> QED
      BY <1>3, <2>1, <3>1 DEF Cursor, Owes, On
  <2>2. CASE t # s
    BY <1>4, <2>2 DEF Cursor, Owes, On
  <2> QED
    BY <2>1, <2>2
<1>14. Fits(r)'
  BY <1>10, <1>11, <1>12, <1>13 DEF Fits
<1> QED
  BY <1>9, <1>14 DEF ListInv

LEMMA ListInit == RoomInit => ListInv
<1> SUFFICES ASSUME RoomInit PROVE Fits(<<>>)
  BY EmptySeq DEF ListInv
<1>1. Len(<<>>) = 0
  OBVIOUS
<1>2. IsList(<<>>)
  BY <1>1 DEF RoomInit, IsList
<1>3. ASSUME NEW s \in Session
      PROVE  /\ Doing(s) = "none" /\ pc[s] = "idle" /\ due[s] = {} /\ s \notin told
             /\ ~Listed(<<>>, s)
  BY <1>1 DEF RoomInit, PerSession, Doing, Listed
<1>4. Seats(<<>>)
  BY <1>3 DEF Seats, Seated, Fresh, On
<1>5. Count(<<>>)
  BY <1>1, <1>3 DEF RoomInit, Count, Coming, Going, On
<1>6. \A s \in Session : Cursor(<<>>, s) /\ Owes(<<>>, s)
  BY <1>3 DEF Cursor, Owes, On
<1> QED
  BY <1>2, <1>4, <1>5, <1>6 DEF Fits

(* The steps of the clients leave the workers and the list alone.          *)
LEMMA ClientsLeaveWorkers ==
  ASSUME RoomTypes, TurnsInv,
         \/ UNCHANGED roomVars
         \/ \E s \in Session : do_enter(s) \/ do_sendall(s) \/ do_exit(s) \/ ClientRead(s)
  PROVE  /\ UNCHANGED <<head, next, alive, size, pc, at, seen, told, due>>
         /\ \A t \in Session : \A op, labels :
              "idle" \notin labels => (On(t, op, labels)' <=> On(t, op, labels))
<1>1. UNCHANGED <<head, next, alive, size, pc, at, seen, told, due>>
  BY DEF roomVars, list, worker, do_enter, do_sendall, do_exit, Ask, ClientRead
<1>2. ASSUME NEW t \in Session, pc[t] # "idle" PROVE Doing(t)' = Doing(t)
  <2>1. asked[t] # <<>> /\ asked[t] \in Seq(Request)
    BY <1>2 DEF TurnsInv, AtItsLabel, LabelsOf, Doing, RoomTypes
  <2>2. CASE asked'[t] = asked[t]
    BY <2>2 DEF Doing
  <2>3. ASSUME NEW op \in Request, asked'[t] = Append(asked[t], op) PROVE Doing(t)' = Doing(t)
    <3>1. PICK w, v : w = asked[t] /\ v = Append(w, op)
      OBVIOUS
    <3>2. v # <<>> /\ Head(v) = Head(w)
      BY <2>1, <3>1, RequestAdded
    <3>3. asked'[t] = v
      BY <2>3, <3>1
    <3> QED
      BY <2>1, <3>1, <3>2, <3>3 DEF Doing
  <2>4. asked'[t] = asked[t] \/ \E op \in Request : asked'[t] = Append(asked[t], op)
    BY DEF roomVars, worker, do_enter, do_sendall, do_exit, Ask, ClientRead, Request, RoomTypes
  <2> QED
    BY <2>2, <2>3, <2>4
<1>3. ASSUME NEW t \in Session, NEW op, NEW labels, "idle" \notin labels
      PROVE  On(t, op, labels)' <=> On(t, op, labels)
  BY <1>1, <1>2, <1>3 DEF On
<1> QED
  BY <1>1, <1>3

LEMMA ClientsKeepList ==
  ASSUME RoomTypes, TurnsInv, ListInv,
         \/ UNCHANGED roomVars
         \/ \E s \in Session : do_enter(s) \/ do_sendall(s) \/ do_exit(s) \/ ClientRead(s)
  PROVE  ListInv'
<1>1. UNCHANGED <<head, next, alive, size, pc, at, seen, told, due>>
  BY ClientsLeaveWorkers
<1>3. ASSUME NEW t \in Session, NEW op, NEW labels, "idle" \notin labels
      PROVE  On(t, op, labels)' <=> On(t, op, labels)
  BY <1>3, ClientsLeaveWorkers
<1>4. PICK q \in Seq(Session) : Fits(q)
  BY DEF ListInv
<1>5. IsList(q)'
  BY <1>1, <1>4, SameList DEF Fits
<1>6. ASSUME NEW t \in Session
      PROVE  /\ Seated(t)' <=> Seated(t)
             /\ Fresh(t)' <=> Fresh(t)
             /\ Coming(t)' <=> Coming(t)
             /\ Going(t)' <=> Going(t)
             /\ Listed(q, t)' <=> Listed(q, t)
  BY <1>1, <1>3 DEF Seated, Fresh, Coming, Going, Listed
<1>7. Seats(q)' /\ Count(q)'
  BY <1>1, <1>4, <1>6 DEF Fits, Seats, Count
<1>8. ASSUME NEW t \in Session PROVE Cursor(q, t)' /\ Owes(q, t)'
  <2>1. Cursor(q, t) /\ Owes(q, t)
    BY <1>4 DEF Fits
  <2>2. at'[t] = at[t] /\ due'[t] = due[t] /\ pc'[t] = pc[t]
    BY <1>1
  <2>3. Cursor(q, t)'
    BY <1>3, <2>1, <2>2 DEF Cursor, Listed
  <2>4. Owes(q, t)'
    BY <1>3, <2>1, <2>2 DEF Owes, Listed, LabelsOf
  <2> QED
    BY <2>3, <2>4
<1>9. Fits(q)'
  BY <1>5, <1>7, <1>8 DEF Fits
<1> QED
  BY <1>9 DEF ListInv

LEMMA ListNext ==
  ASSUME RoomTypes, TurnsInv, Apart, ListInv, [RoomNext]_roomVars
  PROVE  ListInv'
<1>1. ASSUME NEW s \in Session, WorkerStep(s) PROVE ListInv'
  BY <1>1, ArrivalLooks, ArrivalLinks, ArrivalCounts, BroadcastSteps, DepartureLooks,
     DepartureUnlinks, DepartureCounts DEF WorkerStep
<1> QED
  BY <1>1, ClientsKeepList DEF RoomNext

LEMMA ListInvariant ==
  ASSUME OneComesAtATime
  PROVE  RoomSpec => [](RoomTypes /\ TurnsInv /\ Exclusive /\ ListInv)
<1>1. RoomInit => RoomTypes /\ TurnsInv /\ Exclusive /\ ListInv
  BY RoomTypesInit, TurnsInit, ExclusiveInit, ListInit
<1>2. RoomTypes /\ TurnsInv /\ Exclusive /\ ListInv /\ [RoomNext]_roomVars
        => (RoomTypes /\ TurnsInv /\ Exclusive /\ ListInv)'
  <2> SUFFICES ASSUME RoomTypes, TurnsInv, Exclusive, ListInv, [RoomNext]_roomVars
               PROVE  (RoomTypes /\ TurnsInv /\ Exclusive /\ ListInv)'
    OBVIOUS
  <2>1. Apart
    BY ExclusiveApart
  <2> QED
    BY <2>1, RoomTypesNext, TurnsNext, ExclusiveNext, ListNext
<1> QED
  BY <1>1, <1>2, PTL DEF RoomSpec

(* What the head leads to is the sequence.                                 *)
LEMMA MembersListed ==
  ASSUME RoomTypes, NEW q \in Seq(Session), IsList(q)
  PROVE  /\ Members = {t \in Session : Listed(q, t)}
         /\ IsFiniteSet(Members) /\ Cardinality(Members) = Len(q)
         /\ head # NULL => \E m \in Members : next[m] = NULL
<1> DEFINE R == {t \in Session : Listed(q, t)}
<1>1. /\ Len(q) \in Nat /\ (q # <<>> <=> Len(q) # 0)
      /\ \A i \in 1 .. Len(q) : q[i] \in Session /\ q[i] # NULL /\ q[i] \in R
  BY InSequence DEF Listed
<1>2. Closed(R)
  <2>1. head # NULL => head \in R
    BY <1>1 DEF IsList
  <2>2. ASSUME NEW m \in R, next[m] # NULL PROVE next[m] \in R
    <3>1. PICK i \in 1 .. Len(q) : q[i] = m
      BY DEF Listed
    <3>2. i + 1 \in 1 .. Len(q) /\ next[m] = q[i + 1]
      BY <1>1, <2>2, <3>1 DEF IsList
    <3> QED
      BY <1>1, <3>2
  <2> QED
    BY <2>1, <2>2 DEF Closed
<1>3. ASSUME NEW S \in SUBSET Session, Closed(S), NEW i \in 1 .. Len(q) PROVE q[i] \in S
  <2> DEFINE B == {j \in 1 .. Len(q) : q[j] \notin S}
  <2>1. SUFFICES ASSUME B # {} PROVE FALSE
    BY DEF B
  <2>2. B \in SUBSET Nat
    BY <1>1
  <2>3. \E x \in B : \A y \in B : <<y, x>> \notin OpToRel(<, Nat)
    <3> HIDE DEF B
    <3> QED
      BY <2>1, <2>2, NatLessThanWellFounded, WFMin, Zenon
  <2>4. PICK j \in B : \A y \in B : ~(y < j)
    BY <2>2, <2>3, Zenon DEF OpToRel
  <2>5. CASE j = 1
    BY <1>1, <1>3, <2>4, <2>5 DEF IsList, Closed
  <2>6. CASE j # 1
    <3>1. j - 1 \in 1 .. Len(q) /\ j - 1 < j /\ (j - 1) + 1 = j /\ j - 1 # Len(q)
      BY <1>1, <2>4, <2>6
    <3>2. q[j - 1] \in S
      BY <2>4, <3>1
    <3>3. next[q[j - 1]] = q[j] /\ q[j] # NULL
      BY <1>1, <3>1 DEF IsList
    <3> QED
      BY <1>3, <2>4, <3>2, <3>3 DEF Closed
  <2> QED
    BY <2>5, <2>6
<1>4. Members = R
  <2>1. Members \subseteq R
    BY <1>2 DEF Members
  <2>2. ASSUME NEW t \in R PROVE t \in Members
    BY <1>3 DEF Members, Listed
  <2> QED
    BY <2>1, <2>2
<1>5. IsFiniteSet(Members) /\ Cardinality(Members) = Len(q)
  <2>1. q \in [1 .. Len(q) -> Members]
    BY <1>1, <1>4, LenProperties
  <2>2. \A t \in Members : \E i \in 1 .. Len(q) : q[i] = t
    BY <1>4 DEF Listed
  <2>3. q \in Surjection(1 .. Len(q), Members)
    BY <2>1, <2>2, Zenon DEF Surjection
  <2>4. q \in Injection(1 .. Len(q), Members)
    BY <2>1, Zenon DEF Injection, IsInjective, IsList
  <2>5. IsFiniteSet(1 .. Len(q)) /\ Cardinality(1 .. Len(q)) = Len(q)
    <3>1. PICK n \in Nat : n = Len(q)
      BY <1>1
    <3>2. IsFiniteSet(1 .. n) /\ Cardinality(1 .. n) = IF 1 > n THEN 0 ELSE n - 1 + 1
      BY FS_Interval
    <3>3. n = IF 1 > n THEN 0 ELSE n - 1 + 1
      OBVIOUS
    <3> QED
      BY <3>1, <3>2, <3>3
  <2> QED
    BY <2>3, <2>4, <2>5, FS_Surjection
<1>6. head # NULL => \E m \in Members : next[m] = NULL
  <2>1. SUFFICES ASSUME head # NULL PROVE \E m \in Members : next[m] = NULL
    OBVIOUS
  <2>2. Len(q) \in 1 .. Len(q) /\ next[q[Len(q)]] = NULL
    BY <1>1, <2>1 DEF IsList
  <2> QED
    BY <1>1, <1>4, <2>2
<1> QED
  BY <1>4, <1>5, <1>6

(* lobby_size never leaves the range of what a lobby can hold.             *)
LEMMA SizeInRange ==
  ASSUME RoomTypes, TurnsInv, NEW q \in Seq(Session), Fits(q)
  PROVE  size \in 0 .. Cardinality(Session)
<1>1. /\ IsList(q) /\ Seats(q) /\ Count(q)
      /\ Len(q) \in Nat /\ (q # <<>> <=> Len(q) # 0)
      /\ \A t : Listed(q, t) => t \in Session /\ q # <<>>
  BY InSequence DEF Fits
<1>2. /\ Members = {t \in Session : Listed(q, t)}
      /\ IsFiniteSet(Members) /\ Cardinality(Members) = Len(q)
  BY <1>1, MembersListed
<1>3. IsFiniteSet(Session) /\ Cardinality(Session) \in Nat
  BY ChatRoomAssumption, FS_CardinalityType
<1>4. Len(q) <= Cardinality(Session)
  <2>1. Members \in SUBSET Session
    BY <1>2
  <2> QED
    BY <1>2, <1>3, <2>1, FS_Subset
<1>5. ASSUME NEW s \in Session, Coming(s) PROVE size \in 0 .. Cardinality(Session)
  <2>1. Seated(s)
    BY <1>5 DEF Coming, Seated, On
  <2>2. Len(q) # 0
    BY <1>1, <2>1 DEF Seats
  <2>3. size = Len(q) - 1
    BY <1>1, <1>5 DEF Count
  <2> QED
    BY <1>1, <1>3, <1>4, <2>2, <2>3
<1>6. ASSUME NEW s \in Session, Going(s) PROVE size \in 0 .. Cardinality(Session)
  <2>1. Doing(s) = "exit" /\ pc[s] \in {"bye", "free", "load", "store"}
    BY <1>6 DEF Going, On
  <2>2. s \notin told
    BY <2>1, FirstRequest DEF TurnsInv
  <2>3. ~Seated(s)
    BY <2>1, <2>2 DEF Seated, On
  <2>4. s \notin Members
    BY <1>1, <1>2, <2>3 DEF Seats
  <2>5. Cardinality(Members \union {s}) = Len(q) + 1
    BY <1>2, <2>4, FS_AddElement
  <2>6. Members \union {s} \in SUBSET Session
    BY <1>2
  <2>7. Cardinality(Members \union {s}) <= Cardinality(Session)
    BY <1>3, <2>6, FS_Subset
  <2>8. size = Len(q) + 1
    BY <1>1, <1>6 DEF Count
  <2> QED
    BY <1>1, <1>3, <2>5, <2>7, <2>8
<1>7. CASE \A s \in Session : ~Coming(s) /\ ~Going(s)
  <2>1. size = Len(q)
    BY <1>1, <1>7 DEF Count
  <2> QED
    BY <1>1, <1>3, <1>4, <2>1
<1> QED
  BY <1>5, <1>6, <1>7

(* What a worker is about to follow is a node of the list, and allocated.  *)
LEMMA CursorsLive ==
  ASSUME RoomTypes, TurnsInv, NEW q \in Seq(Session), Fits(q)
  PROVE  OnlyLiveNodes
<1>1. /\ IsList(q) /\ Seats(q) /\ \A s \in Session : Cursor(q, s) /\ Owes(q, s)
      /\ Len(q) \in Nat
      /\ \A i \in 1 .. Len(q) : q[i] \in Session /\ q[i] # NULL
  BY InSequence DEF Fits
<1>2. ASSUME NEW i \in 1 .. Len(q) PROVE q[i] \in alive
  <2>1. q[i] \in Session /\ Listed(q, q[i])
    BY <1>1 DEF Listed
  <2> QED
    BY <1>1, <2>1 DEF Seats
<1>3. SUFFICES ASSUME NEW s \in Session, pc[s] \in Follows
               PROVE  at[s] \in alive /\ (pc[s] = "find" => next[at[s]] \in alive)
  BY DEF OnlyLiveNodes, Follows
<1>4. Cursor(q, s) /\ Owes(q, s) /\ pc[s] \in LabelsOf(Doing(s))
  <2>1. pc[s] # "idle"
    BY <1>3 DEF Follows
  <2> QED
    BY <1>1, <2>1 DEF TurnsInv, AtItsLabel
<1>5. \/ On(s, "enter", {"walk"}) \/ On(s, "enter", {"link"})
      \/ On(s, "sendall", {"header", "name", "text"}) \/ On(s, "sendall", {"next"})
      \/ On(s, "exit", {"find"}) \/ On(s, "exit", {"unlink"})
  BY <1>3, <1>4 DEF Follows, LabelsOf, On
<1>6. CASE On(s, "enter", {"walk"})
  <2>1. Listed(q, at[s]) /\ pc[s] = "walk"
    BY <1>4, <1>6 DEF Cursor, On
  <2> QED
    BY <1>2, <2>1 DEF Listed
<1>7. CASE On(s, "enter", {"link"})
  <2>1. q # <<>> /\ at[s] = q[Len(q)] /\ pc[s] = "link"
    BY <1>4, <1>7 DEF Cursor, On
  <2>2. Len(q) \in 1 .. Len(q)
    BY <2>1, InSequence
  <2> QED
    BY <1>2, <2>1, <2>2
<1>8. CASE On(s, "sendall", {"header", "name", "text"}) \/ On(s, "sendall", {"next"})
  <2>1. pc[s] # "find" /\ \E k \in 1 .. Len(q) : at[s] = q[k]
    BY <1>4, <1>8 DEF Owes, On
  <2> QED
    BY <1>2, <2>1
<1>9. CASE On(s, "exit", {"find"})
  <2>1. PICK k \in 1 .. Len(q) : \E m \in 1 .. Len(q) : k < m /\ at[s] = q[k]
    BY <1>4, <1>9 DEF Cursor
  <2>2. k # Len(q) /\ k + 1 \in 1 .. Len(q)
    BY <1>1, <2>1
  <2>3. next[q[k]] = q[k + 1]
    BY <1>1, <2>2 DEF IsList
  <2> QED
    BY <1>2, <2>1, <2>2, <2>3
<1>10. CASE On(s, "exit", {"unlink"})
  <2>1. pc[s] # "find" /\ \E k \in 1 .. Len(q) : at[s] = q[k]
    BY <1>4, <1>10 DEF Cursor, On
  <2> QED
    BY <1>2, <2>1
<1> QED
  BY <1>5, <1>6, <1>7, <1>8, <1>9, <1>10

(* chat.c 1376-1471, 1737-1770, 1782-1853: however many arrivals, one at a *)
(* time, and broadcasts overlap in a lobby, whoever was told that it is in *)
(* the lobby is on its list, the list ends, lobby_size is its length when  *)
(* nobody is at work and never negative, and no worker follows a pointer   *)
(* into freed memory or off the end.                                       *)
THEOREM ListIsKept ==
  ASSUME OneComesAtATime
  PROVE  RoomSpec => []ListKept
<1>1. RoomTypes /\ TurnsInv /\ ListInv => ListKept
  <2> SUFFICES ASSUME RoomTypes, TurnsInv, ListInv PROVE ListKept
    OBVIOUS
  <2>1. PICK q \in Seq(Session) : Fits(q)
    BY DEF ListInv
  <2>2. IsList(q) /\ Seats(q) /\ Count(q)
    BY <2>1 DEF Fits
  <2>3. /\ Members = {t \in Session : Listed(q, t)} /\ Cardinality(Members) = Len(q)
        /\ head # NULL => \E m \in Members : next[m] = NULL
    BY <2>2, MembersListed
  <2>4. RoomTypeOK
    BY <2>1, SizeInRange DEF RoomTypes, RoomTypeOK
  <2>5. told \subseteq Members
    BY <2>2, <2>3 DEF Seats, Seated, RoomTypes
  <2>6. (\A s \in Session : pc[s] = "idle") => size = Cardinality(Members)
    BY <2>2, <2>3 DEF Count, Coming, Going, On
  <2> QED
    BY <2>1, <2>3, <2>4, <2>5, <2>6, CursorsLive DEF ListKept, MembersKept
<1> QED
  BY <1>1, ListInvariant, PTL

(* chat.c send_all: a broadcast that is over has been sent to everybody    *)
(* who was told that it is in the lobby when it began and has not asked to *)
(* leave since, while others enter and broadcast.                          *)
THEOREM BroadcastsComplete ==
  ASSUME OneComesAtATime
  PROVE  RoomSpec => []BroadcastArrives
<1>1. ListInv => BroadcastArrives
  BY DEF ListInv, Fits, Owes, LabelsOf, BroadcastArrives
<1> QED
  BY <1>1, ListInvariant, PTL

-----------------------------------------------------------------------------
(* What a client reads, when at most one broadcast is under way: each part *)
(* on the wire is one that belongs behind those in front of it, or the     *)
(* answer to enter has been overtaken.                                     *)

OneBroadcastAtATime == Overlap \subseteq {{"enter", "sendall"}}

(* What a client that has read part expects, and whether part is that.     *)
Expects(part) ==
  [kind |-> Following[part.kind],
   by   |-> IF part.kind \in {"header", "name"} THEN part.by ELSE NULL]
Belongs(part, e) ==
  \/ part.kind = e.kind /\ (part.kind \in {"name", "text"} => part.by = e.by)
  \/ part.kind = "exit" /\ e.kind = "header"

(* A stream w to a client that expects e, and what it expects at its end.  *)
Awaited(w, e, i) == IF i = 0 THEN e ELSE Expects(w[i])
Fluent(w, e) == \A i \in 1 .. Len(w) : Belongs(w[i], Awaited(w, e, i - 1))
Finally(w, e) == Awaited(w, e, Len(w))

Now(s) == [kind |-> reads[s], by |-> from[s]]

(* The broadcast of b has begun a message to s and not finished it.        *)
Amid(b, s) == On(b, "sendall", {"name", "text"}) /\ at[b] = s

(* What s expects in the end is what the workers will send it.             *)
Straight(s) ==
  /\ reads[s] # "astray" /\ Fluent(wire[s], Now(s))
  /\ screen[s] = "menu" => reads[s] = "nothing" /\ wire[s] = <<>>
  /\ screen[s] = "entering" /\ s \notin told => reads[s] \in {"code", "number"}
  /\ s \in told =>
       /\ (\A b \in Session : ~Amid(b, s)) => Finally(wire[s], Now(s)).kind = "header"
       /\ \A b \in Session : Amid(b, s) => Finally(wire[s], Now(s)) = [kind |-> pc[b], by |-> b]
  /\ s \notin told =>
       /\ \A b \in Session : ~Amid(b, s)
       /\ screen[s] = "entering" =>
            Finally(wire[s], Now(s)).kind = IF On(s, "enter", {"number"}) THEN "number" ELSE "code"
       /\ screen[s] = "leaving" =>
            Finally(wire[s], Now(s)).kind = IF Left(s) THEN "nothing" ELSE "header"

(* A broadcast has overtaken the answer, or has been taken for it.         *)
Overtaken(w) ==
  \E i \in 1 .. Len(w) :
    w[i].kind \in {"header", "name", "text"} /\ \A j \in 1 .. i - 1 : w[j].kind # "number"
Misled(s) ==
  /\ screen[s] = "entering"
  /\ reads[s] = "astray" \/ (reads[s] \in {"code", "number"} /\ Overtaken(wire[s]))

StreamsInv == \A s \in Session : Straight(s) \/ Misled(s)

(* A part sent to a client.                                                *)
LEMMA StreamGrows ==
  ASSUME NEW w \in Seq(Part), NEW p \in Part, NEW v, v = Append(w, p), NEW e,
         Fluent(w, e), Belongs(p, Finally(w, e))
  PROVE  Fluent(v, e) /\ Finally(v, e) = Expects(p)
<1>1. /\ v \in Seq(Part) /\ Len(v) = Len(w) + 1 /\ v[Len(v)] = p
      /\ \A i \in 1 .. Len(w) : v[i] = w[i]
  BY PartAdded
<1>2. Len(w) \in Nat
  BY LenProperties
<1>3. ASSUME NEW i \in 0 .. Len(w) PROVE Awaited(v, e, i) = Awaited(w, e, i)
  BY <1>1, <1>2, <1>3 DEF Awaited
<1>4. ASSUME NEW i \in 1 .. Len(v) PROVE Belongs(v[i], Awaited(v, e, i - 1))
  <2>1. CASE i \in 1 .. Len(w)
    <3>1. i - 1 \in 0 .. Len(w) /\ v[i] = w[i]
      BY <1>1, <1>2, <2>1
    <3>2. Belongs(w[i], Awaited(w, e, i - 1))
      BY <2>1 DEF Fluent
    <3> QED
      BY <1>3, <3>1, <3>2
  <2>2. CASE i = Len(v)
    <3>1. i - 1 = Len(w) /\ Len(w) \in 0 .. Len(w) /\ v[i] = p
      BY <1>1, <1>2, <2>2
    <3>2. Awaited(v, e, i - 1) = Finally(w, e)
      BY <1>3, <3>1 DEF Finally
    <3> QED
      BY <3>1, <3>2
  <2> QED
    BY <1>1, <1>2, <1>4, <2>1, <2>2
<1>5. Finally(v, e) = Expects(p)
  <2>1. Len(v) # 0
    BY <1>1, <1>2
  <2> QED
    BY <1>1, <2>1 DEF Finally, Awaited
<1> QED
  BY <1>4, <1>5 DEF Fluent

(* A part read by a client.                                                *)
LEMMA StreamRead ==
  ASSUME NEW w \in Seq(Part), w # <<>>, NEW v, v = Tail(w), NEW e, Fluent(w, e)
  PROVE  /\ Belongs(Head(w), e)
         /\ Fluent(v, Expects(Head(w)))
         /\ Finally(v, Expects(Head(w))) = Finally(w, e)
<1>1. /\ v \in Seq(Part) /\ Len(v) = Len(w) - 1 /\ Head(w) = w[1]
      /\ \A i \in 1 .. Len(v) : v[i] = w[i + 1]
  BY PartTaken
<1>2. Len(w) \in Nat \ {0}
  BY EmptySeq, LenProperties
<1>3. ASSUME NEW i \in 0 .. Len(v) PROVE Awaited(v, Expects(Head(w)), i) = Awaited(w, e, i + 1)
  <2>1. CASE i = 0
    BY <1>1, <2>1 DEF Awaited
  <2>2. CASE i # 0
    <3>1. i \in 1 .. Len(v) /\ i + 1 # 0
      BY <1>1, <1>2, <1>3, <2>2
    <3> QED
      BY <1>1, <2>2, <3>1 DEF Awaited
  <2> QED
    BY <2>1, <2>2
<1>4. Belongs(Head(w), e)
  <2>1. 1 \in 1 .. Len(w)
    BY <1>2
  <2>2. Belongs(w[1], Awaited(w, e, 1 - 1))
    BY <2>1 DEF Fluent
  <2>3. Awaited(w, e, 1 - 1) = e
    BY DEF Awaited
  <2> QED
    BY <1>1, <2>2, <2>3
<1>5. ASSUME NEW i \in 1 .. Len(v) PROVE Belongs(v[i], Awaited(v, Expects(Head(w)), i - 1))
  <2>1. i - 1 \in 0 .. Len(v) /\ (i - 1) + 1 = i /\ i + 1 \in 1 .. Len(w) /\ (i + 1) - 1 = i
    BY <1>1, <1>2
  <2>2. Belongs(w[i + 1], Awaited(w, e, (i + 1) - 1))
    BY <2>1 DEF Fluent
  <2>3. Awaited(v, Expects(Head(w)), i - 1) = Awaited(w, e, i)
    BY <1>3, <2>1
  <2> QED
    BY <1>1, <2>1, <2>2, <2>3
<1>6. Finally(v, Expects(Head(w))) = Finally(w, e)
  <2>1. Len(v) \in 0 .. Len(v) /\ Len(v) + 1 = Len(w)
    BY <1>1, <1>2
  <2> QED
    BY <1>3, <2>1 DEF Finally
<1> QED
  BY <1>4, <1>5, <1>6 DEF Fluent

(* A step that neither sends anything to t nor begins or ends a message.   *)
LEMMA StraightStays ==
  ASSUME NEW t \in Session, Straight(t),
         wire'[t] = wire[t], reads'[t] = reads[t], from'[t] = from[t], screen'[t] = screen[t],
         t \in told' <=> t \in told,
         \A b \in Session : (Amid(b, t)' <=> Amid(b, t)) /\ (Amid(b, t) => pc'[b] = pc[b]),
         t \notin told => (On(t, "enter", {"number"})' <=> On(t, "enter", {"number"})),
         t \notin told => (Left(t)' <=> Left(t))
  PROVE  Straight(t)'
<1>1. Now(t)' = Now(t)
  BY DEF Now
<1>2. Fluent(wire[t], Now(t))' /\ Finally(wire[t], Now(t))' = Finally(wire[t], Now(t))
  BY <1>1 DEF Straight, Fluent, Finally, Awaited
<1>3. reads'[t] # "astray"
  BY DEF Straight
<1>4. screen'[t] = "menu" => reads'[t] = "nothing" /\ wire'[t] = <<>>
  BY DEF Straight
<1>5. screen'[t] = "entering" /\ t \notin told' => reads'[t] \in {"code", "number"}
  BY DEF Straight
<1>6. t \in told' =>
        /\ (\A b \in Session : ~Amid(b, t)') => Finally(wire[t], Now(t))'.kind = "header"
        /\ \A b \in Session : Amid(b, t)' => Finally(wire[t], Now(t))' = [kind |-> pc'[b], by |-> b]
  BY <1>2 DEF Straight
<1>7. t \notin told' =>
        /\ \A b \in Session : ~Amid(b, t)'
        /\ screen'[t] = "entering" =>
             Finally(wire[t], Now(t))'.kind = IF On(t, "enter", {"number"})' THEN "number" ELSE "code"
        /\ screen'[t] = "leaving" =>
             Finally(wire[t], Now(t))'.kind = IF Left(t)' THEN "nothing" ELSE "header"
  BY <1>2 DEF Straight
<1> QED
  BY <1>2, <1>3, <1>4, <1>5, <1>6, <1>7 DEF Straight

(* A client that has been misled stays so: what it waits for is behind     *)
(* what it cannot read.                                                    *)
LEMMA MisledStays ==
  ASSUME RoomTypes, NEW t \in Session, Misled(t), screen'[t] = screen[t], reads'[t] = reads[t],
         wire'[t] = wire[t] \/ \E p \in Part : wire'[t] = Append(wire[t], p)
  PROVE  Misled(t)'
<1>1. CASE wire'[t] = wire[t]
  BY <1>1 DEF Misled, Overtaken
<1>2. CASE \E p \in Part : wire'[t] = Append(wire[t], p)
  <2>1. PICK w, v : /\ w = wire[t] /\ v = wire'[t]
                    /\ \E p \in Part : v = Append(w, p)
    BY <1>2
  <2>2. w \in Seq(Part) /\ Len(w) \in Nat
    BY <2>1, LenProperties DEF RoomTypes
  <2>3. Len(v) = Len(w) + 1 /\ \A i \in 1 .. Len(w) : v[i] = w[i]
    BY <2>1, <2>2, PartAdded
  <2>4. Overtaken(w) => Overtaken(v)
    BY <2>2, <2>3 DEF Overtaken
  <2> QED
    BY <2>1, <2>4 DEF Misled
<1> QED
  BY <1>1, <1>2

(* What the thread of a client does with the next part.                    *)
LEMMA PartRead ==
  ASSUME RoomTypes, NEW s \in Session, ClientRead(s)
  PROVE  /\ wire[s] \in Seq(Part) /\ wire[s] # <<>> /\ Head(wire[s]) \in Part /\ wire'[s] = Tail(wire[s])
         /\ reads[s] \notin {"nothing", "astray"}
         /\ Expected(s, Head(wire[s])) <=> Belongs(Head(wire[s]), Now(s))
         /\ Expected(s, Head(wire[s])) => Now(s)' = Expects(Head(wire[s]))
         /\ reads'[s] = IF Expected(s, Head(wire[s])) THEN Following[Head(wire[s]).kind] ELSE "astray"
         /\ Expected(s, Head(wire[s])) /\ Head(wire[s]).kind = "number" => screen'[s] = "lobby"
         /\ Expected(s, Head(wire[s])) /\ Head(wire[s]).kind = "exit" => screen'[s] = "menu"
         /\ ~(Expected(s, Head(wire[s])) /\ Head(wire[s]).kind \in {"number", "exit"}) => screen'[s] = screen[s]
         /\ \A t \in Session \ {s} :
              /\ wire'[t] = wire[t] /\ reads'[t] = reads[t]
              /\ from'[t] = from[t] /\ screen'[t] = screen[t]
<1> DEFINE part == Head(wire[s])
<1>1. wire[s] \in Seq(Part) /\ wire[s] # <<>> /\ part \in Part
  BY PartTaken DEF RoomTypes, ClientRead
<1>2. /\ wire'[s] = Tail(wire[s]) /\ reads[s] \notin {"nothing", "astray"}
      /\ reads'[s] = IF Expected(s, part) THEN Following[part.kind] ELSE "astray"
      /\ from'[s] = IF part.kind \in {"header", "name"} THEN part.by ELSE NULL
      /\ screen'[s] = CASE Expected(s, part) /\ part.kind = "number" -> "lobby"
                        [] Expected(s, part) /\ part.kind = "exit"   -> "menu"
                        [] OTHER -> screen[s]
  BY DEF RoomTypes, ClientRead
<1>3. \A t \in Session \ {s} :
        /\ wire'[t] = wire[t] /\ reads'[t] = reads[t]
        /\ from'[t] = from[t] /\ screen'[t] = screen[t]
  BY DEF RoomTypes, ClientRead
<1>4. Expected(s, part) <=> Belongs(part, Now(s))
  BY DEF Expected, Belongs, Now
<1>5. Expected(s, part) => Now(s)' = Expects(part)
  BY <1>2 DEF Now, Expects
<1>6. /\ Expected(s, part) /\ part.kind = "number" => screen'[s] = "lobby"
      /\ Expected(s, part) /\ part.kind = "exit" => screen'[s] = "menu"
      /\ ~(Expected(s, part) /\ part.kind \in {"number", "exit"}) => screen'[s] = screen[s]
  BY <1>2
<1> QED
  BY <1>1, <1>2, <1>3, <1>4, <1>5, <1>6

LEMMA MisledReads ==
  ASSUME RoomTypes, NEW s \in Session, ClientRead(s), Misled(s)
  PROVE  Misled(s)'
<1> DEFINE w == wire[s]
           v == Tail(w)
           part == Head(w)
<1>1. /\ w \in Seq(Part) /\ w # <<>> /\ part \in Part /\ wire'[s] = v
      /\ reads[s] \notin {"nothing", "astray"}
      /\ reads'[s] = IF Expected(s, part) THEN Following[part.kind] ELSE "astray"
      /\ Expected(s, part) /\ part.kind = "number" => screen'[s] = "lobby"
      /\ Expected(s, part) /\ part.kind = "exit" => screen'[s] = "menu"
      /\ ~(Expected(s, part) /\ part.kind \in {"number", "exit"}) => screen'[s] = screen[s]
  BY PartRead
<1>2. w = wire[s] /\ v = Tail(w) /\ part = Head(w)
  OBVIOUS
<1> HIDE DEF w, v, part
<1>3. screen[s] = "entering" /\ reads[s] \in {"code", "number"} /\ Overtaken(w)
  BY <1>2, <1>1 DEF Misled
<1>4. PICK i \in 1 .. Len(w) :
        w[i].kind \in {"header", "name", "text"} /\ \A j \in 1 .. i - 1 : w[j].kind # "number"
  BY <1>3 DEF Overtaken
<1>5. /\ Len(v) = Len(w) - 1 /\ part = w[1] /\ \A k \in 1 .. Len(v) : v[k] = w[k + 1]
      /\ Len(w) \in Nat \ {0}
  BY <1>2, <1>1, PartTaken, EmptySeq, LenProperties
<1>6. part.kind # "number"
  <2>1. CASE i = 1
    BY <1>4, <1>5, <2>1
  <2>2. CASE i # 1
    <3>1. 1 \in 1 .. i - 1
      BY <1>4, <1>5, <2>2
    <3> QED
      BY <1>4, <1>5, <3>1
  <2> QED
    BY <2>1, <2>2
<1>7. CASE ~Expected(s, part)
  BY <1>1, <1>3, <1>7 DEF Misled
<1>8. CASE Expected(s, part)
  <2>1. part.kind = "code"
    BY <1>3, <1>6, <1>8 DEF Expected
  <2>2. reads'[s] = "number" /\ screen'[s] = "entering"
    BY <1>1, <1>3, <1>8, <2>1, PartKinds
  <2>3. Overtaken(v)
    <3>1. i # 1
      BY <1>4, <1>5, <2>1
    <3>2. i - 1 \in 1 .. Len(v) /\ v[i - 1] = w[(i - 1) + 1] /\ (i - 1) + 1 = i
      BY <1>4, <1>5, <3>1
    <3>3. ASSUME NEW j \in 1 .. (i - 1) - 1 PROVE v[j].kind # "number"
      <4>1. j \in 1 .. Len(v) /\ j + 1 \in 1 .. i - 1
        BY <1>4, <1>5, <3>3
      <4> QED
        BY <1>4, <1>5, <4>1
    <3> QED
      BY <1>4, <3>2, <3>3 DEF Overtaken
  <2> QED
    BY <1>1, <2>2, <2>3 DEF Misled
<1> QED
  BY <1>7, <1>8

(* A part read in its turn.                                                *)
LEMMA StraightReads ==
  ASSUME RoomTypes, TurnsInv, NEW s \in Session, ClientRead(s), Straight(s),
         UNCHANGED <<asked, pc, at, told>>
  PROVE  Straight(s)'
<1> DEFINE w == wire[s]
           v == Tail(w)
           part == Head(w)
<1>1. /\ w \in Seq(Part) /\ w # <<>> /\ part \in Part /\ wire'[s] = v
      /\ reads[s] \notin {"nothing", "astray"}
      /\ Expected(s, part) <=> Belongs(part, Now(s))
      /\ Expected(s, part) => Now(s)' = Expects(part)
      /\ reads'[s] = IF Expected(s, part) THEN Following[part.kind] ELSE "astray"
      /\ Expected(s, part) /\ part.kind = "number" => screen'[s] = "lobby"
      /\ Expected(s, part) /\ part.kind = "exit" => screen'[s] = "menu"
      /\ ~(Expected(s, part) /\ part.kind \in {"number", "exit"}) => screen'[s] = screen[s]
  BY PartRead
<1>2. w = wire[s] /\ v = Tail(w) /\ part = Head(w)
  OBVIOUS
<1> HIDE DEF w, v, part
<1>3. /\ Expected(s, part) /\ Fluent(v, Expects(part))
      /\ Finally(v, Expects(part)) = Finally(w, Now(s))
  <2>1. Fluent(w, Now(s))
    BY <1>2 DEF Straight
  <2> QED
    BY <1>2, <1>1, <2>1, StreamRead
<1>4. /\ Fluent(wire[s], Now(s))'
      /\ Finally(wire[s], Now(s))' = Finally(wire[s], Now(s))
  BY <1>2, <1>1, <1>3
<1>5. /\ part.kind \in {"code", "number", "header", "name", "text", "exit"}
      /\ reads'[s] = Following[part.kind] /\ reads'[s] # "astray"
  BY <1>1, <1>3, PartKinds DEF Part
<1>6. \A b \in Session : (Amid(b, s)' <=> Amid(b, s)) /\ pc'[b] = pc[b]
  BY DEF Amid, On, Doing
<1>7. s \in told' =>
        /\ (\A b \in Session : ~Amid(b, s)') => Finally(wire[s], Now(s))'.kind = "header"
        /\ \A b \in Session : Amid(b, s)' => Finally(wire[s], Now(s))' = [kind |-> pc'[b], by |-> b]
  BY <1>4, <1>6 DEF Straight
<1>8. Answer(s) /\ Turn(s) /\ AtItsLabel(s)
  BY DEF TurnsInv
<1>9. Has(wire[s], part.kind)
  BY <1>2, <1>1, PartTaken
<1>10. CASE part.kind = "number"
  <2>1. screen'[s] = "lobby" /\ s \in told'
    <3>1. screen'[s] = "lobby"
      BY <1>1, <1>3, <1>10
    <3>2. Entered(s)
      BY <1>8, <1>9, <1>10 DEF Answer
    <3> QED
      BY <1>8, <3>1, <3>2 DEF Entered, Turn
  <2> QED
    BY <1>4, <1>5, <1>7, <2>1 DEF Straight
<1>11. CASE part.kind = "exit"
  <2>1. screen'[s] = "menu" /\ reads'[s] = "nothing"
    BY <1>1, <1>3, <1>11, PartKinds
  <2>2. Left(s) /\ s \notin told
    <3>1. Left(s)
      BY <1>8, <1>9, <1>11 DEF Answer
    <3>2. CASE asked[s] = <<>>
      BY <1>8, <3>1, <3>2 DEF Left, Turn
    <3>3. CASE On(s, "exit", Released)
      <4>1. Doing(s) = "exit" /\ pc[s] # "idle"
        BY <3>3 DEF On, Released
      <4> QED
        BY <1>8, <3>1, <4>1, FirstRequest
    <3> QED
      BY <3>1, <3>2, <3>3 DEF Left
  <2>3. v = <<>>
    <3>1. SUFFICES ASSUME v # <<>> PROVE FALSE
      OBVIOUS
    <3>2. v \in Seq(Part)
      BY <1>2, <1>1, PartTaken
    <3>3. 1 \in 1 .. Len(v) /\ v[1] \in Part
      BY <3>1, <3>2, EmptySeq, LenProperties, ElementOfSeq
    <3>4. Belongs(v[1], Awaited(v, Expects(part), 1 - 1))
      BY <1>3, <3>3 DEF Fluent
    <3>5. Awaited(v, Expects(part), 1 - 1) = Expects(part)
      BY DEF Awaited
    <3>6. Expects(part).kind = "nothing"
      BY <1>11, PartKinds DEF Expects
    <3>7. v[1].kind # "nothing"
      BY <3>3, PartKinds DEF Part
    <3> QED
      BY <3>4, <3>5, <3>6, <3>7 DEF Belongs
  <2>4. \A b \in Session : ~Amid(b, s)'
    BY <1>6, <2>2 DEF Straight
  <2> QED
    BY <1>1, <1>4, <1>5, <2>1, <2>2, <2>3, <2>4 DEF Straight
<1>12. CASE part.kind \notin {"number", "exit"}
  <2>1. screen'[s] = screen[s] /\ screen[s] # "menu"
    <3>1. screen[s] # "menu"
      BY <1>1 DEF Straight
    <3> QED
      BY <1>1, <1>12, <3>1
  <2>2. screen[s] = "entering" /\ s \notin told => reads'[s] \in {"code", "number"}
    <3>1. SUFFICES ASSUME screen[s] = "entering", s \notin told PROVE reads'[s] \in {"code", "number"}
      OBVIOUS
    <3>2. part.kind = "code"
      BY <1>3, <1>12, <3>1 DEF Straight, Expected
    <3> QED
      BY <1>5, <3>2, PartKinds
  <2>3. s \notin told' =>
        /\ \A b \in Session : ~Amid(b, s)'
        /\ screen'[s] = "entering" =>
             Finally(wire[s], Now(s))'.kind = IF On(s, "enter", {"number"})' THEN "number" ELSE "code"
        /\ screen'[s] = "leaving" =>
             Finally(wire[s], Now(s))'.kind = IF Left(s)' THEN "nothing" ELSE "header"
    <3>1. (On(s, "enter", {"number"})' <=> On(s, "enter", {"number"})) /\ (Left(s)' <=> Left(s))
      BY <2>1 DEF On, Doing, Left
    <3> QED
      BY <1>4, <1>6, <2>1, <3>1 DEF Straight
  <2> QED
    BY <1>4, <1>5, <1>7, <2>1, <2>2, <2>3 DEF Straight
<1> QED
  BY <1>10, <1>11, <1>12

LEMMA ClientsInStep ==
  ASSUME RoomTypes, TurnsInv, StreamsInv,
         \/ UNCHANGED roomVars
         \/ \E s \in Session : do_enter(s) \/ do_sendall(s) \/ do_exit(s) \/ ClientRead(s)
  PROVE  StreamsInv'
<1>1. UNCHANGED <<pc, at, told>>
  BY ClientsLeaveWorkers
<1>2. ASSUME NEW t \in Session
      PROVE  /\ \A b \in Session : Amid(b, t)' <=> Amid(b, t)
             /\ On(t, "enter", {"number"})' <=> On(t, "enter", {"number"})
             /\ On(t, "exit", Released)' <=> On(t, "exit", Released)
  <2>1. ASSUME NEW b \in Session
        PROVE  On(b, "sendall", {"name", "text"})' <=> On(b, "sendall", {"name", "text"})
    BY ClientsLeaveWorkers
  <2>2. On(t, "enter", {"number"})' <=> On(t, "enter", {"number"})
    BY ClientsLeaveWorkers
  <2>3. "idle" \notin Released
    BY DEF Released
  <2>4. On(t, "exit", Released)' <=> On(t, "exit", Released)
    BY <2>3, ClientsLeaveWorkers
  <2> QED
    BY <1>1, <2>1, <2>2, <2>4 DEF Amid
<1>3. ASSUME NEW t \in Session, UNCHANGED <<asked[t], wire[t], reads[t], from[t], screen[t]>>,
             Straight(t) \/ Misled(t)
      PROVE  Straight(t)' \/ Misled(t)'
  <2>1. CASE Misled(t)
    BY <1>3, <2>1, MisledStays
  <2>2. CASE Straight(t)
    <3>1. Left(t)' <=> Left(t)
      BY <1>2, <1>3 DEF Left
    <3> QED
      BY <1>1, <1>2, <1>3, <2>2, <3>1, StraightStays
  <2> QED
    BY <1>3, <2>1, <2>2
<1>4. ASSUME NEW s \in Session, do_enter(s) PROVE StreamsInv'
  <2>1. /\ screen[s] = "menu" /\ screen'[s] = "entering" /\ reads'[s] = "code"
        /\ wire' = wire /\ from' = from
        /\ \A t \in Session \ {s} : UNCHANGED <<asked[t], reads[t], screen[t]>>
    BY <1>4 DEF do_enter, Ask, RoomTypes
  <2>2. Straight(s)
    BY <2>1 DEF StreamsInv, Misled
  <2>3. s \notin told /\ wire[s] = <<>>
    BY <2>1, <2>2 DEF TurnsInv, Turn, Straight
  <2>4. ~On(s, "enter", {"number"})
    <3>1. Doing(s) # "enter"
      BY <2>1, FirstRequest DEF TurnsInv
    <3> QED
      BY <3>1 DEF On
  <2>5. Straight(s)'
    <3>1. wire'[s] = <<>> /\ Len(<<>>) = 0
      BY <2>1, <2>3
    <3>2. Fluent(wire[s], Now(s))' /\ Finally(wire[s], Now(s))'.kind = "code"
      BY <2>1, <3>1 DEF Fluent, Finally, Awaited, Now
    <3>3. \A b \in Session : ~Amid(b, s)'
      BY <1>2, <2>2, <2>3 DEF Straight
    <3>4. ~On(s, "enter", {"number"})'
      BY <1>2, <2>4
    <3>5. s \notin told'
      BY <1>1, <2>3
    <3> QED
      BY <2>1, <3>2, <3>3, <3>4, <3>5 DEF Straight
  <2>6. ASSUME NEW t \in Session PROVE Straight(t)' \/ Misled(t)'
    BY <1>3, <2>1, <2>5 DEF StreamsInv
  <2> QED
    BY <2>6 DEF StreamsInv
<1>5. ASSUME NEW s \in Session, do_sendall(s) \/ do_exit(s) PROVE StreamsInv'
  <2>1. /\ screen[s] = "lobby" /\ screen'[s] \in {"lobby", "leaving"} /\ reads' = reads
        /\ wire' = wire /\ from' = from
        /\ \A t \in Session \ {s} : UNCHANGED <<asked[t], screen[t]>>
    BY <1>5 DEF do_sendall, do_exit, Ask, RoomTypes
  <2>2. Straight(s) /\ s \in told /\ s \in told'
    BY <1>1, <2>1 DEF StreamsInv, Misled, TurnsInv, Turn
  <2>3. Now(s)' = Now(s)
    BY <2>1 DEF Now
  <2>4. Fluent(wire[s], Now(s))' /\ Finally(wire[s], Now(s))' = Finally(wire[s], Now(s))
    BY <2>1, <2>2, <2>3 DEF Straight
  <2>5. /\ (\A b \in Session : ~Amid(b, s)') => Finally(wire[s], Now(s))'.kind = "header"
        /\ \A b \in Session : Amid(b, s)' => Finally(wire[s], Now(s))' = [kind |-> pc'[b], by |-> b]
    BY <1>1, <1>2, <2>2, <2>4 DEF Straight
  <2>6. Straight(s)'
    BY <2>1, <2>2, <2>4, <2>5 DEF Straight
  <2>7. ASSUME NEW t \in Session PROVE Straight(t)' \/ Misled(t)'
    BY <1>3, <2>1, <2>6 DEF StreamsInv
  <2> QED
    BY <2>7 DEF StreamsInv
<1>6. ASSUME NEW s \in Session, ClientRead(s) PROVE StreamsInv'
  <2>1. asked' = asked
    BY <1>6 DEF ClientRead, worker
  <2>2. Straight(s)' \/ Misled(s)'
    BY <1>1, <1>6, <2>1, StraightReads, MisledReads DEF StreamsInv
  <2>3. \A t \in Session \ {s} : UNCHANGED <<wire[t], reads[t], from[t], screen[t]>>
    BY <1>6, PartRead
  <2>4. ASSUME NEW t \in Session PROVE Straight(t)' \/ Misled(t)'
    BY <1>3, <2>1, <2>2, <2>3 DEF StreamsInv
  <2> QED
    BY <2>4 DEF StreamsInv
<1>7. CASE UNCHANGED roomVars
  <2>1. UNCHANGED <<asked, wire, reads, from, screen>>
    BY <1>7 DEF roomVars, worker, client
  <2> QED
    BY <1>3, <2>1 DEF StreamsInv
<1> QED
  BY <1>4, <1>5, <1>6, <1>7

(* What a worker leaves of the clients, and of the others' broadcasts.     *)
LEMMA WorkersLeaveClients ==
  ASSUME RoomTypes, NEW s \in Session, WorkerStep(s)
  PROVE  /\ UNCHANGED <<screen, reads, from>>
         /\ \A t \in Session :
              wire'[t] = wire[t] \/ \E p \in Part : wire'[t] = Append(wire[t], p)
<1> USE DEF Keep, client
<1>1. CASE \/ EnterAlloc(s) \/ EnterLook(s) \/ EnterWalk(s) \/ EnterFirst(s) \/ EnterLink(s)
           \/ Load(s, "enter") \/ EnterStore(s) \/ SendSize(s) \/ SendHead(s) \/ SendNext(s)
           \/ ExitLook(s) \/ ExitFind(s) \/ ExitBehead(s) \/ ExitUnlink(s)
           \/ ExitFree(s) \/ Load(s, "exit") \/ ExitStore(s)
  BY <1>1 DEF EnterAlloc, EnterLook, EnterWalk, EnterFirst, EnterLink, Load, EnterStore,
         SendSize, SendHead, SendNext, ExitLook, ExitFind, ExitBehead, ExitUnlink, ExitFree, ExitStore
<1>2. ASSUME NEW to, NEW kind \in DOMAIN Following, Send(to, kind, s), NEW t \in Session
      PROVE  wire'[t] = wire[t] \/ \E p \in Part : wire'[t] = Append(wire[t], p)
  <2>1. [kind |-> kind, by |-> s] \in Part
    BY <1>2 DEF Part
  <2>2. wire'[t] = wire[t] \/ wire'[t] = Append(wire[t], [kind |-> kind, by |-> s])
    BY <1>2 DEF Send, RoomTypes
  <2> QED
    BY <2>1, <2>2
<1>3. CASE EnterCode(s) \/ EnterNumber(s) \/ SendHeader(s) \/ SendName(s) \/ SendText(s) \/ ExitBye(s)
  <2>1. UNCHANGED <<screen, reads, from>>
    BY <1>3 DEF EnterCode, EnterNumber, SendHeader, SendName, SendText, ExitBye
  <2>2. \E to : \E kind \in DOMAIN Following : Send(to, kind, s)
    BY <1>3, PartKinds DEF EnterCode, EnterNumber, SendHeader, SendName, SendText, ExitBye
  <2> QED
    BY <1>2, <2>1, <2>2
<1> QED
  BY <1>1, <1>3 DEF WorkerStep

LEMMA OthersAmid ==
  ASSUME RoomTypes, NEW s \in Session, WorkerStep(s), ~ExitLook(s),
         NEW b \in Session \ {s}, NEW t \in Session
  PROVE  (Amid(b, t)' <=> Amid(b, t)) /\ pc'[b] = pc[b]
  BY OthersUntouched DEF Untouched, Amid, On

LEMMA OthersInStep ==
  ASSUME RoomTypes, NEW s \in Session, WorkerStep(s), ~ExitLook(s), NEW t \in Session \ {s},
         wire'[t] = wire[t], Amid(s, t)' <=> Amid(s, t), Amid(s, t) => pc'[s] = pc[s],
         Straight(t)
  PROVE  Straight(t)'
<1>1. UNCHANGED <<screen, reads, from>>
  BY WorkersLeaveClients
<1>2. Untouched(t) /\ asked'[t] = asked[t]
  BY OthersUntouched
<1>3. /\ t \in told' <=> t \in told
      /\ On(t, "enter", {"number"})' <=> On(t, "enter", {"number"})
      /\ Left(t)' <=> Left(t)
  BY <1>1, <1>2 DEF Untouched, On, Left
<1>4. \A b \in Session : (Amid(b, t)' <=> Amid(b, t)) /\ (Amid(b, t) => pc'[b] = pc[b])
  BY OthersAmid
<1> QED
  BY <1>1, <1>3, <1>4, StraightStays

(* A step that sends nothing and is not about a message.                   *)
LEMMA SilentInStep ==
  ASSUME RoomTypes, StreamsInv, NEW s \in Session, WorkerStep(s), ~ExitLook(s), wire' = wire,
         \A t \in Session : ~Amid(s, t) /\ ~Amid(s, t)',
         s \in told' <=> s \in told,
         s \notin told => (On(s, "enter", {"number"})' <=> On(s, "enter", {"number"})),
         s \notin told => (Left(s)' <=> Left(s))
  PROVE  StreamsInv'
<1>1. SUFFICES ASSUME NEW t \in Session PROVE Straight(t)' \/ Misled(t)'
  BY DEF StreamsInv
<1>2. UNCHANGED <<screen, reads, from>>
  BY WorkersLeaveClients
<1>3. CASE Misled(t)
  BY <1>2, <1>3, MisledStays
<1>4. CASE Straight(t) /\ t # s
  BY <1>4, OthersInStep
<1>5. CASE Straight(t) /\ t = s
  <2>1. \A b \in Session : (Amid(b, s)' <=> Amid(b, s)) /\ (Amid(b, s) => pc'[b] = pc[b])
    BY OthersAmid
  <2> QED
    BY <1>2, <1>5, <2>1, StraightStays
<1> QED
  BY <1>3, <1>4, <1>5 DEF StreamsInv

(* A part sent in its turn.                                                *)
LEMMA PartSent ==
  ASSUME RoomTypes, NEW s \in Session, NEW t \in Session, NEW kind \in DOMAIN Following,
         Send(t, kind, s), UNCHANGED <<reads, from>>, Straight(t),
         Belongs([kind |-> kind, by |-> s], Finally(wire[t], Now(t)))
  PROVE  /\ Fluent(wire[t], Now(t))'
         /\ Finally(wire[t], Now(t))' = Expects([kind |-> kind, by |-> s])
<1>1. PICK w, v, p, e : w = wire[t] /\ v = Append(w, p) /\ p = [kind |-> kind, by |-> s] /\ e = Now(t)
  OBVIOUS
<1>2. w \in Seq(Part) /\ p \in Part /\ wire'[t] = v
  BY <1>1 DEF Send, RoomTypes, Part
<1>3. Now(t)' = e
  BY <1>1 DEF Now
<1>4. Fluent(w, e) /\ Belongs(p, Finally(w, e))
  BY <1>1 DEF Straight
<1>5. v = Append(w, p)
  BY <1>1
<1>6. Fluent(v, e) /\ Finally(v, e) = Expects(p)
  BY <1>2, <1>4, <1>5, StreamGrows, ZenonT(40)
<1> QED
  BY <1>1, <1>2, <1>3, <1>6

(* The answer to enter.                                                    *)
LEMMA ArrivalInStep ==
  ASSUME RoomTypes, TurnsInv, StreamsInv, NEW s \in Session, WorkerStep(s), Doing(s) = "enter"
  PROVE  StreamsInv'
<1> USE DEF Keep, client, list, Goto, Point
<1>1. s \notin told /\ screen[s] = "entering" /\ asked[s] = <<"enter">>
  BY FirstRequest DEF TurnsInv
<1>2. ~ExitLook(s) /\ \A t \in Session : ~Amid(s, t)
  BY DEF ExitLook, At, Doing, Amid, On
<1>3. UNCHANGED <<screen, reads, from>>
  BY WorkersLeaveClients
<1>4. CASE \/ EnterAlloc(s) \/ EnterLook(s) \/ EnterWalk(s) \/ EnterFirst(s) \/ EnterLink(s)
           \/ Load(s, "enter") \/ EnterStore(s)
  <2>1. /\ asked' = asked /\ wire' = wire /\ told' = told
        /\ pc[s] \in {"idle", "look", "walk", "first", "link", "load", "store"}
        /\ pc'[s] \in {"look", "walk", "first", "link", "load", "store", "code"}
    <3>1. CASE EnterWalk(s)
      BY <3>1 DEF EnterWalk, At, RoomTypes
    <3>2. CASE EnterAlloc(s) \/ EnterLook(s) \/ EnterFirst(s) \/ EnterLink(s) \/ Load(s, "enter") \/ EnterStore(s)
      BY <3>2 DEF EnterAlloc, EnterLook, EnterFirst, EnterLink, Load, EnterStore, At, RoomTypes
    <3> QED
      BY <1>4, <3>1, <3>2
  <2>2. Doing(s)' = "enter" /\ asked[s] # <<>>
    BY <1>1, <2>1 DEF Doing
  <2>3. /\ \A t \in Session : ~Amid(s, t)'
        /\ ~On(s, "enter", {"number"}) /\ ~On(s, "enter", {"number"})'
        /\ ~Left(s) /\ ~Left(s)'
    BY <1>1, <1>3, <2>1, <2>2 DEF Amid, On, Left
  <2> QED
    BY <1>1, <1>2, <2>1, <2>3, SilentInStep
<1>5. CASE EnterCode(s) \/ EnterNumber(s)
  <2>1. PICK kind \in {"code", "number"} :
          /\ pc[s] = kind /\ Send(s, kind, s)
          /\ kind = "code" => pc'[s] = "number" /\ asked' = asked /\ told' = told
          /\ kind = "number" => pc'[s] = "idle" /\ told' = told \union {s}
    <3>1. CASE EnterCode(s)
      BY <3>1 DEF EnterCode, At, RoomTypes
    <3>2. CASE EnterNumber(s)
      BY <3>2 DEF EnterNumber, At, Done, RoomTypes
    <3> QED
      BY <1>5, <3>1, <3>2
  <2>2. \A t \in Session : ~Amid(s, t)'
    BY <2>1 DEF Amid, On
  <2>3. ASSUME Straight(s) PROVE Straight(s)'
    <3>1. \A b \in Session : ~Amid(b, s)'
      <4>1. \A b \in Session : ~Amid(b, s)
        BY <1>1, <2>3 DEF Straight
      <4> QED
        BY <1>2, <2>2, <4>1, OthersAmid
    <3>2. Finally(wire[s], Now(s)).kind = kind
      BY <1>1, <2>1, <2>3 DEF Straight, On, Doing
    <3>3. Belongs([kind |-> kind, by |-> s], Finally(wire[s], Now(s))) /\ kind \in DOMAIN Following
      BY <2>1, <3>2, PartKinds DEF Belongs
    <3>4. /\ Fluent(wire[s], Now(s))'
          /\ Finally(wire[s], Now(s))' = Expects([kind |-> kind, by |-> s])
      BY <1>3, <2>1, <2>3, <3>3, PartSent
    <3>5. Finally(wire[s], Now(s))'.kind = Following[kind]
      BY <3>4 DEF Expects
    <3>6. CASE kind = "code"
      <4>1. On(s, "enter", {"number"})' /\ s \notin told'
        BY <1>1, <2>1, <3>6 DEF On, Doing
      <4>2. Finally(wire[s], Now(s))'.kind = "number"
        BY <3>5, <3>6, PartKinds
      <4> QED
        BY <1>1, <1>3, <2>3, <3>1, <3>4, <4>1, <4>2 DEF Straight
    <3>7. CASE kind = "number"
      <4>1. s \in told'
        BY <2>1, <3>7
      <4>2. Finally(wire[s], Now(s))'.kind = "header"
        BY <3>5, <3>7, PartKinds
      <4> QED
        BY <1>1, <1>3, <2>3, <3>1, <3>4, <4>1, <4>2 DEF Straight
    <3> QED
      BY <2>1, <3>6, <3>7
  <2>4. ASSUME NEW t \in Session \ {s}, Straight(t) PROVE Straight(t)'
    <3>1. wire'[t] = wire[t]
      BY <2>1 DEF Send, RoomTypes
    <3> QED
      BY <1>2, <2>2, <2>4, <3>1, OthersInStep
  <2>5. ASSUME NEW t \in Session, Misled(t) PROVE Misled(t)'
    BY <1>3, <2>5, MisledStays, WorkersLeaveClients
  <2> QED
    BY <2>3, <2>4, <2>5 DEF StreamsInv
<1> QED
  BY <1>4, <1>5 DEF WorkerStep, Doing, At, Load, SendSize, SendHead, SendHeader, SendName, SendText,
                    SendNext, ExitLook, ExitFind, ExitBehead, ExitUnlink, ExitBye, ExitFree, ExitStore

(* Whom a broadcast sends to.                                              *)
LEMMA Reached ==
  ASSUME RoomTypes, Apart, ListInv, NEW s \in Session,
         On(s, "sendall", {"header", "name", "text"})
  PROVE  at[s] \in Session /\ (at[s] \in told \/ Doing(at[s]) = "enter")
<1>1. PICK q \in Seq(Session) : Fits(q)
  BY DEF ListInv
<1>2. PICK k \in 1 .. Len(q) : at[s] = q[k]
  BY <1>1 DEF Fits, Owes
<1>3. at[s] \in Session /\ Seated(at[s])
  BY <1>1, <1>2, InSequence DEF Fits, Seats, Listed
<1>4. Doing(at[s]) # "exit"
  BY <1>3 DEF Apart, On
<1> QED
  BY <1>3, <1>4 DEF Seated, On

(* The three parts of a message.                                           *)
LEMMA BroadcastInStep ==
  ASSUME RoomTypes, TurnsInv, Apart, ListInv, StreamsInv,
         NEW s \in Session, WorkerStep(s), Doing(s) = "sendall",
         \A b \in Session \ {s} : Doing(b) # "sendall"
  PROVE  StreamsInv'
<1> USE DEF Keep, client, list, Goto, Point
<1>1. s \in told
  BY FirstRequest DEF TurnsInv
<1>2. ~ExitLook(s) /\ \A b \in Session \ {s} : \A t \in Session : ~Amid(b, t)
  BY DEF ExitLook, At, Doing, Amid, On
<1>3. UNCHANGED <<screen, reads, from>>
  BY WorkersLeaveClients
<1>4. CASE SendSize(s) \/ SendHead(s) \/ SendNext(s)
  <2>1. /\ wire' = wire /\ told' = told /\ pc[s] \in {"idle", "head", "next"}
        /\ pc'[s] \in {"idle", "head", "header"}
    BY <1>4 DEF SendSize, SendHead, SendNext, SendTo, Done, At, RoomTypes
  <2>2. \A t \in Session : ~Amid(s, t) /\ ~Amid(s, t)'
    BY <2>1 DEF Amid, On
  <2> QED
    BY <1>1, <1>2, <2>1, <2>2, SilentInStep
<1>5. CASE SendHeader(s) \/ SendName(s) \/ SendText(s)
  <2>1. PICK kind \in {"header", "name", "text"} :
          /\ pc[s] = kind /\ Send(at[s], kind, s) /\ UNCHANGED <<asked, at, told>>
          /\ pc'[s] = IF kind = "header" THEN "name" ELSE IF kind = "name" THEN "text" ELSE "next"
    <3>1. CASE SendHeader(s)
      BY <3>1 DEF SendHeader, At, RoomTypes
    <3>2. CASE SendName(s)
      BY <3>2 DEF SendName, At, RoomTypes
    <3>3. CASE SendText(s)
      BY <3>3 DEF SendText, At, RoomTypes
    <3> QED
      BY <1>5, <3>1, <3>2, <3>3
  <2>2. PICK t : t = at[s]
    OBVIOUS
  <2>3. t \in Session /\ (t \in told \/ Doing(t) = "enter")
    BY <2>1, <2>2, Reached DEF On
  <2>4. /\ \A u \in Session \ {t} : ~Amid(s, u) /\ ~Amid(s, u)' /\ wire'[u] = wire[u]
        /\ Amid(s, t) <=> kind \in {"name", "text"}
        /\ Amid(s, t)' <=> kind \in {"header", "name"}
        /\ Doing(s)' = "sendall"
    BY <2>1, <2>2, <2>3 DEF Amid, On, Doing, Send, RoomTypes
  <2>5. ASSUME NEW u \in Session \ {t}, Straight(u) PROVE Straight(u)'
    <3>1. CASE u # s
      BY <1>2, <2>4, <2>5, <3>1, OthersInStep
    <3>2. CASE u = s
      <4>1. \A b \in Session : (Amid(b, s)' <=> Amid(b, s)) /\ (Amid(b, s) => pc'[b] = pc[b])
        BY <1>2, <2>4, <2>5, <3>2, OthersAmid
      <4>2. wire'[s] = wire[s] /\ told' = told
        BY <2>1, <2>4, <2>5, <3>2
      <4> QED
        BY <1>1, <1>3, <2>5, <3>2, <4>1, <4>2, StraightStays
    <3> QED
      BY <3>1, <3>2
  <2>6. ASSUME Straight(t), t \in told PROVE Straight(t)'
    <3>1. Belongs([kind |-> kind, by |-> s], Finally(wire[t], Now(t)))
      <4>1. CASE kind = "header"
        <5>1. \A b \in Session : ~Amid(b, t)
          BY <1>2, <2>3, <2>4, <4>1
        <5> QED
          BY <2>6, <4>1, <5>1 DEF Straight, Belongs
      <4>2. CASE kind \in {"name", "text"}
        <5>1. Finally(wire[t], Now(t)) = [kind |-> kind, by |-> s]
          BY <2>1, <2>4, <2>6, <4>2 DEF Straight
        <5> QED
          BY <5>1 DEF Belongs
      <4> QED
        BY <2>1, <4>1, <4>2
    <3>2. kind \in DOMAIN Following /\ Send(t, kind, s)
      BY <2>1, <2>2, PartKinds
    <3>3. /\ Fluent(wire[t], Now(t))'
          /\ Finally(wire[t], Now(t))' = Expects([kind |-> kind, by |-> s])
      BY <1>3, <2>3, <2>6, <3>1, <3>2, PartSent
    <3>4. \A b \in Session \ {s} : ~Amid(b, t)'
      BY <1>2, <2>3, OthersAmid
    <3>5. /\ (\A b \in Session : ~Amid(b, t)') => Finally(wire[t], Now(t))'.kind = "header"
          /\ \A b \in Session : Amid(b, t)' => Finally(wire[t], Now(t))' = [kind |-> pc'[b], by |-> b]
      <4>1. CASE kind = "header"
        <5>1. Finally(wire[t], Now(t))' = [kind |-> "name", by |-> s]
          BY <3>3, <4>1, PartKinds DEF Expects
        <5> QED
          BY <2>1, <2>4, <3>4, <4>1, <5>1
      <4>2. CASE kind = "name"
        <5>1. Finally(wire[t], Now(t))' = [kind |-> "text", by |-> s]
          BY <3>3, <4>2, PartKinds DEF Expects
        <5> QED
          BY <2>1, <2>4, <3>4, <4>2, <5>1
      <4>3. CASE kind = "text"
        <5>1. Finally(wire[t], Now(t))'.kind = "header"
          BY <3>3, <4>3, PartKinds DEF Expects
        <5> QED
          BY <2>4, <3>4, <4>3, <5>1
      <4> QED
        BY <2>1, <4>1, <4>2, <4>3
    <3>6. t \in told' /\ screen[t] # "menu"
      BY <2>1, <2>3, <2>6 DEF TurnsInv, Turn
    <3> QED
      BY <1>3, <2>6, <3>3, <3>5, <3>6 DEF Straight
  <2>7. ASSUME Straight(t), t \notin told PROVE Misled(t)'
    <3>1. Doing(t) = "enter" /\ screen[t] = "entering" /\ asked[t] # <<>>
      BY <2>3, <2>7, FirstRequest DEF TurnsInv
    <3>2. kind = "header"
      <4>1. ~Amid(s, t)
        BY <2>7 DEF Straight
      <4> QED
        BY <2>1, <2>4, <4>1
    <3>3. reads[t] \in {"code", "number"}
      BY <2>7, <3>1 DEF Straight
    <3>4. ~Has(wire[t], "number")
      BY <2>3, <3>1 DEF TurnsInv, Answer, Entered
    <3>5. PICK w, v, p : w = wire[t] /\ v = Append(w, p) /\ p = [kind |-> kind, by |-> s]
      OBVIOUS
    <3>6. w \in Seq(Part) /\ p \in Part /\ wire'[t] = v
      BY <2>1, <2>2, <2>3, <3>2, <3>5, PartKinds DEF Send, RoomTypes, Part
    <3>7. /\ Len(v) = Len(w) + 1 /\ Len(w) \in Nat /\ v[Len(v)] = p
          /\ \A i \in 1 .. Len(w) : v[i] = w[i]
      BY <3>5, <3>6, PartAdded, LenProperties
    <3>8. Overtaken(v)
      <4>1. Len(v) \in 1 .. Len(v) /\ v[Len(v)].kind = "header"
        BY <3>2, <3>5, <3>7
      <4>2. ASSUME NEW j \in 1 .. Len(v) - 1 PROVE v[j].kind # "number"
        <5>1. j \in 1 .. Len(w)
          BY <3>7
        <5> QED
          BY <3>4, <3>5, <3>7, <5>1 DEF Has
      <4> QED
        BY <4>1, <4>2 DEF Overtaken
    <3> QED
      BY <1>3, <3>1, <3>3, <3>6, <3>8 DEF Misled
  <2>8. ASSUME NEW u \in Session, Misled(u) PROVE Misled(u)'
    BY <1>3, <2>8, MisledStays, WorkersLeaveClients
  <2> QED
    BY <2>5, <2>6, <2>7, <2>8 DEF StreamsInv
<1> QED
  BY <1>4, <1>5 DEF WorkerStep, Doing, At, Load, EnterAlloc, EnterLook, EnterWalk, EnterFirst, EnterLink,
                    EnterStore, EnterCode, EnterNumber, ExitLook, ExitFind, ExitBehead, ExitUnlink,
                    ExitBye, ExitFree, ExitStore

(* The answer to exit.                                                     *)
LEMMA DepartureInStep ==
  ASSUME RoomTypes, TurnsInv, Apart, StreamsInv, NEW s \in Session, WorkerStep(s), Doing(s) = "exit"
  PROVE  StreamsInv'
<1> USE DEF Keep, client, list, Goto, Point
<1>1. /\ \A b \in Session \ {s} : Doing(b) = "none"
      /\ \A b \in Session : \A t \in Session : ~Amid(b, t)
      /\ asked[s] # <<>>
  BY DEF Apart, Amid, On, Doing
<1>2. UNCHANGED <<screen, reads, from>>
  BY WorkersLeaveClients
<1>3. /\ pc[s] \notin Released => screen[s] = "leaving"
      /\ s \in told <=> pc[s] = "idle"
      /\ screen[s] = "leaving" => asked[s] = <<"exit">>
  BY FirstRequest DEF TurnsInv
<1>4. CASE ExitLook(s)
  <2>1. /\ asked' = asked /\ wire' = wire /\ told' = told \ {s} /\ pc[s] = "idle"
        /\ pc'[s] \in {"behead", "find"}
        /\ \A b \in Session \ {s} : pc'[b] = pc[b]
    BY <1>4 DEF ExitLook, At, RoomTypes
  <2>2. \A b \in Session : Doing(b)' = Doing(b) /\ \A t \in Session : ~Amid(b, t)'
    BY <1>1, <2>1 DEF Doing, Amid, On
  <2>3. ASSUME NEW t \in Session \ {s}, Straight(t) PROVE Straight(t)'
    <3>1. /\ t \in told' <=> t \in told
          /\ On(t, "enter", {"number"})' <=> On(t, "enter", {"number"})
          /\ Left(t)' <=> Left(t)
      BY <1>2, <2>1, <2>2 DEF On, Left
    <3> QED
      BY <1>1, <1>2, <2>1, <2>2, <2>3, <3>1, StraightStays
  <2>4. ASSUME Straight(s) PROVE Straight(s)'
    <3>1. s \in told /\ screen[s] = "leaving" /\ s \notin told'
      BY <1>3, <2>1 DEF Released
    <3>2. Finally(wire[s], Now(s)).kind = "header"
      BY <1>1, <2>4, <3>1 DEF Straight
    <3>3. Now(s)' = Now(s)
      BY <1>2 DEF Now
    <3>4. Fluent(wire[s], Now(s))' /\ Finally(wire[s], Now(s))'.kind = "header"
      BY <2>1, <2>4, <3>2, <3>3 DEF Straight
    <3>5. ~Left(s)'
      BY <1>1, <2>1 DEF Left, On, Released
    <3> QED
      BY <1>2, <2>2, <2>4, <3>1, <3>4, <3>5 DEF Straight
  <2>5. ASSUME NEW t \in Session, Misled(t) PROVE Misled(t)'
    BY <1>2, <2>5, MisledStays, WorkersLeaveClients
  <2> QED
    BY <2>3, <2>4, <2>5 DEF StreamsInv
<1>5. CASE \/ ExitFind(s) \/ ExitBehead(s) \/ ExitUnlink(s)
           \/ ExitFree(s) \/ Load(s, "exit") \/ ExitStore(s)
  <2>1. ~ExitLook(s) /\ pc[s] # "idle"
    BY <1>5 DEF ExitLook, ExitFind, ExitBehead, ExitUnlink, ExitFree, Load, ExitStore, At
  <2>2. wire' = wire /\ told' = told
    BY <1>5 DEF ExitFind, ExitBehead, ExitUnlink, ExitFree, Load, ExitStore
  <2>3. /\ Left(s)' <=> Left(s)
        /\ \A t \in Session : ~Amid(s, t)'
        /\ ~On(s, "enter", {"number"})'
    <3>1. CASE ExitFind(s) \/ ExitBehead(s) \/ ExitUnlink(s)
      <4>1. pc[s] \in {"find", "behead", "unlink"} /\ pc'[s] \in {"find", "unlink", "bye"} /\ asked' = asked
        BY <3>1 DEF ExitFind, ExitBehead, ExitUnlink, At, RoomTypes
      <4> QED
        BY <1>1, <4>1 DEF Left, On, Doing, Released, Amid
    <3>2. CASE ExitFree(s) \/ Load(s, "exit")
      <4>1. pc[s] \in Released /\ pc'[s] \in Released /\ asked' = asked
        BY <3>2 DEF ExitFree, Load, At, RoomTypes, Released
      <4> QED
        BY <1>1, <1>2, <4>1 DEF Left, On, Doing, Amid, Released
    <3>3. CASE ExitStore(s)
      <4>1. pc[s] \in Released /\ pc'[s] = "idle" /\ asked'[s] = Tail(asked[s])
        BY <3>3 DEF ExitStore, Done, At, RoomTypes, Released
      <4>2. \A t \in Session : ~Amid(s, t)' /\ ~On(s, "enter", {"number"})'
        BY <4>1 DEF Amid, On
      <4>3. CASE screen[s] = "leaving"
        <5>1. asked[s] = <<"exit">> /\ Tail(<<"exit">>) = <<>>
          BY <1>3, <4>3
        <5> QED
          BY <1>2, <4>1, <4>2, <4>3, <5>1 DEF Left, On
      <4>4. CASE screen[s] # "leaving"
        BY <1>2, <4>2, <4>4 DEF Left
      <4> QED
        BY <4>3, <4>4
    <3> QED
      BY <1>5, <3>1, <3>2, <3>3
  <2>4. ~On(s, "enter", {"number"})
    BY DEF On
  <2> QED
    BY <1>1, <2>1, <2>2, <2>3, <2>4, SilentInStep
<1>6. CASE ExitBye(s)
  <2>1. /\ Send(s, "exit", s) /\ asked' = asked /\ told' = told /\ pc[s] = "bye" /\ pc'[s] = "free"
        /\ ~ExitLook(s)
    BY <1>6 DEF ExitBye, ExitLook, At, RoomTypes
  <2>2. \A t \in Session : ~Amid(s, t)'
    BY <2>1 DEF Amid, On
  <2>3. ASSUME Straight(s) PROVE Straight(s)'
    <3>1. s \notin told' /\ s \notin told /\ screen[s] = "leaving" /\ ~Left(s)
      BY <1>1, <1>3, <2>1 DEF Left, On, Released
    <3>2. Belongs([kind |-> "exit", by |-> s], Finally(wire[s], Now(s)))
      BY <2>3, <3>1 DEF Straight, Belongs
    <3>3. "exit" \in DOMAIN Following
      BY PartKinds
    <3>4. /\ Fluent(wire[s], Now(s))'
          /\ Finally(wire[s], Now(s))' = Expects([kind |-> "exit", by |-> s])
      BY <1>2, <2>1, <2>3, <3>2, <3>3, PartSent
    <3>5. Finally(wire[s], Now(s))'.kind = "nothing"
      BY <3>4, PartKinds DEF Expects
    <3>6. Left(s)'
      BY <1>2, <2>1, <3>1 DEF Left, On, Doing, Released
    <3>7. \A b \in Session : ~Amid(b, s)'
      BY <1>1, <2>1, <2>2, OthersAmid
    <3> QED
      BY <1>2, <2>3, <3>1, <3>4, <3>5, <3>6, <3>7 DEF Straight
  <2>4. ASSUME NEW t \in Session \ {s}, Straight(t) PROVE Straight(t)'
    <3>1. wire'[t] = wire[t]
      BY <2>1 DEF Send, RoomTypes
    <3> QED
      BY <1>1, <2>1, <2>2, <2>4, <3>1, OthersInStep
  <2>5. ASSUME NEW t \in Session, Misled(t) PROVE Misled(t)'
    BY <1>2, <2>5, MisledStays, WorkersLeaveClients
  <2> QED
    BY <2>3, <2>4, <2>5 DEF StreamsInv
<1> QED
  BY <1>4, <1>5, <1>6 DEF WorkerStep, Doing, At, Load, EnterAlloc, EnterLook, EnterWalk, EnterFirst,
                          EnterLink, EnterStore, EnterCode, EnterNumber, SendSize, SendHead,
                          SendHeader, SendName, SendText, SendNext

LEMMA StreamsInit == RoomInit => StreamsInv
<1> SUFFICES ASSUME RoomInit, NEW s \in Session PROVE Straight(s)
  BY DEF StreamsInv
<1>1. /\ wire[s] = <<>> /\ Len(<<>>) = 0 /\ reads[s] = "nothing" /\ screen[s] = "menu"
      /\ s \notin told /\ \A b \in Session : pc[b] = "idle"
  BY DEF RoomInit, PerSession
<1>2. Fluent(wire[s], Now(s))
  BY <1>1 DEF Fluent
<1> QED
  BY <1>1, <1>2 DEF Straight, Amid, On

LEMMA StreamsNext ==
  ASSUME RoomTypes, TurnsInv, Exclusive, Apart, ListInv, StreamsInv, OneBroadcastAtATime,
         [RoomNext]_roomVars
  PROVE  StreamsInv'
<1>1. ASSUME NEW s \in Session, WorkerStep(s) PROVE StreamsInv'
  <2>1. Doing(s) \in {"enter", "sendall", "exit"}
    BY <1>1 DEF WorkerStep, Doing, At, Load, EnterAlloc, EnterLook, EnterWalk, EnterFirst, EnterLink,
           EnterStore, EnterCode, EnterNumber, SendSize, SendHead, SendHeader, SendName, SendText,
           SendNext, ExitLook, ExitFind, ExitBehead, ExitUnlink, ExitBye, ExitFree, ExitStore
  <2>2. ASSUME NEW b \in Session \ {s}, Doing(s) = "sendall", Doing(b) = "sendall" PROVE FALSE
    <3>1. {Doing(s), Doing(b)} \in Overlap
      BY <2>2, UnderWayTypes DEF Exclusive
    <3>2. {"sendall"} = {"enter", "sendall"}
      BY <2>2, <3>1 DEF OneBroadcastAtATime
    <3> QED
      BY <3>2
  <2> QED
    BY <1>1, <2>1, <2>2, ArrivalInStep, BroadcastInStep, DepartureInStep
<1> QED
  BY <1>1, ClientsInStep DEF RoomNext

(* client.py do_enter, thread_function: if broadcasts do not overlap one   *)
(* another, a client reads whole messages of one sender each, whoever      *)
(* enters meanwhile, and nothing is left for the next command when it has  *)
(* read the exit packet; only one still waiting for the answer to enter    *)
(* can go astray.                                                          *)
THEOREM ReadersInStep ==
  ASSUME OneBroadcastAtATime
  PROVE  RoomSpec => []LobbyInStep
<1>1. RoomInit => StreamsInv
  BY StreamsInit
<1>2. OneComesAtATime
  BY DEF OneBroadcastAtATime, OneComesAtATime
<1>3. /\ RoomTypes /\ TurnsInv /\ Exclusive /\ ListInv
      /\ StreamsInv /\ [RoomNext]_roomVars
      => StreamsInv'
  BY <1>2, StreamsNext, ExclusiveApart
<1>4. StreamsInv => LobbyInStep
  BY DEF StreamsInv, Straight, Misled, LobbyInStep
<1>5. RoomSpec => [](RoomTypes /\ TurnsInv /\ Exclusive /\ ListInv)
  BY <1>2, ListInvariant
<1> QED
  BY <1>1, <1>3, <1>4, <1>5, PTL DEF RoomSpec
=============================================================================
