------------------------------- MODULE Lobbies -------------------------------
(***************************************************************************)
(* The lobbies of the chat server and the people in them: lobby_operation  *)
(* and chat_operation of chat.c with the handlers they call, driven by the *)
(* commands client.py offers (its Session menu and its Lobby loop).        *)
(*                                                                         *)
(* One action is one request: the client's command, the whole handler, and *)
(* the client's reading of the answer.  Requests take turns here, as they  *)
(* do when the workers happen not to overlap; the server takes no lock, so *)
(* this is the best case of its schedules.                                 *)
(*                                                                         *)
(* A name is a short sequence of letters: the handlers compare names by    *)
(* prefix, logging in overwrites the front of the old one, and sendall     *)
(* adds a blank, so what a name is made of matters.                        *)
(***************************************************************************)
EXTENDS Integers, Sequences, FiniteSets

CONSTANTS
  Session,     \* connections, each served by a worker
  UserName,    \* names of accounts with permission 1 or more
  LobbyName,   \* names users give to lobbies
  MaxLobbies,  \* bound: lobbies that exist at a time
  Habits       \* what users do besides logging in once, entering, talking and leaving

Blank == " "
IsName(n) == n \in Seq(STRING) /\ n # <<>>

ASSUME LobbiesAssumption ==
  /\ \A n \in UserName \cup LobbyName : IsName(n)
  /\ \A n \in UserName : Len(n) <= 8    \* enter_lobby keeps a name in nine bytes
  /\ MaxLobbies \in Nat
  /\ Habits \subseteq {"destroy", "relogin", "twice", "hangup"}

VARIABLES
  lobbies,   \* the linked list, in order
  size,      \* lobs->size
  uname,     \* client_info.uname of each session, up to the first NUL
  prompt,    \* the client's own idea of its name; <<>> before it logs in
  screen,    \* what the client shows
  room,      \* the lobby_num the client was told when it entered
  reading,   \* the client's receiver thread is running
  down,      \* the server process has died
  out        \* what the last request made the server send

server == <<lobbies, size, uname, down>>
client == <<prompt, screen, room, reading>>
vars   == <<server, client, out>>

Screen == {"menu", "lobby", "leaving", "waiting", "gone"}

\* A record of the last request: to has the sessions a chat packet was sent to, by
\* places, count and entries the number a list announces and the records that follow.
Sent(op, s, to, count, entries, text) ==
  [op |-> op, by |-> s, to |-> to, count |-> count, entries |-> entries, text |-> text]
Reply(op, s, text) == Sent(op, s, <<>>, 0, 0, text)

Names == Seq(STRING)
Member == [name : Names, fd : Session]
Lobby  == [name : Names, num : Nat, size : Int, clients : Seq(Member)]

Init ==
  /\ lobbies = <<>>
  /\ size = 0
  /\ uname = [s \in Session |-> <<>>]
  /\ prompt = [s \in Session |-> <<>>]
  /\ screen = [s \in Session |-> "menu"]
  /\ room = [s \in Session |-> 0]
  /\ reading = [s \in Session |-> FALSE]
  /\ down = FALSE
  /\ out = [op |-> "none"]

-----------------------------------------------------------------------------
(* Helpers *)

IsPrefixOf(n, m) == Len(n) <= Len(m) /\ SubSeq(m, 1, Len(n)) = n

\* memcpy of the new name over the old one, whose end stays behind
Overlay(new, old) == new \o SubSeq(old, Len(new) + 1, Len(old))

\* The first index a scan of the list from its head stops at
FirstOf(S) == CHOOSE i \in S : \A j \in S : i <= j

WithoutAt(seq, i) == SubSeq(seq, 1, i - 1) \o SubSeq(seq, i + 1, Len(seq))

ByNumber(k)     == {i \in 1 .. Len(lobbies) : lobbies[i].num = k}
ByName(n)       == {i \in 1 .. Len(lobbies) : lobbies[i].name = n}
ByPrefix(n)     == {i \in 1 .. Len(lobbies) : IsPrefixOf(n, lobbies[i].name)}

\* Mutant: name_len is compared and the name is not
MembersAsLong(i, n) == {k \in 1 .. Len(lobbies[i].clients) : Len(lobbies[i].clients[k].name) = Len(n)}
MembersNamed(i, n) == {k \in 1 .. Len(lobbies[i].clients) : lobbies[i].clients[k].name = n}

LoggedIn(s) == prompt[s] # <<>>
AtMenu(s)   == ~down /\ screen[s] = "menu"
InLobby(s)  == ~down /\ screen[s] = "lobby"

\* A send to a client that has gone may raise SIGPIPE, which nobody catches
SendMayFail(to) == {FALSE} \cup {TRUE : k \in {j \in DOMAIN to : screen[to[j]] = "gone"}}

-----------------------------------------------------------------------------
(* The Session menu *)

\* user_login: the server copies the name, the client makes a prompt of it
Login(s, u) ==
  /\ AtMenu(s)
  /\ LoggedIn(s) => "relogin" \in Habits
  /\ "twice" \in Habits \/ \A t \in Session \ {s} : prompt[t] = u => screen[t] = "gone"
  /\ uname' = [uname EXCEPT ![s] = Overlay(u, @)]
  /\ prompt' = [prompt EXCEPT ![s] = u]
  /\ out' = Reply("login", s, u)
  /\ UNCHANGED <<lobbies, size, down, screen, room, reading>>

\* Every lobby operation of a client with permission 0 is answered with 0x03
NotPermitted(s) ==
  /\ AtMenu(s)
  /\ ~LoggedIn(s)
  /\ out' = Reply("refused", s, <<>>)
  /\ UNCHANGED <<server, client>>

\* Mutant: lobbies are numbered from 0
NewLobbyFromZero(n) == [name |-> n, num |-> size, size |-> 0, clients |-> <<>>]
\* create_lobby: appended under the number size + 1
NewLobby(n) == [name |-> n, num |-> size + 1, size |-> 0, clients |-> <<>>]
CreateLobby(s, n) ==
  /\ AtMenu(s) /\ LoggedIn(s)
  /\ Len(lobbies) < MaxLobbies
  /\ lobbies' = Append(lobbies, NewLobby(n))
  /\ size' = size + 1
  /\ out' = Reply("create", s, n)
  /\ UNCHANGED <<uname, down, client>>

\* list_lobbies: the count, then one record per lobby
ListLobbies(s) ==
  /\ AtMenu(s) /\ LoggedIn(s)
  /\ out' = Sent("list", s, <<>>, size, IF size = 0 THEN 0 ELSE Len(lobbies), <<>>)
  /\ UNCHANGED <<server, client>>

\* Mutants: lobby_size++ is missing; the client is told how many lobbies there are
AdmittedUncounted(l, s) ==
  [l EXCEPT !.clients = Append(@, [name |-> uname[s], fd |-> s])]
NumberToldIsSize(i) == size

\* enter_lobby: the first lobby whose name starts with the one asked for takes
\* the client in at the end of its list and tells it the lobby's number
Admitted(l, s) ==
  [l EXCEPT !.clients = Append(@, [name |-> uname[s], fd |-> s]), !.size = @ + 1]
NumberTold(i) == lobbies[i].num
EnterLobby(s, n) ==
  /\ AtMenu(s) /\ LoggedIn(s)
  /\ ByPrefix(n) # {}
  /\ LET i == FirstOf(ByPrefix(n)) IN
       /\ lobbies' = [lobbies EXCEPT ![i] = Admitted(@, s)]
       /\ room' = [room EXCEPT ![s] = NumberTold(i)]
       /\ out' = Sent("enter", s, <<>>, i, 0, n)
  /\ screen' = [screen EXCEPT ![s] = "lobby"]
  /\ reading' = [reading EXCEPT ![s] = TRUE]
  /\ UNCHANGED <<size, uname, down, prompt>>

EnterUnknown(s, n) ==
  /\ AtMenu(s) /\ LoggedIn(s)
  /\ ByPrefix(n) = {}
  /\ out' = Reply("failed", s, n)
  /\ UNCHANGED <<server, client>>

\* destroy_lobby looks at the size of the head when it removes the head, and
\* otherwise at the size of the lobby before the one it removes
Guarding(i) == IF i = 1 THEN 1 ELSE i - 1
DestroyLobby(s, n) ==
  /\ AtMenu(s) /\ LoggedIn(s)
  /\ "destroy" \in Habits
  /\ ByName(n) # {}
  /\ LET i == FirstOf(ByName(n)) IN
       IF lobbies[Guarding(i)].size > 0
         THEN /\ out' = Reply("occupied", s, n)
              /\ UNCHANGED <<lobbies, size>>
         ELSE /\ lobbies' = WithoutAt(lobbies, i)
              /\ size' = size - 1
              /\ out' = Sent("destroyed", s, <<>>, lobbies[i].size, 0, n)
  /\ UNCHANGED <<uname, down, client>>

\* destroy_lobby of a name nobody has: no answer, and the client waits for one;
\* on an empty list the first l->name_len is a NULL dereference
DestroyUnknown(s, n) ==
  /\ AtMenu(s) /\ LoggedIn(s)
  /\ "destroy" \in Habits
  /\ ByName(n) = {}
  /\ down' = (lobbies = <<>>)
  /\ screen' = [screen EXCEPT ![s] = "waiting"]
  /\ out' = Reply("silence", s, n)
  /\ UNCHANGED <<lobbies, size, uname, prompt, room, reading>>

-----------------------------------------------------------------------------
(* The Lobby loop.  Every handler looks for the lobby by the client's number. *)

\* do_sendall names the sender by its prompt, blank included; send_all skips
\* the members with exactly that name.  What it sends, by places in the list:
Broadcast(s) == Append(prompt[s], Blank)
Audience(i, n) ==
  [k \in {j \in 1 .. Len(lobbies[i].clients) : lobbies[i].clients[j].name # n}
     |-> lobbies[i].clients[k].fd]

\* Mutant: two members count as one
AloneInPair(i) == lobbies[i].size <= 2

Alone(i) == lobbies[i].size = 1
SendAll(s) ==
  /\ InLobby(s)
  /\ LET to == IF ByNumber(room[s]) = {} \/ Alone(FirstOf(ByNumber(room[s])))
                 THEN <<>>
                 ELSE Audience(FirstOf(ByNumber(room[s])), Broadcast(s))
     IN  /\ out' = Sent("all", s, to, 0, 0, <<>>)
         /\ down' \in SendMayFail(to)
  /\ UNCHANGED <<lobbies, size, uname, client>>

\* send_direct: to the first member of that name, or else an error to the first
\* member whose name starts with the sender's
Addressee(i, s, u) ==
  LET starting == {k \in 1 .. Len(lobbies[i].clients) :
                     IsPrefixOf(prompt[s], lobbies[i].clients[k].name)}
  IN  CASE MembersNamed(i, u) # {} -> <<lobbies[i].clients[FirstOf(MembersNamed(i, u))].fd>>
        [] MembersNamed(i, u) = {} /\ starting # {} -> <<lobbies[i].clients[FirstOf(starting)].fd>>
        [] OTHER -> <<>>
SendDirect(s, u) ==
  /\ InLobby(s)
  /\ LET alone == ByNumber(room[s]) = {} \/ Alone(FirstOf(ByNumber(room[s])))
         i     == FirstOf(ByNumber(room[s]))
         to    == IF alone THEN <<>> ELSE Addressee(i, s, u)
         op    == IF ~alone /\ MembersNamed(i, u) = {} THEN "nobody" ELSE "direct"
     IN  /\ out' = Sent(op, s, to, 0, 0, u)
         /\ down' \in SendMayFail(to)
  /\ UNCHANGED <<lobbies, size, uname, client>>

\* Mutants: lobby_size-- is missing; the head goes whoever was found
LeftUncounted(l, k) == [l EXCEPT !.clients = WithoutAt(@, k)]
LeftHead(l, k) == [l EXCEPT !.clients = WithoutAt(@, 1), !.size = @ - 1]

\* exit_room takes the first member with the client's name off the list and sends
\* the request back to it; the receiver thread that reads it ends.  do_exit leaves
\* the loop at once and waits for the client's own receiver.
Left(l, k) == [l EXCEPT !.clients = WithoutAt(@, k), !.size = @ - 1]
ExitRoom(s) ==
  /\ InLobby(s)
  /\ ByNumber(room[s]) # {}
  /\ LET i == FirstOf(ByNumber(room[s])) IN
       /\ MembersNamed(i, prompt[s]) # {}
       /\ LET k == FirstOf(MembersNamed(i, prompt[s]))
              t == lobbies[i].clients[k].fd
              still == [reading EXCEPT ![t] = FALSE]
          IN  /\ lobbies' = [lobbies EXCEPT ![i] = Left(@, k)]
              /\ reading' = still
              /\ screen' = [c \in Session |->
                              CASE c = s -> IF still[s] THEN "leaving" ELSE "menu"
                                [] c # s /\ c = t /\ screen[t] = "leaving" -> "menu"
                                [] OTHER -> screen[c]]
              /\ out' = Sent("exit", s, <<t>>, 0, 0, <<>>)
              /\ down' \in SendMayFail(<<t>>)
  /\ UNCHANGED <<size, uname, prompt, room>>

\* Nobody in the lobby has the client's name: the scan runs off the end of the list
ExitOffTheEnd(s) ==
  /\ InLobby(s)
  /\ ByNumber(room[s]) # {}
  /\ MembersNamed(FirstOf(ByNumber(room[s])), prompt[s]) = {}
  /\ down' = TRUE
  /\ out' = Reply("silence", s, <<>>)
  /\ UNCHANGED <<lobbies, size, uname, client>>

\* No lobby has the client's number: nothing happens, nothing is sent
ExitNowhere(s) ==
  /\ InLobby(s)
  /\ ByNumber(room[s]) = {}
  /\ screen' = [screen EXCEPT ![s] = IF reading[s] THEN "leaving" ELSE "menu"]
  /\ out' = Reply("silence", s, <<>>)
  /\ UNCHANGED <<server, prompt, room, reading>>

\* list_members: the size, then one record per member
ListMembers(s) ==
  /\ InLobby(s)
  /\ ByNumber(room[s]) # {}
  /\ LET l == lobbies[FirstOf(ByNumber(room[s]))]
     IN  out' = Sent("list", s, <<>>, l.size, Len(l.clients), <<>>)
  /\ UNCHANGED <<server, client>>

\* A client quits or dies.  The server keeps it in its lobby.
HangUp(s) ==
  /\ "hangup" \in Habits
  /\ ~down /\ screen[s] # "gone"
  /\ screen' = [screen EXCEPT ![s] = "gone"]
  /\ reading' = [reading EXCEPT ![s] = FALSE]
  /\ out' = Reply("silence", s, <<>>)
  /\ UNCHANGED <<server, prompt, room>>

\* The server is down, or no client is left that can send a command
Over ==
  /\ down \/ \A s \in Session : screen[s] \in {"gone", "waiting", "leaving"}
  /\ UNCHANGED vars

-----------------------------------------------------------------------------
Next ==
  \/ \E s \in Session :
       \/ NotPermitted(s) \/ ListLobbies(s)
       \/ SendAll(s) \/ ExitRoom(s) \/ ExitOffTheEnd(s) \/ ExitNowhere(s) \/ ListMembers(s)
       \/ HangUp(s)
       \/ \E u \in UserName : Login(s, u) \/ SendDirect(s, u)
       \/ \E n \in LobbyName :
            \/ CreateLobby(s, n) \/ EnterLobby(s, n) \/ EnterUnknown(s, n)
            \/ DestroyLobby(s, n) \/ DestroyUnknown(s, n)
  \/ Over

Spec == Init /\ [][Next]_vars

-----------------------------------------------------------------------------
(* Properties *)

TypeOK ==
  /\ lobbies \in Seq(Lobby)
  /\ size \in Int
  /\ uname \in [Session -> Names]
  /\ prompt \in [Session -> UserName \cup {<<>>}]
  /\ screen \in [Session -> Screen]
  /\ room \in [Session -> Nat]
  /\ reading \in [Session -> BOOLEAN]
  /\ down \in BOOLEAN

\* The two kinds of counters agree with the lists they count, whatever the users
\* do: lobbies.size with the list of lobbies, lobby_size with the members.
Counted ==
  /\ size = Len(lobbies)
  /\ \A i \in 1 .. Len(lobbies) : lobbies[i].size = Len(lobbies[i].clients)

\* A list announces as many records as follow; client.py reads that many.
ListsFramed == out.op = "list" => out.count = out.entries

\* The rest is about users who log in once, under different names, leave their
\* lobby before they go, and delete no lobby.

\* No handler walks off a list.
ServerStaysUp == ~down

\* A lobby keeps the number under which its place in the list is found.
NumbersArePositions == \A i \in 1 .. Len(lobbies) : lobbies[i].num = i

\* The places in the lists where a session is: <<lobby, member>>
Places == UNION {{i} \X (1 .. Len(lobbies[i].clients)) : i \in 1 .. Len(lobbies)}
MemberAt(e) == lobbies[e[1]].clients[e[2]]
Entries(s) == {e \in Places : MemberAt(e).fd = s}

\* Client and server agree on who is where: a client in a lobby is on the list of
\* the lobby with its number, once, under its name; any other is on no list.
MembershipAgrees ==
  \A s \in Session :
    IF screen[s] = "lobby"
      THEN \E e \in Places :
             /\ Entries(s) = {e}
             /\ e[1] \in ByNumber(room[s])
             /\ MemberAt(e).name = prompt[s]
      ELSE Entries(s) = {}

Copies(t) == Cardinality({k \in DOMAIN out.to : out.to[k] = t})

\* "sends a message to everyone that is in the same lobby" (client.py 987): all the
\* others in the sender's lobby get it, once, and nobody outside does.
BroadcastReachesRoom ==
  out.op = "all" =>
    \A t \in Session \ {out.by} :
      Copies(t) = IF screen[t] = "lobby" /\ room[t] = room[out.by] THEN 1 ELSE 0

\* "sends a message to a specific user in the lobby": a direct message reaches the
\* one user of that name, and an error comes back only when nobody has it.
DirectReachesNamed ==
  LET named == {t \in Session : screen[t] = "lobby" /\ room[t] = room[out.by]
                                  /\ prompt[t] = out.text}
  IN  /\ out.op = "direct" /\ out.to # <<>> => \E t \in named : out.to = <<t>>
      /\ out.op = "nobody" => named = {} /\ out.to = <<out.by>>

\* Both kinds of messages reach whom they are for, and nobody else.
MessagesReach == BroadcastReachesRoom /\ DirectReachesNamed

\* Whoever leaves gets the packet that ends its receiver; nobody waits for an
\* answer that does not come.
NobodyStuck == \A s \in Session : screen[s] \notin {"leaving", "waiting"}
=============================================================================
