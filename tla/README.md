# A verification project for basic_jqr

This directory holds TLA+ models of the programs in this repository, the TLC runs
that check them on small instances, and TLAPS proofs for every value of their
constants. The repository is a collection of C and Python written for a course. Its
largest program is a chat server with a client, where threads, shared state,
persistence and a protocol meet; around it stand an older FTP server, a library of
data structures, two games, and many small exercises. A C file without a path is
one of `src/chat_server/Src/Src`, and `client.py` is `src/chat_server/Src/client.py`.

## The system

| part | state it keeps | operations | talks to | modules |
|---|---|---|---|---|
| accept loop (`server.c`, `main`) | `quit`, `session_id`, listening socket | create the threads, load the accounts, accept, enqueue, join, save | kernel, queue, workers | `WorkerPool` |
| connection queue (`pool_queue.c`) | `head`, `tail`, nodes | `enqueue`, `dequeue`, both under `mutex` | main and workers | `WorkerPool`, `ClientDispatch` |
| workers (`chat.c`, `thread_function`, `handle_connection`) | one `client_info` each | take a connection, serve its requests until it ends, free it | queue, handlers | `WorkerPool` |
| accounts (`my_ht.c`; `chat.c`, `user_*`, `get_creds`, `write_creds`) | hash table, `accounts.txt`, `perms` and `uname` of a session | log in, create, delete, load, save | handlers, file library | `UserTable`, `AccountStore` |
| lobbies and chat (`chat.c`, `lobby_operation` ... `list_members`) | list of lobbies, each with a list of members; two kinds of counters | create, list, enter, destroy; send to all, send to one, exit, list members | every worker, without a lock; sockets of other sessions | `Lobbies`, `ChatRoom` |
| remote files (`chat.c`, `put_file`, `make_directory`, `delete_remote`) | the directory | put, mkdir, delete | file system | `RemoteFiles` |
| client (`client.py`) | prompt, session number, `Lobby` loop, receiver thread | one command per request | server | inside each of these |
| sockets (`netlib.c`), file library (`file_lib.c`) | sockets, `FILE *` | create sockets, with a receive timeout; open, read, write, delete | main; accounts, remote files | what they do, inside the users |
| older FTP server (`jqr_stuff/ftp/server.c`, `client/client2.py`) | a connection, the directory | log in, get, dir | its client | `FtpTransfer` |
| stack (`data_structures/stack/stack.c`) | nodes, `root`, `size` | push, pop, peek, find, pop_nth, destroy | callers | `Stack`, `LinkedCells`, `ItemSequence` |
| circular list (`data_structures/circle/circle_link.c`) | nodes, `head`, `last`, `size` | insert, remove and peek at both ends and by index, find, sort, destroy | callers | `CircularList`, `LinkedCells`, `ItemSequence` |
| AVL tree (`data_structures/tree/avl.c`) | nodes | insert, remove, search, destroy | callers | `AvlTree`, `KeySet` |
| priority queue (`data_structures/graph/pqueue.c`) | array, `size`, `max_size` | enqueue, dequeue, peek, find_data | graph | `PriorityQueue` |
| graph, Dijkstra (`data_structures/graph/*.c`) | adjacency lists; `dist`, `par` | add edges, remove vertices, find; shortest path | queue | `Graph`, `Dijkstra` |
| adventure (`exercises/C/3.1.22/src/game.c`) | health, coins, bag, enemy | travel, explore, use, drop, buy, sell, fight | player, random numbers | `Adventure` |
| pong (`exercises/C/3.1.22/src/pong/pong.c`) | ball, paddles, scores, state | a frame | keys | `Pong` |

Hard behaviours, by part:

- queue and workers: eleven threads on one linked list; a pool that is smaller than
  the number of clients; accept and recv that end by a timeout or by a signal that
  only one thread sees; a shutdown that has to join everybody before it saves.
- lobbies and chat: a client remembers a number, the server finds lobby and member
  again by scanning for that number and a name, so every request rests on an
  agreement between three lists, two counters and what the client was told earlier;
  and ten workers do all this on the same lists without a lock, while what they send
  arrives on sockets that a command and a receiver thread take turns in reading.
- accounts: probing with wrap-around and without tombstones; a table that grows while
  it grows; a file that is emptied before it is written.
- file transfers: checks that are made one system call before they are used, answers
  that are sent before the work is done, and streams in which reader and writer
  disagree about the length of an answer.
- data structures: relinking at both ends, deletion with rotations, growth of an
  array, edges that stand twice.
- games: unsigned numbers reduced by random ones, a ball that grows faster than a
  paddle is wide, a frame that ends a game and goes on.

What makes each part correct: every accepted connection is served once, in order,
and the accounts are saved at the end (pool); client and server agree on who is in
which lobby, messages reach exactly the people they are for, and no command waits
for an answer that never comes (lobbies and chat); the table and the file together
behave like a set of accounts that lasts (accounts); a file holds what one client
sent, and each command reads its own answer (transfers); a list is a sequence and a
tree a set, and neither loses memory (data structures); nothing wraps around, and what
is won has been earned (games).

## Modules

Each program part has a module named for it; a module `MC...` gives it small constants and,
where parts are alike, lets one run check several of them: a behaviour then picks one of
them at the start and the others keep still. `..._proofs` modules hold theorems.

### WorkerPool, ClientDispatch

`WorkerPool` has main and the workers as processes with a program counter each
(`mpc`, `pc[w]`). Every read or write of `head`, `tail` and `next` is a step, so that
it is the mutex and not the model that keeps `enqueue` and `dequeue` apart:
`EnqueueAlloc`, `EnqueueLink`, `EnqueueTail` are the three writes of `enqueue`,
`DequeueEmpty`, `DequeueHead`, `DequeueFree` the branches of `dequeue`. `Linked` is
what can be reached by pointers of allocated nodes. `AcceptClient`,
`AcceptOutOfMemory` and `AcceptFails` are the outcomes of `accept` and `calloc`;
`RecvOpcode` and `RecvEnds` those of `recv`. `Interrupt(t)` is SIGINT in thread `t`:
`quit` is set, and the system call of that one thread ends (`SA_RESTART` is not set).
The worker's `sleep(1)` is a delay and left out, and so is what a handler does for its
client, which the modules below model. For the pool a handler has three outcomes: it ends
(`HandleRequest`); it ends the process (`HandlerKills`, after which `killed` holds and nobody
moves), by SIGPIPE in a send to a client that has gone (`chat.c` 1811-1813, 1967) or a read
through NULL (1573, 1952, 1963); or it takes no step and its worker stays where it is, in a
`recv` for the rest of a request or a `send` without a timeout. Nothing obliges it to end;
`HandlersEnd` is a premise of the two liveness properties and not part of the fairness.

`ClientDispatch` is what the pool promises: connections wait, each is taken by a
worker that serves nobody, oldest first, and is over. It has neither threads nor
pointers. `WorkerPool` implements it (`DispatchesInOrder`) under
`waiting <- Linked, serving <- held, served <- finished`.

### Lobbies

One action is one command of `client.py`: the request, the whole handler, and the
client's reading of the answer. State: the list of lobbies with their members,
`lobby_num`, `lobby_size` and `lobs->size`, each session's `client_info.uname`, and on the
client's side the prompt, which loop it is in, the number it was told and whether its
receiver thread runs. `out` records what the last request sent, and to whom.

Names are sequences of letters, because three places in the code depend on their
letters: `strncmp` with the request's length in `enter_lobby`, the `memcpy` of a new
name over an old one in `user_login`, and the blank at the end of the name that
`do_sendall` sends. `send_all` compares with a byte-swapped length, which makes its
`strncmp` an exact comparison.

`Habits` says what users do besides the ordinary: delete lobbies, log in again, log in
twice under one name, hang up in a lobby. What holds for all habits is checked for
all of them; the rest is checked for users who have none.

### ChatRoom

One lobby while the workers of its members run at the same time. Each access of
`enter_lobby`, `send_all` and `exit_room` to the list of members is a step, and so is each
`send` and the load and the store of `lobby_size++`. A node is named for the session it
belongs to, `alive` are the nodes that are allocated. On the other side of each socket
(`wire`) the client reads part after part, as `do_enter` and then the receiver thread
do, and goes "astray" when a part comes that it does not expect.

`Overlap` names the pairs of requests that may be under way together; the code has no
lock, so the set is a question and not a feature of it. With three users and five
requests (four for what holds in the last row, which has too many states) TLC gives for each pair:

| pair | what holds | what breaks |
|---|---|---|
| enter, send to all | everything (the run `room`) | - |
| enter, enter | `LobbyInStep`, `NobodyWaits` | a link is overwritten: `MembersKept`, `OnlyLiveNodes`, `BroadcastArrives` (the run `room_enter`) |
| enter, exit | `LobbyInStep`, `NobodyWaits` | `MembersKept`, `OnlyLiveNodes`, `BroadcastArrives` |
| exit, exit | `BroadcastArrives`, `LobbyInStep`, `NobodyWaits` | `MembersKept`, `OnlyLiveNodes` |
| send to all, exit | `MembersKept`, `BroadcastArrives`, `NobodyWaits` | the broadcast follows a freed node, and its message reaches a client at the menu: `OnlyLiveNodes`, `LobbyInStep` |
| send to all, send to all | `MembersKept`, `OnlyLiveNodes`, `BroadcastArrives`, `NobodyWaits` | parts of two messages mix on one socket: `LobbyInStep` |

Even where everything holds, a client that is still waiting for the answer to `enter`
may be misled by a broadcast that overtakes it (it is linked at 1532 and answered
later); `LobbyInStep` and `NobodyWaits` say that this is the one exception.

### UserTable, AccountStore

`UserTable` is `my_ht.c` entry by entry (`Probe`, `Put`, `Lookup`, `RemoveEntry`), one
`Put` per step. `hash_table_insert` and `resize` call each other: `Insert` puts an account and, when that fills
the table, replaces it by an empty larger one and puts what was in it in front of the accounts still to be inserted
(`pending`), which `InsertNext`, the loops of `resize` and `get_creds`, takes one by one; a request is answered when none is left
(`Serving`). The other actions are the start without a file (`FirstStart`, `CreateFile`, `WriteDefaults`) and with one
(`Start`, `ReadAll`), the end (`Stop` opens and so empties the file,
`Save` writes it), a kill at any time (`Crash`), and the account requests with all
their answers. A name is a model value; its hash and the names that start with it
are constants, since the table depends on nothing else about it. Up to eight records
fit in one stdio buffer, so `Save` is one write.

`AccountStore` is what that promises: a set of accounts with unique names that
outlives restarts. `UserTable` implements it (`ActsAsStore`) when nobody deletes an
account and nobody kills the server, even though the table overcounts its size,
grows while it grows and is rebuilt in another order at each start.

### RemoteFiles

Clients with a connection and a worker each; the directory is what they share. A
worker's action has one system call on the directory, with what is the worker's own before
or after: `put_file` looks whether the file is there, `PutCreate` opens and so empties it and
answers, `PutClose` writes the text; `make_directory` looks, `MakeMkdir` makes; `delete_remote`
may refuse and goes on, `DeleteRefused` and `DeleteRemove` end it. Refusals are made from the header
alone and leave the rest of the request in `up`, where `handle_connection` takes it byte by byte for opcodes.
Bytes of names and texts are none (`SkipBytes`), but of the header of a `get` or a `mkdir`, for which
there is no opcode, the length of the name and the last byte of the session's number may be: `mkdir` of a name
with three letters reaches `make_directory`, which finds a wrong session and says so. `do_get` and `do_mkdir`
choose what the worker takes their request for (`as`): nothing, a request on accounts, a removal, or one of
the others. `RefuseOther` is the answer of those, since the session or the flag they read is none of theirs;
`AwaitLogin` and `LoginTakes` are the flag zero, a login that waits for a name and a password and takes
them from what the client sends next; `BadHeader` is the removal. `astray` marks a client that has used `ls` or was answered twice. Answers
are six bytes, and each byte knows (`of`) for which command it is the answer, so that the
model can say whether a command reads its own. A file is a sequence of blocks, each marked with who
wrote it; `made`, `writer` and `mixed` are history for the properties. The client's
commands read as `client.py` does: six bytes, or one and then the rest.

### FtpTransfer

One connection of the older FTP server with `client2.py`. Both sides read what has arrived,
up to as many bytes as they ask for; a stream consists of words of four bytes,
credentials, names and packets. Where a side would have to take a name or a packet for
numbers, what it does is unknown, and it is "astray" from then on. Login with any
credentials, `dir`, and `get` of a file (empty ones too), of a directory, which `fopen` opens but from which
nothing can be read (`NothingToRead`), of a name that is not there (`Missing`), and without a
name (`Nothing`), where the client announces one byte and sends none (`NameSent`), so that
both sides wait.

### ItemSequence, LinkedCells, Stack, CircularList, Lists

`Stack` and `CircularList` are the C functions on allocated cells with their pointers, one
action per function; `malloc` fails when no cell is free (`LinkedCells`). `stack_said` and `list_said`
are the last call and its answer. `ItemSequence` is what both promise: a sequence of items, insertion and
removal at a place, sorting, and the answers these have. Each implements it under
`items <- StackItems` and `items <- view_list`, which follow the pointers. `Lists` has both, and the
property `NodesAccounted` of both.

Callers may call any function at any time with any place from 0 to one past the end (`Farthest`), and
none is kept from a call that goes wrong. `find` and `pop_nth` count to `n - 1` and `n - 2` in an unsigned
type, so `find(0)`, `pop_nth(0)` and `pop_nth(1)` walk off the stack (`WalksOff`, after which `stack_lost` holds).
The functions of the list follow pointers without a look at them: `GoesAstray` and `GoesAstrayAt` are the calls that meet
NULL or a freed node, or whose loop does not end (then `list_lost` holds). Its `last` is left behind by `remove_back`,
by an insertion or a removal of the last node by index, and by a removal of the only one, and a later call that uses it
writes into a freed node or breaks the ring; an index past the end goes round it. `list_use` is history that
records this: "closed" while `last` is the last node, "open" once a call has left it behind, "misused" when
a call relied on it then, or on a place that does not exist (`Uses`). `ListActsAsSequence` and `OneRing`
say what holds until the first misuse, and that no other call goes astray.

`sort_list` is the merge sort of the code on the row of cells between `head` and NULL: `merge_sort`
and `sorted_merge` are recursive functions, from the shorter rows to the longer, and from the front of
the merged row to its end. `Relinked` is what the assignments to `next` in both leave.

### KeySet, AvlTree

`AvlTree` has trees as nested records and the functions of `avl.c` as recursive
functions on the set of the trees that `Room` nodes allow, rotations included; `KeySet` is the set of keys a tree stands for, with the
answers of `insert_node`, `remove_node` and `search` (two of them odd, as its heading says).

### PriorityQueue, Graph, Dijkstra

`PriorityQueue` is the sorted array with its growth. `Graph` has the adjacency lists with each
edge twice, `remove_node` with its early returns, and what it frees; `destroy_graph` is what
its calls of `remove_node` leave, no edge. `Dijkstra` is the search on both, one call of
the queue per step: `Begin` creates arrays and queue, `Fill` looks at one vertex of the first loop,
`Extract` takes the top, `Relax` looks at one of its list nodes, and `print_path` follows the
parents. `find_data` is asked with a list node in place of a queue entry; the constant `AsDist`
is what it then reads.

### Adventure, Pong

An action of `Adventure` is a turn: a choice from a menu and everything up to the next
menu, with random numbers as choices. `drop_item` frees an item that stays linked;
from then on (`dangling`) whatever reads the bag ends in the scene "undefined". An action
of `Pong` is a frame: keys, the computer's paddle, the ball and the score. The numbers in the
code are constants, and their dependencies (a paddle and the ball are as high as the bands
of the angle table) the assumption `PongAssumption`.

## Runs

| run | instance | shows |
|---|---|---|
| pool_safety | 3 workers (symmetric), 3 connections | `ExclusiveService`, `NoClientLost`, `QueueShape`, the inductive invariant `PoolInv`, the refinement `DispatchesInOrder` |
| pool_liveness | 2 workers, 3 connections, `FairSpec` | `ShutdownSavesAccounts`: SIGINT leads to the saved file if no handler is held up for ever and none ends the process; `QueuedIsServed`: whoever is queued gets a worker, if clients leave, too |
| lobbies_counters | 2 sessions, all habits | `Counted`, `ListsFramed` |
| lobbies_plain | 3 sessions, no habits | `ServerStaysUp`, `NumbersArePositions`, `MembershipAgrees`, `MessagesReach`, `NobodyStuck` |
| room | 3 users, 5 requests; enter and send to all overlap | `ListKept`, `BroadcastArrives`, `LobbyInStep`, `NobodyWaits` |
| users_store | 4 names, 2 passwords, 3 levels | the refinement `ActsAsStore` |
| users_churn | 4 names, deletions and kills | `TableSound`, `StartKeepsAccounts`, `DeletesOne` |
| transfers | `RemoteFiles`: 2 clients with permissions 3 and 2, or 1 and 0, one name, texts of 1 or 2 blocks, 3 commands. `FtpTransfer`: files of 0, 1 and 2 packets and a directory of 4, 3 commands | `InStep`, `MadeOnce`, `FileIsOnePut`, `FtpInStep`, `AllAnswered` |
| structures | 4 cells and 2 items (lists), 7 keys and 6 nodes (tree), 3 vertices, weights 1 and 3, 6 list nodes (graph), 5 entries (queue) | the refinements `StackActsAsSequence`, `ListActsAsSequence`, `TreeActsAsSet`; `NodesAccounted`, `TreeIsBalanced`, `InOrder`, `Symmetric`, `PathsFromZeroEnd` |
| games | `Adventure`: 6 items, a bag that takes 3 in its time, 4 enemies. `Pong`: a screen of 32 by 20, a ball and bands that let it go steeply, a limit of 3 | `AdventureInv`, `CoinsAreEarned`, `BallInPlay`, `ScoresFair`, `BallNearScreen` |

Two runs have a violation as their result. Each states what a comment or a help text of the
repository says, and TLC shows a behaviour of the code that differs:

| run | the text | the code |
|---|---|---|
| users_login | "stored and validated during login" (`server.c` 31) | a deletion cuts the probe chain of another account, which cannot log in until the next restart |
| room_enter | "sends a message to everyone that is in the same lobby" (`client.py` 987) | two workers find the lobby empty, each sets its client as the first member, one of them is overwritten and one of the two `++` of `lobby_size` lost (`chat.c` 1514-1517); both clients were told that they entered, and a message of one ends at "only one person in lobby" (1795) |

Further differences the models contain, without a run of their own:

- pool: the listening socket has the receive timeout too, and a quiet period ends the accept
  loop for good (`server.c` 234, against its line 3); with `-t 0` a worker in `recv` never notices SIGINT
  sent to another thread; a connection waits for one of ten workers, which keep their client until it leaves;
  a handler that meets SIGPIPE or NULL ends the server, and the accounts of that run are not saved; one that is held up in a
  `send` or `recv` keeps `pthread_join` waiting.
- lobbies: destroy looks at the size of the lobby before the one it deletes (`chat.c`
  1595, against `client.py` 418), reads through NULL when there is none, and does not answer when it does not
  know the name; after a deletion two lobbies have the same number, and messages go to the first (`chat.c` 1394, against `server.c` 37);
  a broadcast comes back to its sender, whose name comes with a blank that nobody has
  (`chat.c` 1803); `enter_lobby` takes an older lobby whose longer name starts with the name asked
  for; a user logged in twice leaves with one session and is taken out with the other.
- accounts: deleting a name that starts a colliding account's name deletes that account; a kill
  between `Stop` and `Save` leaves an empty file, and the next start ends in a NULL dereference.
- remote files: `delete_remote` refuses a user and serves the request all the same (`chat.c`
  1196, against `client.py` 873); `ls` makes a directory (`client.py` 651 ff.); `get` and `mkdir` send opcodes that no
  worker knows and wait for an answer (`client.py` 475, 753), which comes only if a byte of their header is taken for
  another opcode, or if the next commands fill the login it is taken for.
- older FTP server: it takes four of the eight bytes of an acknowledgement and any later bytes for
  the acknowledgements of packets (`jqr_stuff/ftp/server.c` 333, 344), so that after a file client and server are out of step;
  a `get` without a name blocks the client and the server (`client2.py` 71-86, `server.c` 298), and after a `get` of a directory
  the client waits for packets that do not come (`file_lib.c` 30, `server.c` 351-356).
- stack: `find(0)`, `pop_nth(0)` and `pop_nth(1)`, the last of which names the top, walk off the list (`stack.c` 103, 124).
- circular list: `remove_back` leaves `last` on the node it returns, so that `insert_back` then writes into what the caller has freed
  (`circle_link.c` 109, 226-230); `insert_at` past the end warns and inserts all the same (129-132); removals and sorting do not
  look whether the list is empty, and sorting does not end when `last` is not the last node.
- graph: `find_node` reads through NULL if a vertex below the one it looks for has no edge, as after
  `remove_node(0)` (`graph.c` 118-119).
- Dijkstra: the top of the queue is the entry with the largest distance, so the source is extracted
  last and no distance is ever improved (`dijkstra.c` 82, 133); a search from a source other
  than 0 may follow parents for ever (187), which the phase "hung" stands for.
- pong: the ball leaves the screen above and below; a ball beyond the upper or lower edge is turned in every frame until it is back (`pong.c` 188-192), and a
  paddle that overlaps the edge may hit it there and send it further out; `BallNearScreen` says how far.
- adventure: `drop_item` frees an item that the bag still leads to (`game.c` 235).

Bounds. Three connections are the least with which a queue of two builds up behind a
busy worker, so that `enqueue` appends to a list of more than one while a `dequeue` runs; three
workers the least with which two compete while one holds a connection. Two lobbies are
the least for a wrong lobby, and for a predecessor; three sessions for a broadcast
with a bystander, and in `ChatRoom` for one who comes while another sends to a third; five requests
let two users be there, a third come, and two broadcasts. Two names of different length
show what a second login leaves of
the first; lobby names of which one starts the other. The hash
values make all names collide in a table of three (the capacity is 20 in the code) and
collide in pairs, one of them wrapping around the end, in the tables of nine and
seventeen that it grows to; the fourth account is enough for the growth inside a
growth. One file name is the most contended directory, two blocks let a short text lie over
a longer one, three commands a put, a removal and a put again; three packets or fewer
cover an empty file, the last packet and one before it. Four
cells are a first, a last and two inner nodes, and one place past the end is enough for an index to go round the ring;
a directory of four packets has more than one to wait for; six nodes and seven keys contain every single and
double rotation after insertions and after deletions, with and without a subtree to pass on;
three vertices a removed one whose two neighbours have an edge. In the games the numbers are
scaled down and keep their proportions: a ball that becomes faster than a paddle is wide, a paddle with two
steep bands on each side, enemies that one blow kills and that survive one, and a special item
that can be afforded or not; and the screen is large enough for the ball to be hit beyond an edge by one
paddle and, on its way back, by the other, which smaller screens do not show. `MaxConn`, `MaxLobbies`, `MaxTable`, `MaxAccounts`, `NewLevel`, `MaxRequests`,
`MaxCommands`, `MaxFtpCommands`, `MaxLength`, `Farthest`, `MaxNodes`, `Room`, `Cell`, `MaxItems`, `MaxHealth`, `MaxCoins` and `MaxSpeed` are the
bounds; each is a guard of one action or the set a quantifier ranges over. `RemoteFiles` assumes fewer than 256
sessions, so that of a session's number only the last byte can be an opcode; `FtpTransfer` that no name is both that of a file and of a directory.

Fairness. `ThreadFairness` is weak fairness of main and of each worker's own steps, which
the kernel's scheduler gives, and strong fairness of taking the mutex, which is held
for a few instructions, while whoever releases it sleeps a second or blocks in a system
call before it asks again. A handler has no fairness, for the code gives it none: a `send` has no timeout, and two handlers may break a
list that one of them walks. That handlers come to an end, one way or another, once their `recv` does (there is a
timeout, or the client has gone) is `HandlersEnd`, a premise inside `ShutdownSavesAccounts` and `QueuedIsServed`. Clients owe nothing, so `RecvOpcode` and
`HangUp` have no fairness either; that clients leave in the end is a premise of `QueuedIsServed`. In `RemoteFiles`
and `FtpTransfer` the two programs on each connection are run by a scheduler, and
users owe nothing: weak fairness of the worker's or server's and of the client's steps. Deadlock checking is off where users need not go on: `room`, `room_enter`,
`transfers`, `games` and `structures` (whose bounds stop them). In `Lobbies` the action `Over` stands for the ends that
are legitimate.

## Proofs

`WorkerPool_proofs` proves for any finite or infinite set of workers and any bounds

- `PoolInvariant`: `Spec => []PoolInv`, and from it
- `PoolTypes`, `ExclusiveServiceHolds`, `NoClientLostHolds`, `QueueShapeHolds`,
- `WorkerPoolRefinesClientDispatch`: `Spec => Dispatch!Spec`.

None of the properties is inductive alone: they speak of the nodes reached by pointers
and say nothing about half-done operations. The argument is that main numbers connections in
the order in which it links them. So the list is always the interval from `head` to
`LastLinked` (`ListInv`), `tail` is its end except in the two places where it lags behind
(`TailInv`), whatever is below the interval has been taken (`HoldingInv`), and only the thread
that holds the mutex is in one of those places (`MutexInv`). `LinkedIsInterval` turns reachability into the interval, and
the rest is arithmetic. In the refinement, `EnqueueLink` is `Submit`, `DequeueHead` is
`Take`, `FreeClient` is `Finish`, and all other steps stutter.

`Lobbies_proofs` proves for any sessions, names, bound and habits

- `LobbiesTypes`: `Spec => []TypeOK`,
- `CountersAgree`: `Spec => []Counted`, which is inductive together with `TypeOK`,
- `ListsAreFramed`: `Spec => []ListsFramed`, which follows from it, since the server sends the counter and the list,
- `NumbersAreUnique`: `Spec => []NumbersArePositions` if `"destroy"` is not among the habits;
  it needs `Counted`, because a new lobby's number is `size + 1`;

and for users without habits (`Habits = {}`: they log in once, under different names,
leave before they go, and delete no lobby; with any habit there are behaviours in
which the properties fail)

- `ServerSurvives`, `NobodyIsStuck` and `MembershipHolds`: `ServerStaysUp`, `NobodyStuck`
  and `MembershipAgrees`,
- `BroadcastsReach` and `MessagesArrive`: the two parts of `MessagesReach`. The first
  assumes that no name is another with a blank behind, since the sender's name comes
  with one; the second that no user's name starts another's, since an error answer goes to the first
  member whose name starts with the sender's. The names of the run satisfy both.

The last five follow from `MembershipInv`. It joins the server's lists to what each
client believes: the members of a lobby are sessions that are there under the name the lobby knows
(`MemberIsThere`), once (`ListedOnce`), and whoever believes to be in a lobby is on the
list with that number (`WhoIsThereIsListed`). It is inductive only together with
`NumbersArePositions`, for without it a request finds another lobby than the one entered, and with
the difference of the names, since members are removed by name. The messages are then an
action-level argument: `out` is computed from lists of which the invariant says who is on them.

The proofs rest on lemmas about the operators: `FirstOfProperties` (a scan from the head
stops at its first find), `WithoutAtProperties` (a list without one element),
`OverlayIsName`, `AdmittedProperties` and `LeftProperties` (a lobby with a member more or less).

`ChatRoom_proofs` proves the four properties of the run for any number of sessions, each under the
overlaps it needs:

- `NobodyIsKeptWaiting`: `NobodyWaits`, whatever overlaps. `TurnsInv` relates the label a worker is at
  to the request it serves and to what its client waits for.
- `ListIsKept` and `BroadcastsComplete`: `ListKept` and `BroadcastArrives`, if arrivals overlap with
  broadcasts and broadcasts with one another, and nothing else
  (`Overlap \subseteq {{"enter", "sendall"}, {"sendall"}}`). By the matrix above each further pair
  breaks one of the two. `ListInv` says that there is a sequence of sessions which is the list:
  head and links follow it (`IsList`), whoever was told that it is in the lobby has a seat, the counter is its length
  but for an arrival between load and store, each walking worker stands at one of its places
  (`Cursor`), and a broadcast has sent to those before its place and owes those behind (`Owes`). An arrival appends to
  the sequence, a departure takes one out, and each does so in one step.
- `ReadersInStep`: `LobbyInStep`, if arrivals and broadcasts overlap but not two broadcasts. `StreamsInv`
  says of each client that it is `Straight` (what it expects after reading what is on its wire is
  what the workers are about to send) or `Misled` (a broadcast overtook the answer to `enter`, and
  that answer is still to come or to be read).

`UserTable_proofs` proves for any sessions, names, hashes, passwords and bounds, for any capacity of two or more, and with kills and
deletions unless a premise excludes them

- `TableStaysSound`: `Spec => []TableSound`, so that every probe ends,
- `StartsKeepAccounts`: `Spec => []StartKeepsAccounts`: a start ends with the accounts of the file, no more and no fewer, each found by its name
  (or an account with a longer one that starts with it), and dies only when the file has no admin,
- `DeletionsRemoveOne`: `Spec => DeletesOne`: one account goes, named as asked or longer, and no other moves,
- `AccountsLast`: `Spec => ActsAsStore`, the refinement of `AccountStore`, when there are no habits (`Habits = {}`: no
  deletion and no kill) and no name starts another.

`UserInv` holds the first three together. `Sized` says that the table has at most `size` accounts and fewer than `max`, so a
NULL entry is left; a deletion keeps that, since it leaves `size` alone, and the growth keeps it because `2 * max - 1` exceeds `size`.
While a start loads the file nothing has been removed, hence every account stands where a probe for
its name passes no NULL entry (`Chained`), and what the file has is in the table or pending (`LoadInv`): a
table that is replaced puts its accounts back into `pending`. `StoreInv` adds that names are unique in table and `pending` together, with which an account
that a lookup finds is the one of that name. `InOrder` is a recursive function; `RecursionExists` shows for functions of its kind
that they are what their equation says, by induction over an interval, and `ToSet` of it is the contents of the table.

`Transfers_proofs` proves of `RemoteFiles` for any clients with any permissions, any names and lengths

- `FilesInvariant`: `Spec => []FilesInv`, and from it
- `DirectoriesMadeOnce` and `FilesAreOnePut`.

`FilesInv` adds to the two what happens between two steps of a put: `HandleInv` says that a file is open
only from `PutCreate` to `PutClose` and that one open under its name is there, `WrittenInv` that a
file which two puts never had open at once is empty while one has it open, and else holds what the last one brought.
The types (`DirectoryTypes`, `WorkerTypes`) include the requests in the streams, because a worker takes its name and length from there.
`OverProperties` is the lemma that a text written over an empty file is that text.

- `ClientsStayInStep`: `Spec => []InStep`, from `StreamsInv`. For a client that never used `ls` and had no delete refused for the
  permission, whatever a `get` or a `mkdir` of its is taken for, a request is
  in exactly one of three places: in the stream to the worker, with the worker, or answered
  in the stream back (`OneConversation`), so whatever the client reads belongs to the command it gave last.

Of `FtpTransfer` it proves `FirstFileArrives`: `FtpSpec => []FtpInStep` for any finite directory, any sizes and
any number of commands. Nothing is claimed of what comes after a directory was opened, and the invariant has a case for it (`asked \in Directory`). Its invariant has one phase for each thing the two programs can be doing together:
`LoggingIn`, `AtRest`, `Getting`, `Listing`, `Showing`, `Arriving`, `FileIsThere`. Two of them are delicate. The
server takes four of the eight bytes of an acknowledgement for each packet, so while a file is on its way the words in the stream,
those the server still waits for and the packets that came are related by a sum (`Flowing`). When the file is
there, words are left over; the invariant says that there are some until the client's next command, which is
why nothing is claimed about that. The assumption `FtpAssumption` has one condition on the packet
size, 1024 in the code: that it is not the code of a request, as which it is then read.

`Games_proofs` proves of the adventure game `AdventureInvariant` for any items, tables, enemies and bounds, and from it its parts
(`NothingUnderflows`, `BagStaysInOrder`, `WinningIsPaidFor`) and the action properties `CoinsEarned` and `EnemiesWeaken`. The
four parts need each other: a blow is subtracted only after a comparison that means something for naturals, and the
item that is used is the one in the bag with that index. `RemoveAtProperties` and `WithoutProperties` say what taking an item out
leaves, `RoundProperties` what a round of a fight does.

Of pong it proves `PongInvariant` for every size of screen, ball and paddle that the assumption
allows and without a bound on the speed that matters, and from it `BallStaysInPlay`, `ScoresStayFair` and
`PaddleStaysOnScreen`. `BallInPlay` is inductive because of the teleport: `BouncedInPlay` shows that a ball that was turned is in front of the
paddle, however far it had got. `ScoresFair` needs `AtLimitServed`: the frame that ends a game moves a ball that has just been served, so it cannot score.
`BallStaysNear` proves `BallNearScreen`. That the ball stays near an edge is not inductive, because a paddle may hit it
beyond the edge and send it further out. The argument counts how often: a paddle hits only a ball it reaches, the player's paddle overshoots
the screen by less than a step and the computer's not at all, and a ball on its way to the left was sent by
the player, one on its way to the right by the computer or served. So an edge is passed by the reach of the player's paddle and one steep
step, and by another one if the computer hits it too (`Held`, `Away`).

`Structures_proofs` is about the modules `PriorityQueue`, `Graph`, `Dijkstra` and `AvlTree`. Of the first three it proves

- `QueueStaysInOrder`: `QueueSpec(size) => []InOrder` for any entries and a size of two or more. It grows when one
  place is left, and the first entry is put in without a look at that; so a queue made for one never grows, and its second entry is
  written past the array (`pqueue.c` 72-75).
- `GraphStaysSymmetric`: `GraphSpec => []Symmetric`, which also says when `find_node` meets NULL. The invariant is that each edge has its twin with the same weight, and
  each vertex an edge to another only once, while no edge was added twice (`Twins`, `Once`).
- `PathsEnd` and `SearchKeepsOrder`: `PathsFromZeroEnd` and `InOrder` of the search on a graph. `SearchInv`
  says where the search stands: the queue has the source in front of entries that are infinitely far, so
  it leaves last (`Filling`, `Crawling`); what is looked at before has the distance `INT_MAX` and improves nothing, and
  when the source is looked at the queue is empty.
- `NothingImproves`: no step of a search, `Begin` apart, changes a distance or a parent. No run checks this one.

They use the queue's order in the form that every two entries are in order (`Sorted`), because an
insertion in the middle makes new neighbours.

Of the tree it proves, for any keys and any number of nodes,

- `TreeStaysBalanced`: `TreeSpec => []TreeIsBalanced`,
- `TreeIsSet`: `TreeSpec => TreeActsAsSet`, the refinement of `KeySet`.

That the tree is balanced is not inductive alone: after an insertion the code finds the rotation by comparing the new key with
that of a child, which tells the right side only in a search tree, and after a removal by the balance of the child. The
invariant `Good` is a balanced search tree (`Ordered`: what is to the left of a node is smaller, what is to the right greater).
`LeftLeft`, `RightRight`, `LeftRight` and `RightLeft` say of each rotation that a good tree comes out, with the same keys and
at most one lower; `AfterInsertBalances` and `AfterDeleteBalances` that the code chooses the one that fits; `InsertKeepsGood` and
`DeleteKeepsGood` follow by induction on trees (`TreeInduction`), with the height in the statement, since the caller
relies on it: an insertion makes a tree at most one higher, a removal at most one lower. `InsertAgain`: a key that is there changes nothing.
`FindsKeys` says that the loop of `search` decides membership, `NoKeyTwice` that the keys in preorder are distinct, and
`HeightWithinSize` that a tree of fewer than `Room` nodes can take another without leaving the set of trees on which the functions are defined.

`Lists_proofs` shows for any cells, however many, and any items that the linked cells do what a list promises:

- `StackIsSequence`: `StackSpec => StackActsAsSequence`, the refinement of `ItemSequence` until a call walks off. A push is an `Insert` at the front, a `pop` or
  `pop_nth` a `Take` at its place, `peek` and `find` are a `Show`, `destroy_stack` is `Clear`, `create_stack` is `Create`, and what the code
  turns down is `Refuse`.
- `ListIsSequence`: `ListSpec => ListActsAsSequence`, the same for the circular list until it is misused, where insertions and removals
  are at both ends and in the middle, and `sort_list` is `Sort`: the same items, the greatest first.
- `NoCellLeaked`: `StackSpec => []NothingLeaked`, and `NodesStayAccounted`: `StackSpec /\ ListSpec => []NodesAccounted`:
  what is allocated is what is reached, each cell once.

`StackInv` says that there is a sequence of distinct cells which is the stack (`IsStack`): all that is allocated, as long as `stack_size`, each
cell linked to the next; and that nothing is allocated without a stack. `ListInv` says the same of the circular list (`IsRow`), as long as
it is not misused, and that no call has gone astray. It says nothing of the last cell unless `list_use` is "closed": then the ring is closed where `last`
points (`Intact`), and `IntactClosed` shows that this is the end of the row. `NoneStrays` says that a call on such a list goes astray only by misusing it. The items are read along a recursive function, `Down` or
`Ahead`; `WalkIsAlong` and `RowWalk` show that it goes along this sequence, so that nothing else has to look into the recursion.
`CellPushed`, `CellTaken`, `CellPutIn` and `CellTakenOut` relate a cell put in or taken out to `InsertAt` and `RemoveAt` on the items.

For the sort, `TakenBounds` says that after `n` steps a merge has taken from each of the two rows no more than there is and that what it takes next
belongs next; `MergeSorts` that two sorted rows of different cells become one sorted row with the cells of
both; `SortSorts` that `merge_sort` of a row is such a row, by induction on its length, of which `Halves` says that both halves are shorter.
These, like the induction on trees, are inductions up to a bound: a set of the numbers, or of the trees, where the statement fails has a least
element. `SortsAll` turns the sorted row into the links, and into the permutation that `Sort` asks for.

The assumptions are those of the modules: main is no worker, `Nobody` is nobody, bounds are naturals, names are
non-empty sequences, the long name and the server's directory are not among the names, the tables of the
games have their types, in pong the numbers fit together as the code's do, files are finitely many, distances are integers,
and no sum of weights along a path overflows; keys and the items of lists are integers, and NULL is no cell; the two default accounts have different names, and "no file" is not a sequence of accounts. Where a theorem has a premise of its own it is named above.

Proved and not in a run: the type invariants of `WorkerPool` (inside `PoolInv`) and `Lobbies`, `PongInv` (whose last part, `AtLimitServed`, only serves
the proof), `PaddleOnScreen`, `EnemyWeakens`, `NothingImproves`, and the inductive invariants of `Lobbies`, `ChatRoom`,
`RemoteFiles`, `FtpTransfer`, `UserTable` and the data structures, which are stated next to their proofs.

Every invariant and every action property that a run checks is a theorem, and so is every refinement, under the premises named above. Only model-checked are the
liveness properties (`ShutdownSavesAccounts`, `QueuedIsServed`, `AllAnswered`), which need fairness and with it ENABLED; and of
`ChatRoom` the other rows of the matrix, which say which property holds under an overlap that breaks others. The two runs with a violation
refute what they check, so there is nothing to prove.

## Not modelled

- Overlapping handlers of accounts: a worker that grows the table while another looks up
  a name reads freed entries (`my_ht.c` 119). `UserTable` lets requests take turns. In `ChatRoom` only one lobby and
  three requests overlap; create, list and destroy, which walk the list of lobbies, do not.
- Short reads and writes: what one `send` writes arrives in one piece (`FtpTransfer` and the answers in
  `RemoteFiles` excepted, where the reader may take part of it).
- `list_it` and `get_file` of `chat.c`, which nothing calls.
- A refused `create_user` leaves name and password unread; their bytes are then taken
  for opcodes, and printable ones name no operation. `RemoteFiles` has this step (`SkipBytes`), `UserTable` does not.
- In `FtpTransfer` what the client itself cannot open for writing (`get .`), which ends it.
- The buffer for the doge's name in the adventure, whose terminator may be written one past its end (`game.c` 305).
- Numbers above 255, for which `lobby_num` has one byte; names of nine bytes and more.
- The login loop of the older FTP server on a closed connection, where `recv` returns 0 for ever
  (`jqr_stuff/ftp/server.c` 85), and a directory that changes while `list_it` reads it twice (241, 262).
- The distances of Dijkstra's search: they are not computed, as described above, so there is nothing to state about them.
- Earlier copies of `netlib.c`, `file_lib.c`, `my_ht.c` and `pqueue.c` with their drivers; the course exercises,
  small and unrelated, many of them stubs; drawing, texts, pauses and logging; third-party code (a vendored Python environment).

## Plan

1. `WorkerPool`, `ClientDispatch` - done, with proofs and liveness.
2. `Lobbies` - done, with proofs of all its invariants.
3. `UserTable`, `AccountStore` - done, with proofs of all its properties.
4. `ChatRoom` - done for one lobby, with the matrix of overlaps and proofs for the overlaps that are safe. Left: the list of lobbies.
5. `RemoteFiles`, `FtpTransfer` - done, with proofs of all their invariants.
6. Data structures - done, with refinements, and proofs of all their properties.
7. `Adventure`, `Pong` - done, with proofs of all their invariants.
