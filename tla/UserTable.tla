------------------------------ MODULE UserTable ------------------------------
(***************************************************************************)
(* The accounts of the chat server: the hash table of my_ht.c, the file    *)
(* accounts.txt that get_creds reads at the start and write_creds rewrites *)
(* at the end (chat.c), and the requests that use them, user_login,        *)
(* create_user and delete_user (chat.c).                                   *)
(*                                                                         *)
(* Requests take turns: the table has no lock, and what overlapping        *)
(* requests do to it is not modelled.  A name is a model value; its hash   *)
(* and which names start with it are constants, because the table and its  *)
(* strncmp tell names apart by nothing else.                               *)
(***************************************************************************)
EXTENDS Integers, FiniteSets, Sequences, SequencesExt

CONSTANTS
  Session,
  Name,
  Admin, Phteven,   \* the names of the two accounts of a first start
  Password,
  DefaultPassword,
  Hash,             \* of a name, before it is taken modulo the capacity
  Longer,           \* for a name, the other names that start with it
  Absent,           \* there is no accounts.txt
  Capacity,         \* TABLE_SIZE of chat.c
  MaxTable,         \* bound: accounts are created in tables up to this capacity
  MaxAccounts,      \* bound: accounts that exist at a time
  NewLevel,         \* bound: the levels of the accounts that users create
  Habits            \* what happens besides logins, creations and restarts

Level == 1 .. 3
Account == [name : Name, passwd : Password, perms : Level]

ASSUME UserTableAssumption ==
  /\ {Admin, Phteven} \subseteq Name /\ Admin # Phteven
  /\ DefaultPassword \in Password
  /\ Hash \in [Name -> Nat]
  /\ Longer \in [Name -> SUBSET Name]
  /\ Absent \notin Seq(Account)
  /\ Capacity \in Nat \ {0, 1}
  /\ MaxTable \in Nat
  \* Eight records fit in one stdio buffer, which fclose writes at once
  /\ MaxAccounts \in 2 .. 8
  /\ NewLevel \subseteq Level
  /\ Habits \subseteq {"delete", "deleteAdmin", "crash"}

Nil == [name |-> "nil"]   \* a NULL entry

VARIABLES
  ht,      \* the table: entries, size and max of struct hashtable
  pending, \* the accounts still to be inserted: what is left of the file, and
           \* of every smaller table that is being emptied
  file,    \* the records of accounts.txt, or Absent
  phase,   \* off, defaults and first (inserting, then writing the default
           \* accounts), reading (the file), up, or saving
  perms,   \* client_info.perms of each session
  out      \* the last request, or the start of the server, and how it ended

vars == <<ht, pending, file, phase, perms, out>>

-----------------------------------------------------------------------------
(* my_ht.c *)

EmptyTable(max, size) == [entries |-> [i \in 0 .. max - 1 |-> Nil], max |-> max, size |-> size]

Occupied(t) == {i \in 0 .. t.max - 1 : t.entries[i] # Nil}
Contents(t) == {t.entries[i] : i \in Occupied(t)}

\* The k-th entry a probe for the name looks at: index += 1, and 0 after the last
Probe(t, n, k) ==
  LET index == (Hash[n] % t.max) + k IN IF index < t.max THEN index ELSE index - t.max

\* strncmp(entry, key, strlen(key)) = 0: the entry's name starts with the key
Matches(a, n) == a.name = n \/ a.name \in Longer[n]

\* Where a probe for the name ends: the first entry that is NULL or one of those
\* it looks for.  A probe of a full table without one of them does not end.
Ends(t, n, wanted) == {k \in 0 .. t.max - 1 : t.entries[Probe(t, n, k)] \in wanted \cup {Nil}}
ProbeEnd(t, n, wanted) ==
  Probe(t, n, CHOOSE k \in Ends(t, n, wanted) : \A j \in Ends(t, n, wanted) : k <= j)

FreeSlot(t, n) == ProbeEnd(t, n, {})
SlotOf(t, n)   == ProbeEnd(t, n, {a \in Contents(t) : Matches(a, n)})

Lookup(t, n) == t.entries[SlotOf(t, n)]

Put(t, a) == [t EXCEPT !.entries[FreeSlot(t, a.name)] = a, !.size = @ + 1]

\* Mutant: a full table is still in order
OverfullLater(t) == t.size > t.max

\* size / max > .5 is an integer division: 0 until size reaches max
Overfull(t) == t.size \div t.max >= 1

\* Mutant: the loop stops before the last entry
AllButLast(t) ==
  LET upto[i \in 0 .. t.max - 1] ==
        IF i = 0 THEN <<>>
        ELSE IF t.entries[i - 1] = Nil THEN upto[i - 1]
        ELSE Append(upto[i - 1], t.entries[i - 1])
  IN  upto[t.max - 1]

\* The accounts of a table in the order of its entries
InOrder(t) ==
  LET upto[i \in 0 .. t.max] ==
        IF i = 0 THEN <<>>
        ELSE IF t.entries[i - 1] = Nil THEN upto[i - 1]
        ELSE Append(upto[i - 1], t.entries[i - 1])
  IN  upto[t.max]

\* hash_table_insert, up to the loop of resize.  The two call each other: a table
\* may grow again while the accounts of a smaller one are put into it, which then
\* wait behind those of the larger one; size counts every one of them again.
Insert(a, rest) ==
  LET put == Put(ht, a)
  IN  \/ ~Overfull(put) /\ ht' = put /\ pending' = rest
      \/ Overfull(put) /\ ht' = EmptyTable(2 * put.max - 1, put.size) /\ pending' = InOrder(put) \o rest

\* Mutant: the account after the removed one goes, too
RemoveNext(t, n) ==
  [t EXCEPT !.entries[SlotOf(t, n)] = Nil, !.entries[(SlotOf(t, n) + 1) % t.max] = Nil]

\* remove_entry: the entry becomes NULL, size stays
RemoveEntry(t, n) == [t EXCEPT !.entries[SlotOf(t, n)] = Nil]

-----------------------------------------------------------------------------
(* accounts.txt *)

Default(n, level) == [name |-> n, passwd |-> DefaultPassword, perms |-> level]
Defaults == <<Default(Admin, 3), Default(Phteven, 2)>>

Records(t) == InOrder(t)

Event(op) == [op |-> op]
Answer(op, s, code) == [op |-> op, by |-> s, code |-> code]

NoPerms == [s \in Session |-> 0]

Init ==
  /\ ht = EmptyTable(Capacity, 0)
  /\ pending = <<>>
  /\ file = Absent
  /\ phase = "off"
  /\ perms = NoPerms
  /\ out = Event("none")

\* The loops of get_creds and of resize
InsertNext ==
  /\ pending # <<>>
  /\ Insert(Head(pending), Tail(pending))
  /\ UNCHANGED <<file, phase, perms, out>>

\* get_creds without a file: the default accounts ...
FirstStart ==
  /\ phase = "off" /\ file = Absent
  /\ pending' = Defaults
  /\ phase' = "defaults"
  /\ out' = Event("none")
  /\ UNCHANGED <<ht, file, perms>>

\* ... and a new, still empty, file
CreateFile ==
  /\ phase = "defaults" /\ pending = <<>>
  /\ file' = <<>>
  /\ phase' = "first"
  /\ UNCHANGED <<ht, pending, perms, out>>

\* main prints the account it looks up under "admin" without having one
Started ==
  /\ IF Lookup(ht, Admin) = Nil
       THEN phase' = "off" /\ out' = Event("died") /\ ht' = EmptyTable(Capacity, 0)
       ELSE phase' = "up" /\ out' = Event("start") /\ UNCHANGED ht
  /\ UNCHANGED <<pending, perms>>

WriteDefaults ==
  /\ phase = "first"
  /\ file' = Defaults
  /\ Started

\* get_creds with a file
Start ==
  /\ phase = "off" /\ file # Absent
  /\ pending' = file
  /\ phase' = "reading"
  /\ out' = Event("none")
  /\ UNCHANGED <<ht, file, perms>>

ReadAll ==
  /\ phase = "reading" /\ pending = <<>>
  /\ Started
  /\ UNCHANGED file

\* The server is up, and no insertion is going on
Serving == phase = "up" /\ pending = <<>>

\* main has joined the workers: write_creds opens the file, which empties it
Stop ==
  /\ Serving
  /\ phase' = "saving"
  /\ file' = <<>>
  /\ perms' = NoPerms
  /\ out' = Event("none")
  /\ UNCHANGED <<ht, pending>>

\* write_creds writes and closes it, destroy_ht frees the table
Save ==
  /\ phase = "saving"
  /\ file' = Records(ht)
  /\ phase' = "off"
  /\ ht' = EmptyTable(Capacity, 0)
  /\ out' = Event("none")
  /\ UNCHANGED <<pending, perms>>

\* The process is killed
Crash ==
  /\ "crash" \in Habits
  /\ phase # "off"
  /\ phase' = "off"
  /\ ht' = EmptyTable(Capacity, 0)
  /\ pending' = <<>>
  /\ perms' = NoPerms
  /\ out' = Event("none")
  /\ UNCHANGED file

-----------------------------------------------------------------------------
(* user_operation *)

\* user_login
Login(s, n, p) ==
  /\ Serving
  /\ LET a == Lookup(ht, n) IN
       IF a # Nil /\ a.passwd = p
         THEN /\ perms' = [perms EXCEPT ![s] = a.perms]
              /\ out' = Answer("login", s, "ok")
         ELSE /\ UNCHANGED perms
              /\ out' = [op |-> "login", by |-> s, code |-> "failed", name |-> n, passwd |-> p]
  /\ UNCHANGED <<ht, pending, file, phase>>

\* An account of a level above the session's own: nothing is read, 0x03 is answered
CreateRefused(s, level) ==
  /\ Serving
  /\ perms[s] < level
  /\ out' = Answer("create", s, "permission")
  /\ UNCHANGED <<ht, pending, file, phase, perms>>

\* Mutant: create_user does not look for the name
CreateUserUnchecked(s, n, p, level) ==
  /\ Serving
  /\ perms[s] >= level
  /\ Cardinality(Occupied(ht)) < MaxAccounts /\ ht.max <= MaxTable
  /\ Insert([name |-> n, passwd |-> p, perms |-> level], <<>>)
  /\ out' = Answer("create", s, "ok")
  /\ UNCHANGED <<file, phase, perms>>

\* create_user; the answer follows the insertion, and no request comes between
CreateUser(s, n, p, level) ==
  /\ Serving
  /\ perms[s] >= level
  /\ IF Lookup(ht, n) # Nil
       THEN out' = Answer("create", s, "exists") /\ UNCHANGED <<ht, pending>>
       ELSE /\ Cardinality(Occupied(ht)) < MaxAccounts /\ ht.max <= MaxTable
            /\ Insert([name |-> n, passwd |-> p, perms |-> level], <<>>)
            /\ out' = Answer("create", s, "ok")
  /\ UNCHANGED <<file, phase, perms>>

\* delete_user of a session without permission 3; a client that has not logged in
\* does not know its session number
DeleteRefused(s) ==
  /\ Serving
  /\ perms[s] < 3
  /\ out' = Answer("delete", s, IF perms[s] = 0 THEN "session" ELSE "permission")
  /\ UNCHANGED <<ht, pending, file, phase, perms>>

\* delete_user: look for the name, then remove_entry looks for it again
DeleteUser(s, n) ==
  /\ "delete" \in Habits
  /\ n = Admin => "deleteAdmin" \in Habits
  /\ Serving
  /\ perms[s] = 3
  /\ LET a == Lookup(ht, n) IN
       IF a = Nil
         THEN out' = Answer("delete", s, "failed") /\ UNCHANGED ht
         ELSE /\ ht' = RemoveEntry(ht, n)
              /\ out' = [op |-> "delete", by |-> s, code |-> "ok", name |-> n, removed |-> a.name]
  /\ UNCHANGED <<pending, file, phase, perms>>

-----------------------------------------------------------------------------
Next ==
  \/ FirstStart \/ CreateFile \/ WriteDefaults \/ Start \/ ReadAll \/ InsertNext \/ Stop \/ Save \/ Crash
  \/ \E s \in Session :
       \/ DeleteRefused(s)
       \/ \E level \in NewLevel : CreateRefused(s, level)
       \/ \E n \in Name :
            \/ DeleteUser(s, n)
            \/ \E p \in Password :
                 Login(s, n, p) \/ \E level \in NewLevel : CreateUser(s, n, p, level)

Spec == Init /\ [][Next]_vars

-----------------------------------------------------------------------------
(* Properties *)

TypeOK ==
  /\ ht.max \in Nat /\ ht.size \in Nat
  /\ ht.entries \in [0 .. ht.max - 1 -> Account \cup {Nil}]
  /\ pending \in Seq(Account)
  /\ file = Absent \/ file \in Seq(Account)
  /\ phase \in {"off", "defaults", "first", "reading", "up", "saving"}
  /\ perms \in [Session -> 0 .. 3]

\* "will not endlessly loop because it will be resized before becoming full"
\* (my_ht.c 100, 152): between requests a NULL entry is left to end a probe,
\* however many accounts came and went and however size overcounts them.
NeverFull == Occupied(ht) # 0 .. ht.max - 1 /\ ht.size < ht.max

\* Every probe ends, in a table, file and session of their types.
TableSound == TypeOK /\ NeverFull

\* When a start is over, the table has the accounts of the file, all of them and no
\* others, and finds each by its name, also after the deletions of earlier runs (at
\* worst it finds an account with a longer name).
StartFindsAll ==
  out.op = "start" =>
    /\ Contents(ht) = ToSet(file)
    /\ \A a \in ToSet(file) :
         LET found == Lookup(ht, a.name)
         IN  found # Nil /\ (Longer[a.name] = {} => found.name = a.name)

\* main looks the admin up at every start and dies without one (server.c 117-125):
\* that happens only when the file has none, because somebody deleted the admin or
\* the server was killed while it was saving; growing and loading never lose it.
StartFindsAdmin ==
  out.op = "died" => file # Absent /\ \A k \in 1 .. Len(file) : file[k].name # Admin

\* Whatever happened before, a start ends with all the accounts of the file.
StartKeepsAccounts == StartFindsAll /\ StartFindsAdmin

\* A deletion that is reported removes one account: the one that is named, or one whose
\* longer name starts with that name.  No other goes, moves or changes.
DeletesOne ==
  [][out'.op = "delete" /\ out'.code = "ok" =>
       \E i \in Occupied(ht) :
         /\ Matches(ht.entries[i], out'.name)
         /\ Occupied(ht') = Occupied(ht) \ {i}
         /\ \A j \in Occupied(ht') : ht'.entries[j] = ht.entries[j]]_vars

\* The accounts behave as a lasting set with unique names: logins, creations and
\* restarts are answered as if there were neither table nor file.
Accounts ==
  CASE phase # "off" -> Contents(ht) \cup ToSet(pending)
    [] phase = "off" /\ file = Absent -> ToSet(Defaults)
    [] OTHER -> ToSet(file)
Reply ==
  IF out.op \in {"login", "create", "delete"} THEN Answer(out.op, out.by, out.code) ELSE Event("none")

Store == INSTANCE AccountStore WITH Defaults <- ToSet(Defaults), accounts <- Accounts, reply <- Reply
ActsAsStore == Store!Spec

-----------------------------------------------------------------------------
(* What the documentation says and the code does not do *)

\* "Usernames and passwords are stored and validated during login" (server.c 31):
\* whoever has an account and gives its password gets in.
AccountsCanLogIn ==
  out.op = "login" /\ out.code = "failed" =>
    \A a \in Contents(ht) : ~(a.name = out.name /\ a.passwd = out.passwd)
=============================================================================
