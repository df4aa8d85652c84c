---------------------------- MODULE AccountStore ----------------------------
(***************************************************************************)
(* What the accounts of the chat server promise: a set of accounts, at     *)
(* most one of a name, that lasts.  There is no hash table and no file     *)
(* here: UserTable implements this specification as long as no account is  *)
(* deleted and the server is not killed.                                   *)
(***************************************************************************)
EXTENDS Naturals

CONSTANTS Session, Name, Password, Defaults

Level == 1 .. 3
Account == [name : Name, passwd : Password, perms : Level]

VARIABLES
  accounts,
  perms,     \* the permission each session has, 0 before its login
  reply      \* the answer to the last request

vars == <<accounts, perms, reply>>

NoReply == [op |-> "none"]
Answer(op, s, code) == [op |-> op, by |-> s, code |-> code]

Init ==
  /\ accounts = Defaults
  /\ perms = [s \in Session |-> 0]
  /\ reply = NoReply

Taken(n) == \E a \in accounts : a.name = n

Login(s, n, p) ==
  \/ \E a \in accounts :
       /\ a.name = n /\ a.passwd = p
       /\ perms' = [perms EXCEPT ![s] = a.perms]
       /\ reply' = Answer("login", s, "ok")
       /\ UNCHANGED accounts
  \/ /\ \A a \in accounts : ~(a.name = n /\ a.passwd = p)
     /\ reply' = Answer("login", s, "failed")
     /\ UNCHANGED <<accounts, perms>>

Create(s, n, p, level) ==
  \/ /\ perms[s] < level
     /\ reply' = Answer("create", s, "permission")
     /\ UNCHANGED <<accounts, perms>>
  \/ /\ perms[s] >= level /\ Taken(n)
     /\ reply' = Answer("create", s, "exists")
     /\ UNCHANGED <<accounts, perms>>
  \/ /\ perms[s] >= level /\ ~Taken(n)
     /\ accounts' = accounts \cup {[name |-> n, passwd |-> p, perms |-> level]}
     /\ reply' = Answer("create", s, "ok")
     /\ UNCHANGED perms

\* Only a session with permission 3 deletes; one without a login is unknown
Delete(s, n) ==
  \/ /\ perms[s] < 3
     /\ reply' = Answer("delete", s, IF perms[s] = 0 THEN "session" ELSE "permission")
     /\ UNCHANGED <<accounts, perms>>
  \/ /\ perms[s] = 3
     /\ reply' = Answer("delete", s, IF Taken(n) THEN "ok" ELSE "failed")
     /\ accounts' = {a \in accounts : a.name # n}
     /\ UNCHANGED perms

\* The sessions end, the accounts stay
Restart ==
  /\ perms' = [s \in Session |-> 0]
  /\ reply' = NoReply
  /\ UNCHANGED accounts

Next ==
  \/ Restart
  \/ \E s \in Session, n \in Name : Delete(s, n)
  \/ \E s \in Session, n \in Name, p \in Password :
       Login(s, n, p) \/ \E level \in Level : Create(s, n, p, level)

Spec == Init /\ [][Next]_vars
=============================================================================
