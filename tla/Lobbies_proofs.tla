---------------------------- MODULE Lobbies_proofs ----------------------------
(***************************************************************************)
(* Proofs about Lobbies, for any sessions, names, bound and habits.        *)
(***************************************************************************)
EXTENDS Lobbies, SequenceTheorems, FiniteSetTheorems, WellFoundedInduction, TLAPS

-----------------------------------------------------------------------------
(* The operators the handlers are built from *)

\* A scan from the head that finds anything stops at its first find.
LEMMA FirstOfProperties ==
  ASSUME NEW S \in SUBSET Nat, S # {}
  PROVE  FirstOf(S) \in S /\ \A j \in S : FirstOf(S) <= j
<1>1. \E x \in S : \A y \in S : <<y, x>> \notin OpToRel(<, Nat)
  BY NatLessThanWellFounded, WFMin, Zenon
<1>2. \E x \in S : \A y \in S : ~(y < x)
  BY <1>1, Zenon DEF OpToRel
<1>3. \E x \in S : \A y \in S : x <= y
  BY <1>2
<1> QED
  BY <1>3 DEF FirstOf

\* Taking one element off a list leaves a list that is one shorter.
LEMMA WithoutAtProperties ==
  ASSUME NEW S, NEW seq \in Seq(S), NEW i \in 1 .. Len(seq)
  PROVE  /\ WithoutAt(seq, i) \in Seq(S)
         /\ Len(WithoutAt(seq, i)) = Len(seq) - 1
         /\ \A j \in 1 .. Len(seq) - 1 :
              WithoutAt(seq, i)[j] = IF j < i THEN seq[j] ELSE seq[j + 1]
<1> DEFINE front == SubSeq(seq, 1, i - 1)
           back  == SubSeq(seq, i + 1, Len(seq))
<1>1. \A j \in 1 .. Len(seq) : seq[j] \in S
  BY ElementOfSeq
<1>2. front \in Seq(S) /\ Len(front) = i - 1 /\ \A j \in 1 .. i - 1 : front[j] = seq[j]
  <2>1. /\ front \in Seq(S)
        /\ Len(front) = IF 1 <= i - 1 THEN i - 1 - 1 + 1 ELSE 0
        /\ \A j \in 1 .. i - 1 - 1 + 1 : front[j] = seq[1 + j - 1]
    BY <1>1, SubSeqProperties
  <2> QED
    BY <2>1
<1>3. /\ back \in Seq(S)
      /\ Len(back) = Len(seq) - i
      /\ \A j \in 1 .. Len(seq) - i : back[j] = seq[i + j]
  <2>1. /\ back \in Seq(S)
        /\ Len(back) = IF i + 1 <= Len(seq) THEN Len(seq) - (i + 1) + 1 ELSE 0
        /\ \A j \in 1 .. Len(seq) - (i + 1) + 1 : back[j] = seq[i + 1 + j - 1]
    BY <1>1, SubSeqProperties
  <2> QED
    BY <2>1
<1>4. /\ front \o back \in Seq(S)
      /\ Len(front \o back) = Len(front) + Len(back)
      /\ \A j \in 1 .. Len(front) + Len(back) :
           (front \o back)[j] = IF j <= Len(front) THEN front[j] ELSE back[j - Len(front)]
  BY <1>2, <1>3, ConcatProperties
<1>5. WithoutAt(seq, i) = front \o back
  BY DEF WithoutAt
<1>6. Len(seq) \in Nat
  BY LenProperties
<1> HIDE DEF front, back
<1>7. Len(front \o back) = Len(seq) - 1
  BY <1>2, <1>3, <1>4, <1>6
<1>8. ASSUME NEW j \in 1 .. Len(seq) - 1
      PROVE  (front \o back)[j] = IF j < i THEN seq[j] ELSE seq[j + 1]
  <2>1. (front \o back)[j] = IF j <= i - 1 THEN front[j] ELSE back[j - (i - 1)]
    BY <1>2, <1>3, <1>4, <1>6
  <2>2. CASE j < i
    BY <1>2, <2>1, <2>2
  <2>3. CASE j >= i
    BY <1>3, <1>6, <2>1, <2>3
  <2>4. j < i \/ j >= i
    BY <1>6
  <2> QED
    BY <2>2, <2>3, <2>4, Zenon
<1> QED
  BY <1>4, <1>5, <1>7, <1>8

\* Overwriting the front of a name leaves a name.
LEMMA OverlayIsName == \A u, old \in Names : Overlay(u, old) \in Names
<1> SUFFICES ASSUME NEW u \in Names, NEW old \in Names PROVE Overlay(u, old) \in Names
  OBVIOUS
<1>1. \A j \in Len(u) + 1 .. Len(old) : old[j] \in STRING
  BY ElementOfSeq, LenProperties DEF Names
<1>2. SubSeq(old, Len(u) + 1, Len(old)) \in Seq(STRING)
  BY <1>1, SubSeqProperties, LenProperties DEF Names
<1> QED
  BY <1>2, ConcatProperties DEF Overlay, Names

\* A member more, a member less: the lobby stays a lobby and its counter right.
LEMMA AdmittedProperties ==
  ASSUME NEW l \in Lobby, NEW s \in Session, uname[s] \in Names
  PROVE  /\ Admitted(l, s) \in Lobby
         /\ Admitted(l, s).num = l.num
         /\ l.size = Len(l.clients) => Admitted(l, s).size = Len(Admitted(l, s).clients)
<1> DEFINE m == [name |-> uname[s], fd |-> s]
<1>1. m \in Member /\ l.clients \in Seq(Member) /\ l.size \in Int
  BY DEF Member, Lobby
<1>2. Append(l.clients, m) \in Seq(Member) /\ Len(Append(l.clients, m)) = Len(l.clients) + 1
  BY <1>1, AppendProperties
<1>3. Admitted(l, s) = [l EXCEPT !.clients = Append(l.clients, m), !.size = l.size + 1]
  BY DEF Admitted
<1> HIDE DEF m
<1> DEFINE c == Append(l.clients, m)
<1> HIDE DEF c
<1>4. Admitted(l, s) = [name |-> l.name, num |-> l.num, size |-> l.size + 1, clients |-> c]
  BY <1>3 DEF Lobby, c
<1>5. c \in Seq(Member) /\ Len(c) = Len(l.clients) + 1
  BY <1>2 DEF c
<1>6. l.name \in Names /\ l.num \in Nat
  BY DEF Lobby
<1>7. Admitted(l, s) \in Lobby
  BY <1>1, <1>4, <1>5, <1>6 DEF Lobby
<1> QED
  BY <1>4, <1>5, <1>7

LEMMA LeftProperties ==
  ASSUME NEW l \in Lobby, NEW k \in 1 .. Len(l.clients)
  PROVE  /\ Left(l, k) \in Lobby
         /\ Left(l, k).num = l.num
         /\ l.size = Len(l.clients) => Left(l, k).size = Len(Left(l, k).clients)
<1>1. l.clients \in Seq(Member) /\ l.size \in Int
  BY DEF Lobby
<1>2. /\ WithoutAt(l.clients, k) \in Seq(Member)
      /\ Len(WithoutAt(l.clients, k)) = Len(l.clients) - 1
  BY <1>1, WithoutAtProperties
<1>3. Left(l, k) = [l EXCEPT !.clients = WithoutAt(l.clients, k), !.size = l.size - 1]
  BY DEF Left
<1> DEFINE c == WithoutAt(l.clients, k)
<1> HIDE DEF c
<1>4. Left(l, k) = [name |-> l.name, num |-> l.num, size |-> l.size - 1, clients |-> c]
  BY <1>3 DEF Lobby, c
<1>5. c \in Seq(Member) /\ Len(c) = Len(l.clients) - 1
  BY <1>2 DEF c
<1>6. l.name \in Names /\ l.num \in Nat
  BY DEF Lobby
<1>7. Left(l, k) \in Lobby
  BY <1>1, <1>4, <1>5, <1>6 DEF Lobby
<1> QED
  BY <1>4, <1>5, <1>7

LEMMA SendMayFailIsBoolean == \A to : SendMayFail(to) \subseteq BOOLEAN
  BY DEF SendMayFail

\* The finds of a scan are places in the list it scans.
LEMMA FindsAreIndices ==
  ASSUME lobbies \in Seq(Lobby)
  PROVE  /\ \A n : ByPrefix(n) \subseteq 1 .. Len(lobbies)
         /\ \A n : ByName(n) \subseteq 1 .. Len(lobbies)
         /\ \A n : ByNumber(n) \subseteq 1 .. Len(lobbies)
         /\ \A i, n : MembersNamed(i, n) \subseteq 1 .. Len(lobbies[i].clients)
  BY DEF ByPrefix, ByName, ByNumber, MembersNamed

LEMMA FirstFind ==
  ASSUME NEW n \in Nat, NEW S \in SUBSET (1 .. n), S # {}
  PROVE  FirstOf(S) \in 1 .. n /\ FirstOf(S) \in S
<1>1. S \in SUBSET Nat
  OBVIOUS
<1>2. FirstOf(S) \in S
  BY <1>1, FirstOfProperties
<1> QED
  BY <1>2

-----------------------------------------------------------------------------
(* The counters: lobbies.size and every lobby_size count what they say *)

CountedInv == TypeOK /\ Counted

LEMMA CountedInvInit == Init => CountedInv
<1> SUFFICES ASSUME Init PROVE CountedInv
  OBVIOUS
<1>1. lobbies \in Seq(Lobby) /\ Len(lobbies) = 0 /\ size = 0 /\ down \in BOOLEAN
  BY EmptySeq DEF Init
<1>2. <<>> \in Names
  BY DEF Names
<1>3. uname \in [Session -> Names] /\ prompt \in [Session -> UserName \cup {<<>>}]
  BY <1>2 DEF Init
<1>4. /\ screen \in [Session -> Screen]
      /\ room \in [Session -> Nat]
      /\ reading \in [Session -> BOOLEAN]
  BY DEF Init, Screen
<1>5. TypeOK
  BY <1>1, <1>3, <1>4 DEF TypeOK
<1> QED
  BY <1>1, <1>5 DEF CountedInv, Counted

\* The step is proved action by action.  Five actions change the list: a lobby is
\* appended or taken out, a member is appended or taken out.
LEMMA CountedInvNext == CountedInv /\ [Next]_vars => CountedInv'
<1> SUFFICES ASSUME CountedInv, [Next]_vars PROVE CountedInv'
  OBVIOUS
<1>t. TypeOK /\ Counted
  BY DEF CountedInv
<1>n. Len(lobbies) \in Nat /\ \A i \in 1 .. Len(lobbies) : lobbies[i] \in Lobby
  BY <1>t, LenProperties, ElementOfSeq DEF TypeOK
<1>c. \A i \in 1 .. Len(lobbies) : lobbies[i].clients \in Seq(Member)
                                     /\ Len(lobbies[i].clients) \in Nat
  BY <1>n, LenProperties DEF Lobby
<1>u. \A u \in UserName : u \in Names
  BY LobbiesAssumption DEF IsName, Names
<1>l. \A n \in LobbyName : n \in Names
  BY LobbiesAssumption DEF IsName, Names
\* What the list must satisfy after a step, whatever the step does to the rest
<1>k. ASSUME UNCHANGED <<lobbies, size>> PROVE Counted'
  BY <1>k, <1>t DEF Counted
<1>1. ASSUME NEW s \in Session, NEW u \in UserName, Login(s, u) PROVE CountedInv'
  <2>1. Overlay(u, uname[s]) \in Names
    BY <1>t, <1>u, OverlayIsName DEF TypeOK
  <2>2. uname' \in [Session -> Names]
    BY <1>1, <1>t, <2>1 DEF Login, TypeOK
  <2>3. prompt' \in [Session -> UserName \cup {<<>>}]
    BY <1>1, <1>t DEF Login, TypeOK
  <2> QED
    BY <1>1, <1>k, <1>t, <2>2, <2>3 DEF Login, TypeOK, CountedInv
<1>2. ASSUME NEW s \in Session,
             NotPermitted(s) \/ ListLobbies(s) \/ ListMembers(s)
               \/ \E n \in LobbyName : EnterUnknown(s, n)
      PROVE  CountedInv'
  <2>1. UNCHANGED <<server, client>>
    BY <1>2 DEF NotPermitted, ListLobbies, ListMembers, EnterUnknown
  <2> QED
    BY <2>1, <1>k, <1>t DEF server, client, TypeOK, CountedInv
<1>3. ASSUME NEW s \in Session, NEW n \in LobbyName, CreateLobby(s, n) PROVE CountedInv'
  <2>1. lobbies' = Append(lobbies, NewLobby(n)) /\ size' = size + 1 /\ UNCHANGED <<uname, down, client>>
    BY <1>3 DEF CreateLobby
  <2>2. NewLobby(n) \in Lobby /\ NewLobby(n).size = Len(NewLobby(n).clients)
    <3>1. size + 1 \in Nat
      BY <1>t, <1>n DEF Counted
    <3>2. <<>> \in Seq(Member) /\ Len(<<>>) = 0
      BY EmptySeq
    <3> QED
      BY <1>l, <3>1, <3>2 DEF NewLobby, Lobby
  <2> DEFINE new == NewLobby(n)
  <2> HIDE DEF new
  <2>3. /\ Append(lobbies, new) \in Seq(Lobby)
        /\ Len(Append(lobbies, new)) = Len(lobbies) + 1
        /\ \A i \in 1 .. Len(lobbies) : Append(lobbies, new)[i] = lobbies[i]
        /\ Append(lobbies, new)[Len(lobbies) + 1] = new
    BY <1>t, <2>2, AppendProperties DEF TypeOK, new
  <2>4. TypeOK'
    BY <1>t, <2>1, <2>3 DEF TypeOK, client, new
  <2>5. Counted'
    <3>1. size' = Len(lobbies')
      BY <1>t, <2>1, <2>3 DEF Counted, new
    <3>2. ASSUME NEW i \in 1 .. Len(lobbies') PROVE lobbies'[i].size = Len(lobbies'[i].clients)
      <4>1. CASE i \in 1 .. Len(lobbies)
        <5>1. lobbies'[i] = lobbies[i]
          BY <4>1, <2>1, <2>3 DEF new
        <5> QED
          BY <4>1, <5>1, <1>t DEF Counted
      <4>2. CASE i = Len(lobbies) + 1
        <5>1. lobbies'[i] = new
          BY <4>2, <2>1, <2>3 DEF new
        <5> QED
          BY <5>1, <2>2 DEF new
      <4>3. i \in 1 .. Len(lobbies) \/ i = Len(lobbies) + 1
        BY <1>n, <2>1, <2>3 DEF new
      <4> QED
        BY <4>1, <4>2, <4>3
    <3> QED
      BY <3>1, <3>2 DEF Counted
  <2> QED
    BY <2>4, <2>5 DEF CountedInv
<1>4. ASSUME NEW s \in Session, NEW n \in LobbyName, EnterLobby(s, n) PROVE CountedInv'
  <2> DEFINE i == FirstOf(ByPrefix(n))
  <2>1. i \in 1 .. Len(lobbies)
    BY <1>4, <1>n, <1>t, FindsAreIndices, FirstFind DEF EnterLobby, TypeOK
  <2> DEFINE new == Admitted(lobbies[i], s)
  <2>2. /\ lobbies' = [lobbies EXCEPT ![i] = new]
        /\ room' = [room EXCEPT ![s] = lobbies[i].num]
        /\ screen' = [screen EXCEPT ![s] = "lobby"]
        /\ reading' = [reading EXCEPT ![s] = TRUE]
        /\ UNCHANGED <<size, uname, down, prompt>>
    BY <1>4 DEF EnterLobby, NumberTold
  <2> HIDE DEF i
  <2>3. new \in Lobby /\ new.size = Len(new.clients)
    BY <1>n, <1>t, <2>1, AdmittedProperties DEF TypeOK, Counted
  <2> HIDE DEF new
  <2>4. lobbies' \in Seq(Lobby) /\ Len(lobbies') = Len(lobbies)
        /\ \A j \in 1 .. Len(lobbies) : lobbies'[j] = IF j = i THEN new ELSE lobbies[j]
    BY <1>t, <2>1, <2>2, <2>3, ExceptSeq DEF TypeOK
  <2>5. lobbies[i].num \in Nat
    BY <1>n, <2>1 DEF Lobby
  <2>6. TypeOK'
    BY <1>t, <2>2, <2>4, <2>5 DEF TypeOK, Screen
  <2>7. Counted'
    BY <1>t, <2>2, <2>3, <2>4 DEF Counted
  <2> QED
    BY <2>6, <2>7 DEF CountedInv
<1>5. ASSUME NEW s \in Session, NEW n \in LobbyName, DestroyLobby(s, n) PROVE CountedInv'
  <2> DEFINE i == FirstOf(ByName(n))
  <2>1. i \in 1 .. Len(lobbies)
    BY <1>5, <1>n, <1>t, FindsAreIndices, FirstFind DEF DestroyLobby, TypeOK
  <2>2. \/ UNCHANGED <<lobbies, size>>
        \/ lobbies' = WithoutAt(lobbies, i) /\ size' = size - 1
    BY <1>5 DEF DestroyLobby
  <2>3. UNCHANGED <<uname, down, client>>
    BY <1>5 DEF DestroyLobby
  <2> HIDE DEF i
  <2>4. CASE UNCHANGED <<lobbies, size>>
    BY <2>3, <2>4, <1>k, <1>t DEF client, TypeOK, CountedInv
  <2>5. CASE lobbies' = WithoutAt(lobbies, i) /\ size' = size - 1
    <3>1. /\ lobbies' \in Seq(Lobby)
          /\ Len(lobbies') = Len(lobbies) - 1
          /\ \A j \in 1 .. Len(lobbies) - 1 :
               lobbies'[j] = IF j < i THEN lobbies[j] ELSE lobbies[j + 1]
      BY <1>t, <2>1, <2>5, WithoutAtProperties DEF TypeOK
    <3>2. TypeOK'
      BY <1>t, <2>3, <2>5, <3>1 DEF TypeOK, client
    <3>3. size' = Len(lobbies')
      BY <1>t, <2>5, <3>1 DEF Counted
    <3>4. ASSUME NEW j \in 1 .. Len(lobbies') PROVE lobbies'[j].size = Len(lobbies'[j].clients)
      <4>1. j \in 1 .. Len(lobbies) /\ j + 1 \in 1 .. Len(lobbies)
        BY <1>n, <3>1
      <4>2. lobbies'[j] = lobbies[j] \/ lobbies'[j] = lobbies[j + 1]
        BY <3>1
      <4> QED
        BY <1>t, <4>1, <4>2 DEF Counted
    <3> QED
      BY <3>2, <3>3, <3>4 DEF CountedInv, Counted
  <2> QED
    BY <2>2, <2>4, <2>5
<1>6. ASSUME NEW s \in Session, NEW n \in LobbyName, DestroyUnknown(s, n) PROVE CountedInv'
  BY <1>6, <1>k, <1>t DEF DestroyUnknown, TypeOK, CountedInv, Screen
<1>7. ASSUME NEW s \in Session,
             SendAll(s) \/ \E u \in UserName : SendDirect(s, u)
      PROVE  CountedInv'
  <2>1. down' \in BOOLEAN /\ UNCHANGED <<lobbies, size, uname, client>>
    BY <1>7, SendMayFailIsBoolean DEF SendAll, SendDirect
  <2> QED
    BY <2>1, <1>k, <1>t DEF client, TypeOK, CountedInv
<1>8. ASSUME NEW s \in Session, ExitRoom(s) PROVE CountedInv'
  <2> DEFINE i == FirstOf(ByNumber(room[s]))
             k == FirstOf(MembersNamed(i, prompt[s]))
             t == lobbies[i].clients[k].fd
  <2>1. i \in 1 .. Len(lobbies)
    BY <1>8, <1>n, <1>t, FindsAreIndices, FirstFind DEF ExitRoom, TypeOK
  <2>2. k \in 1 .. Len(lobbies[i].clients)
    <3>1. MembersNamed(i, prompt[s]) # {}
      BY <1>8 DEF ExitRoom
    <3>2. MembersNamed(i, prompt[s]) \subseteq 1 .. Len(lobbies[i].clients)
      BY <1>t, FindsAreIndices DEF TypeOK
    <3> HIDE DEF i
    <3> QED
      BY <1>c, <2>1, <3>1, <3>2, FirstFind
  <2> DEFINE new == Left(lobbies[i], k)
             still == [reading EXCEPT ![t] = FALSE]
  <2>3. /\ lobbies' = [lobbies EXCEPT ![i] = new]
        /\ reading' = still
        /\ screen' = [c \in Session |->
                        CASE c = s -> IF still[s] THEN "leaving" ELSE "menu"
                          [] c # s /\ c = t /\ screen[t] = "leaving" -> "menu"
                          [] OTHER -> screen[c]]
        /\ down' \in SendMayFail(<<t>>)
        /\ UNCHANGED <<size, uname, prompt, room>>
    BY <1>8 DEF ExitRoom
  <2> HIDE DEF i, k, t, still
  <2>4. new \in Lobby /\ new.size = Len(new.clients)
    BY <1>n, <1>t, <2>1, <2>2, LeftProperties DEF Counted
  <2> HIDE DEF new
  <2>5. lobbies' \in Seq(Lobby) /\ Len(lobbies') = Len(lobbies)
        /\ \A j \in 1 .. Len(lobbies) : lobbies'[j] = IF j = i THEN new ELSE lobbies[j]
    BY <1>t, <2>1, <2>3, <2>4, ExceptSeq DEF TypeOK
  <2>6. reading' \in [Session -> BOOLEAN]
    BY <1>t, <2>3 DEF TypeOK, still
  <2>7. screen' \in [Session -> Screen]
    <3>1. \A c \in Session : screen[c] \in Screen
      BY <1>t DEF TypeOK
    <3> QED
      BY <2>3, <3>1 DEF Screen
  <2>8. down' \in BOOLEAN
    BY <2>3, SendMayFailIsBoolean
  <2>9. TypeOK'
    BY <1>t, <2>3, <2>5, <2>6, <2>7, <2>8 DEF TypeOK
  <2>10. Counted'
    BY <1>t, <2>3, <2>4, <2>5 DEF Counted
  <2> QED
    BY <2>9, <2>10 DEF CountedInv
<1>9. ASSUME NEW s \in Session, ExitOffTheEnd(s) PROVE CountedInv'
  BY <1>9, <1>k, <1>t DEF ExitOffTheEnd, client, TypeOK, CountedInv
<1>10. ASSUME NEW s \in Session, ExitNowhere(s) PROVE CountedInv'
  BY <1>10, <1>k, <1>t DEF ExitNowhere, server, TypeOK, CountedInv, Screen
<1>11. ASSUME NEW s \in Session, HangUp(s) PROVE CountedInv'
  BY <1>11, <1>k, <1>t DEF HangUp, server, TypeOK, CountedInv, Screen
<1>12. CASE UNCHANGED vars
  BY <1>12, <1>k, <1>t DEF vars, server, client, TypeOK, CountedInv
<1> QED
  BY <1>1, <1>2, <1>3, <1>4, <1>5, <1>6, <1>7, <1>8, <1>9, <1>10, <1>11, <1>12
     DEF Next, Over

LEMMA CountedInvariant == Spec => []CountedInv
  BY CountedInvInit, CountedInvNext, PTL DEF Spec

\* The variables stay in their types.
THEOREM LobbiesTypes == Spec => []TypeOK
<1>1. CountedInv => TypeOK
  BY DEF CountedInv
<1> QED
  BY <1>1, CountedInvariant, PTL

\* lobbies.size counts the lobbies and lobby_size the members, whatever users do,
\* however often they log in, hang up or delete lobbies (chat.c create_lobby,
\* enter_lobby, destroy_lobby, exit_room).
THEOREM CountersAgree == Spec => []Counted
<1>1. CountedInv => Counted
  BY DEF CountedInv
<1> QED
  BY <1>1, CountedInvariant, PTL

\* A list of lobbies or of members announces as many records as follow, so that
\* client.py, which reads that many, finds the next answer where it expects it.
THEOREM ListsAreFramed == Spec => []ListsFramed
<1>1. Init => ListsFramed
  BY DEF Init, ListsFramed
<1>2. CountedInv /\ ListsFramed /\ [Next]_vars => ListsFramed'
  <2> SUFFICES ASSUME CountedInv, ListsFramed, [Next]_vars PROVE ListsFramed'
    OBVIOUS
  <2> USE DEF ListsFramed, Sent, Reply
  <2>1. ASSUME NEW s \in Session, ListLobbies(s) PROVE ListsFramed'
    <3>1. size = Len(lobbies)
      BY DEF CountedInv, Counted
    <3> QED
      BY <2>1, <3>1 DEF ListLobbies
  <2>2. ASSUME NEW s \in Session, ListMembers(s) PROVE ListsFramed'
    <3> DEFINE i == FirstOf(ByNumber(room[s]))
    <3>1. i \in 1 .. Len(lobbies)
      <4>1. lobbies \in Seq(Lobby) /\ Len(lobbies) \in Nat
        BY DEF CountedInv, TypeOK
      <4>2. ByNumber(room[s]) \in SUBSET (1 .. Len(lobbies)) /\ ByNumber(room[s]) # {}
        BY <2>2, <4>1, FindsAreIndices DEF ListMembers
      <4> QED
        BY <4>1, <4>2, FirstFind
    <3>2. lobbies[i].size = Len(lobbies[i].clients)
      BY <3>1 DEF CountedInv, Counted
    <3> QED
      BY <2>2, <3>2 DEF ListMembers
  <2>3. ASSUME NEW s \in Session, NotPermitted(s) \/ ExitOffTheEnd(s) \/ ExitNowhere(s)
                                  \/ HangUp(s)
        PROVE  ListsFramed'
    BY <2>3 DEF NotPermitted, ExitOffTheEnd, ExitNowhere, HangUp
  <2>7. ASSUME NEW s \in Session, SendAll(s) PROVE ListsFramed'
    <3>1. PICK to : out' = Sent("all", s, to, 0, 0, <<>>)
      BY <2>7, Zenon DEF SendAll
    <3> QED
      BY <3>1
  <2>8. ASSUME NEW s \in Session, ExitRoom(s) PROVE ListsFramed'
    <3>1. PICK t : out' = Sent("exit", s, <<t>>, 0, 0, <<>>)
      BY <2>8, Zenon DEF ExitRoom
    <3> QED
      BY <3>1
  <2>4. ASSUME NEW s \in Session, NEW u \in UserName, Login(s, u) \/ SendDirect(s, u)
        PROVE  ListsFramed'
    BY <2>4 DEF Login, SendDirect
  <2>5. ASSUME NEW s \in Session, NEW n \in LobbyName,
               \/ CreateLobby(s, n) \/ EnterLobby(s, n) \/ EnterUnknown(s, n)
               \/ DestroyLobby(s, n) \/ DestroyUnknown(s, n)
        PROVE  ListsFramed'
    BY <2>5 DEF CreateLobby, EnterLobby, EnterUnknown, DestroyLobby, DestroyUnknown
  <2>6. CASE UNCHANGED vars
    BY <2>6 DEF vars
  <2> QED
    BY <2>1, <2>2, <2>3, <2>4, <2>5, <2>6, <2>7, <2>8 DEF Next, Over
<1> QED
  BY <1>1, <1>2, CountedInvariant, PTL DEF Spec

-----------------------------------------------------------------------------
(* As long as nobody deletes one, the lobbies are numbered by their places *)

LEMMA NumbersArePositionsNext ==
  ASSUME "destroy" \notin Habits
  PROVE  CountedInv /\ NumbersArePositions /\ [Next]_vars => NumbersArePositions'
<1> SUFFICES ASSUME CountedInv, NumbersArePositions, [Next]_vars PROVE NumbersArePositions'
  OBVIOUS
<1>t. lobbies \in Seq(Lobby) /\ size = Len(lobbies)
  BY DEF CountedInv, TypeOK, Counted
<1>n. Len(lobbies) \in Nat /\ \A i \in 1 .. Len(lobbies) : lobbies[i] \in Lobby
  BY <1>t, LenProperties, ElementOfSeq
<1>0. ASSUME UNCHANGED lobbies PROVE NumbersArePositions'
  BY <1>0 DEF NumbersArePositions
\* A new lobby is numbered size + 1, and size counts the lobbies
<1>1. ASSUME NEW s \in Session, NEW n \in LobbyName, CreateLobby(s, n)
      PROVE  NumbersArePositions'
  <2> DEFINE new == NewLobby(n)
  <2>1. lobbies' = Append(lobbies, new)
    BY <1>1 DEF CreateLobby
  <2>2. new \in Lobby
    <3>1. (Len(lobbies) + 1 \in Nat) /\ (n \in Names)
      BY <1>n, LobbiesAssumption DEF IsName, Names
    <3>2. <<>> \in Seq(Member)
      BY EmptySeq
    <3> QED
      BY <1>t, <3>1, <3>2 DEF NewLobby, Lobby
  <2>3. new.num = Len(lobbies) + 1
    BY <1>t DEF NewLobby
  <2> HIDE DEF new
  <2>4. /\ Len(lobbies') = Len(lobbies) + 1
        /\ \A i \in 1 .. Len(lobbies) : lobbies'[i] = lobbies[i]
        /\ lobbies'[Len(lobbies) + 1] = new
    BY <1>t, <2>1, <2>2, AppendProperties
  <2>5. ASSUME NEW i \in 1 .. Len(lobbies') PROVE lobbies'[i].num = i
    <3>1. i \in 1 .. Len(lobbies) \/ i = Len(lobbies) + 1
      BY <1>n, <2>4
    <3>2. CASE i \in 1 .. Len(lobbies)
      BY <2>4, <3>2 DEF NumbersArePositions
    <3>3. CASE i = Len(lobbies) + 1
      BY <2>3, <2>4, <3>3
    <3> QED
      BY <3>1, <3>2, <3>3
  <2> QED
    BY <2>5 DEF NumbersArePositions
\* Who enters or leaves does not renumber the lobby
<1>2. ASSUME NEW i \in 1 .. Len(lobbies), NEW l, l.num = lobbies[i].num, l \in Lobby,
             lobbies' = [lobbies EXCEPT ![i] = l]
      PROVE  NumbersArePositions'
  <2>1. Len(lobbies') = Len(lobbies)
        /\ \A j \in 1 .. Len(lobbies) : lobbies'[j] = IF j = i THEN l ELSE lobbies[j]
    BY <1>t, <1>2, ExceptSeq
  <2> QED
    BY <1>2, <2>1 DEF NumbersArePositions
<1>3. ASSUME NEW s \in Session, NEW n \in LobbyName, EnterLobby(s, n)
      PROVE  NumbersArePositions'
  <2> DEFINE i == FirstOf(ByPrefix(n))
  <2>1. i \in 1 .. Len(lobbies)
    BY <1>3, <1>n, <1>t, FindsAreIndices, FirstFind DEF EnterLobby
  <2>2. lobbies' = [lobbies EXCEPT ![i] = Admitted(lobbies[i], s)]
    BY <1>3 DEF EnterLobby
  <2> HIDE DEF i
  <2>3. uname[s] \in Names
    BY DEF CountedInv, TypeOK
  <2>4. Admitted(lobbies[i], s).num = lobbies[i].num /\ Admitted(lobbies[i], s) \in Lobby
    BY <1>n, <2>1, <2>3, AdmittedProperties
  <2> QED
    BY <1>2, <2>1, <2>2, <2>4
<1>4. ASSUME NEW s \in Session, ExitRoom(s) PROVE NumbersArePositions'
  <2> DEFINE i == FirstOf(ByNumber(room[s]))
             k == FirstOf(MembersNamed(i, prompt[s]))
  <2>1. i \in 1 .. Len(lobbies)
    BY <1>4, <1>n, <1>t, FindsAreIndices, FirstFind DEF ExitRoom
  <2>2. k \in 1 .. Len(lobbies[i].clients)
    <3>1. MembersNamed(i, prompt[s]) # {}
      BY <1>4 DEF ExitRoom
    <3>2. MembersNamed(i, prompt[s]) \subseteq 1 .. Len(lobbies[i].clients)
      BY <1>t, FindsAreIndices
    <3>3. ASSUME NEW j \in 1 .. Len(lobbies) PROVE Len(lobbies[j].clients) \in Nat
      BY <1>n, <3>3, LenProperties DEF Lobby
    <3> HIDE DEF i
    <3> QED
      BY <2>1, <3>1, <3>2, <3>3, FirstFind
  <2>3. lobbies' = [lobbies EXCEPT ![i] = Left(lobbies[i], k)]
    BY <1>4 DEF ExitRoom
  <2> HIDE DEF i, k
  <2>4. Left(lobbies[i], k).num = lobbies[i].num /\ Left(lobbies[i], k) \in Lobby
    BY <1>n, <2>1, <2>2, LeftProperties
  <2> QED
    BY <1>2, <2>1, <2>3, <2>4
<1> QED
  BY <1>0, <1>1, <1>3, <1>4
     DEF Next, Over, vars, server, client, Login, NotPermitted, ListLobbies, EnterUnknown,
         DestroyLobby, DestroyUnknown, SendAll, SendDirect, ExitOffTheEnd, ExitNowhere,
         ListMembers, HangUp

\* A client is told its lobby's number when it enters and every later request finds
\* the lobby by it: as long as no lobby is deleted, the lobby with number i is the
\* i-th of the list, and so no two have the same number.
THEOREM NumbersAreUnique ==
  ASSUME "destroy" \notin Habits
  PROVE  Spec => []NumbersArePositions
<1>1. Init => NumbersArePositions
  BY EmptySeq DEF Init, NumbersArePositions
<1> QED
  BY <1>1, CountedInvariant, NumbersArePositionsNext, PTL DEF Spec

-----------------------------------------------------------------------------
(* Users who log in once, under different names, leave their lobby before  *)
(* they go, and delete no lobby: Habits = {}                               *)

\* The server writes the name the client shows.
OneName == \A s \in Session : uname[s] = prompt[s]

\* Nobody logs in under a name that is in use.
NamesDiffer == \A s, t \in Session : LoggedIn(s) /\ prompt[s] = prompt[t] => s = t

\* A client is at one of its two prompts, and its receiver runs in a lobby.
Present ==
  \A s \in Session :
    /\ screen[s] \in {"menu", "lobby"}
    /\ reading[s] = (screen[s] = "lobby")
    /\ screen[s] = "lobby" => LoggedIn(s)

\* A member is in the lobby whose list it is on, under its name; it is on the list
\* once; and whoever is in a lobby is on its list.
MemberIsThere ==
  \A i \in 1 .. Len(lobbies) : \A k \in 1 .. Len(lobbies[i].clients) :
    LET m == lobbies[i].clients[k]
    IN  screen[m.fd] = "lobby" /\ room[m.fd] = i /\ m.name = prompt[m.fd]
ListedOnce ==
  \A i \in 1 .. Len(lobbies) : \A j, k \in 1 .. Len(lobbies[i].clients) :
    lobbies[i].clients[j].fd = lobbies[i].clients[k].fd => j = k
WhoIsThereIsListed ==
  \A s \in Session : screen[s] = "lobby" =>
    /\ room[s] \in 1 .. Len(lobbies)
    /\ \E k \in 1 .. Len(lobbies[room[s]].clients) : lobbies[room[s]].clients[k].fd = s

Seated == MemberIsThere /\ ListedOnce /\ WhoIsThereIsListed

MembershipInv ==
  /\ CountedInv /\ NumbersArePositions
  /\ ~down
  /\ OneName /\ NamesDiffer /\ Present
  /\ Seated

LEMMA MembershipInvInit == Init => MembershipInv
<1> SUFFICES ASSUME Init PROVE MembershipInv
  OBVIOUS
<1>1. CountedInv /\ Len(lobbies) = 0
  BY CountedInvInit, EmptySeq DEF Init
<1>2. NumbersArePositions /\ MemberIsThere /\ ListedOnce
  BY <1>1 DEF NumbersArePositions, MemberIsThere, ListedOnce
<1>3. ~down /\ OneName /\ NamesDiffer /\ Present /\ WhoIsThereIsListed
  BY DEF Init, OneName, NamesDiffer, LoggedIn, Present, WhoIsThereIsListed
<1> QED
  BY <1>1, <1>2, <1>3 DEF MembershipInv, Seated

\* What TypeOK says of the two levels of lists
LEMMA ListShape ==
  ASSUME TypeOK
  PROVE  /\ Len(lobbies) \in Nat
         /\ \A i \in 1 .. Len(lobbies) :
              /\ lobbies[i] \in Lobby
              /\ Len(lobbies[i].clients) \in Nat
              /\ \A k \in 1 .. Len(lobbies[i].clients) : lobbies[i].clients[k].fd \in Session
<1>1. Len(lobbies) \in Nat /\ \A i \in 1 .. Len(lobbies) : lobbies[i] \in Lobby
  BY LenProperties, ElementOfSeq DEF TypeOK
<1>2. ASSUME NEW i \in 1 .. Len(lobbies), NEW c, c = lobbies[i].clients
      PROVE  Len(c) \in Nat /\ \A k \in 1 .. Len(c) : c[k].fd \in Session
  <2>1. c \in Seq(Member)
    BY <1>1, <1>2 DEF Lobby
  <2>2. Len(c) \in Nat /\ \A k \in 1 .. Len(c) : c[k] \in Member
    BY <2>1, LenProperties, ElementOfSeq
  <2> QED
    BY <2>2 DEF Member
<1> QED
  BY <1>1, <1>2

\* The lists before and after someone is taken in or goes
LEMMA AdmittedMembers ==
  ASSUME NEW l \in Lobby, NEW s \in Session, uname[s] \in Names
  PROVE  /\ Len(Admitted(l, s).clients) = Len(l.clients) + 1
         /\ \A k \in 1 .. Len(l.clients) : Admitted(l, s).clients[k] = l.clients[k]
         /\ Admitted(l, s).clients[Len(l.clients) + 1] = [name |-> uname[s], fd |-> s]
<1> DEFINE m == [name |-> uname[s], fd |-> s]
<1>1. m \in Member /\ l.clients \in Seq(Member)
  BY DEF Member, Lobby
<1>2. Admitted(l, s).clients = Append(l.clients, m)
  BY DEF Admitted, Lobby
<1> HIDE DEF m
<1>3. /\ Len(Append(l.clients, m)) = Len(l.clients) + 1
      /\ \A k \in 1 .. Len(l.clients) : Append(l.clients, m)[k] = l.clients[k]
      /\ Append(l.clients, m)[Len(l.clients) + 1] = m
  BY <1>1, AppendProperties
<1> QED
  BY <1>2, <1>3 DEF m

LEMMA LeftMembers ==
  ASSUME NEW l \in Lobby, NEW k \in 1 .. Len(l.clients)
  PROVE  /\ Len(Left(l, k).clients) = Len(l.clients) - 1
         /\ \A j \in 1 .. Len(l.clients) - 1 :
              Left(l, k).clients[j] = IF j < k THEN l.clients[j] ELSE l.clients[j + 1]
<1>1. l.clients \in Seq(Member)
  BY DEF Lobby
<1>2. Left(l, k).clients = WithoutAt(l.clients, k)
  BY DEF Left, Lobby
<1> QED
  BY <1>1, <1>2, WithoutAtProperties

\* A request of someone in a lobby finds the lobby it means and, by its name, itself.
LEMMA FindsItself ==
  ASSUME MembershipInv, NEW s \in Session, screen[s] = "lobby"
  PROVE  LET i == FirstOf(ByNumber(room[s]))
             k == FirstOf(MembersNamed(i, prompt[s]))
         IN  /\ ByNumber(room[s]) = {room[s]}
             /\ i = room[s] /\ i \in 1 .. Len(lobbies)
             /\ MembersNamed(i, prompt[s]) = {k}
             /\ k \in 1 .. Len(lobbies[i].clients)
             /\ lobbies[i].clients[k].fd = s
<1> DEFINE r == room[s]
<1>1. CountedInv /\ NumbersArePositions /\ NamesDiffer /\ Present
      /\ MemberIsThere /\ ListedOnce /\ WhoIsThereIsListed
  BY DEF MembershipInv, Seated
<1>2. lobbies \in Seq(Lobby) /\ Len(lobbies) \in Nat
  BY <1>1, LenProperties DEF CountedInv, TypeOK
<1>3. r \in 1 .. Len(lobbies)
  BY <1>1 DEF WhoIsThereIsListed
<1>4. ByNumber(r) = {r}
  BY <1>1, <1>3 DEF ByNumber, NumbersArePositions
<1>5. FirstOf(ByNumber(r)) = r
  BY <1>2, <1>3, <1>4, FirstFind
<1>6. PICK k \in 1 .. Len(lobbies[r].clients) : lobbies[r].clients[k].fd = s
  BY <1>1 DEF WhoIsThereIsListed
<1>7. Len(lobbies[r].clients) \in Nat
  BY <1>1, <1>3, ListShape DEF CountedInv
<1>8. MembersNamed(r, prompt[s]) = {k}
  <2>1. lobbies[r].clients[k].name = prompt[s]
    BY <1>1, <1>3, <1>6 DEF MemberIsThere
  <2>2. ASSUME NEW j \in 1 .. Len(lobbies[r].clients), lobbies[r].clients[j].name = prompt[s]
        PROVE  j = k
    <3>1. lobbies[r].clients[j].fd \in Session
      BY <1>1, <1>3, ListShape DEF CountedInv
    <3>2. prompt[lobbies[r].clients[j].fd] = prompt[s]
      BY <1>1, <1>3, <2>2 DEF MemberIsThere
    <3>3. LoggedIn(s)
      BY <1>1 DEF Present
    <3>4. lobbies[r].clients[j].fd = s
      BY <1>1, <3>1, <3>2, <3>3 DEF NamesDiffer
    <3> QED
      BY <1>1, <1>3, <1>6, <3>4 DEF ListedOnce
  <2> QED
    BY <2>1, <2>2 DEF MembersNamed
<1>9. FirstOf(MembersNamed(r, prompt[s])) = k
  BY <1>7, <1>8, FirstFind
<1> QED
  BY <1>3, <1>4, <1>5, <1>6, <1>8, <1>9

\* Nobody has gone, so no send fails.
LEMMA NoSendFails ==
  ASSUME Present, NEW to, \A k \in DOMAIN to : to[k] \in Session
  PROVE  SendMayFail(to) = {FALSE}
  BY DEF Present, SendMayFail

LEMMA OnePacketArrives ==
  ASSUME Present
  PROVE  SendMayFail(<<>>) = {FALSE} /\ \A t \in Session : SendMayFail(<<t>>) = {FALSE}
<1>1. DOMAIN <<>> = {}
  OBVIOUS
<1>2. SendMayFail(<<>>) = {FALSE}
  BY <1>1 DEF SendMayFail
<1>3. ASSUME NEW t \in Session PROVE SendMayFail(<<t>>) = {FALSE}
  <2>1. DOMAIN <<t>> = {1} /\ <<t>>[1] = t
    OBVIOUS
  <2>2. screen[t] # "gone"
    BY DEF Present
  <2> QED
    BY <2>1, <2>2 DEF SendMayFail
<1> QED
  BY <1>2, <1>3

\* Who enters takes a seat behind the others; all the others keep theirs.
LEMMA EnterKeepsSeats ==
  ASSUME MembershipInv, NEW s \in Session, NEW n \in LobbyName, EnterLobby(s, n)
  PROVE  Seated'
<1> DEFINE i == FirstOf(ByPrefix(n))
           l == lobbies[i]
           new == Admitted(l, s)
<1>1. /\ TypeOK /\ NumbersArePositions /\ OneName /\ Present
      /\ MemberIsThere /\ ListedOnce /\ WhoIsThereIsListed
  BY DEF MembershipInv, CountedInv, Seated
<1>2. i \in 1 .. Len(lobbies)
  BY <1>1, ListShape, FindsAreIndices, FirstFind DEF EnterLobby, TypeOK
<1>3. /\ lobbies' = [lobbies EXCEPT ![i] = new]
      /\ room' = [room EXCEPT ![s] = l.num]
      /\ screen' = [screen EXCEPT ![s] = "lobby"]
      /\ UNCHANGED prompt
      /\ screen[s] = "menu"
  BY DEF EnterLobby, NumberTold, AtMenu
<1> HIDE DEF i
<1>4. l \in Lobby /\ uname[s] \in Names /\ Len(l.clients) \in Nat
  BY <1>1, <1>2, ListShape DEF TypeOK
<1>5. new \in Lobby
  BY <1>4, AdmittedProperties
<1>6. /\ Len(new.clients) = Len(l.clients) + 1
      /\ \A k \in 1 .. Len(l.clients) : new.clients[k] = l.clients[k]
      /\ new.clients[Len(l.clients) + 1].name = prompt[s]
      /\ new.clients[Len(l.clients) + 1].fd = s
  <2> HIDE DEF l
  <2>1. /\ Len(new.clients) = Len(l.clients) + 1
        /\ \A k \in 1 .. Len(l.clients) : new.clients[k] = l.clients[k]
        /\ new.clients[Len(l.clients) + 1] = [name |-> uname[s], fd |-> s]
    BY <1>4, AdmittedMembers
  <2>2. uname[s] = prompt[s]
    BY <1>1 DEF OneName
  <2> HIDE DEF new
  <2> QED
    BY <2>1, <2>2
<1> HIDE DEF new
<1>7. /\ Len(lobbies') = Len(lobbies)
      /\ \A j \in 1 .. Len(lobbies) : lobbies'[j] = IF j = i THEN new ELSE lobbies[j]
  BY <1>1, <1>2, <1>3, <1>5, ExceptSeq DEF TypeOK
<1>8. l.num = i
  BY <1>1, <1>2 DEF NumbersArePositions
<1>9. \A j \in 1 .. Len(lobbies) : \A k \in 1 .. Len(lobbies[j].clients) :
        /\ lobbies[j].clients[k].fd \in Session \ {s}
        /\ lobbies'[j].clients[k] = lobbies[j].clients[k]
        /\ k \in 1 .. Len(lobbies'[j].clients)
  <2> SUFFICES ASSUME NEW j \in 1 .. Len(lobbies), NEW k \in 1 .. Len(lobbies[j].clients)
               PROVE  /\ lobbies[j].clients[k].fd \in Session \ {s}
                      /\ lobbies'[j].clients[k] = lobbies[j].clients[k]
                      /\ k \in 1 .. Len(lobbies'[j].clients)
    OBVIOUS
  <2>1. lobbies[j].clients[k].fd \in Session /\ Len(lobbies[j].clients) \in Nat
    BY <1>1, ListShape
  <2>2. screen[lobbies[j].clients[k].fd] = "lobby"
    BY <1>1 DEF MemberIsThere
  <2>3. lobbies'[j].clients[k] = lobbies[j].clients[k] /\ k \in 1 .. Len(lobbies'[j].clients)
    <3>1. CASE j = i
      <4>1. lobbies'[j] = new /\ lobbies[j] = l
        BY <1>7, <3>1
      <4> QED
        BY <1>4, <1>6, <4>1
    <3>2. CASE j # i
      BY <1>7, <2>1, <3>2
    <3> QED
      BY <3>1, <3>2
  <2> QED
    BY <1>3, <2>1, <2>2, <2>3
\* The seats after the step: those before, and the new one
<1>10. ASSUME NEW j \in 1 .. Len(lobbies'), NEW k \in 1 .. Len(lobbies'[j].clients)
       PROVE  \/ k \in 1 .. Len(lobbies[j].clients)
              \/ /\ j = i /\ k = Len(l.clients) + 1
                 /\ lobbies'[j].clients[k].name = prompt[s]
                 /\ lobbies'[j].clients[k].fd = s
  <2>1. CASE j = i
    BY <1>4, <1>6, <1>7, <2>1
  <2>2. CASE j # i
    BY <1>7, <2>2
  <2> QED
    BY <2>1, <2>2
<1>11. MemberIsThere'
  <2> SUFFICES ASSUME NEW j \in 1 .. Len(lobbies'), NEW k \in 1 .. Len(lobbies'[j].clients)
               PROVE  LET m == lobbies'[j].clients[k]
                      IN  screen'[m.fd] = "lobby" /\ room'[m.fd] = j /\ m.name = prompt'[m.fd]
    BY DEF MemberIsThere
  <2>1. j \in 1 .. Len(lobbies)
    BY <1>7
  <2>2. CASE k \in 1 .. Len(lobbies[j].clients)
    <3>1. LET m == lobbies[j].clients[k]
          IN  screen[m.fd] = "lobby" /\ room[m.fd] = j /\ m.name = prompt[m.fd]
      BY <1>1, <2>1, <2>2 DEF MemberIsThere
    <3> QED
      BY <1>1, <1>3, <1>9, <2>1, <2>2, <3>1 DEF TypeOK
  <2>3. CASE j = i /\ lobbies'[j].clients[k].name = prompt[s] /\ lobbies'[j].clients[k].fd = s
    BY <1>1, <1>3, <1>8, <2>3 DEF TypeOK
  <2> QED
    BY <1>10, <2>2, <2>3
<1>12. ListedOnce'
  <2> SUFFICES ASSUME NEW j \in 1 .. Len(lobbies'),
                      NEW k \in 1 .. Len(lobbies'[j].clients), NEW h \in 1 .. Len(lobbies'[j].clients),
                      lobbies'[j].clients[k].fd = lobbies'[j].clients[h].fd
               PROVE  k = h
    BY DEF ListedOnce
  <2>1. j \in 1 .. Len(lobbies)
    BY <1>7
  <2>2. k \in 1 .. Len(lobbies[j].clients) /\ h \in 1 .. Len(lobbies[j].clients) => k = h
    BY <1>1, <1>9, <2>1 DEF ListedOnce
  <2> QED
    BY <1>9, <1>10, <2>1, <2>2, SMTT(40)
<1>13. WhoIsThereIsListed'
  <2> SUFFICES ASSUME NEW t \in Session, screen'[t] = "lobby"
               PROVE  /\ room'[t] \in 1 .. Len(lobbies')
                      /\ \E k \in 1 .. Len(lobbies'[room'[t]].clients) :
                           lobbies'[room'[t]].clients[k].fd = t
    BY DEF WhoIsThereIsListed
  <2>1. CASE t = s
    <3>1. room'[t] = i
      BY <1>1, <1>3, <1>8, <2>1 DEF TypeOK
    <3>2. Len(l.clients) + 1 \in 1 .. Len(lobbies'[i].clients)
      BY <1>2, <1>4, <1>6, <1>7
    <3>3. lobbies'[i].clients[Len(l.clients) + 1].fd = s
      BY <1>2, <1>6, <1>7
    <3> QED
      BY <1>2, <1>7, <2>1, <3>1, <3>2, <3>3
  <2>2. CASE t # s
    <3>1. room'[t] = room[t] /\ screen[t] = "lobby"
      BY <1>1, <1>3, <2>2 DEF TypeOK
    <3>2. room[t] \in 1 .. Len(lobbies)
      BY <1>1, <3>1 DEF WhoIsThereIsListed
    <3>3. PICK k \in 1 .. Len(lobbies[room[t]].clients) : lobbies[room[t]].clients[k].fd = t
      BY <1>1, <3>1 DEF WhoIsThereIsListed
    <3> QED
      BY <1>7, <1>9, <3>1, <3>2, <3>3, ZenonT(40)
  <2> QED
    BY <2>1, <2>2
<1> QED
  BY <1>11, <1>12, <1>13 DEF Seated

\* Who leaves is taken out itself, and gets the packet that ends its receiver.
LEMMA ExitTakesItself ==
  ASSUME MembershipInv, NEW s \in Session, ExitRoom(s)
  PROVE  LET i == room[s]
         IN  /\ screen' = [screen EXCEPT ![s] = "menu"]
             /\ reading' = [reading EXCEPT ![s] = FALSE]
             /\ UNCHANGED <<size, uname, prompt, room, down>>
             /\ \E k \in 1 .. Len(lobbies[i].clients) :
                  /\ lobbies[i].clients[k].fd = s
                  /\ lobbies' = [lobbies EXCEPT ![i] = Left(@, k)]
<1> DEFINE i == FirstOf(ByNumber(room[s]))
           k == FirstOf(MembersNamed(i, prompt[s]))
           t == lobbies[i].clients[k].fd
           still == [reading EXCEPT ![t] = FALSE]
<1>1. TypeOK /\ Present /\ ~down
  BY DEF MembershipInv, CountedInv
<1>2. /\ lobbies' = [lobbies EXCEPT ![i] = Left(@, k)]
      /\ reading' = still
      /\ screen' = [c \in Session |->
                      CASE c = s -> IF still[s] THEN "leaving" ELSE "menu"
                        [] c # s /\ c = t /\ screen[t] = "leaving" -> "menu"
                        [] OTHER -> screen[c]]
      /\ down' \in SendMayFail(<<t>>)
      /\ UNCHANGED <<size, uname, prompt, room>>
  BY ZenonT(40) DEF ExitRoom
<1>3. screen[s] = "lobby"
  BY DEF ExitRoom, InLobby
<1>4. i = room[s] /\ k \in 1 .. Len(lobbies[i].clients) /\ t = s
  BY <1>3, FindsItself
<1> HIDE DEF i, k, t
<1>5. still[s] = FALSE
  BY <1>1, <1>4 DEF TypeOK
<1>6. screen' = [screen EXCEPT ![s] = "menu"]
  BY <1>1, <1>2, <1>4, <1>5 DEF TypeOK
<1>7. down' = FALSE
  BY <1>1, <1>2, <1>4, OnePacketArrives
<1>8. lobbies[room[s]].clients[k].fd = s /\ k \in 1 .. Len(lobbies[room[s]].clients)
  BY <1>4 DEF t
<1>9. lobbies' = [lobbies EXCEPT ![room[s]] = Left(@, k)] /\ reading' = [reading EXCEPT ![s] = FALSE]
  BY <1>2, <1>4
<1>10. down' = down
  BY <1>1, <1>7 DEF TypeOK
<1> QED
  BY <1>2, <1>6, <1>8, <1>9, <1>10

\* Whoever sat behind the one who left moves up.
LEMMA ExitKeepsSeats ==
  ASSUME MembershipInv, NEW s \in Session, ExitRoom(s)
  PROVE  Seated'
<1> DEFINE i == room[s]
           l == lobbies[i]
<1>1. TypeOK /\ Present /\ MemberIsThere /\ ListedOnce /\ WhoIsThereIsListed
  BY DEF MembershipInv, CountedInv, Seated
<1>2. screen[s] = "lobby"
  BY DEF ExitRoom, InLobby
<1>3. i \in 1 .. Len(lobbies)
  BY <1>1, <1>2 DEF WhoIsThereIsListed
<1>4. screen' = [screen EXCEPT ![s] = "menu"] /\ UNCHANGED <<prompt, room>>
  BY ExitTakesItself
<1>5. PICK k \in 1 .. Len(l.clients) :
        l.clients[k].fd = s /\ lobbies' = [lobbies EXCEPT ![i] = Left(@, k)]
  BY ExitTakesItself
<1> DEFINE new == Left(l, k)
<1>6. l \in Lobby /\ Len(l.clients) \in Nat
  BY <1>1, <1>3, ListShape
<1>7. /\ new \in Lobby
      /\ Len(new.clients) = Len(l.clients) - 1
      /\ \A j \in 1 .. Len(l.clients) - 1 :
           new.clients[j] = IF j < k THEN l.clients[j] ELSE l.clients[j + 1]
  BY <1>6, LeftProperties, LeftMembers
<1>8. lobbies' = [lobbies EXCEPT ![i] = new]
  BY <1>5
<1> HIDE DEF new, i
<1>9. /\ Len(lobbies') = Len(lobbies)
      /\ \A j \in 1 .. Len(lobbies) : lobbies'[j] = IF j = i THEN new ELSE lobbies[j]
  BY <1>1, <1>3, <1>7, <1>8, ExceptSeq DEF TypeOK
\* A seat after the step was one before: the same, or the next
<1> DEFINE Was(j, h) == IF j = i /\ h >= k THEN h + 1 ELSE h
<1>10. ASSUME NEW j \in 1 .. Len(lobbies'), NEW h \in 1 .. Len(lobbies'[j].clients)
       PROVE  /\ j \in 1 .. Len(lobbies)
              /\ h \in Nat
              /\ Was(j, h) \in 1 .. Len(lobbies[j].clients)
              /\ lobbies'[j].clients[h] = lobbies[j].clients[Was(j, h)]
              /\ j = i => Was(j, h) # k
  <2>1. j \in 1 .. Len(lobbies)
    BY <1>9
  <2>2. Len(lobbies[j].clients) \in Nat
    BY <1>1, <2>1, ListShape
  <2>3. CASE j = i
    <3>1. lobbies'[j] = new /\ lobbies[j] = l
      BY <1>9, <2>1, <2>3
    <3>2. h \in 1 .. Len(l.clients) - 1
      BY <1>7, <3>1
    <3>3. new.clients[h] = IF h < k THEN l.clients[h] ELSE l.clients[h + 1]
      BY <1>7, <3>2
    <3>4. CASE h < k
      BY <1>6, <2>1, <2>3, <3>1, <3>2, <3>3, <3>4
    <3>5. CASE h >= k
      BY <1>6, <2>1, <2>3, <3>1, <3>2, <3>3, <3>5
    <3> QED
      BY <1>6, <3>2, <3>4, <3>5
  <2>4. CASE j # i
    BY <1>9, <2>1, <2>2, <2>4
  <2> QED
    BY <2>3, <2>4
<1>11. ASSUME NEW j \in 1 .. Len(lobbies'), NEW h \in 1 .. Len(lobbies'[j].clients)
       PROVE  lobbies'[j].clients[h].fd \in Session \ {s}
  <2>1. PICK g \in 1 .. Len(lobbies[j].clients) :
          lobbies'[j].clients[h] = lobbies[j].clients[g] /\ (j = i => g # k)
    BY <1>10, ZenonT(40)
  <2>2. j \in 1 .. Len(lobbies)
    BY <1>9
  <2>3. lobbies[j].clients[g].fd \in Session
    BY <1>1, <2>2, ListShape
  <2>4. CASE lobbies[j].clients[g].fd = s
    <3>1. j = i
      BY <1>1, <2>2, <2>4 DEF MemberIsThere, i
    <3> QED
      BY <1>1, <1>3, <1>5, <2>1, <2>4, <3>1 DEF ListedOnce
  <2> QED
    BY <2>1, <2>3, <2>4
<1> HIDE DEF Was
<1>12. MemberIsThere'
  <2> SUFFICES ASSUME NEW j \in 1 .. Len(lobbies'), NEW h \in 1 .. Len(lobbies'[j].clients)
               PROVE  LET m == lobbies'[j].clients[h]
                      IN  screen'[m.fd] = "lobby" /\ room'[m.fd] = j /\ m.name = prompt'[m.fd]
    BY DEF MemberIsThere
  <2>1. LET m == lobbies'[j].clients[h]
        IN  screen[m.fd] = "lobby" /\ room[m.fd] = j /\ m.name = prompt[m.fd]
    <3>1. j \in 1 .. Len(lobbies)
      BY <1>10
    <3>2. PICK g \in 1 .. Len(lobbies[j].clients) : lobbies'[j].clients[h] = lobbies[j].clients[g]
      BY <1>10
    <3> QED
      BY <1>1, <3>1, <3>2 DEF MemberIsThere
  <2> QED
    BY <1>1, <1>4, <1>11, <2>1 DEF TypeOK
<1>13. ListedOnce'
  <2> SUFFICES ASSUME NEW j \in 1 .. Len(lobbies'),
                      NEW g \in 1 .. Len(lobbies'[j].clients), NEW h \in 1 .. Len(lobbies'[j].clients),
                      lobbies'[j].clients[g].fd = lobbies'[j].clients[h].fd
               PROVE  g = h
    BY DEF ListedOnce
  <2>1. Was(j, g) = Was(j, h)
    <3>1. /\ Was(j, g) \in 1 .. Len(lobbies[j].clients)
          /\ Was(j, h) \in 1 .. Len(lobbies[j].clients)
          /\ lobbies[j].clients[Was(j, g)].fd = lobbies[j].clients[Was(j, h)].fd
          /\ j \in 1 .. Len(lobbies)
      BY <1>10
    <3> QED
      BY <1>1, <3>1 DEF ListedOnce
  <2>2. g \in Nat /\ h \in Nat
    BY <1>10
  <2> QED
    BY <2>1, <2>2 DEF Was
<1>14. WhoIsThereIsListed'
  <2> SUFFICES ASSUME NEW t \in Session, screen'[t] = "lobby"
               PROVE  /\ room'[t] \in 1 .. Len(lobbies')
                      /\ \E h \in 1 .. Len(lobbies'[room'[t]].clients) :
                           lobbies'[room'[t]].clients[h].fd = t
    BY DEF WhoIsThereIsListed
  <2>1. t # s /\ room'[t] = room[t] /\ screen[t] = "lobby"
    BY <1>1, <1>4 DEF TypeOK
  <2>2. room[t] \in 1 .. Len(lobbies)
    BY <1>1, <2>1 DEF WhoIsThereIsListed
  <2>3. PICK g \in 1 .. Len(lobbies[room[t]].clients) : lobbies[room[t]].clients[g].fd = t
    BY <1>1, <2>1 DEF WhoIsThereIsListed
  <2>4. CASE room[t] # i
    BY <1>9, <2>1, <2>2, <2>3, <2>4
  <2>5. CASE room[t] = i
    <3>1. g # k
      BY <1>5, <2>1, <2>3, <2>5
    <3>2. lobbies'[i] = new
      BY <1>3, <1>9
    <3>3. CASE g < k
      <4>1. g \in 1 .. Len(new.clients) /\ new.clients[g] = l.clients[g]
        BY <1>6, <1>7, <2>3, <2>5, <3>3
      <4> QED
        BY <1>3, <1>9, <2>1, <2>3, <2>5, <3>2, <4>1
    <3>4. CASE g > k
      <4>1. g - 1 \in 1 .. Len(new.clients) /\ new.clients[g - 1] = l.clients[g]
        BY <1>6, <1>7, <2>3, <2>5, <3>4
      <4> QED
        BY <1>3, <1>9, <2>1, <2>3, <2>5, <3>2, <4>1
    <3> QED
      BY <1>6, <2>3, <2>5, <3>1, <3>3, <3>4
  <2> QED
    BY <2>4, <2>5
<1> QED
  BY <1>12, <1>13, <1>14 DEF Seated

\* A new lobby is empty and behind the others.
LEMMA CreateKeepsSeats ==
  ASSUME MembershipInv, NEW s \in Session, NEW n \in LobbyName, CreateLobby(s, n)
  PROVE  Seated'
<1> DEFINE new == NewLobby(n)
<1>1. TypeOK /\ Counted /\ MemberIsThere /\ ListedOnce /\ WhoIsThereIsListed
  BY DEF MembershipInv, CountedInv, Seated
<1>2. lobbies' = Append(lobbies, new) /\ UNCHANGED <<prompt, screen, room>>
  BY DEF CreateLobby, client
<1>3. Len(lobbies) \in Nat
  BY <1>1, ListShape
<1>4. new \in Lobby /\ Len(new.clients) = 0
  <2>1. n \in Names /\ size + 1 \in Nat
    BY <1>1, <1>3, LobbiesAssumption DEF IsName, Names, Counted
  <2>2. <<>> \in Seq(Member) /\ Len(<<>>) = 0
    BY EmptySeq
  <2> QED
    BY <2>1, <2>2 DEF NewLobby, Lobby
<1> HIDE DEF new
<1>5. /\ Len(lobbies') = Len(lobbies) + 1
      /\ \A i \in 1 .. Len(lobbies) : lobbies'[i] = lobbies[i]
      /\ lobbies'[Len(lobbies) + 1] = new
  BY <1>1, <1>2, <1>4, AppendProperties DEF TypeOK
<1>6. \A i \in 1 .. Len(lobbies') : \A k \in 1 .. Len(lobbies'[i].clients) :
        i \in 1 .. Len(lobbies) /\ lobbies'[i] = lobbies[i]
  <2> SUFFICES ASSUME NEW i \in 1 .. Len(lobbies'), NEW k \in 1 .. Len(lobbies'[i].clients)
               PROVE  i \in 1 .. Len(lobbies)
    BY <1>5
  <2>1. i # Len(lobbies) + 1
    BY <1>4, <1>5
  <2> QED
    BY <1>3, <1>5, <2>1
<1>7. MemberIsThere' /\ ListedOnce'
  BY <1>1, <1>2, <1>6 DEF MemberIsThere, ListedOnce
<1>8. WhoIsThereIsListed'
  BY <1>1, <1>2, <1>3, <1>5 DEF WhoIsThereIsListed
<1> QED
  BY <1>7, <1>8 DEF Seated

\* A direct message goes to one member or to nobody.
LEMMA AddresseeIsThere ==
  ASSUME MembershipInv, NEW i \in 1 .. Len(lobbies), NEW s \in Session, NEW u \in UserName
  PROVE  Addressee(i, s, u) = <<>> \/ \E t \in Session : Addressee(i, s, u) = <<t>>
<1>1. TypeOK
  BY DEF MembershipInv, CountedInv
<1>2. Len(lobbies[i].clients) \in Nat
  BY <1>1, ListShape
<1> DEFINE starting == {k \in 1 .. Len(lobbies[i].clients) :
                          IsPrefixOf(prompt[s], lobbies[i].clients[k].name)}
<1>3. ASSUME NEW S \in SUBSET (1 .. Len(lobbies[i].clients)), S # {}
      PROVE  lobbies[i].clients[FirstOf(S)].fd \in Session
  <2>1. FirstOf(S) \in 1 .. Len(lobbies[i].clients)
    BY <1>2, <1>3, FirstFind
  <2> QED
    BY <1>1, <2>1, ListShape
<1>4. CASE MembersNamed(i, u) # {}
  <2>1. Addressee(i, s, u) = <<lobbies[i].clients[FirstOf(MembersNamed(i, u))].fd>>
    BY <1>4 DEF Addressee
  <2>2. MembersNamed(i, u) \subseteq 1 .. Len(lobbies[i].clients)
    BY DEF MembersNamed
  <2> QED
    BY <1>3, <1>4, <2>1, <2>2
<1>5. CASE MembersNamed(i, u) = {} /\ starting # {}
  <2>1. Addressee(i, s, u) = <<lobbies[i].clients[FirstOf(starting)].fd>>
    BY <1>5 DEF Addressee
  <2>2. starting \subseteq 1 .. Len(lobbies[i].clients)
    OBVIOUS
  <2> HIDE DEF starting
  <2> QED
    BY <1>3, <1>5, <2>1, <2>2
<1>6. CASE MembersNamed(i, u) = {} /\ starting = {}
  BY <1>6 DEF Addressee
<1> QED
  BY <1>4, <1>5, <1>6

\* Only logging in, entering and leaving change who is where; the other requests of
\* such users change nothing the invariant speaks of.
LEMMA MembershipInvNext ==
  ASSUME Habits = {}
  PROVE  MembershipInv /\ [Next]_vars => MembershipInv'
<1> SUFFICES ASSUME MembershipInv, [Next]_vars PROVE MembershipInv'
  OBVIOUS
<1>0. CountedInv' /\ NumbersArePositions'
  BY CountedInvNext, NumbersArePositionsNext DEF MembershipInv
<1>1. TypeOK /\ ~down /\ OneName /\ NamesDiffer /\ Present /\ Seated
  BY DEF MembershipInv, CountedInv
<1>2. ASSUME UNCHANGED <<lobbies, uname, down, client>> PROVE MembershipInv'
  <2>1. OneName' /\ NamesDiffer' /\ Present' /\ ~down'
    BY <1>1, <1>2 DEF client, OneName, NamesDiffer, LoggedIn, Present
  <2>2. MemberIsThere' /\ ListedOnce' /\ WhoIsThereIsListed'
    BY <1>1, <1>2 DEF client, Seated, MemberIsThere, ListedOnce, WhoIsThereIsListed
  <2> QED
    BY <1>0, <2>1, <2>2 DEF MembershipInv, Seated
\* A client that logs in is in no lobby, so it is on no list under its old name
<1>3. ASSUME NEW s \in Session, NEW u \in UserName, Login(s, u) PROVE MembershipInv'
  <2>1. /\ screen[s] = "menu" /\ prompt[s] = <<>>
        /\ \A t \in Session \ {s} : prompt[t] = u => screen[t] = "gone"
        /\ uname' = [uname EXCEPT ![s] = Overlay(u, uname[s])]
        /\ prompt' = [prompt EXCEPT ![s] = u]
        /\ UNCHANGED <<lobbies, screen, room, reading, down>>
    BY <1>3 DEF Login, AtMenu, LoggedIn
  <2>2. Overlay(u, uname[s]) = u
    <3>1. u \in Seq(STRING) /\ uname[s] = <<>>
      BY <1>1, <2>1, LobbiesAssumption DEF IsName, OneName
    <3>2. SubSeq(<<>>, Len(u) + 1, 0) = <<>>
      <4>1. Len(u) \in Nat
        BY <3>1, LenProperties
      <4> QED
        BY <4>1, SubSeqEmpty
    <3>3. u \o <<>> = u
      BY <3>1, ConcatEmptySeq
    <3>4. Len(<<>>) = 0
      BY EmptySeq
    <3> QED
      BY <3>1, <3>2, <3>3, <3>4 DEF Overlay
  <2>3. OneName'
    BY <1>1, <2>1, <2>2 DEF OneName, TypeOK
  <2>4. NamesDiffer'
    <3>1. \A t \in Session \ {s} : prompt[t] # u
      BY <1>1, <2>1 DEF Present
    <3> QED
      BY <1>1, <2>1, <3>1 DEF NamesDiffer, LoggedIn, TypeOK
  <2>5. Present'
    BY <1>1, <2>1 DEF Present, LoggedIn, TypeOK
  <2>6. MemberIsThere'
    <3> SUFFICES ASSUME NEW i \in 1 .. Len(lobbies), NEW k \in 1 .. Len(lobbies[i].clients)
                 PROVE  LET m == lobbies[i].clients[k]
                        IN  screen[m.fd] = "lobby" /\ room[m.fd] = i /\ m.name = prompt'[m.fd]
      BY <2>1 DEF MemberIsThere
    <3>1. LET m == lobbies[i].clients[k]
          IN  screen[m.fd] = "lobby" /\ room[m.fd] = i /\ m.name = prompt[m.fd] /\ m.fd \in Session
      BY <1>1, ListShape DEF Seated, MemberIsThere
    <3> QED
      BY <1>1, <2>1, <3>1 DEF TypeOK
  <2>7. ListedOnce' /\ WhoIsThereIsListed'
    BY <1>1, <2>1 DEF Seated, ListedOnce, WhoIsThereIsListed
  <2> QED
    BY <1>0, <1>1, <2>1, <2>3, <2>4, <2>5, <2>6, <2>7 DEF MembershipInv, Seated
<1>4. ASSUME NEW s \in Session, NEW n \in LobbyName, EnterLobby(s, n) PROVE MembershipInv'
  <2>1. /\ screen' = [screen EXCEPT ![s] = "lobby"]
        /\ reading' = [reading EXCEPT ![s] = TRUE]
        /\ UNCHANGED <<uname, down, prompt>>
        /\ LoggedIn(s)
    BY <1>4 DEF EnterLobby
  <2>2. OneName' /\ NamesDiffer' /\ Present' /\ ~down'
    BY <1>1, <2>1 DEF OneName, NamesDiffer, Present, LoggedIn, TypeOK
  <2>3. Seated'
    BY <1>4, EnterKeepsSeats
  <2> QED
    BY <1>0, <2>2, <2>3 DEF MembershipInv
<1>5. ASSUME NEW s \in Session, ExitRoom(s) PROVE MembershipInv'
  <2>1. /\ screen' = [screen EXCEPT ![s] = "menu"]
        /\ reading' = [reading EXCEPT ![s] = FALSE]
        /\ UNCHANGED <<uname, prompt, down>>
    BY <1>5, ExitTakesItself
  <2>2. OneName' /\ NamesDiffer' /\ Present' /\ ~down'
    BY <1>1, <2>1 DEF OneName, NamesDiffer, Present, LoggedIn, TypeOK
  <2>3. Seated'
    BY <1>5, ExitKeepsSeats
  <2> QED
    BY <1>0, <2>2, <2>3 DEF MembershipInv
\* A broadcast or a direct message goes to members, who are all there
<1>6. ASSUME NEW s \in Session, SendAll(s) PROVE MembershipInv'
  <2> DEFINE i == FirstOf(ByNumber(room[s]))
             to == Audience(i, Broadcast(s))
  <2>1. i \in 1 .. Len(lobbies)
    BY <1>6, FindsItself DEF SendAll, InLobby
  <2>2. \A k \in DOMAIN to : to[k] \in Session
    <3> HIDE DEF i
    <3> QED
      BY <1>1, <2>1, ListShape DEF Audience
  <2>3. \E sent \in {<<>>, to} : down' \in SendMayFail(sent)
    BY <1>6 DEF SendAll
  <2>4. UNCHANGED <<lobbies, uname, client>>
    BY <1>6 DEF SendAll
  <2> HIDE DEF to
  <2>5. SendMayFail(to) = {FALSE}
    BY <1>1, <2>2, NoSendFails
  <2>6. SendMayFail(<<>>) = {FALSE}
    BY <1>1, OnePacketArrives
  <2>7. down' = FALSE
    BY <2>3, <2>5, <2>6, Zenon
  <2>8. down' = down
    BY <1>1, <2>7 DEF TypeOK
  <2> QED
    BY <1>2, <2>4, <2>8
<1>7. ASSUME NEW s \in Session, NEW u \in UserName, SendDirect(s, u) PROVE MembershipInv'
  <2> DEFINE i == FirstOf(ByNumber(room[s]))
             to == Addressee(i, s, u)
  <2>1. i \in 1 .. Len(lobbies)
    BY <1>7, FindsItself DEF SendDirect, InLobby
  <2>2. to = <<>> \/ \E t \in Session : to = <<t>>
    BY <2>1, AddresseeIsThere
  <2>3. \E sent \in {<<>>, to} : down' \in SendMayFail(sent)
    BY <1>7 DEF SendDirect
  <2>4. UNCHANGED <<lobbies, uname, client>>
    BY <1>7 DEF SendDirect
  <2> HIDE DEF to
  <2>5. SendMayFail(<<>>) = {FALSE} /\ \A t \in Session : SendMayFail(<<t>>) = {FALSE}
    BY <1>1, OnePacketArrives
  <2>6. down' = FALSE
    BY <2>2, <2>3, <2>5, Zenon
  <2>7. down' = down
    BY <1>1, <2>6 DEF TypeOK
  <2> QED
    BY <1>2, <2>4, <2>7
\* Leaving a lobby always finds the lobby and the member
<1>8. ASSUME NEW s \in Session, ExitOffTheEnd(s) \/ ExitNowhere(s) PROVE MembershipInv'
  <2>1. screen[s] = "lobby"
    BY <1>8 DEF ExitOffTheEnd, ExitNowhere, InLobby
  <2>2. ByNumber(room[s]) # {} /\ MembersNamed(FirstOf(ByNumber(room[s])), prompt[s]) # {}
    BY <2>1, FindsItself
  <2> QED
    BY <1>8, <2>2 DEF ExitOffTheEnd, ExitNowhere
<1>9. ASSUME NEW s \in Session, NEW n \in LobbyName, CreateLobby(s, n) PROVE MembershipInv'
  <2>1. OneName' /\ NamesDiffer' /\ Present' /\ ~down'
    BY <1>1, <1>9 DEF CreateLobby, client, OneName, NamesDiffer, LoggedIn, Present
  <2>2. Seated'
    BY <1>9, CreateKeepsSeats
  <2> QED
    BY <1>0, <2>1, <2>2 DEF MembershipInv
<1>10. CASE UNCHANGED vars
  BY <1>2, <1>10 DEF vars, server
<1>11. ASSUME NEW s \in Session, NotPermitted(s) \/ ListLobbies(s) \/ ListMembers(s)
       PROVE  MembershipInv'
  BY <1>2, <1>11 DEF NotPermitted, ListLobbies, ListMembers, server
<1>12. ASSUME NEW s \in Session, NEW n \in LobbyName, EnterUnknown(s, n) PROVE MembershipInv'
  BY <1>2, <1>12 DEF EnterUnknown, server
<1>13. \A s \in Session : ~HangUp(s) /\ \A n \in LobbyName : ~DestroyLobby(s, n) /\ ~DestroyUnknown(s, n)
  BY DEF HangUp, DestroyLobby, DestroyUnknown
<1> QED
  BY <1>3, <1>4, <1>5, <1>6, <1>7, <1>8, <1>9, <1>10, <1>11, <1>12, <1>13 DEF Next, Over

LEMMA MembershipInvariant ==
  ASSUME Habits = {}
  PROVE  Spec => []MembershipInv
  BY MembershipInvInit, MembershipInvNext, PTL DEF Spec

\* Among such users no handler walks off a list and no send hits a closed socket:
\* the server process lives (chat.c exit_room, send_all, send_direct).
THEOREM ServerSurvives ==
  ASSUME Habits = {}
  PROVE  Spec => []ServerStaysUp
<1>1. MembershipInv => ServerStaysUp
  BY DEF MembershipInv, ServerStaysUp
<1> QED
  BY <1>1, MembershipInvariant, PTL

\* Whoever leaves its lobby is answered: no client is left with a receiver that
\* waits for the packet that would end it (client.py do_exit, chat.c exit_room).
THEOREM NobodyIsStuck ==
  ASSUME Habits = {}
  PROVE  Spec => []NobodyStuck
<1>1. MembershipInv => NobodyStuck
  BY DEF MembershipInv, Present, NobodyStuck
<1> QED
  BY <1>1, MembershipInvariant, PTL

\* Where a client in a lobby is: in one place
LEMMA SeatIsEntry ==
  ASSUME MembershipInv, NEW s \in Session, screen[s] = "lobby"
  PROVE  \E k \in 1 .. Len(lobbies[room[s]].clients) :
           /\ Entries(s) = {<<room[s], k>>}
           /\ lobbies[room[s]].clients[k].name = prompt[s]
<1> DEFINE r == room[s]
<1>1. MemberIsThere /\ ListedOnce /\ WhoIsThereIsListed
  BY DEF MembershipInv, Seated
<1>2. r \in 1 .. Len(lobbies)
  BY <1>1 DEF WhoIsThereIsListed
<1>3. PICK k \in 1 .. Len(lobbies[r].clients) : lobbies[r].clients[k].fd = s
  BY <1>1 DEF WhoIsThereIsListed
<1>4. lobbies[r].clients[k].name = prompt[s]
  BY <1>1, <1>2, <1>3 DEF MemberIsThere
<1>5. <<r, k>> \in Entries(s)
  BY <1>2, <1>3 DEF Entries, Places, MemberAt
<1>6. ASSUME NEW e \in Entries(s) PROVE e = <<r, k>>
  <2>1. PICK i \in 1 .. Len(lobbies) : e \in {i} \X (1 .. Len(lobbies[i].clients))
    BY DEF Entries, Places
  <2>2. PICK j \in 1 .. Len(lobbies[i].clients) : e = <<i, j>>
    BY <2>1
  <2>3. lobbies[i].clients[j].fd = s
    BY <2>2 DEF Entries, MemberAt
  <2>4. i = r
    BY <1>1, <2>3 DEF MemberIsThere
  <2>5. j = k
    BY <1>1, <1>2, <1>3, <2>3, <2>4 DEF ListedOnce
  <2> QED
    BY <2>2, <2>4, <2>5
<1> QED
  BY <1>3, <1>4, <1>5, <1>6

\* The server's lists and the clients' ideas of where they are agree: a client in a
\* lobby is on the list of the lobby with its number, once, under its name, and
\* nobody else is on any list (chat.c enter_lobby and exit_room against client.py).
THEOREM MembershipHolds ==
  ASSUME Habits = {}
  PROVE  Spec => []MembershipAgrees
<1>1. MembershipInv => MembershipAgrees
  <2> SUFFICES ASSUME MembershipInv, NEW s \in Session
               PROVE  IF screen[s] = "lobby"
                        THEN \E e \in Places : /\ Entries(s) = {e}
                                               /\ e[1] \in ByNumber(room[s])
                                               /\ MemberAt(e).name = prompt[s]
                        ELSE Entries(s) = {}
    BY DEF MembershipAgrees
  <2>1. CASE screen[s] = "lobby"
    <3>1. PICK k \in 1 .. Len(lobbies[room[s]].clients) :
            /\ Entries(s) = {<<room[s], k>>}
            /\ lobbies[room[s]].clients[k].name = prompt[s]
      BY <2>1, SeatIsEntry
    <3>2. room[s] \in ByNumber(room[s])
      BY <2>1, FindsItself
    <3>3. <<room[s], k>> \in Places
      BY <3>1 DEF Entries
    <3> QED
      BY <2>1, <3>1, <3>2, <3>3 DEF MemberAt
  <2>2. CASE screen[s] # "lobby"
    <3>1. MemberIsThere
      BY DEF MembershipInv, Seated
    <3> QED
      BY <2>2, <3>1 DEF MemberIsThere, Entries, Places, MemberAt
  <2> QED
    BY <2>1, <2>2
<1> QED
  BY <1>1, MembershipInvariant, PTL

-----------------------------------------------------------------------------
(* Whom messages reach.  A broadcast is sent to all members but those whose *)
(* name is the sender's with a blank; the error answer to a direct message  *)
(* goes to the first member whose name starts with the sender's.            *)

NoNameWithBlank == \A n, m \in UserName : m # Append(n, Blank)
NoNameStartsAnother == \A n, m \in UserName : IsPrefixOf(n, m) => n = m

LEMMA StartsLonger ==
  ASSUME NEW S, NEW n \in Seq(S), NEW b \in S
  PROVE  IsPrefixOf(n, Append(n, b)) /\ n # Append(n, b)
<1> DEFINE m == Append(n, b)
<1>1. m \in Seq(S) /\ Len(m) = Len(n) + 1 /\ \A j \in 1 .. Len(n) : m[j] = n[j]
  BY AppendProperties
<1> HIDE DEF m
<1>2. Len(n) \in Nat /\ \A j \in 1 .. Len(n) : n[j] \in S
  BY LenProperties, ElementOfSeq
<1>3. SubSeq(m, 1, Len(n)) = n
  <2>1. /\ SubSeq(m, 1, Len(n)) \in Seq(S)
        /\ Len(SubSeq(m, 1, Len(n))) = IF 1 <= Len(n) THEN Len(n) - 1 + 1 ELSE 0
        /\ \A j \in 1 .. Len(n) - 1 + 1 : SubSeq(m, 1, Len(n))[j] = m[1 + j - 1]
    BY <1>1, <1>2, SubSeqProperties
  <2>2. Len(SubSeq(m, 1, Len(n))) = Len(n)
    BY <1>2, <2>1
  <2>3. \A j \in 1 .. Len(n) : SubSeq(m, 1, Len(n))[j] = n[j]
    BY <1>1, <1>2, <2>1
  <2> QED
    BY <2>1, <2>2, <2>3, SeqEqual
<1>4. IsPrefixOf(n, m) /\ n # m
  BY <1>1, <1>2, <1>3 DEF IsPrefixOf
<1> QED
  BY <1>4 DEF m

LEMMA StartsItsBroadcast ==
  ASSUME NoNameStartsAnother
  PROVE  NoNameWithBlank
<1> SUFFICES ASSUME NEW n \in UserName, NEW m \in UserName PROVE m # Append(n, Blank)
  BY DEF NoNameWithBlank
<1> DEFINE letters == STRING \cup {Blank}
<1>1. n \in Seq(letters)
  BY LobbiesAssumption, SeqMonotonic, Zenon DEF IsName
<1>2. Blank \in letters
  BY Zenon
<1>3. IsPrefixOf(n, Append(n, Blank)) /\ n # Append(n, Blank)
  BY <1>1, <1>2, StartsLonger, Zenon
<1>4. IsPrefixOf(n, m) => n = m
  BY DEF NoNameStartsAnother
<1>5. m = Append(n, Blank) => IsPrefixOf(n, m) /\ n # m
  BY <1>3, Zenon
<1> QED
  BY <1>4, <1>5, Zenon

\* The members of a lobby are the clients that have its number, each in one seat.
LEMMA SeatsOf ==
  ASSUME MembershipInv, NEW t \in Session, NEW r \in 1 .. Len(lobbies)
  PROVE  IF screen[t] = "lobby" /\ room[t] = r
           THEN \E k \in 1 .. Len(lobbies[r].clients) :
                  /\ {j \in 1 .. Len(lobbies[r].clients) : lobbies[r].clients[j].fd = t} = {k}
                  /\ lobbies[r].clients[k].name = prompt[t]
           ELSE {j \in 1 .. Len(lobbies[r].clients) : lobbies[r].clients[j].fd = t} = {}
<1>1. MemberIsThere /\ ListedOnce /\ WhoIsThereIsListed
  BY DEF MembershipInv, Seated
<1>2. CASE screen[t] = "lobby" /\ room[t] = r
  <2>1. PICK k \in 1 .. Len(lobbies[r].clients) : lobbies[r].clients[k].fd = t
    BY <1>1, <1>2 DEF WhoIsThereIsListed
  <2>2. lobbies[r].clients[k].name = prompt[t]
    BY <1>1, <2>1 DEF MemberIsThere
  <2>3. {j \in 1 .. Len(lobbies[r].clients) : lobbies[r].clients[j].fd = t} = {k}
    BY <1>1, <2>1 DEF ListedOnce
  <2> QED
    BY <1>2, <2>1, <2>2, <2>3
<1>3. CASE ~(screen[t] = "lobby" /\ room[t] = r)
  BY <1>1, <1>3 DEF MemberIsThere
<1> QED
  BY <1>2, <1>3

\* One request that sends to all, in such a state
LEMMA SendAllReaches ==
  ASSUME NoNameWithBlank, MembershipInv, NEW s \in Session, SendAll(s)
  PROVE  BroadcastReachesRoom'
<1> DEFINE r == room[s]
           seats == 1 .. Len(lobbies[r].clients)
           to == IF Alone(r) THEN <<>> ELSE Audience(r, Broadcast(s))
<1>1. TypeOK /\ Counted /\ Present
  BY DEF MembershipInv, CountedInv
<1>2. ByNumber(r) # {} /\ FirstOf(ByNumber(r)) = r /\ r \in 1 .. Len(lobbies)
  BY FindsItself DEF SendAll, InLobby
<1>3. out' = Sent("all", s, to, 0, 0, <<>>) /\ UNCHANGED client
  BY <1>2 DEF SendAll
<1>4. screen[s] = "lobby" /\ prompt[s] \in UserName
  BY <1>1 DEF SendAll, InLobby, Present, LoggedIn, TypeOK
<1>5. Len(lobbies[r].clients) \in Nat
  BY <1>1, <1>2, ListShape
<1> HIDE DEF r
<1>6. ASSUME NEW t \in Session \ {s}
      PROVE  Cardinality({k \in DOMAIN to : to[k] = t})
               = IF screen[t] = "lobby" /\ room[t] = r THEN 1 ELSE 0
  <2>1. CASE Alone(r)
    <3>1. Len(lobbies[r].clients) = 1
      BY <1>1, <1>2, <2>1 DEF Alone, Counted
    <3>2. ~(screen[t] = "lobby" /\ room[t] = r)
      <4>1. SUFFICES ASSUME screen[t] = "lobby" /\ room[t] = r PROVE FALSE
        OBVIOUS
      <4>2. PICK k \in seats : {j \in seats : lobbies[r].clients[j].fd = t} = {k}
        BY <1>2, <4>1, SeatsOf
      <4>3. PICK k2 \in seats : {j \in seats : lobbies[r].clients[j].fd = s} = {k2}
        BY <1>2, <1>4, SeatsOf DEF r
      <4>4. k = 1 /\ k2 = 1
        BY <3>1
      <4> QED
        BY <4>2, <4>3, <4>4
    <3>3. DOMAIN to = {}
      BY <2>1
    <3>4. {k \in DOMAIN to : to[k] = t} = {}
      BY <3>3
    <3> QED
      BY <3>2, <3>4, FS_EmptySet
  <2>2. CASE ~Alone(r)
    <3>1. {k \in DOMAIN to : to[k] = t}
            = {k \in {j \in seats : lobbies[r].clients[j].fd = t} :
                 lobbies[r].clients[k].name # Broadcast(s)}
      BY <2>2 DEF Audience
    <3>2. CASE screen[t] = "lobby" /\ room[t] = r
      <4>1. PICK k \in seats : /\ {j \in seats : lobbies[r].clients[j].fd = t} = {k}
                               /\ lobbies[r].clients[k].name = prompt[t]
        BY <1>2, <3>2, SeatsOf
      <4>2. prompt[t] \in UserName
        BY <1>1, <3>2 DEF Present, LoggedIn, TypeOK
      <4>3. prompt[t] # Broadcast(s)
        BY <1>4, <4>2 DEF Broadcast, NoNameWithBlank
      <4>4. {k2 \in DOMAIN to : to[k2] = t} = {k}
        BY <3>1, <4>1, <4>3
      <4> QED
        BY <3>2, <4>4, FS_Singleton
    <3>3. CASE ~(screen[t] = "lobby" /\ room[t] = r)
      <4>1. {j \in seats : lobbies[r].clients[j].fd = t} = {}
        BY <1>2, <3>3, SeatsOf
      <4>2. {k \in DOMAIN to : to[k] = t} = {}
        BY <3>1, <4>1
      <4> QED
        BY <3>3, <4>2, FS_EmptySet
    <3> QED
      BY <3>2, <3>3
  <2> QED
    BY <2>1, <2>2
<1> HIDE DEF to
<1>7. out'.by = s /\ out'.to = to
  BY <1>3 DEF Sent
<1>8. UNCHANGED <<screen, room>>
  BY <1>3 DEF client
<1> QED
  BY <1>6, <1>7, <1>8 DEF BroadcastReachesRoom, Copies, r

\* One direct message: to the one user of that name in the lobby, or the error back
LEMMA SendDirectReaches ==
  ASSUME NoNameStartsAnother, MembershipInv, NEW s \in Session, NEW u \in UserName,
         SendDirect(s, u)
  PROVE  DirectReachesNamed'
<1> DEFINE r == room[s]
           c == lobbies[r].clients
           seats == 1 .. Len(c)
           starting == {k \in seats : IsPrefixOf(prompt[s], c[k].name)}
           to == IF Alone(r) THEN <<>> ELSE Addressee(r, s, u)
           op == IF ~Alone(r) /\ MembersNamed(r, u) = {} THEN "nobody" ELSE "direct"
           named == {t \in Session : screen[t] = "lobby" /\ room[t] = r /\ prompt[t] = u}
<1>1. TypeOK /\ Present /\ MemberIsThere /\ NamesDiffer
  BY DEF MembershipInv, CountedInv, Seated
<1>2. ByNumber(r) # {} /\ FirstOf(ByNumber(r)) = r /\ r \in 1 .. Len(lobbies)
  BY FindsItself DEF SendDirect, InLobby
<1>3. out' = Sent(op, s, to, 0, 0, u) /\ UNCHANGED client
  BY <1>2 DEF SendDirect
<1>4. screen[s] = "lobby" /\ prompt[s] \in UserName /\ LoggedIn(s)
  BY <1>1 DEF SendDirect, InLobby, Present, LoggedIn, TypeOK
<1>5. Len(c) \in Nat /\ \A k \in seats : c[k].fd \in Session
  BY <1>1, <1>2, ListShape
<1>6. \A k \in seats : LET t == c[k].fd
                       IN  screen[t] = "lobby" /\ room[t] = r /\ prompt[t] = c[k].name
                           /\ prompt[t] \in UserName
  BY <1>1, <1>2, <1>5 DEF MemberIsThere, Present, LoggedIn, TypeOK
<1> HIDE DEF r, c
\* The first of that name is a user of that name
<1>7. CASE MembersNamed(r, u) # {}
  <2>1. MembersNamed(r, u) \subseteq seats
    BY DEF MembersNamed, c
  <2> DEFINE k == FirstOf(MembersNamed(r, u))
  <2>2. k \in seats /\ k \in MembersNamed(r, u)
    BY <1>5, <1>7, <2>1, FirstFind
  <2>3. Addressee(r, s, u) = <<c[k].fd>>
    BY <1>7 DEF Addressee, c
  <2> HIDE DEF k
  <2>4. c[k].name = u
    BY <2>2 DEF MembersNamed, c
  <2>5. c[k].fd \in named
    BY <1>5, <1>6, <2>2, <2>4
  <2>6. op = "direct" /\ (to # <<>> => to = <<c[k].fd>>)
    BY <1>7, <2>3
  <2> HIDE DEF to, named, op
  <2>7. out'.op = "direct" /\ out'.to = to /\ out'.by = s
    BY <1>3, <2>6 DEF Sent
  <2>8. named' = named
    BY <1>3 DEF named, client, r
  <2> QED
    BY <1>3, <2>5, <2>6, <2>7, <2>8 DEF DirectReachesNamed, Sent, named, client, r
\* Nobody has the name, and the one whose name starts with the sender's is the sender
<1>8. CASE MembersNamed(r, u) = {} /\ ~Alone(r)
  <2>1. named = {}
    <3>1. SUFFICES ASSUME NEW t \in named PROVE FALSE
      OBVIOUS
    <3>2. PICK k \in 1 .. Len(lobbies[r].clients) : lobbies[r].clients[k].name = prompt[t]
      BY <1>2, SeatsOf
    <3>3. k \in MembersNamed(r, u)
      BY <3>2 DEF MembersNamed
    <3> QED
      BY <1>8, <3>3
  <2>2. starting # {}
    <3>1. PICK k \in 1 .. Len(lobbies[r].clients) : lobbies[r].clients[k].name = prompt[s]
      BY <1>2, <1>4, SeatsOf DEF r
    <3>2. IsPrefixOf(prompt[s], prompt[s])
      <4>1. prompt[s] \in Seq(STRING)
        BY <1>4, LobbiesAssumption DEF IsName
      <4>2. SubSeq(prompt[s], 1, Len(prompt[s])) = prompt[s] /\ Len(prompt[s]) \in Nat
        BY <4>1, SubSeqFull, LenProperties
      <4> QED
        BY <4>2 DEF IsPrefixOf
    <3> QED
      BY <3>1, <3>2 DEF c
  <2> DEFINE k == FirstOf(starting)
  <2>3. Addressee(r, s, u) = <<c[k].fd>>
    BY <1>8, <2>2 DEF Addressee, c
  <2>4. k \in seats /\ k \in starting
    <3>1. starting \in SUBSET (1 .. Len(c))
      OBVIOUS
    <3> HIDE DEF starting
    <3> QED
      BY <1>5, <2>2, <3>1, FirstFind
  <2> HIDE DEF k
  <2>5. c[k].name = prompt[s]
    BY <1>4, <1>6, <2>4 DEF NoNameStartsAnother
  <2>6. c[k].fd = s
    BY <1>1, <1>4, <1>5, <1>6, <2>4, <2>5 DEF NamesDiffer
  <2>7. to = <<s>> /\ op = "nobody"
    BY <1>8, <2>3, <2>6
  <2> HIDE DEF to, named, op
  <2>8. out'.op = "nobody" /\ out'.to = <<s>> /\ out'.by = s /\ out'.text = u
    BY <1>3, <2>7 DEF Sent
  <2>9. UNCHANGED <<screen, room, prompt>>
    BY <1>3 DEF client
  <2> QED
    BY <2>1, <2>8, <2>9 DEF DirectReachesNamed, named, r
<1>9. CASE Alone(r) /\ MembersNamed(r, u) = {}
  <2>1. out'.op = "direct" /\ out'.to = <<>>
    BY <1>3, <1>9 DEF Sent
  <2> QED
    BY <2>1 DEF DirectReachesNamed
<1> QED
  BY <1>7, <1>8, <1>9

\* Every other request records that it sent no message to members.
LEMMA OtherRequests ==
  ASSUME [Next]_vars
  PROVE  \/ \E s \in Session : SendAll(s)
         \/ \E s \in Session, u \in UserName : SendDirect(s, u)
         \/ out'.op \notin {"all", "direct", "nobody"}
         \/ UNCHANGED vars
<1> USE DEF Sent, Reply
<1>1. ASSUME NEW s \in Session,
             \/ NotPermitted(s) \/ ListLobbies(s) \/ ExitOffTheEnd(s) \/ ExitNowhere(s)
             \/ ListMembers(s) \/ HangUp(s)
      PROVE  out'.op \notin {"all", "direct", "nobody"}
  BY <1>1 DEF NotPermitted, ListLobbies, ExitOffTheEnd, ExitNowhere, ListMembers, HangUp
<1>2. ASSUME NEW s \in Session, ExitRoom(s) PROVE out'.op \notin {"all", "direct", "nobody"}
  <2>1. PICK t : out' = Sent("exit", s, <<t>>, 0, 0, <<>>)
    BY <1>2, Zenon DEF ExitRoom
  <2> QED
    BY <2>1
<1>3. ASSUME NEW s \in Session, NEW u \in UserName, Login(s, u)
      PROVE  out'.op \notin {"all", "direct", "nobody"}
  BY <1>3 DEF Login
<1>4. ASSUME NEW s \in Session, NEW n \in LobbyName,
             \/ CreateLobby(s, n) \/ EnterLobby(s, n) \/ EnterUnknown(s, n)
             \/ DestroyLobby(s, n) \/ DestroyUnknown(s, n)
      PROVE  out'.op \notin {"all", "direct", "nobody"}
  BY <1>4 DEF CreateLobby, EnterLobby, EnterUnknown, DestroyLobby, DestroyUnknown
<1> QED
  BY <1>1, <1>2, <1>3, <1>4 DEF Next, Over

\* "sends a message to everyone that is in the same lobby" (client.py 987): a broadcast
\* reaches all the others in the sender's lobby, once, and nobody outside, unless
\* somebody is called like another with a blank behind.
THEOREM BroadcastsReach ==
  ASSUME Habits = {}, NoNameWithBlank
  PROVE  Spec => []BroadcastReachesRoom
<1>1. Init => BroadcastReachesRoom
  BY DEF Init, BroadcastReachesRoom
<1>2. MembershipInv /\ BroadcastReachesRoom /\ [Next]_vars => BroadcastReachesRoom'
  <2> SUFFICES ASSUME MembershipInv, BroadcastReachesRoom, [Next]_vars PROVE BroadcastReachesRoom'
    OBVIOUS
  <2>1. ASSUME NEW s \in Session, SendAll(s) PROVE BroadcastReachesRoom'
    BY <2>1, SendAllReaches
  <2>2. ASSUME NEW s \in Session, NEW u \in UserName, SendDirect(s, u) PROVE out'.op # "all"
    BY <2>2 DEF SendDirect, Sent
  <2>3. CASE UNCHANGED vars
    BY <2>3 DEF vars, client, BroadcastReachesRoom, Copies
  <2>4. out'.op # "all" => BroadcastReachesRoom'
    BY DEF BroadcastReachesRoom
  <2> QED
    BY <2>1, <2>2, <2>3, <2>4, OtherRequests
<1> QED
  BY <1>1, <1>2, MembershipInvariant, PTL DEF Spec

\* Broadcasts and direct messages reach whom they are for, and an error answer comes
\* back to the sender, if no user's name starts another's (chat.c send_all, send_direct).
THEOREM MessagesArrive ==
  ASSUME Habits = {}, NoNameStartsAnother
  PROVE  Spec => []MessagesReach
<1>1. Init => DirectReachesNamed
  BY DEF Init, DirectReachesNamed
<1>2. MembershipInv /\ DirectReachesNamed /\ [Next]_vars => DirectReachesNamed'
  <2> SUFFICES ASSUME MembershipInv, DirectReachesNamed, [Next]_vars PROVE DirectReachesNamed'
    OBVIOUS
  <2>1. ASSUME NEW s \in Session, NEW u \in UserName, SendDirect(s, u) PROVE DirectReachesNamed'
    BY <2>1, SendDirectReaches
  <2>2. ASSUME NEW s \in Session, SendAll(s) PROVE out'.op \notin {"direct", "nobody"}
    <3>1. PICK to : out' = Sent("all", s, to, 0, 0, <<>>)
      BY <2>2, Zenon DEF SendAll
    <3> QED
      BY <3>1 DEF Sent
  <2>3. CASE UNCHANGED vars
    BY <2>3 DEF vars, client, DirectReachesNamed
  <2>4. out'.op \notin {"direct", "nobody"} => DirectReachesNamed'
    BY DEF DirectReachesNamed
  <2> QED
    BY <2>1, <2>2, <2>3, <2>4, OtherRequests
<1>3. Spec => []DirectReachesNamed
  BY <1>1, <1>2, MembershipInvariant, PTL DEF Spec
<1>4. Spec => []BroadcastReachesRoom
  BY StartsItsBroadcast, BroadcastsReach
<1>5. BroadcastReachesRoom /\ DirectReachesNamed => MessagesReach
  BY DEF MessagesReach
<1> QED
  BY <1>3, <1>4, <1>5, PTL

=============================================================================
