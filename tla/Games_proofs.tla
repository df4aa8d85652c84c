----------------------------- MODULE Games_proofs -----------------------------
(***************************************************************************)
(* Proofs about the two games: Adventure for any items, tables, enemies    *)
(* and bounds, and Pong for every size of screen, ball and paddles that    *)
(* PongAssumption allows, every limit and every speed.                     *)
(***************************************************************************)
EXTENDS Adventure, Pong, SequenceTheorems, TLAPS

Belonging == [index : Nat, type : Item]

-----------------------------------------------------------------------------
(* The least number of a set of one.                                       *)
LEMMA MinOfOne == \A i \in Nat : Min({i}) = i
<1> SUFFICES ASSUME NEW i \in Nat PROVE Min({i}) = i
  OBVIOUS
<1>1. \E x \in {i} : \A y \in {i} : x <= y
  OBVIOUS
<1>2. Min({i}) \in {i}
  BY <1>1, Zenon DEF Min
<1> QED BY <1>2

(* Taking one item out leaves the others in their order.                   *)
LEMMA RemoveAtProperties ==
  ASSUME NEW S, NEW seq \in Seq(S), NEW i \in 1 .. Len(seq)
  PROVE  /\ RemoveAt(seq, i) \in Seq(S)
         /\ Len(RemoveAt(seq, i)) = Len(seq) - 1
         /\ \A j \in 1 .. Len(seq) - 1 :
              RemoveAt(seq, i)[j] = IF j < i THEN seq[j] ELSE seq[j + 1]
<1> DEFINE front == SubSeq(seq, 1, i - 1)
           back  == SubSeq(seq, i + 1, Len(seq))
<1>1. Len(seq) \in Nat /\ \A j \in 1 .. Len(seq) : seq[j] \in S
  BY ElementOfSeq, LenProperties
<1>2. front \in Seq(S) /\ Len(front) = i - 1 /\ \A j \in 1 .. i - 1 : front[j] = seq[j]
  <2>1. /\ front \in Seq(S)
        /\ Len(front) = IF 1 <= i - 1 THEN i - 1 - 1 + 1 ELSE 0
        /\ \A j \in 1 .. i - 1 - 1 + 1 : front[j] = seq[1 + j - 1]
    BY <1>1, SubSeqProperties
  <2> QED BY <2>1
<1>3. /\ back \in Seq(S)
      /\ Len(back) = Len(seq) - i
      /\ \A j \in 1 .. Len(seq) - i : back[j] = seq[i + j]
  <2>1. /\ back \in Seq(S)
        /\ Len(back) = IF i + 1 <= Len(seq) THEN Len(seq) - (i + 1) + 1 ELSE 0
        /\ \A j \in 1 .. Len(seq) - (i + 1) + 1 : back[j] = seq[i + 1 + j - 1]
    BY <1>1, SubSeqProperties
  <2> QED BY <1>1, <2>1
<1>4. RemoveAt(seq, i) = front \o back
  BY DEF RemoveAt
<1> HIDE DEF front, back
<1>5. /\ front \o back \in Seq(S)
      /\ Len(front \o back) = Len(front) + Len(back)
      /\ \A j \in 1 .. Len(front) + Len(back) :
           (front \o back)[j] = IF j <= Len(front) THEN front[j] ELSE back[j - Len(front)]
  BY <1>2, <1>3, ConcatProperties
<1>6. Len(front \o back) = Len(seq) - 1
  BY <1>1, <1>2, <1>3, <1>5
<1>7. ASSUME NEW j \in 1 .. Len(seq) - 1
      PROVE  (front \o back)[j] = IF j < i THEN seq[j] ELSE seq[j + 1]
  <2>1. (front \o back)[j] = IF j <= i - 1 THEN front[j] ELSE back[j - (i - 1)]
    BY <1>1, <1>2, <1>3, <1>5
  <2>0. i \in Int /\ j \in Int
    OBVIOUS
  <2>2. CASE j < i
    BY <1>2, <2>1, <2>2
  <2>3. CASE j >= i
    <3>1. j - (i - 1) \in 1 .. Len(seq) - i /\ i + (j - (i - 1)) = j + 1
      BY <1>1, <2>3
    <3>2. back[j - (i - 1)] = seq[j + 1]
      BY <1>3, <3>1
    <3> QED BY <2>0, <2>1, <2>3, <3>2
  <2>4. j < i \/ j >= i
    BY <2>0
  <2> QED BY <2>2, <2>3, <2>4, Zenon
<1> QED BY <1>4, <1>5, <1>6, <1>7

(* In a bag in order an index names one item: that one goes, the bag stays *)
(* in order, and no kind of item appears that was not there.               *)
LEMMA WithoutProperties ==
  ASSUME TypeOK, BagInOrder, NEW i \in DOMAIN bag
  PROVE  /\ Without(bag[i].index) \in Seq(Belonging)
         /\ Len(Without(bag[i].index)) = Len(bag) - 1
         /\ Ordered(Without(bag[i].index), counter)
         /\ Holds(Without(bag[i].index), Special) => Holds(bag, Special)
<1> DEFINE rest == RemoveAt(bag, i)
<1>1. bag \in Seq(Belonging) /\ Len(bag) \in Nat /\ DOMAIN bag = 1 .. Len(bag)
  BY LenProperties DEF TypeOK, Belonging
<1>2. \A j \in 1 .. Len(bag) : bag[j] \in Belonging
  BY <1>1, ElementOfSeq
<1>3. \A j \in DOMAIN bag : bag[j].index = bag[i].index => j = i
  BY <1>1, <1>2, SMTT(40) DEF BagInOrder, Ordered, Belonging
<1>4. {j \in DOMAIN bag : bag[j].index = bag[i].index} = {i}
  BY <1>3
<1>5. Without(bag[i].index) = rest
  BY <1>1, <1>4, MinOfOne DEF Without
<1>6. /\ rest \in Seq(Belonging)
      /\ Len(rest) = Len(bag) - 1
      /\ \A j \in 1 .. Len(bag) - 1 : rest[j] = IF j < i THEN bag[j] ELSE bag[j + 1]
  BY <1>1, RemoveAtProperties
<1> HIDE DEF rest
<1>7. DOMAIN rest = 1 .. Len(bag) - 1
  BY <1>6, LenProperties
<1> DEFINE from(j) == IF j < i THEN j ELSE j + 1
<1>10. \A j \in DOMAIN rest : from(j) \in DOMAIN bag /\ rest[j] = bag[from(j)]
  <2> SUFFICES ASSUME NEW j \in DOMAIN rest PROVE from(j) \in DOMAIN bag /\ rest[j] = bag[from(j)]
    OBVIOUS
  <2>1. from(j) \in DOMAIN bag
    BY <1>1, <1>7
  <2>2. j \in 1 .. Len(bag) - 1
    BY <1>7
  <2>3. rest[j] = bag[from(j)]
    BY <1>6, <2>2, Zenon
  <2> QED BY <2>1, <2>3
<1>11. \A j, k \in DOMAIN rest : j < k => from(j) < from(k)
  BY <1>1, <1>7
<1> HIDE DEF from
<1>8. Ordered(rest, counter)
  BY <1>10, <1>11 DEF BagInOrder, Ordered
<1>9. Holds(rest, Special) => Holds(bag, Special)
  BY <1>10 DEF Holds
<1> QED BY <1>5, <1>6, <1>8, <1>9

(* A new item goes behind the others, with an index above theirs.          *)
LEMMA AddItemProperties ==
  ASSUME TypeOK, BagInOrder, NEW type \in Item, AddItem(type)
  PROVE  /\ bag' \in Seq(Belonging) /\ counter' \in Nat
         /\ Len(bag') = Len(bag) + 1
         /\ BagInOrder'
         /\ Holds(bag', Special) => (Holds(bag, Special) \/ type = Special)
<1> DEFINE it == create_item(type)
<1>1. bag \in Seq(Belonging) /\ Len(bag) \in Nat /\ DOMAIN bag = 1 .. Len(bag)
  BY LenProperties DEF TypeOK, Belonging
<1>2. it \in Belonging /\ it.index = counter /\ it.type = type /\ counter \in Nat
  BY DEF create_item, Belonging, TypeOK
<1>3. bag' = Append(bag, it) /\ counter' = counter + 1
  BY DEF AddItem
<1> HIDE DEF it
<1>4. \A j \in 1 .. Len(bag) : bag[j] \in Belonging
  BY <1>1, ElementOfSeq
<1>5. /\ bag' \in Seq(Belonging) /\ Len(bag') = Len(bag) + 1
      /\ \A j \in 1 .. Len(bag) : bag'[j] = bag[j]
      /\ bag'[Len(bag) + 1] = it
  BY <1>1, <1>2, <1>3, AppendProperties
<1>6. DOMAIN bag' = 1 .. Len(bag) + 1
  BY <1>5, LenProperties
<1>7. \A j \in 1 .. Len(bag) : bag[j].index < counter /\ bag[j].index \in Nat
  BY <1>1, <1>4 DEF BagInOrder, Ordered, Belonging
<1>8. \A j, k \in DOMAIN bag' : j < k => bag'[j].index < bag'[k].index
  <2> SUFFICES ASSUME NEW j \in DOMAIN bag', NEW k \in DOMAIN bag', j < k
               PROVE  bag'[j].index < bag'[k].index
    OBVIOUS
  <2>1. CASE k = Len(bag) + 1
    BY <1>1, <1>2, <1>5, <1>6, <1>7, <2>1
  <2>2. CASE k # Len(bag) + 1
    BY <1>1, <1>5, <1>6, <2>2 DEF BagInOrder, Ordered
  <2> QED BY <2>1, <2>2
<1>9. \A j \in DOMAIN bag' : bag'[j].index < counter'
  BY <1>1, <1>2, <1>3, <1>5, <1>6, <1>7
<1>10. Holds(bag', Special) => (Holds(bag, Special) \/ type = Special)
  BY <1>1, <1>2, <1>5, <1>6 DEF Holds
<1> QED BY <1>2, <1>3, <1>5, <1>8, <1>9, <1>10 DEF BagInOrder, Ordered

(* A turn that leaves the bag alone keeps what is said of the bag.         *)
LEMMA BagKept ==
  ASSUME AdventureInv, UNCHANGED <<bag, counter, special_enabled>>,
         bought \subseteq bought'
  PROVE  BagInOrder' /\ SpecialIsBought'
BY DEF AdventureInv, BagInOrder, SpecialIsBought

(* A round of a fight, whoever hits and whatever heals: what is subtracted *)
(* was compared before, and the enemy only gets weaker.                    *)
LEMMA RoundProperties ==
  ASSUME TypeOK, NoUnderflow, NEW act \in 0 .. 2,
         NEW attack \in Nat, NEW defend \in Nat, NEW healed \in Nat,
         Round(act, attack, defend, healed)
  PROVE  /\ scene' \in {"menu", "fight", "died"}
         /\ health' \in Nat /\ coins' \in Nat
         /\ enemy' \in [health : Nat, attack : Nat, coin : Nat]
         /\ coins' > coins => scene' # "fight"
         /\ scene' = "fight" => enemy'.health <= enemy.health /\ enemy'.attack <= enemy.attack
<1> DEFINE hit == act # 1 /\ attack > 0
           left  == IF hit THEN Hurt(attack) ELSE enemy.health
           blow  == IF act = 2 THEN Blocked(defend) ELSE enemy.attack
           dead  == act = 2 /\ blow > health + healed
<1>1. health \in Nat /\ coins \in Nat /\ enemy.health \in Nat /\ enemy.attack \in Nat
      /\ enemy.coin \in Nat
  BY DEF TypeOK, NoUnderflow
<1>2. left \in Nat /\ left <= enemy.health
  BY <1>1 DEF Hurt
<1>3. blow \in Nat /\ blow <= enemy.attack
  BY <1>1 DEF Blocked
<1>4. /\ coins' = IF hit /\ left = 0 THEN coins + enemy.coin ELSE coins
      /\ health' = IF dead THEN 0
                   ELSE IF act = 2 THEN health + healed - blow ELSE health + healed
      /\ scene' = IF dead THEN "died" ELSE IF left > 0 THEN "fight" ELSE "menu"
      /\ enemy' = IF dead \/ left = 0 THEN Nobody
                  ELSE [health |-> left, attack |-> blow, coin |-> enemy.coin]
  BY Zenon DEF Round
<1>5. dead <=> (act = 2 /\ blow > health + healed)
  OBVIOUS
<1> HIDE DEF hit, left, blow, dead
<1>6. health' \in Nat
  BY <1>1, <1>3, <1>4, <1>5
<1>7. coins' \in Nat /\ (coins' > coins => scene' # "fight")
  BY <1>1, <1>2, <1>4
<1>8. enemy' \in [health : Nat, attack : Nat, coin : Nat]
  BY <1>1, <1>2, <1>3, <1>4 DEF Nobody
<1>9. scene' = "fight" => enemy'.health <= enemy.health /\ enemy'.attack <= enemy.attack
  BY <1>1, <1>2, <1>3, <1>4
<1> QED BY <1>4, <1>6, <1>7, <1>8, <1>9

(* The strength of a blow is a natural number (game.c 508-547).            *)
LEMMA RollIsNatural ==
  ASSUME NEW t \in Item, Action[t] \in {"attack", "defend"}
  PROVE  Roll(t) \subseteq Nat
BY AdventureAssumption DEF Roll

(* A new game (create_new_player 326-336).                                 *)
LEMMA AdventureStarts == Init => AdventureInv
<1> SUFFICES ASSUME Init PROVE AdventureInv
  OBVIOUS
<1>1. bag = <<>> /\ bag \in Seq(Belonging) /\ DOMAIN bag = {}
  BY DEF Init
<1>2. TypeOK
  <2>1. enemy \in [health : Int, attack : Int, coin : Nat] /\ prices \in [Item -> Nat]
    BY DEF Init, Nobody, NoPrices
  <2>2. special_enabled \in BOOLEAN /\ dangling \in BOOLEAN /\ bought \subseteq Item
    BY DEF Init
  <2>3. scene \in {"menu", "market", "fight"} \union Ends /\ location \in Place
        /\ health \in Int /\ coins \in Int /\ counter \in Nat
    BY AdventureAssumption DEF Init
  <2> QED BY <1>1, <2>1, <2>2, <2>3 DEF TypeOK, Belonging
<1>3. NoUnderflow
  BY AdventureAssumption DEF Init, NoUnderflow, Nobody
<1>4. BagInOrder /\ SpecialIsBought
  BY <1>1 DEF Init, BagInOrder, Ordered, SpecialIsBought, Holds
<1> QED BY <1>2, <1>3, <1>4 DEF AdventureInv

-----------------------------------------------------------------------------
(* A choice from the main menu keeps the invariant.                        *)
LEMMA MenuTurns ==
  ASSUME AdventureInv,
         \/ Win \/ Quit \/ ReadsFreed \/ LeaveMarket
         \/ \E to \in Place, fatal \in BOOLEAN : Travel(to, fatal)
         \/ \E killed \in BOOLEAN : RunAway(killed)
         \/ \E i \in DOMAIN bag : DropItem(i)
  PROVE  AdventureInv'
<1> USE DEF AdventureInv
<1>1. CASE Win \/ Quit \/ ReadsFreed
  <2>1. /\ UNCHANGED <<health, coins, location, bag, counter, special_enabled,
                       prices, enemy, dangling, bought>>
        /\ scene' \in Ends
    BY <1>1 DEF Win, Quit, ReadsFreed, Ends
  <2>2. BagInOrder' /\ SpecialIsBought'
    BY <2>1, BagKept
  <2> QED BY <2>1, <2>2 DEF TypeOK, NoUnderflow
<1>2. CASE LeaveMarket
  <2>1. BagInOrder' /\ SpecialIsBought'
    BY <1>2, BagKept DEF LeaveMarket
  <2>2. prices' \in [Item -> Nat]
    BY <1>2 DEF LeaveMarket, NoPrices
  <2> QED BY <1>2, <2>1, <2>2 DEF LeaveMarket, TypeOK, NoUnderflow
<1>3. ASSUME NEW to \in Place, NEW fatal \in BOOLEAN, Travel(to, fatal)
      PROVE  AdventureInv'
  <2>1. BagInOrder' /\ SpecialIsBought'
    BY <1>3, BagKept DEF Travel
  <2> QED BY <1>3, <2>1 DEF Travel, TypeOK, NoUnderflow, Ends
<1>4. ASSUME NEW killed \in BOOLEAN, RunAway(killed)
      PROVE  AdventureInv'
  <2>1. BagInOrder' /\ SpecialIsBought'
    BY <1>4, BagKept DEF RunAway
  <2>2. enemy' = [health |-> 0, attack |-> 0, coin |-> 0]
    BY <1>4 DEF RunAway, Nobody
  <2> QED BY <1>4, <2>1, <2>2 DEF RunAway, TypeOK, NoUnderflow, Ends
<1>5. ASSUME NEW i \in DOMAIN bag, DropItem(i)
      PROVE  AdventureInv'
  <2>1. BagInOrder' /\ SpecialIsBought'
    BY <1>5, BagKept DEF DropItem
  <2> QED BY <1>5, <2>1 DEF DropItem, TypeOK, NoUnderflow
<1> QED BY <1>1, <1>2, <1>3, <1>4, <1>5

(* A turn that puts an item into the bag, found or paid for.               *)
LEMMA ItemAdded ==
  ASSUME AdventureInv, NEW type \in Item, AddItem(type),
         UNCHANGED special_enabled,
         bought \subseteq bought', type = Special => Special \in bought'
  PROVE  bag' \in Seq(Belonging) /\ counter' \in Nat /\ BagInOrder' /\ SpecialIsBought'
<1>1. /\ bag' \in Seq(Belonging) /\ counter' \in Nat
      /\ BagInOrder'
      /\ Holds(bag', Special) => (Holds(bag, Special) \/ type = Special)
  BY AddItemProperties DEF AdventureInv
<1>2. SpecialIsBought'
  BY <1>1 DEF AdventureInv, SpecialIsBought
<1> QED BY <1>1, <1>2

(* A turn that takes an item out of the bag, used up or sold.              *)
LEMMA ItemTaken ==
  ASSUME AdventureInv, NEW i \in DOMAIN bag, bag' = Without(bag[i].index),
         UNCHANGED <<counter, bought>>,
         special_enabled' => special_enabled \/ Holds(bag, Special)
  PROVE  bag' \in Seq(Belonging) /\ BagInOrder' /\ SpecialIsBought'
<1>1. /\ bag' \in Seq(Belonging) /\ Ordered(bag', counter)
      /\ Holds(bag', Special) => Holds(bag, Special)
  BY WithoutProperties DEF AdventureInv
<1>2. BagInOrder'
  BY <1>1 DEF BagInOrder
<1>3. SpecialIsBought'
  BY <1>1 DEF AdventureInv, SpecialIsBought
<1> QED BY <1>1, <1>2, <1>3

(* Every item of the bag is of a type of the game.                         *)
LEMMA BagTypes == TypeOK => \A i \in DOMAIN bag : bag[i] \in Belonging
<1> SUFFICES ASSUME TypeOK, NEW i \in DOMAIN bag PROVE bag[i] \in Belonging
  OBVIOUS
<1>1. bag \in Seq(Belonging)
  BY DEF TypeOK, Belonging
<1>2. i \in 1 .. Len(bag)
  BY <1>1, LenProperties
<1> QED BY <1>1, <1>2, ElementOfSeq

(* Exploring, and using an item on the way, keep the invariant.            *)
LEMMA ExploringTurns ==
  ASSUME AdventureInv,
         \/ \E found \in Found \union {NothingFound} : Explore(found)
         \/ \E i \in DOMAIN bag : UseItem(i)
  PROVE  AdventureInv'
<1> USE DEF AdventureInv
<1>1. ASSUME NEW found \in Found \union {NothingFound}, Explore(found)
      PROVE  AdventureInv'
  <2>1. bag' \in Seq(Belonging) /\ counter' \in Nat /\ BagInOrder' /\ SpecialIsBought'
    <3>1. CASE found \in Found
      <4>1. found \in Item /\ found # Special
        BY <3>1 DEF Found
      <4>2. AddItem(found) /\ UNCHANGED <<special_enabled, bought>>
        BY <1>1, <3>1 DEF Explore, handle_new_item
      <4> QED BY <4>1, <4>2, ItemAdded
    <3>2. CASE found \notin Found
      <4>1. UNCHANGED <<bag, counter, special_enabled, bought>>
        BY <1>1, <3>2 DEF Explore, handle_new_item
      <4> QED BY <4>1, BagKept DEF TypeOK, Belonging
    <3> QED BY <3>1, <3>2
  <2>2. /\ scene' \in {"menu", "market", "fight"}
        /\ prices' \in [Item -> Nat]
        /\ enemy' \in [health : Int, attack : Int, coin : Nat]
        /\ enemy'.health >= 0 /\ enemy'.attack >= 0
    BY <1>1, AdventureAssumption, SMTT(90) DEF Explore, TypeOK, NoUnderflow
  <2>3. UNCHANGED <<health, coins, location, special_enabled, dangling, bought>>
    BY <1>1 DEF Explore
  <2> QED BY <2>1, <2>2, <2>3 DEF TypeOK, NoUnderflow, Belonging
<1>2. ASSUME NEW i \in DOMAIN bag, UseItem(i)
      PROVE  AdventureInv'
  <2> DEFINE type == bag[i].type
  <2>1. type \in Item
    BY BagTypes DEF Belonging
  <2>2. /\ health' = IF Action[type] \in {"heal", "pet"} THEN health + Weight[type] ELSE health
        /\ special_enabled' = (special_enabled \/ Action[type] = "special")
        /\ bag' = Without(bag[i].index) \/ bag' = bag
        /\ UNCHANGED <<scene, coins, location, counter, prices, enemy, dangling, bought>>
    BY <1>2 DEF UseItem
  <2>3. Action[type] = "special" => Holds(bag, Special)
    BY <2>1, AdventureAssumption DEF Holds
  <2>4. special_enabled' => special_enabled \/ Holds(bag, Special)
    BY <2>2, <2>3
  <2>5. bag' \in Seq(Belonging) /\ BagInOrder' /\ SpecialIsBought'
    <3>1. CASE bag' = Without(bag[i].index)
      BY <2>2, <2>4, <3>1, ItemTaken
    <3>2. CASE bag' = bag
      BY <2>2, <2>4, <3>2 DEF TypeOK, Belonging, BagInOrder, SpecialIsBought
    <3> QED BY <2>2, <3>1, <3>2
  <2>6. health' \in Int /\ health' >= 0
    <3>1. Weight[type] \in Nat
      BY <2>1, AdventureAssumption
    <3>2. health' = health \/ health' = health + Weight[type]
      BY <2>2
    <3>3. health \in Int /\ health >= 0
      BY DEF TypeOK, NoUnderflow
    <3> HIDE DEF type
    <3> QED BY <3>1, <3>2, <3>3
  <2>7. special_enabled' \in BOOLEAN
    BY <2>2 DEF TypeOK
  <2> QED BY <2>2, <2>5, <2>6, <2>7 DEF TypeOK, NoUnderflow, Belonging
<1> QED BY <1>1, <1>2

(* Nothing is bought that cannot be paid; selling takes the item away.     *)
LEMMA MarketTurns ==
  ASSUME AdventureInv,
         \/ \E type \in Item : BuyItem(type)
         \/ \E i \in DOMAIN bag : SellItem(i)
  PROVE  AdventureInv'
<1> USE DEF AdventureInv
<1>1. ASSUME NEW type \in Item, BuyItem(type)
      PROVE  AdventureInv'
  <2>1. bag' \in Seq(Belonging) /\ counter' \in Nat /\ BagInOrder' /\ SpecialIsBought'
    BY <1>1, ItemAdded DEF BuyItem
  <2>2. coins' \in Int /\ coins' >= 0
    BY <1>1, SMTT(40) DEF BuyItem, TypeOK, NoUnderflow
  <2>3. bought' \subseteq Item
    BY <1>1 DEF BuyItem, TypeOK
  <2> QED BY <1>1, <2>1, <2>2, <2>3 DEF BuyItem, TypeOK, NoUnderflow, Belonging
<1>2. ASSUME NEW i \in DOMAIN bag, SellItem(i)
      PROVE  AdventureInv'
  <2>1. bag' \in Seq(Belonging) /\ BagInOrder' /\ SpecialIsBought'
    BY <1>2, ItemTaken DEF SellItem
  <2>2. prices[bag[i].type] \in Nat
    BY BagTypes DEF TypeOK, Belonging
  <2>3. prices[bag[i].type] \div 2 \in Nat
    BY <2>2
  <2> DEFINE paid == prices[bag[i].type] \div 2
  <2>5. coins' = coins + paid /\ paid \in Nat /\ coins \in Nat
    BY <1>2, <2>3 DEF SellItem, TypeOK, NoUnderflow
  <2> HIDE DEF paid
  <2>4. coins' \in Int /\ coins' >= 0
    BY <2>5
  <2> QED BY <1>2, <2>1, <2>4 DEF SellItem, TypeOK, NoUnderflow, Belonging
<1> QED BY <1>1, <1>2

(* A round of a fight, with an item or with empty hands.                   *)
LEMMA FightingTurns ==
  ASSUME AdventureInv, NEW act \in 0 .. 2,
         FightEmptyHanded(act) \/ \E i \in DOMAIN bag : FightWithItem(i, act)
  PROVE  /\ AdventureInv'
         /\ coins' > coins => scene = "fight" /\ scene' # "fight"
         /\ scene' = "fight" => enemy'.health <= enemy.health /\ enemy'.attack <= enemy.attack
<1> USE DEF AdventureInv
<1>1. CASE FightEmptyHanded(act)
  <2>1. /\ Round(act, 0, 0, 0) /\ scene = "fight"
        /\ UNCHANGED <<location, bag, counter, special_enabled, prices, dangling, bought>>
    BY <1>1 DEF FightEmptyHanded
  <2>2. /\ scene' \in {"menu", "fight", "died"}
        /\ health' \in Nat /\ coins' \in Nat
        /\ enemy' \in [health : Nat, attack : Nat, coin : Nat]
        /\ coins' > coins => scene' # "fight"
        /\ scene' = "fight" => enemy'.health <= enemy.health /\ enemy'.attack <= enemy.attack
    BY <2>1, RoundProperties
  <2>3. BagInOrder' /\ SpecialIsBought'
    BY <2>1, BagKept
  <2> QED BY <2>1, <2>2, <2>3 DEF TypeOK, NoUnderflow, Ends
<1>2. ASSUME NEW i \in DOMAIN bag, FightWithItem(i, act)
      PROVE  /\ AdventureInv'
             /\ coins' > coins => scene = "fight" /\ scene' # "fight"
             /\ scene' = "fight" => enemy'.health <= enemy.health /\ enemy'.attack <= enemy.attack
  <2> DEFINE type == bag[i].type
             how  == Action[type]
  <2>1. type \in Item
    BY BagTypes DEF Belonging
  <2>2. PICK roll \in IF how = "heal" THEN Heal
                      ELSE IF how \in {"attack", "defend"} THEN Roll(type) ELSE {0} :
          /\ Round(act, IF how = "attack" THEN roll ELSE 0,
                   IF how = "defend" THEN roll ELSE 0, IF how = "heal" THEN roll ELSE 0)
          /\ bag' = Without(bag[i].index) \/ bag' = bag
    BY <1>2 DEF FightWithItem
  <2>3. /\ UNCHANGED <<location, counter, special_enabled, prices, dangling, bought>>
        /\ scene = "fight"
    BY <1>2 DEF FightWithItem
  <2>4. roll \in Nat
    <3>1. CASE how = "heal"
      BY <2>2, <3>1, AdventureAssumption
    <3>2. CASE how \in {"attack", "defend"}
      BY <2>1, <2>2, <3>2, RollIsNatural
    <3>3. CASE how \notin {"heal", "attack", "defend"}
      BY <2>2, <3>3
    <3> QED BY <3>1, <3>2, <3>3
  <2>5. /\ (IF how = "attack" THEN roll ELSE 0) \in Nat
        /\ (IF how = "defend" THEN roll ELSE 0) \in Nat
        /\ (IF how = "heal" THEN roll ELSE 0) \in Nat
    BY <2>4
  <2>6. /\ scene' \in {"menu", "fight", "died"}
        /\ health' \in Nat /\ coins' \in Nat
        /\ enemy' \in [health : Nat, attack : Nat, coin : Nat]
        /\ coins' > coins => scene' # "fight"
        /\ scene' = "fight" => enemy'.health <= enemy.health /\ enemy'.attack <= enemy.attack
    BY <2>2, <2>5, RoundProperties
  <2>7. bag' \in Seq(Belonging) /\ BagInOrder' /\ SpecialIsBought'
    <3>1. CASE bag' = Without(bag[i].index)
      BY <2>3, <3>1, ItemTaken
    <3>2. CASE bag' = bag
      BY <2>3, <3>2, BagKept DEF TypeOK, Belonging
    <3> QED BY <2>2, <3>1, <3>2
  <2> HIDE DEF type, how
  <2> QED BY <2>3, <2>6, <2>7, SMTT(90) DEF TypeOK, NoUnderflow, Ends, Belonging
<1> QED BY <1>1, <1>2

-----------------------------------------------------------------------------
(* The invariant holds throughout every game (play_game 897-918): nothing  *)
(* unsigned is taken below zero, the bag keeps its order and the winning   *)
(* item is paid for.                                                       *)
THEOREM AdventureInvariant == Spec => []AdventureInv
<1>1. AdventureInv /\ [Next]_vars => AdventureInv'
  <2> SUFFICES ASSUME AdventureInv, [Next]_vars PROVE AdventureInv'
    OBVIOUS
  <2>1. CASE Turn
    BY <2>1, MenuTurns, ExploringTurns, MarketTurns, FightingTurns DEF Turn
  <2>2. CASE UNCHANGED vars
    BY <2>2 DEF vars, AdventureInv, TypeOK, NoUnderflow, BagInOrder, SpecialIsBought
  <2> QED BY <2>1, <2>2 DEF Next
<1> QED BY AdventureStarts, <1>1, PTL DEF Spec

(* No subtraction of the game wraps: a purchase, a blow at the enemy and a *)
(* blow at the player (game.c 556-606, 636-651).                           *)
THEOREM NothingUnderflows == Spec => []NoUnderflow
<1>1. AdventureInv => NoUnderflow
  BY DEF AdventureInv
<1> QED BY <1>1, AdventureInvariant, PTL

(* Removing by index removes one item (game.c 244-269).                    *)
THEOREM BagStaysInOrder == Spec => []BagInOrder
<1>1. AdventureInv => BagInOrder
  BY DEF AdventureInv
<1> QED BY <1>1, AdventureInvariant, PTL

(* The game is won only with an item that was bought (game.c 402-418).     *)
THEOREM WinningIsPaidFor == Spec => []SpecialIsBought
<1>1. AdventureInv => SpecialIsBought
  BY DEF AdventureInv
<1> QED BY <1>1, AdventureInvariant, PTL

(* A fight is no way to make an enemy stronger (game.c 556-606).           *)
THEOREM EnemiesWeaken == Spec => EnemyWeakens
<1> DEFINE A == (scene = "fight" /\ scene' = "fight") =>
                  enemy'.health <= enemy.health /\ enemy'.attack <= enemy.attack
<1>1. AdventureInv /\ [Next]_vars => [A]_vars
  <2> SUFFICES ASSUME AdventureInv, Next, scene = "fight", scene' = "fight"
               PROVE  enemy'.health <= enemy.health /\ enemy'.attack <= enemy.attack
    BY DEF vars
  <2>1. ASSUME NEW act \in 0 .. 2,
               FightEmptyHanded(act) \/ \E i \in DOMAIN bag : FightWithItem(i, act)
        PROVE  enemy'.health <= enemy.health /\ enemy'.attack <= enemy.attack
    BY <2>1, FightingTurns
  <2>2. \E act \in 0 .. 2 : FightEmptyHanded(act) \/ \E i \in DOMAIN bag : FightWithItem(i, act)
    BY DEF Next, Turn, Playing, Win, Quit, ReadsFreed, LeaveMarket, Travel, Explore,
           UseItem, DropItem, SellItem, BuyItem, RunAway
  <2> QED BY <2>1, <2>2
<1>2. []AdventureInv /\ [][Next]_vars => [][A]_vars
  BY <1>1, PTL
<1> QED BY <1>2, AdventureInvariant, PTL DEF Spec, EnemyWeakens

(* Coins come from a sale, for an item that is gone, or from the one blow  *)
(* that ends a fight (game.c 556-578, 653-679).                            *)
THEOREM CoinsEarned == Spec => CoinsAreEarned
<1> DEFINE A == coins' > coins => \/ scene = "market" /\ Len(bag') = Len(bag) - 1
                                  \/ scene = "fight" /\ scene' # "fight"
<1>1. AdventureInv /\ [Next]_vars => [A]_vars
  <2> SUFFICES ASSUME AdventureInv, Next, coins' > coins
               PROVE  \/ scene = "market" /\ Len(bag') = Len(bag) - 1
                      \/ scene = "fight" /\ scene' # "fight"
    BY DEF vars
  <2>0. coins \in Int /\ coins' # coins
    BY DEF AdventureInv, TypeOK
  <2>1. ASSUME NEW act \in 0 .. 2,
               FightEmptyHanded(act) \/ \E i \in DOMAIN bag : FightWithItem(i, act)
        PROVE  scene = "fight" /\ scene' # "fight"
    BY <2>1, FightingTurns
  <2>2. ASSUME NEW i \in DOMAIN bag, SellItem(i)
        PROVE  scene = "market" /\ Len(bag') = Len(bag) - 1
    BY <2>2, WithoutProperties DEF SellItem, AdventureInv
  <2>3. ASSUME NEW type \in Item, BuyItem(type)
        PROVE  FALSE
    <3>1. coins' = coins - prices[type] /\ prices[type] \in Nat
      BY <2>3 DEF BuyItem, AdventureInv, TypeOK
    <3> QED BY <2>0, <3>1
  <2>4. \/ \E act \in 0 .. 2 :
             FightEmptyHanded(act) \/ \E i \in DOMAIN bag : FightWithItem(i, act)
        \/ \E i \in DOMAIN bag : SellItem(i)
        \/ \E type \in Item : BuyItem(type)
    BY <2>0 DEF Next, Turn, Win, Quit, ReadsFreed, LeaveMarket, Travel, Explore,
                UseItem, DropItem, RunAway
  <2> QED BY <2>1, <2>2, <2>3, <2>4
<1>2. []AdventureInv /\ [][Next]_vars => [][A]_vars
  BY <1>1, PTL
<1> QED BY <1>2, AdventureInvariant, PTL DEF Spec, CoinsAreEarned

-----------------------------------------------------------------------------
(* Pong                                                                    *)

USE PongAssumption

(* A ball between the edges that a paddle sends back is in front of it.    *)
LEMMA BouncedInPlay ==
  ASSUME NEW b, b \in [x : Int, y : Int, dx : Int, dy : Int],
         NEW y \in Int, b.x \in 0 .. W - Ball, b.dx # 0
  PROVE  LET c == Bounced(b, y)
         IN  /\ c \in [x : Int, y : Int, dx : Int, dy : Int]
             /\ c.x \in 0 .. W - Ball /\ c.dx # 0
             /\ c.dx > 0 => c.x >= Left
             /\ c.dx < 0 => c.x <= Right
<1> DEFINE c == Bounced(b, y)  hit == y + PadH - b.y
<1>1. W \div 2 \in Int /\ Left \in Int /\ Right \in Int /\ 0 <= Left /\ Left < Right
      /\ Right <= W - Ball
  BY DEF Left, Right
<1>2. \A n \in Int : n \div Band \in Int
  OBVIOUS
<1>3. Angle(hit) \in Int
  <2>1. hit \in Int
    OBVIOUS
  <2> QED BY <1>2, <2>1 DEF Angle
<1>4. c.dx \in Int /\ c.dx # 0
  BY DEF Bounced
<1>5. c.x \in Int /\ c.x \in 0 .. W - Ball
  BY <1>1 DEF Bounced
<1>6. c.dx > 0 => c.x >= Left
  BY <1>1 DEF Bounced
<1>7. c.dx < 0 => c.x <= Right
  BY <1>1 DEF Bounced
<1> QED BY <1>3, <1>4, <1>5, <1>6, <1>7 DEF Bounced

(* What a frame does to a ball in play when nobody scores.                 *)
LEMMA PaddlesKeepInPlay ==
  ASSUME NEW b, b \in [x : Int, y : Int, dx : Int, dy : Int],
         NEW i \in Player, NEW y \in Int, b.x \in 0 .. W - Ball, b.dx # 0,
         b.dx > 0 => b.x >= Left,
         b.dx < 0 => b.x <= Right
  PROVE  LET c == AfterPaddle(b, i, y)
         IN  /\ c \in [x : Int, y : Int, dx : Int, dy : Int]
             /\ c.x \in 0 .. W - Ball /\ c.dx # 0
             /\ c.dx > 0 => c.x >= Left
             /\ c.dx < 0 => c.x <= Right
<1>1. CASE check_collision(b, i, y)
  <2>1. AfterPaddle(b, i, y) = Bounced(b, y)
    BY <1>1 DEF AfterPaddle
  <2> QED BY <2>1, BouncedInPlay, ZenonT(30)
<1>2. CASE ~check_collision(b, i, y)
  <2>1. AfterPaddle(b, i, y) = b
    BY <1>2 DEF AfterPaddle
  <2> QED BY <2>1
<1> QED BY <1>1, <1>2

(* The paddles stay integers, and the player's within a step of the screen.*)
LEMMA MovedPaddles ==
  ASSUME NEW y \in Int, NEW keys
  PROVE  /\ move_paddle(y, keys) \in Int
         /\ y > -Step /\ y < H - PadH + Step
              => move_paddle(y, keys) > -Step /\ move_paddle(y, keys) < H - PadH + Step
<1>1. H \div 2 \in Int /\ 0 <= H - PadH
  OBVIOUS
<1>2. Down(y) \in Int /\ Up(y) \in Int /\ Up(Down(y)) \in Int
  BY DEF Down, Up
<1>3. ASSUME y > -Step, y < H - PadH + Step
      PROVE  /\ Down(y) > -Step /\ Down(y) < H - PadH + Step
             /\ Up(y) > -Step /\ Up(y) < H - PadH + Step
             /\ Up(Down(y)) > -Step /\ Up(Down(y)) < H - PadH + Step
  BY <1>1, <1>3 DEF Down, Up
<1> QED BY <1>2, <1>3 DEF move_paddle

(* The computer's paddle stays at a whole coordinate.                      *)
LEMMA ComputerPaddle ==
  ASSUME NEW y \in Int, ball \in [x : Int, y : Int, dx : Int, dy : Int]
  PROVE  move_paddle_ai(y, ball) \in Int
<1>1. PadH \div 2 \in Int /\ H \div 2 \in Int
  OBVIOUS
<1> QED BY <1>1 DEF move_paddle_ai, Abs

(* The frame of a game in which nobody scores keeps the ball in play.      *)
LEMMA MovedBall ==
  ASSUME PongTypeOK, BallInPlay, Scorer \notin Player,
         NEW y0 \in Int, NEW y1 \in Int
  PROVE  LET c == AfterPaddle(AfterPaddle(TurnedAtEdge(Stepped), 0, y0), 1, y1)
         IN  /\ c \in [x : Int, y : Int, dx : Int, dy : Int]
             /\ c.x \in 0 .. W - Ball /\ c.dx # 0
             /\ c.dx > 0 => c.x >= Left
             /\ c.dx < 0 => c.x <= Right
<1> DEFINE b == TurnedAtEdge(Stepped)
<1>1. Left \in Int /\ Right \in Int
  BY DEF Left, Right
<1>2. /\ b \in [x : Int, y : Int, dx : Int, dy : Int]
      /\ b.x = ball.x + ball.dx /\ b.dx = ball.dx
  BY DEF TurnedAtEdge, Stepped, PongTypeOK
<1>3. b.x \in 0 .. W - Ball
  BY DEF TurnedAtEdge, Scorer, Player, Stepped, PongTypeOK
<1>4. b.dx # 0 /\ (b.dx > 0 => b.x >= Left) /\ (b.dx < 0 => b.x <= Right)
  BY <1>1, <1>2 DEF BallInPlay, PongTypeOK
<1> HIDE DEF b
<1> DEFINE d == AfterPaddle(b, 0, y0)
<1>5. /\ d \in [x : Int, y : Int, dx : Int, dy : Int]
      /\ d.x \in 0 .. W - Ball /\ d.dx # 0
      /\ d.dx > 0 => d.x >= Left
      /\ d.dx < 0 => d.x <= Right
  BY <1>2, <1>3, <1>4, PaddlesKeepInPlay DEF Player
<1> HIDE DEF d
<1>6. LET c == AfterPaddle(d, 1, y1)
      IN  /\ c \in [x : Int, y : Int, dx : Int, dy : Int]
          /\ c.x \in 0 .. W - Ball /\ c.dx # 0
          /\ c.dx > 0 => c.x >= Left
          /\ c.dx < 0 => c.x <= Right
  BY <1>5, PaddlesKeepInPlay DEF Player
<1> QED BY <1>6 DEF d, b

(* The ball that init_game serves is in play.                              *)
LEMMA ServedInPlay ==
  /\ Served \in [x : Int, y : Int, dx : Int, dy : Int]
  /\ Served.x \in 0 .. W - Ball /\ Served.dx # 0
  /\ Served.dx > 0 => Served.x >= Left
  /\ Served.dx < 0 => Served.x <= Right
  /\ Served.x + Served.dx \in 0 .. W - Ball
<1>1. W \div 2 \in Int /\ H \div 2 \in Int
  OBVIOUS
<1> QED BY <1>1 DEF Served, Left, Right

-----------------------------------------------------------------------------
(* A game begins with a served ball and no score (init_game 48-70).        *)
LEMMA PongInitInv == PongInit => PongInv
<1> SUFFICES ASSUME PongInit PROVE PongInv
  OBVIOUS
<1>1. H \div 2 - PadH \in Int
  OBVIOUS
<1>2. PongTypeOK
  <2>1. quit \in BOOLEAN
    BY Zenon DEF PongInit
  <2>2. paddle \in [Player -> Int] /\ score \in [Player -> Nat]
    BY <1>1 DEF PongInit, Centered
  <2> QED BY <2>1, <2>2, ServedInPlay DEF PongInit, PongTypeOK
<1>3. BallInPlay
  BY ServedInPlay DEF PongInit, BallInPlay
<1>4. ScoresFair /\ AtLimitServed
  BY DEF PongInit, ScoresFair, AtLimitServed, Player
<1> QED BY <1>2, <1>3, <1>4 DEF PongInv

(* A frame without a game changes a paddle and the state of the game.      *)
LEMMA IdleFrame ==
  ASSUME PongInv, NEW keys, Menu(keys) \/ GameOver(keys)
  PROVE  PongInv'
<1>1. PongTypeOK /\ BallInPlay /\ ScoresFair /\ AtLimitServed
  BY DEF PongInv
<1>2. /\ UNCHANGED <<ball, score, r>> /\ quit' \in BOOLEAN
      /\ state # 1 /\ state' \in 0 .. 2 /\ (state' = 2 => state = 2)
      /\ paddle' = [paddle EXCEPT ![1] = move_paddle(@, keys)]
  <2>1. quit' \in BOOLEAN
    <3>1. Keys(keys)
      BY Zenon DEF Menu, GameOver
    <3> QED BY <3>1 DEF Keys
  <2>2. state # 1 /\ state' \in 0 .. 2 /\ (state' = 2 => state = 2)
    BY DEF Menu, GameOver
  <2>3. UNCHANGED <<ball, score, r>> /\ paddle' = [paddle EXCEPT ![1] = move_paddle(@, keys)]
    BY DEF Menu, GameOver
  <2> QED BY <2>1, <2>2, <2>3
<1>3. PongTypeOK'
  <2>1. paddle \in [Player -> Int] /\ paddle[1] \in Int
    BY <1>1 DEF PongTypeOK, Player
  <2>2. move_paddle(paddle[1], keys) \in Int
    BY <2>1, MovedPaddles
  <2>3. paddle' \in [Player -> Int]
    BY <1>2, <2>1, <2>2
  <2> QED BY <1>1, <1>2, <2>3 DEF PongTypeOK
<1>4. BallInPlay'
  BY <1>1, <1>2 DEF BallInPlay, Left, Right
<1>5. ScoresFair' /\ AtLimitServed'
  BY <1>1, <1>2 DEF ScoresFair, AtLimitServed, Served, PongTypeOK
<1> QED BY <1>3, <1>4, <1>5 DEF PongInv

(* A frame of a game.                                                      *)
LEMMA GameFrame ==
  ASSUME PongInv, NEW keys, Play(keys)
  PROVE  PongInv'
<1>1. PongTypeOK /\ BallInPlay /\ ScoresFair /\ AtLimitServed
  BY DEF PongInv
<1> DEFINE kept == IF r' = 0 THEN score ELSE [i \in Player |-> 0]
           y0 == move_paddle_ai(paddle[0], ball)
           y1 == move_paddle(paddle[1], keys)
<1>2. paddle \in [Player -> Int] /\ paddle[0] \in Int /\ paddle[1] \in Int
      /\ y0 \in Int /\ y1 \in Int
  <2>1. paddle \in [Player -> Int] /\ paddle[0] \in Int /\ paddle[1] \in Int
    BY <1>1 DEF PongTypeOK, Player
  <2> QED BY <1>1, <2>1, ComputerPaddle, MovedPaddles DEF PongTypeOK
<1>3. /\ r' = check_score(score) /\ r' \in 0 .. 2 /\ quit' \in BOOLEAN
      /\ state' = IF r' = 0 THEN 1 ELSE 2
      /\ state' \in 0 .. 2
  BY DEF Play, check_score, Keys
<1>4. /\ score \in [Player -> Nat] /\ score[0] \in Nat /\ score[1] \in Nat
      /\ score[0] <= Limit /\ score[1] <= Limit
  BY <1>1 DEF PongTypeOK, ScoresFair, Player
<1>5. kept \in [Player -> Nat] /\ kept[0] < Limit /\ kept[1] < Limit
  BY <1>3, <1>4 DEF check_score, Player
(* The ball of the frame that ends a game has just been served.            *)
<1>6. r' # 0 => Scorer \notin Player
  <2> SUFFICES ASSUME r' # 0 PROVE Scorer \notin Player
    OBVIOUS
  <2>1. ball = Served
    BY <1>1, <1>3, <1>4 DEF check_score, AtLimitServed, Player
  <2> QED BY <2>1, ServedInPlay DEF Scorer, Stepped, Player, Served
<1>7. CASE Scorer \in Player
  <2>1. /\ r' = 0 /\ state' = 1 /\ ball' = Served /\ paddle' = Centered
        /\ score' = [score EXCEPT ![Scorer] = @ + 1]
    BY <1>3, <1>6, <1>7 DEF Play
  <2>2. PongTypeOK'
    <3>1. H \div 2 - PadH \in Int
      OBVIOUS
    <3>2. Centered \in [Player -> Int]
      BY <3>1 DEF Centered
    <3>3. score' \in [Player -> Nat]
      BY <1>4, <1>7, <2>1 DEF Player
    <3> QED BY <1>3, <2>1, <3>2, <3>3, ServedInPlay DEF PongTypeOK
  <2>3. BallInPlay'
    BY <2>1, ServedInPlay DEF BallInPlay, Left, Right
  <2>4. ScoresFair' /\ AtLimitServed'
    BY <1>4, <1>5, <1>7, <2>1 DEF ScoresFair, AtLimitServed, Player, Served
  <2> QED BY <2>2, <2>3, <2>4 DEF PongInv
<1>8. CASE Scorer \notin Player
  <2>1. /\ score' = kept
        /\ paddle' = [i \in Player |-> IF i = 0 THEN y0 ELSE y1]
        /\ ball' = AfterPaddle(AfterPaddle(TurnedAtEdge(Stepped), 0, y0), 1, y1)
    BY <1>8 DEF Play
  <2>2. /\ ball' \in [x : Int, y : Int, dx : Int, dy : Int]
        /\ ball'.x \in 0 .. W - Ball /\ ball'.dx # 0
        /\ ball'.dx > 0 => ball'.x >= Left
        /\ ball'.dx < 0 => ball'.x <= Right
    BY <1>1, <1>2, <1>8, <2>1, MovedBall
  <2>3. PongTypeOK'
    BY <1>2, <1>3, <1>5, <2>1, <2>2 DEF PongTypeOK
  <2>4. BallInPlay'
    BY <2>2 DEF BallInPlay, Left, Right
  <2>5. score'[0] < Limit /\ score'[1] < Limit
    BY <1>5, <2>1
  <2>6. state' # 1 => score' = [i \in Player |-> 0]
    BY <1>3, <2>1
  <2>7. ScoresFair' /\ AtLimitServed'
    BY <1>3, <1>5, <2>1, <2>5, <2>6 DEF ScoresFair, AtLimitServed, Player
  <2> QED BY <2>3, <2>4, <2>7 DEF PongInv
<1> QED BY <1>7, <1>8

(* In every frame of every game the ball is in play, the scores are fair,  *)
(* and a game ends with a served ball.                                     *)
THEOREM PongInvariant == PongSpec => []PongInv
<1>1. PongInv /\ [PongNext]_pongVars => PongInv'
  <2> SUFFICES ASSUME PongInv, [PongNext]_pongVars PROVE PongInv'
    OBVIOUS
  <2>1. ASSUME NEW keys \in Pressed, Menu(keys) \/ GameOver(keys) PROVE PongInv'
    BY <2>1, IdleFrame
  <2>2. ASSUME NEW keys \in Pressed, Play(keys) PROVE PongInv'
    BY <2>2, GameFrame
  <2>3. CASE UNCHANGED pongVars
    BY <2>3 DEF PongInv, PongTypeOK, BallInPlay, ScoresFair, AtLimitServed, pongVars,
                Left, Right, Served
  <2> QED BY <2>1, <2>2, <2>3 DEF PongNext
<1> QED BY <1>1, PongInitInv, PTL DEF PongSpec

(* The ball is between the left and the right edge after each frame, in    *)
(* front of the paddle it moves away from (move_ball 281-303).             *)
THEOREM BallStaysInPlay == PongSpec => []BallInPlay
<1>1. PongInv => BallInPlay
  BY DEF PongInv
<1> QED BY <1>1, PongInvariant, PTL

(* No score passes the limit, one player wins, and every game starts from  *)
(* zero (check_score 72-107, move_ball 172-185).                           *)
THEOREM ScoresStayFair == PongSpec => []ScoresFair
<1>1. PongInv => ScoresFair
  BY DEF PongInv
<1> QED BY <1>1, PongInvariant, PTL

(* The player's paddle overshoots the screen by less than a step           *)
(* (move_paddle 396-432).                                                  *)
THEOREM PaddleStaysOnScreen == PongSpec => []PaddleOnScreen
<1>1. H \div 2 \in Int
  OBVIOUS
<1>2. PongInit => PaddleOnScreen
  BY <1>1 DEF PongInit, PaddleOnScreen, Centered, Player
<1>3. PongInv /\ PaddleOnScreen /\ [PongNext]_pongVars => PaddleOnScreen'
  <2> SUFFICES ASSUME PongInv, PaddleOnScreen, [PongNext]_pongVars PROVE PaddleOnScreen'
    OBVIOUS
  <2>1. paddle \in [Player -> Int] /\ paddle[1] \in Int
    BY DEF PongInv, PongTypeOK, Player
  <2>2. \A keys : /\ move_paddle(paddle[1], keys) > -Step
                  /\ move_paddle(paddle[1], keys) < H - PadH + Step
    BY <2>1, MovedPaddles DEF PaddleOnScreen
  <2>3. CASE UNCHANGED pongVars
    BY <2>3 DEF pongVars, PaddleOnScreen
  <2>4. ASSUME NEW keys \in Pressed, Menu(keys) \/ GameOver(keys) PROVE PaddleOnScreen'
    <3>1. paddle'[1] = move_paddle(paddle[1], keys)
      BY <2>1, <2>4 DEF Menu, GameOver, Player
    <3> QED BY <2>2, <3>1 DEF PaddleOnScreen
  <2>5. ASSUME NEW keys \in Pressed, Play(keys) PROVE PaddleOnScreen'
    <3>1. paddle'[1] = H \div 2 - PadH \/ paddle'[1] = move_paddle(paddle[1], keys)
      BY <2>5 DEF Play, Player, Centered
    <3> QED BY <1>1, <2>2, <3>1 DEF PaddleOnScreen
  <2> QED BY <2>3, <2>4, <2>5 DEF PongNext
<1> QED BY <1>2, <1>3, PongInvariant, PTL DEF PongSpec

-----------------------------------------------------------------------------
(* How far beyond an edge a ball may be, and where it will be in the next  *)
(* frame: outside it goes to and fro between the two.  A ball that goes    *)
(* left was sent by the player.                                            *)
Away(b) == IF b.dx < 0 THEN Step - 1 + Steep ELSE Step - 1 + 2 * Steep

Held(b) ==
  /\ b.dy \in -Steep .. Steep
  /\ b.y >= -(Ball + Away(b)) /\ b.y <= H + Away(b)
  /\ b.y + b.dy >= -(Ball + Away(b)) /\ b.y + b.dy <= H + Away(b)

(* Wherever on a paddle the ball hits, it is not sent off more steeply     *)
(* than Steep.                                                             *)
LEMMA AngleIsBounded ==
  ASSUME NEW hit \in Nat
  PROVE  Angle(hit) \in -Steep .. Steep
<1>1. \A n \in Nat : n \div Band \in Nat
  OBVIOUS
<1>2. PICK s \in Nat : s = Steep * Band
  OBVIOUS
<1>3. CASE hit < s
  <2>1. hit \div Band <= Steep
    BY <1>2, <1>3
  <2>2. hit \div Band \in 0 .. Steep
    BY <1>1, <2>1
  <2> QED BY <1>2, <1>3, <2>2 DEF Angle
<1>4. CASE hit >= s /\ hit < s + Flat
  BY <1>2, <1>4 DEF Angle
<1>5. CASE hit >= s + Flat
  <2>1. PICK m \in Nat : m = (hit - s - Flat) \div Band
    BY <1>1, <1>5
  <2>2. Angle(hit) = IF 1 + m > Steep THEN -Steep ELSE -(1 + m)
    BY <1>2, <1>5, <2>1 DEF Angle
  <2> QED BY <2>2
<1> QED BY <1>3, <1>4, <1>5

(* A ball beyond an edge goes back to where it was a frame before.         *)
LEMMA EdgesHold ==
  ASSUME PongTypeOK, Held(ball)
  PROVE  Held(TurnedAtEdge(Stepped))
<1> DEFINE b == TurnedAtEdge(Stepped)
<1>1. /\ ball.y \in Int /\ ball.dy \in Int /\ ball.dx \in Int
      /\ Stepped.y = ball.y + ball.dy /\ Stepped.dy = ball.dy /\ Stepped.dx = ball.dx
  BY DEF Stepped, PongTypeOK
<1>2. b.y = ball.y + ball.dy /\ b.dx = ball.dx
  BY <1>1 DEF TurnedAtEdge, Stepped
<1>3. \/ b.dy = -ball.dy
      \/ b.dy = ball.dy /\ b.y >= 0 /\ b.y <= H - Ball
  BY <1>1 DEF TurnedAtEdge, Stepped
<1>4. Away(b) = Away(ball) /\ Away(ball) \in Nat /\ Away(ball) >= Steep
  BY <1>1, <1>2 DEF Away
<1> HIDE DEF b
<1>5. Held(b)
  BY <1>1, <1>2, <1>3, <1>4 DEF Held
<1> QED BY <1>5 DEF b

(* The computer's paddle hits only what goes left, and the player's only   *)
(* what it reaches from the screen.                                        *)
LEMMA PaddlesHold ==
  ASSUME NEW b, b \in [x : Int, y : Int, dx : Int, dy : Int], Held(b),
         NEW i \in Player, NEW y \in Int,
         i = 0 => (b.dx > 0 => b.x > Left),
         i = 1 => y > -Step /\ y < H - PadH + Step,
         b.dx # 0
  PROVE  Held(AfterPaddle(b, i, y))
<1>1. CASE ~check_collision(b, i, y)
  <2>1. AfterPaddle(b, i, y) = b
    BY <1>1 DEF AfterPaddle
  <2> QED BY <2>1
<1>2. CASE check_collision(b, i, y)
  <2> DEFINE c == Bounced(b, y)  hit == y + PadH - b.y
  <2>1. AfterPaddle(b, i, y) = c
    BY <1>2 DEF AfterPaddle
  <2>2. b.y <= y + PadH /\ b.y + Ball >= y
    BY <1>2 DEF check_collision
  <2>3. hit \in Nat
    BY <2>2
  <2>4. PICK a \in -Steep .. Steep : a = Angle(hit)
    BY <2>3, AngleIsBounded
  <2>5. c.y = b.y /\ c.dy = a /\ c.dx = IF b.dx < 0 THEN 1 - b.dx ELSE -1 - b.dx
    BY <2>4 DEF Bounced
  <2>6. b.y \in Int /\ b.dx \in Int
    OBVIOUS
  <2>7. CASE i = 0
    <3>1. b.dx < 0
      BY <1>2, <2>7 DEF check_collision, PaddleX, Left
    <3>2. Away(b) = Step - 1 + Steep /\ Away(c) = Step - 1 + 2 * Steep
      BY <2>5, <2>6, <3>1 DEF Away
    <3> HIDE DEF c
    <3>3. Held(c)
      BY <2>5, <2>6, <3>2 DEF Held
    <3> QED BY <2>1, <3>3
  <2>8. CASE i = 1
    <3>1. b.y > -Step - Ball /\ b.y < H + Step
      BY <2>2, <2>6, <2>8
    <3>2. Away(c) >= Step - 1 + Steep /\ Away(c) \in Nat
      BY <2>5, <2>6 DEF Away
    <3> HIDE DEF c
    <3>3. Held(c)
      BY <2>5, <2>6, <3>1, <3>2 DEF Held
    <3> QED BY <2>1, <3>3
  <2> QED BY <2>7, <2>8 DEF Player
<1> QED BY <1>1, <1>2

(* The served ball is on the screen.                                       *)
LEMMA ServedIsHeld == Held(Served)
<1>1. H \div 2 \in Nat /\ H \div 2 <= H - Ball
  OBVIOUS
<1> QED BY <1>1 DEF Served, Held, Away

(* A frame keeps the ball from drifting away.                              *)
LEMMA FrameHolds ==
  ASSUME PongInv, PaddleOnScreen, Held(ball), [PongNext]_pongVars
  PROVE  Held(ball')
<1>1. PongTypeOK /\ BallInPlay /\ paddle[0] \in Int /\ paddle[1] \in Int
  BY DEF PongInv, PongTypeOK, Player
<1>2. ASSUME ball' = ball PROVE Held(ball')
  BY <1>2
<1>3. ASSUME NEW keys \in Pressed, Play(keys) PROVE Held(ball')
  <2> DEFINE y0 == move_paddle_ai(paddle[0], ball)
             y1 == move_paddle(paddle[1], keys)
             b  == TurnedAtEdge(Stepped)
             d  == AfterPaddle(b, 0, y0)
  <2>1. CASE Scorer \in Player
    <3>1. ball' = Served
      BY <1>3, <2>1 DEF Play
    <3> QED BY <3>1, ServedIsHeld
  <2>2. CASE Scorer \notin Player
    <3>1. ball' = AfterPaddle(d, 1, y1)
      BY <1>3, <2>2 DEF Play
    <3>2. y0 \in Int /\ y1 \in Int /\ y1 > -Step /\ y1 < H - PadH + Step
      BY <1>1, ComputerPaddle, MovedPaddles DEF PongTypeOK, PaddleOnScreen
    <3>3. Left \in Int /\ Right \in Int
      BY DEF Left, Right
    <3>4. /\ b \in [x : Int, y : Int, dx : Int, dy : Int]
          /\ b.x = ball.x + ball.dx /\ b.dx = ball.dx
      BY <1>1 DEF TurnedAtEdge, Stepped, PongTypeOK
    <3>5. b.x \in 0 .. W - Ball
      BY <1>1, <2>2 DEF TurnedAtEdge, Scorer, Player, Stepped, PongTypeOK
    <3>6. b.dx # 0 /\ (b.dx > 0 => b.x > Left) /\ (b.dx < 0 => b.x <= Right)
      BY <1>1, <3>3, <3>4 DEF BallInPlay, PongTypeOK
    <3>7. Held(b)
      BY <1>1, EdgesHold
    <3> HIDE DEF b
    <3>8. d \in [x : Int, y : Int, dx : Int, dy : Int] /\ d.dx # 0
      <4>1. b.x \in Int /\ (b.dx > 0 => b.x >= Left)
        BY <3>3, <3>4, <3>6
      <4>2. 0 \in Player
        BY DEF Player
      <4> QED BY <3>2, <3>4, <3>5, <3>6, <4>1, <4>2, PaddlesKeepInPlay
    <3>9. Held(d)
      BY <3>2, <3>4, <3>6, <3>7, PaddlesHold DEF Player
    <3> HIDE DEF d
    <3>10. Held(AfterPaddle(d, 1, y1))
      BY <3>2, <3>8, <3>9, PaddlesHold DEF Player
    <3> QED BY <3>1, <3>10
  <2> QED BY <2>1, <2>2
<1> QED BY <1>2, <1>3 DEF PongNext, Menu, GameOver, pongVars

(* However often it is turned beyond an edge and hit there, the ball stays *)
(* within two steep steps of where the player's paddle reaches             *)
(* (move_ball 188-192, 206-262).                                           *)
THEOREM BallStaysNear == PongSpec => []BallNearScreen
<1>1. PongInit => Held(ball)
  BY ServedIsHeld DEF PongInit
<1>2. PongInv /\ PaddleOnScreen /\ Held(ball) /\ [PongNext]_pongVars => Held(ball)'
  <2> SUFFICES ASSUME PongInv, PaddleOnScreen, Held(ball), [PongNext]_pongVars
               PROVE  Held(ball)'
    OBVIOUS
  <2>1. Held(ball')
    BY FrameHolds
  <2> QED BY <2>1 DEF Held, Away
<1>3. PongInv /\ Held(ball) => BallNearScreen
  BY DEF PongInv, PongTypeOK, Held, Away, BallNearScreen
<1> QED BY <1>1, <1>2, <1>3, PongInvariant, PaddleStaysOnScreen, PTL DEF PongSpec
=============================================================================
