------------------------------ MODULE Adventure ------------------------------
(***************************************************************************)
(* The text adventure of exercises/C/3.1.22/src/game.c.  An action is one  *)
(* turn: a choice from a menu with everything that follows it up to the    *)
(* next menu, random numbers included.  The tables of the game are         *)
(* constants.  drop_item frees a node that stays linked, `dangling'; what  *)
(* walks through the bag after that reads freed memory, and the outcome is *)
(* "undefined".                                                            *)
(***************************************************************************)
EXTENDS Integers, Sequences, SequencesExt, FiniteSetsExt

CONSTANTS
  Item,          \* the types of items
  Special,       \* the type ITEM_SPECIAL
  Action,        \* item_actions
  Weight,        \* action_weights
  Spread,        \* how far a blow may differ from the weight: 5
  Expendable,    \* the types with item_expendable
  NotSold,       \* food, water and doge
  Prices,        \* the price lists a market may have
  Heal,          \* the points an item may heal in a fight
  Place, Village,
  Enemy,         \* [health, attack, coin] an enemy may come with
  MenuSize,      \* the lines a menu can have: 36
  INITIAL_HEALTH, INITIAL_COIN,
  MaxItems, MaxHealth, MaxCoins      \* bounds

ASSUME AdventureAssumption ==
  /\ Special \in Item /\ Village \in Place
  /\ Action \in [Item -> {"special", "attack", "defend", "heal", "pet"}]
  /\ \A t \in Item : Action[t] = "special" => t = Special
  /\ Weight \in [Item -> Nat] /\ Spread \in Nat
  /\ \A t \in Item : Action[t] \in {"attack", "defend"} => Weight[t] >= Spread
  /\ Prices \subseteq [Item -> Nat] /\ Heal \subseteq Nat
  /\ Enemy \subseteq [health : Nat, attack : Nat, coin : Nat]
  /\ MenuSize \in Nat \ {0} /\ INITIAL_HEALTH \in Nat /\ INITIAL_COIN \in Nat

VARIABLES
  scene,         \* "menu", "market", "fight"; how it ended
  health, coins, location,
  bag,           \* the linked items: [index, type]
  counter,       \* item_index_counter
  special_enabled,
  prices,        \* store_prices of this visit
  enemy,         \* of this fight
  dangling,      \* the bag leads through a freed node
  bought         \* the types that were ever paid for

vars == <<scene, health, coins, location, bag, counter, special_enabled,
          prices, enemy, dangling, bought>>

Nobody == [health |-> 0, attack |-> 0, coin |-> 0]
NoPrices == [t \in Item |-> 0]

Init ==
  /\ scene = "menu"
  /\ health = INITIAL_HEALTH /\ coins = INITIAL_COIN /\ location = Village
  /\ bag = <<>> /\ counter = 0 /\ special_enabled = FALSE
  /\ prices = NoPrices /\ enemy = Nobody
  /\ dangling = FALSE /\ bought = {}

-----------------------------------------------------------------------------
create_item(type) == [index |-> counter, type |-> type]

(* add_item_to_bag: the new item goes behind the last.                     *)
AddItem(type) ==
  /\ bag' = Append(bag, create_item(type))
  /\ counter' = counter + 1

(* remove_item_from_inventory takes out the first item with the index.     *)
Without(index) ==
  LET at == {i \in DOMAIN bag : bag[i].index = index}
  IN  IF at = {} THEN bag ELSE RemoveAt(bag, Min(at))

(* A menu that is too long is not shown, and its first line is taken.      *)
Selectable == IF Len(bag) <= MenuSize THEN DOMAIN bag ELSE {1}

Roll(type) == Weight[type] - Spread .. Weight[type] + Spread

Playing == scene = "menu" /\ ~special_enabled

Win ==
  /\ scene = "menu" /\ special_enabled
  /\ scene' = "won"
  /\ UNCHANGED <<health, coins, location, bag, counter, special_enabled,
                 prices, enemy, dangling, bought>>

Quit ==
  /\ Playing
  /\ scene' = "quit"
  /\ UNCHANGED <<health, coins, location, bag, counter, special_enabled,
                 prices, enemy, dangling, bought>>

(* A fatal fall ends the game at the new place.                            *)
Travel(to, fatal) ==
  /\ Playing
  /\ location' = to
  /\ scene' = IF fatal THEN "died" ELSE "menu"
  /\ UNCHANGED <<health, coins, bag, counter, special_enabled,
                 prices, enemy, dangling, bought>>

(* handle_new_item never offers the special item.                          *)
Found == Item \ {Special}
handle_new_item(found) ==
  IF found \in Found THEN AddItem(found) ELSE UNCHANGED <<bag, counter>>

NothingFound == "nothing"

(* handle_explore: an item to take, then the market or perhaps an enemy.   *)
Explore(found) ==
  /\ Playing
  /\ found = NothingFound \/ ~dangling
  /\ handle_new_item(found)
  /\ \/ /\ location = Village
        /\ scene' = "market"
        /\ prices' \in Prices
        /\ UNCHANGED enemy
     \/ /\ location # Village
        /\ scene' = "fight" /\ enemy' \in Enemy
        /\ UNCHANGED prices
     \/ /\ location # Village
        /\ scene' = "menu"
        /\ UNCHANGED <<prices, enemy>>
  /\ UNCHANGED <<health, coins, location, special_enabled, dangling, bought>>

(* use_item, outside a fight.                                              *)
UseItem(i) ==
  /\ Playing /\ ~dangling /\ i \in Selectable
  /\ LET it == bag[i]
         usable == Action[it.type] \in {"heal", "pet", "special"}
     IN  /\ health' = IF Action[it.type] \in {"heal", "pet"}
                      THEN health + Weight[it.type] ELSE health
         /\ special_enabled' = (special_enabled \/ Action[it.type] = "special")
         /\ bag' = IF usable /\ it.type \in Expendable THEN Without(it.index) ELSE bag
  /\ UNCHANGED <<scene, coins, location, counter, prices, enemy, dangling, bought>>

(* The node is freed and not unlinked.                                     *)
DropItem(i) ==
  /\ Playing /\ ~dangling /\ i \in Selectable
  /\ dangling' = TRUE
  /\ UNCHANGED <<scene, health, coins, location, bag, counter, special_enabled,
                 prices, enemy, bought>>

(* Showing, adding, choosing or dropping an item reads the whole bag.      *)
ReadsFreed ==
  /\ dangling
  /\ Playing \/ scene \in {"market", "fight"}
  /\ scene' = "undefined"
  /\ UNCHANGED <<health, coins, location, bag, counter, special_enabled,
                 prices, enemy, dangling, bought>>

-----------------------------------------------------------------------------
(* buy_item; a refusal changes nothing.                                    *)
BuyItem(type) ==
  /\ scene = "market" /\ ~dangling
  /\ coins >= prices[type]
  /\ coins' = coins - prices[type]
  /\ AddItem(type)
  /\ bought' = bought \union {type}
  /\ UNCHANGED <<scene, health, location, special_enabled, prices, enemy, dangling>>

SellItem(i) ==
  /\ scene = "market" /\ ~dangling /\ i \in Selectable
  /\ bag[i].type \notin NotSold
  /\ coins' = coins + prices[bag[i].type] \div 2
  /\ bag' = Without(bag[i].index)
  /\ UNCHANGED <<scene, health, location, counter, special_enabled,
                 prices, enemy, dangling, bought>>

LeaveMarket ==
  /\ scene = "market"
  /\ scene' = "menu" /\ prices' = NoPrices
  /\ UNCHANGED <<health, coins, location, bag, counter, special_enabled,
                 enemy, dangling, bought>>

-----------------------------------------------------------------------------
(* handle_enemy, one round of its loop: running away, or an item against   *)
(* what the enemy does: 0 nothing, 1 defend, 2 attack.                     *)
RunAway(killed) ==
  /\ scene = "fight"
  /\ health' = IF killed THEN 0 ELSE health
  /\ scene' = IF killed THEN "died" ELSE "menu"
  /\ enemy' = Nobody
  /\ UNCHANGED <<coins, location, bag, counter, special_enabled,
                 prices, dangling, bought>>

(* Mutant: a blow harder than the enemy's health is subtracted as well.    *)
HurtUnchecked(attack) == enemy.health - attack

Hurt(attack) == IF attack > enemy.health THEN 0 ELSE enemy.health - attack
Blocked(defend) == IF defend >= enemy.attack THEN 0 ELSE enemy.attack - defend

(* Mutant: each hit pays the enemy's coin.                                 *)
RoundPaysHits(enemy_action, attack, defend, healed) ==
  LET hit   == enemy_action # 1 /\ attack > 0
      left  == IF hit THEN Hurt(attack) ELSE enemy.health
      blow  == IF enemy_action = 2 THEN Blocked(defend) ELSE enemy.attack
      dead  == enemy_action = 2 /\ blow > health + healed
  IN  /\ coins' = IF hit THEN coins + enemy.coin ELSE coins
      /\ health' = IF dead THEN 0
                   ELSE IF enemy_action = 2 THEN health + healed - blow
                   ELSE health + healed
      /\ scene' = IF dead THEN "died" ELSE IF left > 0 THEN "fight" ELSE "menu"
      /\ enemy' = IF dead \/ left = 0 THEN Nobody
                  ELSE [health |-> left, attack |-> blow, coin |-> enemy.coin]

(* What a round does once it is known how hard the player hits or defends. *)
(* A blow that was weakened stays weak, and a slain enemy strikes back.    *)
Round(enemy_action, attack, defend, healed) ==
  LET hit   == enemy_action # 1 /\ attack > 0
      left  == IF hit THEN Hurt(attack) ELSE enemy.health
      blow  == IF enemy_action = 2 THEN Blocked(defend) ELSE enemy.attack
      dead  == enemy_action = 2 /\ blow > health + healed
  IN  /\ coins' = IF hit /\ left = 0 THEN coins + enemy.coin ELSE coins
      /\ health' = IF dead THEN 0
                   ELSE IF enemy_action = 2 THEN health + healed - blow
                   ELSE health + healed
      /\ scene' = IF dead THEN "died" ELSE IF left > 0 THEN "fight" ELSE "menu"
      /\ enemy' = IF dead \/ left = 0 THEN Nobody
                  ELSE [health |-> left, attack |-> blow, coin |-> enemy.coin]

FightWithItem(i, enemy_action) ==
  /\ scene = "fight" /\ ~dangling /\ i \in Selectable
  /\ LET it == bag[i]  act == Action[bag[i].type]
     IN  \E roll \in IF act = "heal" THEN Heal
                     ELSE IF act \in {"attack", "defend"} THEN Roll(it.type) ELSE {0} :
           /\ Round(enemy_action, IF act = "attack" THEN roll ELSE 0,
                    IF act = "defend" THEN roll ELSE 0, IF act = "heal" THEN roll ELSE 0)
           /\ bag' = IF act = "heal" /\ it.type \in Expendable
                     THEN Without(it.index) ELSE bag
  /\ UNCHANGED <<location, counter, special_enabled, prices, dangling, bought>>

FightEmptyHanded(enemy_action) ==
  /\ scene = "fight" /\ bag = <<>>
  /\ Round(enemy_action, 0, 0, 0)
  /\ UNCHANGED <<location, bag, counter, special_enabled, prices, dangling, bought>>

-----------------------------------------------------------------------------
WithinBounds == counter < MaxItems /\ health <= MaxHealth /\ coins <= MaxCoins

Turn ==
  \/ Win \/ Quit \/ ReadsFreed \/ LeaveMarket
  \/ \E to \in Place, fatal \in BOOLEAN : Travel(to, fatal)
  \/ \E found \in Found \union {NothingFound} : Explore(found)
  \/ \E i \in DOMAIN bag : UseItem(i) \/ DropItem(i) \/ SellItem(i)
  \/ \E type \in Item : BuyItem(type)
  \/ \E killed \in BOOLEAN : RunAway(killed)
  \/ \E enemy_action \in 0 .. 2 :
        FightEmptyHanded(enemy_action) \/ \E i \in DOMAIN bag : FightWithItem(i, enemy_action)

Next == WithinBounds /\ Turn

Spec == Init /\ [][Next]_vars

-----------------------------------------------------------------------------
Ends == {"quit", "died", "won", "undefined"}

TypeOK ==
  /\ scene \in {"menu", "market", "fight"} \union Ends
  /\ health \in Int /\ coins \in Int /\ location \in Place
  /\ bag \in Seq([index : Nat, type : Item]) /\ counter \in Nat
  /\ special_enabled \in BOOLEAN /\ dangling \in BOOLEAN
  /\ prices \in [Item -> Nat] /\ bought \subseteq Item
  /\ enemy \in [health : Int, attack : Int, coin : Nat]

(* All these are unsigned in the code; none is ever taken below zero, by   *)
(* no purchase, no blow and no mixture of healing and being hit.           *)
NoUnderflow ==
  health >= 0 /\ coins >= 0 /\ enemy.health >= 0 /\ enemy.attack >= 0

(* The indexes of a bag are distinct, in the order in which items came:    *)
(* taking one out by its index takes out that item and no other.           *)
Ordered(items, below) ==
  /\ \A i, j \in DOMAIN items : i < j => items[i].index < items[j].index
  /\ \A i \in DOMAIN items : items[i].index < below

BagInOrder == Ordered(bag, counter)

(* The special item, with which the game is won, is never found: whoever   *)
(* has it or has used it has paid for it in a market.                      *)
Holds(items, type) == \E i \in DOMAIN items : items[i].type = type

SpecialIsBought == (special_enabled \/ Holds(bag, Special)) => Special \in bought

(* The four together are preserved by every turn.                          *)
AdventureInv == TypeOK /\ NoUnderflow /\ BagInOrder /\ SpecialIsBought

(* Coins come from what is sold or slain: an enemy's coin is paid once,    *)
(* and the fight is over, whether the player survives the round or not.    *)
CoinsAreEarned ==
  [][coins' > coins =>
       \/ scene = "market" /\ Len(bag') = Len(bag) - 1
       \/ scene = "fight" /\ scene' # "fight"]_vars

(* Within a fight the enemy recovers neither health nor strength.          *)
EnemyWeakens ==
  [][(scene = "fight" /\ scene' = "fight") =>
       enemy'.health <= enemy.health /\ enemy'.attack <= enemy.attack]_vars

=============================================================================
