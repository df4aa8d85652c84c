------------------------------- MODULE MCGames -------------------------------
(***************************************************************************)
(* The two games of exercise 3.1.22; a behaviour plays one of them.  Pong  *)
(* has a paddle of four bands with a middle, the adventure one item of     *)
(* each kind that differs in what may be done with it.                     *)
(***************************************************************************)
EXTENDS Adventure, Pong, TLC

CONSTANTS Game

VARIABLES game

all == <<vars, game, pongVars>>

MCItem == {"sword", "shield", "doge", "food", "tent", "special"}
MCAction == [t \in MCItem |-> CASE t = "sword"  -> "attack" [] t = "shield" -> "defend"
                                [] t = "doge"   -> "pet"    [] t \in {"food", "tent"} -> "heal"
                                [] t = "special" -> "special"]
MCWeight == [t \in MCItem |-> CASE t \in {"sword", "shield"} -> 2 [] t = "special" -> 0
                                [] OTHER -> 1]
MCExpendable == {"food", "special"}
MCNotSold == {"food", "doge"}
MCPrice(special) == [t \in MCItem |-> CASE t = "special" -> special [] t = "sword" -> 2
                                        [] OTHER -> 1]
MCPrices == {MCPrice(4), MCPrice(5)}
MCEnemy == [health : {1, 4}, attack : {1, 3}, coin : {2}]

MCInit == Init /\ PongInit /\ game \in Game

AdventureTurn == game = "adventure" /\ Next /\ UNCHANGED <<game, pongVars>>
PongFrame == game = "pong" /\ PongNext /\ UNCHANGED <<game, vars>>

MCNext == AdventureTurn \/ PongFrame
MCSpec == MCInit /\ [][MCNext]_all

=============================================================================
