-------------------------------- MODULE Pong --------------------------------
(***************************************************************************)
(* The game of exercises/C/3.1.22/src/pong/pong.c.  An action is one frame *)
(* of the render loop: the keys, the computer's paddle, the ball.  The     *)
(* sizes that the code writes as numbers are constants here; where two     *)
(* numbers depend on each other there, they do so here.  Drawing is left   *)
(* out, and so is that move_ball allocates a ball in every frame and uses  *)
(* a static one.                                                           *)
(***************************************************************************)
EXTENDS Integers

CONSTANTS
  W, H,        \* SCREEN_WIDTH 640, SCREEN_HEIGHT 480
  Ball,        \* width and height of the ball: 10
  PadW, PadH,  \* width and height of a paddle: 10, 50
  Margin,      \* from the edge to a paddle: 20
  Step,        \* how far a key, or the computer when dy = 0, moves: 5
  Band, Flat,  \* heights of the bands of a paddle, and of its middle: 7, 4
  Steep,       \* the largest dy a paddle gives: 4
  Limit,       \* the score that wins: 10
  MaxSpeed     \* bounds |dx|, which grows with every hit

ASSUME PongAssumption ==
  /\ W \in Nat /\ H \in Nat /\ PadW \in Nat /\ PadH \in Nat
  /\ Margin \in Nat /\ Flat \in Nat /\ Step \in Nat \ {0}
  /\ Ball \in Nat \ {0} /\ Band \in Nat \ {0} /\ Steep \in Nat \ {0}
  /\ Limit \in Nat \ {0, 1} /\ MaxSpeed \in Nat \ {0}
  /\ PadH + Ball = 2 * Steep * Band + Flat
  /\ Margin + PadW < W \div 2
  /\ W \div 2 < W - Margin - PadW - Ball
  /\ H \div 2 <= H - Ball /\ PadH <= H \div 2

VARIABLES
  ball,        \* x, y and the motion dx, dy
  paddle,      \* y of paddle 0, the computer's, and of paddle 1
  score,       \* of player 0 and of player 1
  state,       \* 0 the menu, 1 the game, 2 the end of a game
  r,           \* what check_score said last: who won, or 0
  quit

pongVars == <<ball, paddle, score, state, r, quit>>

Player == {0, 1}

(* init_game *)
Served == [x |-> W \div 2, y |-> H \div 2, dx |-> 1, dy |-> 1]
Centered == [i \in Player |-> H \div 2 - PadH]

PongInit ==
  /\ ball = Served /\ paddle = Centered
  /\ score = [i \in Player |-> 0]
  /\ state = 0 /\ r = 0 /\ quit = FALSE

-----------------------------------------------------------------------------
(* The x at which a paddle sends the ball back.                            *)
Left  == Margin + PadW
Right == W - Margin - PadW - Ball

Abs(n) == IF n < 0 THEN -n ELSE n

Down(y) == IF y >= H - PadH THEN H - PadH ELSE y + Step
Up(y)   == IF y <= 0 THEN 0 ELSE y - Step

(* Both arrows may be down at once.                                        *)
move_paddle(y, keys) ==
  LET lower == IF "down" \in keys THEN Down(y) ELSE y
  IN  IF "up" \in keys THEN Up(lower) ELSE lower

move_paddle_ai(y, b) ==
  LET center == y + PadH \div 2
      speed  == Abs(b.dy)
  IN  IF b.dx > 0
      THEN IF center < H \div 2 - PadH \div 2 THEN y + speed ELSE y - speed
      ELSE IF b.dy > 0 THEN IF b.y > center THEN y + speed ELSE y - speed
      ELSE IF b.dy < 0 THEN IF b.y < center THEN y - speed ELSE y + speed
      ELSE IF b.y < center THEN y - Step ELSE y + Step

(* Mutant: one point too late.                                             *)
check_scoreLate(s) ==
  IF s[0] > Limit THEN 1 ELSE IF s[1] > Limit THEN 2 ELSE 0

check_score(s) ==
  IF s[0] = Limit THEN 1 ELSE IF s[1] = Limit THEN 2 ELSE 0

(* Edges that touch collide.                                               *)
PaddleX(i) == IF i = 0 THEN Margin ELSE W - Margin - PadW
check_collision(b, i, y) ==
  /\ b.x <= PaddleX(i) + PadW /\ b.x + Ball >= PaddleX(i)
  /\ b.y <= y + PadH          /\ b.y + Ball >= y

(* The angle by where the ball hit, counted from below.                    *)
Angle(hit) ==
  IF hit < Steep * Band THEN Steep - hit \div Band
  ELSE IF hit < Steep * Band + Flat THEN 0
  ELSE LET n == 1 + (hit - Steep * Band - Flat) \div Band
       IN  IF n > Steep THEN -Steep ELSE -n

(* Mutant: no teleport.                                                    *)
BouncedInside(b, y) ==
  [x  |-> b.x, y |-> b.y,
   dx |-> IF b.dx < 0 THEN 1 - b.dx ELSE -1 - b.dx,
   dy |-> Angle(y + PadH - b.y)]

Bounced(b, y) ==
  LET back == IF b.dx < 0 THEN 1 - b.dx ELSE -1 - b.dx
  IN  [x  |-> IF back > 0 THEN IF b.x < Left THEN Left ELSE b.x
                          ELSE IF b.x > Right THEN Right ELSE b.x,
       y  |-> b.y,
       dx |-> back,
       dy |-> Angle(y + PadH - b.y)]

Stepped == [x  |-> ball.x + ball.dx, y  |-> ball.y + ball.dy,
            dx |-> ball.dx,          dy |-> ball.dy]

(* Who scores with the next step: 2 is nobody.                             *)
Scorer == IF Stepped.x < 0 THEN 1 ELSE IF Stepped.x > W - Ball THEN 0 ELSE 2

(* Mutant: the lower edge does not turn the ball.                          *)
TurnedAtTop(b) == IF b.y < 0 THEN [b EXCEPT !.dy = -@] ELSE b

TurnedAtEdge(b) ==
  IF b.y < 0 \/ b.y > H - Ball THEN [b EXCEPT !.dy = -@] ELSE b

AfterPaddle(b, i, y) == IF check_collision(b, i, y) THEN Bounced(b, y) ELSE b

-----------------------------------------------------------------------------
Keys(keys) == quit' = ("escape" \in keys)

Menu(keys) ==
  /\ state = 0 /\ ~quit /\ Keys(keys)
  /\ paddle' = [paddle EXCEPT ![1] = move_paddle(@, keys)]
  /\ state' = IF "space" \in keys THEN 1 ELSE 0
  /\ UNCHANGED <<ball, score, r>>

GameOver(keys) ==
  /\ state = 2 /\ ~quit /\ Keys(keys)
  /\ paddle' = [paddle EXCEPT ![1] = move_paddle(@, keys)]
  /\ state' = IF "space" \in keys THEN 0 ELSE 2
  /\ UNCHANGED <<ball, score, r>>

(* A frame of the game.  The score is looked at before the ball moves, so  *)
(* that the frame that ends a game moves the ball once more.               *)
Play(keys) ==
  /\ state = 1 /\ ~quit /\ Abs(ball.dx) < MaxSpeed /\ Keys(keys)
  /\ r' = check_score(score)
  /\ state' = IF r' = 0 THEN 1 ELSE 2
  /\ LET kept  == IF r' = 0 THEN score ELSE [i \in Player |-> 0]
         y0    == move_paddle_ai(paddle[0], ball)
         y1    == move_paddle(paddle[1], keys)
     IN  IF Scorer \in Player
         THEN /\ score' = [kept EXCEPT ![Scorer] = @ + 1]
              /\ ball' = Served /\ paddle' = Centered
         ELSE /\ score' = kept
              /\ paddle' = [i \in Player |-> IF i = 0 THEN y0 ELSE y1]
              /\ ball' = AfterPaddle(AfterPaddle(TurnedAtEdge(Stepped), 0, y0), 1, y1)

Pressed == SUBSET {"escape", "down", "up", "space"}

PongNext == \E keys \in Pressed : Menu(keys) \/ GameOver(keys) \/ Play(keys)

PongSpec == PongInit /\ [][PongNext]_pongVars

-----------------------------------------------------------------------------
PongTypeOK ==
  /\ ball \in [x : Int, y : Int, dx : Int, dy : Int]
  /\ paddle \in [Player -> Int]
  /\ score \in [Player -> Nat]
  /\ state \in 0 .. 2 /\ r \in 0 .. 2 /\ quit \in BOOLEAN

(* However fast it has become, the ball is between the left and the right  *)
(* edge after each frame, moves from one to the other, and is in front of  *)
(* the paddle it moves away from: a paddle never hits it twice in a row,   *)
(* which is what the teleport is for.  Above and below, the ball does      *)
(* leave the screen: BallNearScreen.                                       *)
BallInPlay ==
  /\ ball.x \in 0 .. W - Ball
  /\ ball.dx > 0 => ball.x >= Left
  /\ ball.dx < 0 => ball.x <= Right
  /\ ball.dx # 0

(* No score passes the limit, only one of them is there, and whenever no   *)
(* game is on both are zero: a game starts with none of the last one left, *)
(* although the frame that ends a game goes on to move the ball.           *)
ScoresFair ==
  /\ \A i \in Player : score[i] <= Limit
  /\ score[0] = Limit => score[1] < Limit
  /\ state # 1 => score = [i \in Player |-> 0]
  /\ state = 2 => r # 0

(* The paddle of the player overshoots the screen by less than one step.   *)
PaddleOnScreen == paddle[1] > -Step /\ paddle[1] < H - PadH + Step

(* The ball that ends a game is the next one, just served: it cannot score *)
(* in the frame that puts the score back to zero.                          *)
AtLimitServed ==
  (\E i \in Player : score[i] = Limit) => ball = Served

(* The ball does not drift away above or below, although beyond an edge it *)
(* is turned in every frame and each paddle that hits it there may send it *)
(* further out: from where the player's paddle still reaches it it gets    *)
(* one steep step away, and one more if the computer's paddle is there.    *)
BallNearScreen ==
  LET away == Step - 1 + 2 * Steep
  IN  ball.y >= -(Ball + away) /\ ball.y <= H + away

(* The four are preserved by every frame.                                 *)
PongInv == PongTypeOK /\ BallInPlay /\ ScoresFair /\ AtLimitServed
=============================================================================
