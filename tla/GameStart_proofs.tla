-------------------------- MODULE GameStart_proofs ---------------------------
(***************************************************************************)
(* Donkey Kong's coin box for every coinage and credit cap: every coin     *)
(* counts once, and the credits shown are those paid for less those played *)
(* for (the task ring plays no part in it); and a game whose resets found  *)
(* room in the ring starts from zero, for every size of the ring.          *)
(***************************************************************************)
EXTENDS GameStart, TLAPS

USE RingAssumption, CoinageAssumption

CoinInv == CoinTypeOK /\ CoinBox

-----------------------------------------------------------------------------
\* At boot no coin has counted, and the latch is down because the line may be held.
LEMMA InitCoinInv == Init => CoinInv
<1> SUFFICES ASSUME Init PROVE CoinInv
  OBVIOUS
<1>1. CoinTypeOK
  BY SMT DEF Init, CoinTypeOK
<1>2. CreditsPerCoin * (0 - 0) = 0 /\ CoinsPerCredit * 0 = 0
  OBVIOUS
<1>3. QED
  BY <1>1, <1>2 DEF Init, CoinInv, CoinBox, CoinsCountOnce, CreditsPaidFor, CreditWaits, LatchFollowsLine

\* A main pass only hands the turn on.
LEMMA MainPassKeeps ==
  ASSUME CoinInv, turn' = "coin", turn = "main",
         UNCHANGED <<GAME_STATE, coinVars, creditVars>>
  PROVE  CoinInv'
  BY DEF CoinInv, CoinTypeOK, CoinBox, CoinsCountOnce, CreditsPaidFor, CreditWaits, LatchFollowsLine,
         coinVars, creditVars

\* No coin, or one that counted already: the latch follows the line and no count moves.
LEMMA UncountedCoinKeeps ==
  ASSUME CoinInv, NoCoin \/ CoinHeld
  PROVE  CoinInv'
<1>1. UNCHANGED <<GAME_STATE, COINS_PARTIAL, awards, refused, CREDITS, spent>> /\ turn' = "game"
  BY DEF NoCoin, CoinHeld, NmiBegins
<1>2. coins' = coins /\ ((line' = 0 /\ COIN_EDGE' = 1) \/ (line' = 1 /\ COIN_EDGE' = 0))
  <2>1. CASE NoCoin
    BY <2>1 DEF NoCoin
  <2>2. CASE CoinHeld
    <3>1. COIN_EDGE = 0 /\ line = 1
      BY <2>2 DEF CoinInv, CoinTypeOK, CoinBox, LatchFollowsLine, CoinHeld, CoinAccepted
    <3>2. line' = 1 /\ coins' = coins /\ COIN_EDGE' = 0
      BY <2>2, <3>1 DEF CoinHeld
    <3>3. QED
      BY <3>2
  <2>3. QED
    BY <2>1, <2>2
<1>3. CoinTypeOK'
  BY <1>1, <1>2 DEF CoinInv, CoinTypeOK
<1>4. CoinsCountOnce' /\ CreditsPaidFor' /\ CreditWaits'
  BY <1>1, <1>2 DEF CoinInv, CoinBox, CoinsCountOnce, CreditsPaidFor, CreditWaits
<1>5. LatchFollowsLine'
  BY <1>1, <1>2 DEF CoinInv, CoinBox, LatchFollowsLine
<1>6. QED
  BY <1>3, <1>4, <1>5 DEF CoinInv, CoinBox

\* A coin that counts is one the line has just brought, with the switches decoded.
LEMMA CountedCoinIsNew ==
  ASSUME CoinInv, CoinCounts
  PROVE  line = 0 /\ coins' = coins + 1 /\ coinsPerCredit = CoinsPerCredit
<1>1. turn = "coin" /\ COIN_EDGE = 1
  BY DEF CoinCounts, NmiBegins, CoinAccepted
<1>2. line = 0 /\ GAME_STATE # 0
  BY <1>1 DEF CoinInv, CoinTypeOK, CoinBox, LatchFollowsLine
<1>3. QED
  BY <1>2 DEF CoinCounts, coinsPerCredit

\* It completes an award, refused at the cap, or waits for the next.
LEMMA CountedCoinKeeps ==
  ASSUME CoinInv, CoinCounts
  PROVE  CoinInv'
<1>1. line = 0 /\ coins' = coins + 1 /\ coinsPerCredit = CoinsPerCredit
  BY CountedCoinIsNew
<1>2. /\ turn' = "game" /\ UNCHANGED <<GAME_STATE, spent>>
      /\ line' = 1 /\ COIN_EDGE' = 0
  BY DEF CoinCounts, NmiBegins
<1>3. CASE COINS_PARTIAL + 1 # CoinsPerCredit
  <2>1. COINS_PARTIAL' = (COINS_PARTIAL + 1) % 256 /\ UNCHANGED <<awards, refused, CREDITS>>
    BY <1>1, <1>3 DEF CoinCounts
  <2>2. COINS_PARTIAL' = COINS_PARTIAL + 1 /\ COINS_PARTIAL' < CoinsPerCredit
    BY <1>3, <2>1 DEF CoinInv, CoinTypeOK, CoinBox, CoinsCountOnce
  <2>3. QED
    BY <1>1, <1>2, <2>1, <2>2
    DEF CoinInv, CoinTypeOK, CoinBox, CoinsCountOnce, CreditsPaidFor, CreditWaits, LatchFollowsLine
<1>4. CASE COINS_PARTIAL + 1 = CoinsPerCredit
  <2>1. COINS_PARTIAL' = 0 /\ awards' = awards + 1 /\ CREDITS' = Credited(CREDITS)
    BY <1>1, <1>4 DEF CoinCounts
  <2>2. /\ CoinsPerCredit * (awards + 1) = CoinsPerCredit * awards + CoinsPerCredit
        /\ CreditsPerCoin * ((awards + 1) - refused) = CreditsPerCoin * (awards - refused) + CreditsPerCoin
        /\ (awards + 1) - (refused + 1) = awards - refused
    BY DEF CoinInv, CoinTypeOK
  <2>3. CoinsCountOnce'
    BY <1>1, <1>4, <2>1, <2>2 DEF CoinInv, CoinTypeOK, CoinBox, CoinsCountOnce
  <2>4. CASE CREDITS >= CreditCap
    <3>1. refused' = refused + 1 /\ CREDITS' = CREDITS
      BY <1>1, <1>4, <2>1, <2>4 DEF CoinCounts, Credited
    <3>2. CreditsPaidFor'
      BY <1>2, <2>1, <2>2, <3>1 DEF CoinInv, CoinBox, CreditsPaidFor
    <3>3. QED
      BY <1>1, <1>2, <2>1, <2>3, <3>1, <3>2
      DEF CoinInv, CoinTypeOK, CoinBox, CreditWaits, LatchFollowsLine
  <2>5. CASE ~(CREDITS >= CreditCap)
    <3>1. refused' = refused /\ CREDITS' = CREDITS + CreditsPerCoin
      BY <1>1, <1>4, <2>1, <2>5 DEF CoinCounts, Credited, CoinInv, CoinTypeOK
    <3>2. CREDITS' \in 0 .. 99 /\ CREDITS' < CreditCap + CreditsPerCoin /\ CREDITS' > 0
      BY <2>5, <3>1 DEF CoinInv, CoinTypeOK
    <3>3. CreditsPaidFor'
      BY <1>2, <2>1, <2>2, <3>1 DEF CoinInv, CoinTypeOK, CoinBox, CreditsPaidFor
    <3>4. QED
      BY <1>1, <1>2, <2>1, <2>3, <3>1, <3>2, <3>3
      DEF CoinInv, CoinTypeOK, CoinBox, CreditWaits, LatchFollowsLine
  <2>6. QED
    BY <2>4, <2>5
<1>5. QED
  BY <1>3, <1>4

\* A handler that leaves the credits alone, and shows the start screen only if there is one.
LEMMA FreeHandlerKeeps ==
  ASSUME CoinInv, NmiEnds, UNCHANGED creditVars, GAME_STATE' \in 0 .. 3,
         GAME_STATE' = 2 => CREDITS > 0,
         GAME_STATE' = 0 => GAME_STATE = 0 /\ line = 1
  PROVE  CoinInv'
  BY DEF CoinInv, CoinTypeOK, CoinBox, CoinsCountOnce, CreditsPaidFor, CreditWaits, LatchFollowsLine,
         NmiEnds, coinVars, creditVars

\* The buttons read select a start the credits pay for, and the start takes them.
LEMMA StartKeeps ==
  ASSUME CoinInv, NEW buttons \in SUBSET {"START1", "START2"}, CommitGameStart(buttons)
  PROVE  CoinInv'
<1>1. NmiEnds /\ GAME_STATE = 2 /\ GAME_STATE' = 3
  BY DEF CommitGameStart, Commit, GoTo
<1>2. PICK price \in {1, 2} :
        /\ CREDITS' = (CREDITS - price) % 100 /\ spent' = spent + price
        /\ price = 2 => Selected(buttons) = {"START2"}
  <2>1. CASE Selected(buttons) = {"START1"} /\ Commit(FALSE)
    <3>1. CREDITS' = (CREDITS - 1) % 100 /\ spent' = spent + 1
      BY <2>1 DEF Commit
    <3>2. QED
      BY <3>1
  <2>2. CASE Selected(buttons) = {"START2"} /\ Commit(TRUE)
    <3>1. CREDITS' = (CREDITS - 2) % 100 /\ spent' = spent + 2
      BY <2>2 DEF Commit
    <3>2. QED
      BY <2>2, <3>1
  <2>3. QED
    BY <2>1, <2>2 DEF CommitGameStart
<1>3. CREDITS \in 1 .. 99
  BY <1>1 DEF CoinInv, CoinTypeOK, CoinBox, CreditWaits
<1>4. price = 2 => CREDITS # 1
  BY <1>2 DEF Selected
<1>5. CREDITS' = CREDITS - price /\ CREDITS' \in 0 .. 99 /\ spent' \in Nat
  BY <1>2, <1>3, <1>4 DEF CoinInv, CoinTypeOK
<1>6. CREDITS' + spent' = CREDITS + spent
  BY <1>2, <1>5 DEF CoinInv, CoinTypeOK
<1>7. UNCHANGED coinVars /\ turn' = "main"
  BY <1>1 DEF NmiEnds
<1>8. CreditsPaidFor'
  BY <1>6, <1>7 DEF CoinInv, CoinBox, CreditsPaidFor, coinVars
<1>9. QED
  BY <1>1, <1>2, <1>3, <1>5, <1>7, <1>8
  DEF CoinInv, CoinTypeOK, CoinBox, CoinsCountOnce, CreditWaits, LatchFollowsLine, coinVars

-----------------------------------------------------------------------------
\* Every step keeps the coin box.
LEMMA NextCoinInv == CoinInv /\ [Next]_vars => CoinInv'
<1> SUFFICES ASSUME CoinInv, [Next]_vars PROVE CoinInv'
  OBVIOUS
<1>1. CASE MainPass
  <2>1. turn = "main" /\ turn' = "coin" /\ UNCHANGED <<GAME_STATE, coinVars, creditVars>>
    BY <1>1 DEF MainPass, IdlePass, DispatchDraw, DispatchReset, DispatchPoints, Dispatch
  <2>2. QED
    BY <2>1, MainPassKeeps
<1>2. CASE CoinService
  BY <1>2, UncountedCoinKeeps, CountedCoinKeeps DEF CoinService
<1>3. CASE PowerOnInit
  <2>1. NmiEnds /\ UNCHANGED creditVars /\ GAME_STATE' = 1
    BY <1>3 DEF PowerOnInit, GoTo
  <2>2. QED
    BY <2>1, FreeHandlerKeeps
<1>4. CASE CreditSeen
  <2>1. NmiEnds /\ UNCHANGED creditVars /\ GAME_STATE' = 2 /\ CREDITS # 0
    BY <1>4 DEF CreditSeen, GoTo
  <2>2. CREDITS > 0
    BY <2>1 DEF CoinInv, CoinTypeOK
  <2>3. QED
    BY <2>1, <2>2, FreeHandlerKeeps
<1>5. CASE AttractStep
  <2>1. NmiEnds /\ UNCHANGED creditVars /\ GAME_STATE' = 1
    BY <1>5 DEF AttractStep, Attract, TitleScreen, HoldGoesOn, HoldExpires, DemoFrame, ClearScreen,
                ColourAnimation, GoTo
  <2>2. QED
    BY <2>1, FreeHandlerKeeps
<1>6. CASE EnterCreditScreen
  <2>1. NmiEnds /\ UNCHANGED creditVars /\ GAME_STATE = 2 /\ GAME_STATE' = 2
    BY <1>6 DEF EnterCreditScreen, GoTo
  <2>2. CREDITS > 0
    BY <2>1 DEF CoinInv, CoinBox, CreditWaits
  <2>3. QED
    BY <2>1, <2>2, FreeHandlerKeeps
<1>7. ASSUME NEW buttons \in SUBSET {"START1", "START2"}, AwaitStart(buttons) \/ CommitGameStart(buttons)
      PROVE  CoinInv'
  <2>1. CASE AwaitStart(buttons)
    <3>1. NmiEnds /\ UNCHANGED creditVars /\ GAME_STATE = 2 /\ GAME_STATE' = 2
      BY <2>1 DEF AwaitStart
    <3>2. CREDITS > 0
      BY <3>1 DEF CoinInv, CoinBox, CreditWaits
    <3>3. QED
      BY <3>1, <3>2, FreeHandlerKeeps
  <2>2. QED
    BY <1>7, <2>1, StartKeeps
<1>8. CASE PlayFrame
  <2>1. NmiEnds /\ UNCHANGED creditVars /\ GAME_STATE' = 3
    BY <1>8 DEF PlayFrame
  <2>2. QED
    BY <2>1, FreeHandlerKeeps
<1>9. CASE EnterAttractMode
  <2>1. NmiEnds /\ UNCHANGED creditVars /\ GAME_STATE' = 1
    BY <1>9 DEF EnterAttractMode, GoTo, creditVars
  <2>2. QED
    BY <2>1, FreeHandlerKeeps
<1>10. CASE UNCHANGED vars
  BY <1>10 DEF vars, coinVars, creditVars, CoinInv, CoinTypeOK, CoinBox, CoinsCountOnce, CreditsPaidFor,
               CreditWaits, LatchFollowsLine
<1>11. QED
  BY <1>1, <1>2, <1>3, <1>4, <1>5, <1>6, <1>7, <1>8, <1>9, <1>10 DEF Next, Handler

\* The coin box holds in every behaviour (serviceCoinInput, readStartButtonSelector, spendCredit).
THEOREM CoinBoxInvariant == Spec => []CoinInv
  BY InitCoinInv, NextCoinInv, PTL DEF Spec

\* Every coin inserted after power-on counts exactly once, however long the line is held
\* (the latch COIN_EDGE of serviceCoinInput), and COINS_PARTIAL never runs past its limit.
THEOREM CoinsCount == Spec => []CoinsCountOnce
<1>1. CoinInv => CoinsCountOnce
  BY DEF CoinInv, CoinBox
<1>2. QED
  BY <1>1, CoinBoxInvariant, PTL

\* CREDITS shows what was paid for less what was played for: no award wraps the byte at the
\* cap of serviceCoinInput and no start of readStartButtonSelector spends a credit not there.
THEOREM CreditsAreExact == Spec => []CreditsPaidFor
<1>1. CoinInv => CreditsPaidFor
  BY DEF CoinInv, CoinBox
<1>2. QED
  BY <1>1, CoinBoxInvariant, PTL

\* The start screen is never up without a credit (runAttractState, commitGameStart).
THEOREM StartNeedsCredit == Spec => []CreditWaits
<1>1. CoinInv => CreditWaits
  BY DEF CoinInv, CoinBox
<1>2. QED
  BY <1>1, CoinBoxInvariant, PTL
-----------------------------------------------------------------------------
(* The scores a game starts from.  A player who has earned nothing has a   *)
(* zero score, or a reset of it still waits: messages are posted behind    *)
(* those that wait, and only a dispatch takes one away.                    *)

Waits(msg) == \E i \in 1 .. Len(ring) : ring[i] = msg

ResetPending ==
  GAME_STATE = 3 /\ resetsQueued => \A p \in scoreless : score[p] = "zero" \/ Waits(Reset(p))

RingTypes ==
  /\ ring \in Seq(Message) /\ Len(ring) <= Slots
  /\ score \in [Player -> {"zero", "other"}] /\ scoreless \subseteq Player

ScoreInv == RingTypes /\ ResetPending

\* Draws are messages, and so are the resets of a start.
LEMMA Drawn == \A n \in Nat : Draws(n) \in Seq(Message)
  BY DEF Draws, Message

\* A post keeps what waits; if there is room for all of it, all of it waits.
LEMMA PostKeeps ==
  ASSUME RingTypes, NEW msgs \in Seq(Message)
  PROVE  /\ Posted(msgs) \in Seq(Message) /\ Len(Posted(msgs)) <= Slots
         /\ \A i \in 1 .. Len(ring) : i \in 1 .. Len(Posted(msgs)) /\ Posted(msgs)[i] = ring[i]
         /\ Len(ring) + Len(msgs) <= Slots =>
              \A i \in 1 .. Len(msgs) :
                /\ Len(ring) + i \in 1 .. Len(Posted(msgs))
                /\ Posted(msgs)[Len(ring) + i] = msgs[i]
<1> DEFINE all == ring \o msgs
           n == IF Len(all) < Slots THEN Len(all) ELSE Slots
<1>1. /\ all \in Seq(Message) /\ Len(all) = Len(ring) + Len(msgs)
      /\ \A i \in 1 .. Len(ring) : all[i] = ring[i]
      /\ \A i \in 1 .. Len(msgs) : all[Len(ring) + i] = msgs[i]
  BY DEF RingTypes
<1>2. n \in 0 .. Len(all) /\ n <= Slots /\ Len(ring) <= n /\ Len(ring) \in Nat /\ Len(msgs) \in Nat
  BY <1>1 DEF RingTypes
<1>3. Posted(msgs) = SubSeq(all, 1, n)
  BY DEF Posted
<1>4. Len(ring) + Len(msgs) <= Slots => n = Len(ring) + Len(msgs)
  BY <1>1
<1> HIDE DEF all, n
<1>5. /\ SubSeq(all, 1, n) \in Seq(Message) /\ Len(SubSeq(all, 1, n)) = n
      /\ \A i \in 1 .. n : SubSeq(all, 1, n)[i] = all[i]
  BY <1>1, <1>2
<1>6. QED
  BY <1>1, <1>2, <1>3, <1>4, <1>5

\* A step that posts something, or nothing, and leaves the scores of a game alone.
LEMMA PostingKeeps ==
  ASSUME ScoreInv, NEW msgs \in Seq(Message), ring' \in {ring, Posted(msgs)},
         UNCHANGED <<score, scoreless, resetsQueued>>, GAME_STATE' = 3 => GAME_STATE = 3
  PROVE  ScoreInv'
<1>1. RingTypes'
  BY PostKeeps DEF ScoreInv, RingTypes
<1>2. ASSUME NEW msg, Waits(msg) PROVE Waits(msg)'
  BY <1>2, PostKeeps DEF ScoreInv, Waits
<1>3. QED
  BY <1>1, <1>2 DEF ScoreInv, ResetPending

\* A dispatch takes the oldest message away and no other.
LEMMA DispatchKeepsRest ==
  ASSUME RingTypes, Dispatch
  PROVE  /\ ring' \in Seq(Message) /\ Len(ring') <= Slots
         /\ \A msg : Waits(msg) /\ Head(ring) # msg => Waits(msg)'
<1>1. ring \in Seq(Message) /\ Len(ring) \in Nat /\ Len(ring) > 0 /\ ring' = Tail(ring)
  BY DEF RingTypes, Dispatch
<1>2. /\ ring' \in Seq(Message) /\ Len(ring') = Len(ring) - 1 /\ Head(ring) = ring[1]
      /\ \A i \in 1 .. Len(ring) - 1 : ring'[i] = ring[i + 1]
  BY <1>1
<1>3. ASSUME NEW msg, Waits(msg), Head(ring) # msg PROVE Waits(msg)'
  <2>1. PICK i \in 1 .. Len(ring) : ring[i] = msg
    BY <1>3 DEF Waits
  <2>2. i - 1 \in 1 .. Len(ring) - 1 /\ (i - 1) + 1 = i
    BY <1>1, <1>2, <1>3, <2>1
  <2>3. QED
    BY <1>2, <2>1, <2>2 DEF Waits
<1>4. QED
  BY <1>1, <1>2, <1>3 DEF RingTypes

\* The main pass: a reset makes good what it was queued for.
LEMMA MainPassScores ==
  ASSUME ScoreInv, MainPass
  PROVE  ScoreInv'
<1>1. CASE IdlePass
  BY <1>1 DEF IdlePass, gameVars, ScoreInv, RingTypes, ResetPending, Waits
<1>2. CASE DispatchDraw
  <2>1. Dispatch /\ UNCHANGED <<GAME_STATE, score, scoreless, resetsQueued>> /\ Head(ring) = Draw
    BY <1>2 DEF DispatchDraw, Dispatch
  <2>2. \A p : Reset(p) # Draw
    BY DEF Reset, Draw
  <2>3. QED
    BY <2>1, <2>2, DispatchKeepsRest DEF ScoreInv, RingTypes, ResetPending
<1>3. ASSUME NEW p \in Player, DispatchReset(p) PROVE ScoreInv'
  <2>1. /\ Dispatch /\ UNCHANGED <<GAME_STATE, scoreless, resetsQueued>> /\ Head(ring) = Reset(p)
        /\ score' = [score EXCEPT ![p] = "zero"]
    BY <1>3 DEF DispatchReset, Dispatch
  <2>2. \A q : q # p => Reset(q) # Reset(p)
    BY DEF Reset
  <2>3. QED
    BY <2>1, <2>2, DispatchKeepsRest DEF ScoreInv, RingTypes, ResetPending
<1>4. ASSUME NEW p \in Player, DispatchPoints(p) PROVE ScoreInv'
  <2>1. /\ Dispatch /\ UNCHANGED <<GAME_STATE, resetsQueued>> /\ Head(ring) = Points
        /\ score' = [score EXCEPT ![p] = "other"] /\ scoreless' = scoreless \ {p}
    BY <1>4 DEF DispatchPoints, Dispatch
  <2>2. \A q : Reset(q) # Points
    BY DEF Reset, Points
  <2>3. QED
    BY <2>1, <2>2, DispatchKeepsRest DEF ScoreInv, RingTypes, ResetPending
<1>5. QED
  BY <1>1, <1>2, <1>3, <1>4 DEF MainPass

\* A start queues a reset for each of its players, if there is room.
LEMMA CommitScores ==
  ASSUME ScoreInv, NEW two \in BOOLEAN, Commit(two)
  PROVE  ScoreInv'
<1> DEFINE posts == startTasks(two)
<1>1. /\ GAME_STATE' = 3 /\ ring' = Posted(posts) /\ score' = score
      /\ scoreless' = IF two THEN {0, 1} ELSE {0}
      /\ resetsQueued' = (Len(ring) + Len(posts) <= Slots)
  BY DEF Commit, GoTo
<1>2. /\ posts \in Seq(Message)
      /\ \A p \in scoreless' : \E i \in 1 .. Len(posts) : posts[i] = Reset(p)
  <2>1. Draw \in Message /\ Reset(0) \in Message /\ Reset(1) \in Message
    BY DEF Message, Player
  <2>2. CASE two
    <3>1. posts = <<Draw, Draw, Reset(1), Reset(0)>> /\ scoreless' = {0, 1}
      BY <1>1, <2>2 DEF startTasks
    <3>2. posts[3] = Reset(1) /\ posts[4] = Reset(0) /\ Len(posts) = 4
      BY <3>1
    <3>3. posts \in Seq(Message)
      BY <2>1, <3>1
    <3> HIDE DEF posts
    <3>4. QED
      BY <3>1, <3>2, <3>3
  <2>3. CASE ~two
    <3>1. posts = <<Draw, Reset(0)>> /\ scoreless' = {0}
      BY <1>1, <2>3 DEF startTasks
    <3>2. posts[2] = Reset(0) /\ Len(posts) = 2
      BY <3>1
    <3>3. posts \in Seq(Message)
      BY <2>1, <3>1
    <3> HIDE DEF posts
    <3>4. QED
      BY <3>1, <3>2, <3>3
  <2>4. QED
    BY <2>2, <2>3
<1> HIDE DEF posts
<1>3. RingTypes'
  BY <1>1, <1>2, PostKeeps DEF ScoreInv, RingTypes, Player
<1>4. ASSUME resetsQueued', NEW p \in scoreless' PROVE Waits(Reset(p))'
  <2>1. PICK i \in 1 .. Len(posts) : posts[i] = Reset(p)
    BY <1>2
  <2>2. Len(ring) + i \in 1 .. Len(ring') /\ ring'[Len(ring) + i] = Reset(p)
    BY <1>1, <1>2, <1>4, <2>1, PostKeeps DEF ScoreInv
  <2>3. QED
    BY <2>2 DEF Waits, Reset
<1>5. QED
  BY <1>3, <1>4 DEF ScoreInv, ResetPending

\* Every other handler posts and leaves the game, or only posts.
LEMMA OutsideScores ==
  ASSUME ScoreInv, NEW msgs \in Seq(Message), ring' \in {ring, Posted(msgs)}, GAME_STATE' # 3,
         score' \in [Player -> {"zero", "other"}], scoreless' \subseteq Player
  PROVE  ScoreInv'
  BY PostKeeps DEF ScoreInv, RingTypes, ResetPending

\* Every step keeps the scores a game starts from.
LEMMA StepScores == ScoreInv /\ [Next]_vars => ScoreInv'
<1> SUFFICES ASSUME ScoreInv, [Next]_vars PROVE ScoreInv'
  OBVIOUS
<1>0. /\ <<>> \in Seq(Message) /\ <<Points>> \in Seq(Message)
      /\ \A n \in Nat : Draws(n) \in Seq(Message)
      /\ score \in [Player -> {"zero", "other"}] /\ scoreless \subseteq Player
  BY Drawn DEF Message, ScoreInv, RingTypes
<1>1. CASE CoinService
  <2>1. /\ UNCHANGED <<GAME_STATE, score, scoreless, resetsQueued>>
        /\ ring' \in {ring, Posted(Draws(1))}
    BY <1>1 DEF CoinService, NoCoin, CoinHeld, CoinCounts, NmiBegins, gameVars
  <2>2. QED
    BY <1>0, <2>1, PostingKeeps
<1>2. CASE PowerOnInit
  <2>1. /\ GAME_STATE' # 3 /\ ring' = Posted(Draws(3)) /\ scoreless' = scoreless
        /\ score' \in [Player -> {"zero", "other"}]
    BY <1>2 DEF PowerOnInit, GoTo
  <2>2. QED
    BY <1>0, <2>1, OutsideScores
<1>3. CASE CreditSeen \/ EnterAttractMode
  <2>1. GAME_STATE' # 3 /\ ring' = ring /\ score' = score /\ scoreless' \subseteq Player
    BY <1>0, <1>3 DEF CreditSeen, EnterAttractMode, GoTo, gameVars
  <2>2. QED
    BY <1>0, <2>1, OutsideScores
<1>4. CASE AttractStep
  <2>1. GAME_STATE' # 3 /\ UNCHANGED <<score, scoreless>>
    BY <1>4 DEF AttractStep, Attract, TitleScreen, HoldGoesOn, HoldExpires, DemoFrame, ClearScreen,
                ColourAnimation, GoTo, gameVars
  <2>2. \E n \in Nat : ring' \in {ring, Posted(Draws(n))}
    BY <1>4 DEF AttractStep, TitleScreen, HoldGoesOn, HoldExpires, DemoFrame, ClearScreen, ColourAnimation
  <2>3. QED
    BY <1>0, <2>1, <2>2, OutsideScores
<1>5. CASE EnterCreditScreen
  <2>1. GAME_STATE' # 3 /\ ring' = Posted(Draws(8)) /\ UNCHANGED <<score, scoreless>>
    BY <1>5 DEF EnterCreditScreen, GoTo, gameVars
  <2>2. QED
    BY <1>0, <2>1, OutsideScores
<1>6. ASSUME NEW buttons \in SUBSET {"START1", "START2"}, AwaitStart(buttons) \/ CommitGameStart(buttons)
      PROVE  ScoreInv'
  <2>1. CASE AwaitStart(buttons)
    <3>1. UNCHANGED <<GAME_STATE, ring, score, scoreless, resetsQueued>>
      BY <2>1 DEF AwaitStart, gameVars
    <3>2. QED
      BY <1>0, <3>1, PostingKeeps
  <2>2. CASE CommitGameStart(buttons)
    BY <2>2, CommitScores DEF CommitGameStart
  <2>3. QED
    BY <1>6, <2>1, <2>2
<1>7. CASE PlayFrame
  <2>1. /\ UNCHANGED <<GAME_STATE, score, scoreless, resetsQueued>>
        /\ ring' \in {ring, Posted(<<Points>>)}
    BY <1>7 DEF PlayFrame, gameVars
  <2>2. QED
    BY <1>0, <2>1, PostingKeeps
<1>8. CASE UNCHANGED vars
  <2>1. UNCHANGED <<GAME_STATE, ring, score, scoreless, resetsQueued>>
    BY <1>8 DEF vars, gameVars
  <2>2. QED
    BY <1>0, <2>1, PostingKeeps
<1>9. QED
  BY <1>1, <1>2, <1>3, <1>4, <1>5, <1>6, <1>7, <1>8, MainPassScores DEF Next, Handler

\* A game whose resets found room in the ring starts from zero (commitGameStart, enqueueTask,
\* resetScoreCounter): whatever else was queued, whoever has earned nothing has nothing.
THEOREM StartsFromZero == Spec => []ZeroWhenQueued
<1>1. Init => ScoreInv
  <2> SUFFICES ASSUME Init PROVE ScoreInv
    OBVIOUS
  <2>1. ring = <<>> /\ ring \in Seq(Message) /\ Len(ring) = 0
    BY DEF Init
  <2>2. QED
    BY <2>1 DEF Init, ScoreInv, RingTypes, ResetPending
<1>2. ScoreInv => ZeroWhenQueued
  <2> SUFFICES ASSUME ScoreInv, resetsQueued, GAME_STATE = 3, ring = <<>>, NEW p \in scoreless
               PROVE  score[p] = "zero"
    BY DEF ZeroWhenQueued, StartsAtZero
  <2>1. ~Waits(Reset(p))
    BY DEF Waits
  <2>2. QED
    BY <2>1 DEF ScoreInv, ResetPending
<1>3. QED
  BY <1>1, <1>2, StepScores, PTL DEF Spec
=============================================================================
