----------------------------- MODULE HuntProofs -----------------------------
(***************************************************************************)
(* The quizzes and the coin book together keep the promise of the treasure *)
(* hunt, for any projects, coins and names and any number of coin tabs.    *)
(***************************************************************************)
EXTENDS Hunt, CoinBookProofs

\* A win is remembered wherever it is on its way to the coin book: in a message
\* that waits, and in a notification that some data source has not heard yet.
WinsAreKept ==
    /\ loc \in Locations
    /\ owed \subseteq won
    /\ notifying.rest # {} => notifying.loc \in won

GameInv == CoinInv /\ Earned /\ WinsAreKept

-----------------------------------------------------------------------------
(* The coin book within the game *)

LEMMA GameStepOfBook == [GameNext]_gameVars => [Next]_vars
<1> SUFFICES ASSUME [GameNext]_gameVars PROVE [Next]_vars
    OBVIOUS
<1>1. ASSUME NEW l \in Locations, BeginQuiz(l) \/ HandOut(l) \/ Forget(l) PROVE [Next]_vars
    BY <1>1 DEF BeginQuiz, HandOut, Forget, Next
<1>2. CASE AnswerQuestion \/ AnswerAgain
    BY <1>2 DEF AnswerQuestion, AnswerAgain
<1>3. CASE BookStep
    BY <1>3 DEF BookStep, Next
<1>4. CASE Restart
    BY <1>4 DEF Restart, Next
<1>5. CASE UNCHANGED gameVars
    BY <1>5 DEF gameVars
<1> QED
    BY <1>1, <1>2, <1>3, <1>4, <1>5 DEF GameNext

LEMMA GameInvInit == GameInit => GameInv
<1> SUFFICES ASSUME GameInit PROVE GameInv
    OBVIOUS
<1>1. Init
    BY DEF GameInit
<1>2. CoinInv
    BY <1>1, CoinInvInit
<1>3. Earned
    BY <1>1, EarnedInit
<1>4. notifying.rest = {}
    BY <1>1 DEF Init, NoNotification
<1>5. loc \in Locations /\ owed = {}
    BY DEF GameInit, Rules!RulesInit
<1> QED
    BY <1>2, <1>3, <1>4, <1>5 DEF GameInv, WinsAreKept

LEMMA WinsStep ==
    ASSUME GameInv, [GameNext]_gameVars
    PROVE  WinsAreKept'
<1> USE DEF GameInv, WinsAreKept
<1>1. ASSUME NEW l \in Locations, BeginQuiz(l) PROVE WinsAreKept'
    BY <1>1 DEF BeginQuiz, vars
<1>2. ASSUME NEW l \in Locations, Forget(l) PROVE WinsAreKept'
    BY <1>2 DEF Forget, vars, Rules!Forget
<1>3. ASSUME NEW l \in Locations, HandOut(l) PROVE WinsAreKept'
    <2>1. notifying'.loc = l
        BY <1>3 DEF HandOut, PostCoinEarned
    <2> QED
        BY <1>3, <2>1 DEF HandOut, Rules!Award
<1>4. CASE AnswerQuestion
    BY <1>4 DEF AnswerQuestion, Rules!Answer, vars
<1>5. CASE AnswerAgain
    BY <1>5 DEF AnswerAgain, Rules!AnswerAgain, vars
<1>6. CASE BookStep /\ UNCHANGED <<quizVars, won>>
    <2>1. UNCHANGED <<loc, owed, won>>
        BY <1>6 DEF quizVars, attemptVars
    <2>2. ASSUME NEW s \in 1..MaxTabs, CoinEarned(s)
          PROVE  notifying'.rest # {} => notifying'.loc \in won
        <3>1. s \in notifying.rest /\ notifying' = [notifying EXCEPT !.rest = @ \ {s}]
            BY <2>2 DEF CoinEarned
        <3>2. notifying'.loc = notifying.loc
            BY <3>1
        <3> QED
            BY <3>1, <3>2
    <2>3. CASE UNCHANGED notifying
        BY <2>1, <2>3
    <2>4. (\E s \in 1..MaxTabs : CoinEarned(s)) \/ UNCHANGED notifying
        BY <1>6 DEF BookStep, CoinsArrive, DeleteCoins, StartProject, OpenTab, LeaveTab, Scroll,
                    OpenMenu, CloseMenu, Redeem
    <2> QED
        BY <2>1, <2>2, <2>3, <2>4
<1>7. CASE Restart
    BY <1>7 DEF Restart, Relaunch, NoNotification, Rules!Forget
<1>8. CASE UNCHANGED gameVars
    BY <1>8 DEF gameVars, vars, quizVars, attemptVars
<1> QED
    BY <1>1, <1>2, <1>3, <1>4, <1>5, <1>6, <1>7, <1>8 DEF GameNext

LEMMA GameInvStep == GameInv /\ [GameNext]_gameVars => GameInv'
<1> SUFFICES ASSUME GameInv, [GameNext]_gameVars PROVE GameInv'
    OBVIOUS
<1>1. [Next]_vars
    BY GameStepOfBook
<1>2. CoinInv' /\ Earned'
    BY <1>1, CoinInvStep, EarnedStep DEF GameInv
<1> QED
    BY <1>2, WinsStep DEF GameInv

\* The invariants of the coin book hold in the game, and no win is invented on its
\* way from the quiz through message and notification to the data sources.
THEOREM GameInvariant == GameSpec => []GameInv
BY GameInvInit, GameInvStep, PTL DEF GameSpec

-----------------------------------------------------------------------------
(* The refinement *)

\* An answer wins the quiz of its location, or changes nothing the hunt sees.
LEMMA AnswerRefines ==
    ASSUME GameInv, AnswerQuestion \/ AnswerAgain
    PROVE  [Promise!HuntNext]_Promise!huntVars
<1>1. UNCHANGED <<collected, best, redeemed>>
    BY DEF AnswerQuestion, AnswerAgain, vars, bookVars, historyVars
<1>2. won' = won \/ won' = won \cup {loc}
    BY DEF AnswerQuestion, AnswerAgain
<1>3. PICK c \in Coins : LocationOf[c] = loc
    BY DEF GameInv, WinsAreKept, Locations
<1>4. CASE won' = won
    BY <1>1, <1>4 DEF Promise!huntVars
<1>5. CASE won' = won \cup {loc}
    <2>1. Promise!WinQuiz(LocationOf[c])
        BY <1>1, <1>3, <1>5 DEF Promise!WinQuiz
    <2> QED
        BY <2>1 DEF Promise!HuntNext
<1> QED
    BY <1>2, <1>4, <1>5

\* What a data source marks was won, and is the location's only coin.
LEMMA EarnedRefines ==
    ASSUME GameInv, NEW s \in 1..MaxTabs, CoinEarned(s), UNCHANGED won
    PROVE  [Promise!HuntNext]_Promise!huntVars
<1>1. s \in notifying.rest /\ UNCHANGED redeemed
    BY DEF CoinEarned
<1>2. notifying.loc \in won
    BY <1>1 DEF GameInv, WinsAreKept
<1>3. ASSUME NEW c \in FirstOf(notifying.loc), collected' = collected \cup {c},
             best' = IF Cardinality(collected') > best THEN Cardinality(collected') ELSE best
      PROVE  [Promise!HuntNext]_Promise!huntVars
    <2>1. c \in Coins /\ LocationOf[c] = notifying.loc
        BY DEF FirstOf, GameInv, CoinInv, TypeOK
    <2>2. CASE c \in collected
        <3>1. collected' = collected
            BY <1>3, <2>2
        <3>2. Cardinality(collected) \in Nat /\ best \in Nat /\ Cardinality(collected) <= best
            <4>1. collected \in SUBSET Coins /\ best \in Nat
                BY DEF GameInv, CoinInv, TypeOK
            <4> QED
                BY <4>1, CoinBookAssumption, FS_Subset, FS_CardinalityType DEF GameInv, Earned
        <3>3. best' = best
            BY <1>3, <3>1, <3>2
        <3> QED
            BY <1>1, <3>1, <3>3 DEF Promise!huntVars
    <2>3. CASE c \notin collected
        <3>1. \A d \in collected : LocationOf[d] # LocationOf[c]
            BY <2>1, <2>3, FirstIsCollected DEF GameInv, CoinInv
        <3>2. Promise!Cardinality(collected') = Cardinality(collected')
            BY DEF Promise!Cardinality, Cardinality
        <3>3. /\ LocationOf[c] \in won /\ collected' = collected \cup {c}
              /\ best' = IF Promise!Cardinality(collected') > best
                         THEN Promise!Cardinality(collected') ELSE best
            BY <1>2, <1>3, <2>1, <3>2
        <3>4. Promise!FindCoin(c)
            BY <1>1, <3>1, <3>3 DEF Promise!FindCoin
        <3> QED
            BY <2>1, <3>4 DEF Promise!HuntNext
    <2> QED
        BY <2>2, <2>3
<1>4. CASE UNCHANGED <<collected, best>>
    BY <1>1, <1>4 DEF Promise!huntVars
<1> QED
    BY <1>3, <1>4 DEF CoinEarned, Change, bookVars

\* What redeem sends is a claim for no more than coins once held together are worth.
LEMMA RedeemRefines ==
    ASSUME GameInv, Redeem, UNCHANGED won
    PROVE  Promise!HuntNext
<1>1. UNCHANGED <<collected, best>> /\ redeemed' = percentage[menu] /\ percentage[menu] # 0
    BY DEF Redeem, bookVars
<1>2. menu \in 1..MaxTabs
    BY CoinBookAssumption DEF Redeem, NoMenu, GameInv, CoinInv, TypeOK
<1>3. percentage[menu] \in Nat /\ best \in Nat
    BY <1>2 DEF GameInv, CoinInv, TypeOK
<1>4. percentage[menu] <= 2 * best
    BY <1>2 DEF GameInv, Earned
<1>5. redeemed' \in 1..(2 * best)
    BY <1>1, <1>3, <1>4
<1>6. Promise!Claim
    BY <1>1, <1>5 DEF Promise!Claim
<1> QED
    BY <1>6 DEF Promise!HuntNext

LEMMA GameStepRefines == GameInv /\ [GameNext]_gameVars => [Promise!HuntNext]_Promise!huntVars
<1> SUFFICES ASSUME GameInv, [GameNext]_gameVars
             PROVE  [Promise!HuntNext]_Promise!huntVars
    OBVIOUS
<1>1. ASSUME NEW l \in Locations, BeginQuiz(l) \/ HandOut(l) \/ Forget(l)
      PROVE  UNCHANGED Promise!huntVars
    BY <1>1 DEF BeginQuiz, HandOut, Forget, PostCoinEarned, vars, bookVars, historyVars,
                Promise!huntVars
<1>2. CASE AnswerQuestion \/ AnswerAgain
    BY <1>2, AnswerRefines
<1>3. CASE BookStep /\ UNCHANGED <<quizVars, won>>
    <2>1. UNCHANGED won
        BY <1>3
    <2>2. CASE CoinsArrive \/ DeleteCoins \/ (\E p \in Projects : StartProject(p))
        <3>1. UNCHANGED <<best, redeemed>> /\ (collected' = {} \/ UNCHANGED collected)
            BY <2>2 DEF CoinsArrive, DeleteCoins, StartProject, Change, Delete, bookVars, historyVars
        <3>2. CASE collected' = {}
            <4>1. Promise!StartOver
                BY <2>1, <3>1, <3>2 DEF Promise!StartOver
            <4> QED
                BY <4>1 DEF Promise!HuntNext
        <3>3. CASE UNCHANGED collected
            BY <2>1, <3>1, <3>3 DEF Promise!huntVars
        <3> QED
            BY <3>1, <3>2, <3>3
    <2>3. CASE \E s \in 1..MaxTabs : CoinEarned(s)
        BY <2>1, <2>3, EarnedRefines
    <2>4. CASE OpenTab \/ LeaveTab \/ Scroll \/ OpenMenu \/ CloseMenu
        BY <2>1, <2>4 DEF OpenTab, LeaveTab, Scroll, OpenMenu, CloseMenu, bookVars, historyVars,
                          Promise!huntVars
    <2>5. CASE Redeem
        BY <2>1, <2>5, RedeemRefines
    <2> QED
        BY <1>3, <2>2, <2>3, <2>4, <2>5 DEF BookStep
<1>4. CASE Restart
    BY <1>4 DEF Restart, Relaunch, bookVars, historyVars, Promise!huntVars
<1>5. CASE UNCHANGED gameVars
    BY <1>5 DEF gameVars, vars, bookVars, historyVars, Promise!huntVars
<1> QED
    BY <1>1, <1>2, <1>3, <1>4, <1>5 DEF GameNext

\* didSelect, CoinEarned and redeem together implement the treasure hunt: a coin is
\* marked only for a location whose quiz was won, once, and a claim is for no more
\* than coins found so and held together were worth, although the menu may be that of
\* an old tab and the player may have changed to another project meanwhile.
THEOREM GameImplementsHunt == GameSpec => ImplementsHunt
<1>1. GameInit => Promise!HuntInit
    BY DEF GameInit, Init, Promise!HuntInit
<1> QED
    BY <1>1, GameInvariant, GameStepRefines, PTL DEF GameSpec, ImplementsHunt, Promise!HuntSpec
=============================================================================
