-------------------------------- MODULE Hunt --------------------------------
(***************************************************************************)
(* The game: quizzes and coin book together.  A quiz behaves as QuizRules  *)
(* says, which is what Quiz implements; the step that hands out a coin is  *)
(* the one in which the coin book hears of it (QuizViewController posts    *)
(* CoinEarned on the main queue).  A win whose message is still waiting    *)
(* outlives its quiz, and even its project.                                *)
(***************************************************************************)
EXTENDS CoinBook

CONSTANT MaxQuestions   \* bound: the questions an attempt asks

ASSUME HuntAssumption == MaxQuestions \in Nat \ {0}

VARIABLES
    begun, loc, total, asked,
    right,                      \* the attempt under way, as in QuizRules
    owed,                       \* locations won, their message not answered yet
    handed,                     \* locations for which CoinEarned was posted
    won                         \* history: locations one of whose quizzes was won

attemptVars == <<begun, loc, total, asked, right>>
quizVars    == <<attemptVars, owed, handed>>
gameVars    == <<vars, quizVars, won>>

Rules == INSTANCE QuizRules WITH coins <- handed

-----------------------------------------------------------------------------
(* The quiz, on the location tab *)

BeginQuiz(l) ==
    /\ Quiet
    /\ screen = "elsewhere"
    /\ loc' = l
    /\ total' \in 0..MaxQuestions
    /\ owed' = owed
    /\ Rules!Begin
    /\ UNCHANGED <<vars, won>>

\* A perfect attempt's message may be dropped as a duplicate: nothing is owed then.
AnswerQuestion ==
    /\ Quiet
    /\ screen = "elsewhere"
    /\ asked' = asked + 1
    /\ right' \in {right, right + 1}
    /\ LET perfect == {x \in {loc} : asked' = total /\ right' = total}
       IN  /\ owed' \in {owed, owed \cup perfect}
           /\ won' = won \cup perfect
    /\ Rules!Answer
    /\ UNCHANGED vars

\* A tap after the last answer is counted once more.
AnswerAgain ==
    /\ Quiet
    /\ screen = "elsewhere"
    /\ asked' = asked
    /\ right <= MaxQuestions
    /\ right' \in {right, right + 1}
    /\ LET perfect == {x \in {loc} : right' = total}
       IN  /\ owed' \in {owed, owed \cup perfect}
           /\ won' = won \cup perfect
    /\ Rules!AnswerAgain
    /\ UNCHANGED vars

\* Mutant: the coin is handed out whatever the verdict was.
HandOutAnyway(l) ==
    /\ handed' = handed \cup {l}
    /\ owed' = owed \ {l}
    /\ PostCoinEarned(l)
    /\ UNCHANGED <<attemptVars, won>>

\* The button of the message: CoinEarned.
HandOut(l) ==
    /\ l \in owed
    /\ handed' = handed \cup {l}
    /\ owed' = owed \ {l}
    /\ Rules!Award
    /\ PostCoinEarned(l)
    /\ UNCHANGED won

\* The project list hides the message.
Forget(l) ==
    /\ Quiet
    /\ l \in owed
    /\ owed' = owed \ {l}
    /\ Rules!Forget
    /\ UNCHANGED <<vars, won>>

-----------------------------------------------------------------------------
(* The coin book *)

BookStep ==
    \/ CoinsArrive
    \/ DeleteCoins
    \/ \E p \in Projects : StartProject(p)
    \/ \E s \in 1..MaxTabs : CoinEarned(s)
    \/ OpenTab
    \/ LeaveTab
    \/ Scroll
    \/ OpenMenu
    \/ CloseMenu
    \/ Redeem

Restart ==
    /\ Relaunch
    /\ owed' = {}
    /\ Rules!Forget
    /\ UNCHANGED won

-----------------------------------------------------------------------------
GameInit ==
    /\ Init
    /\ Rules!RulesInit
    /\ won = {}

GameNext ==
    \/ \E l \in Locations : BeginQuiz(l) \/ HandOut(l) \/ Forget(l)
    \/ AnswerQuestion \/ AnswerAgain
    \/ BookStep /\ UNCHANGED <<quizVars, won>>
    \/ Restart

GameSpec == GameInit /\ [][GameNext]_gameVars

-----------------------------------------------------------------------------
(* Properties *)

Promise == INSTANCE TreasureHunt WITH found <- collected, claim <- redeemed

\* The quizzes and the coin book together implement the treasure hunt: a coin is
\* marked as collected only for a location whose quiz was won, once, and a
\* redemption is for no more than coins found in that way and held together were
\* worth, although the win travels through a message, a notification and several
\* data sources, the menu waits as a message too, and the project may change on the
\* way.
ImplementsHunt == Promise!HuntSpec
=============================================================================
