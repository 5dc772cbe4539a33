----------------------------- MODULE QuizRules ------------------------------
(***************************************************************************)
(* What the quiz promises, without screens, timers or messages: an attempt *)
(* asks a fixed number of questions, each is answered once, and a coin is  *)
(* handed out only for a location one of whose attempts counted as many    *)
(* right answers as it asked questions.  The last question can be answered *)
(* again until its verdict is on screen; the strict rules exclude that.    *)
(***************************************************************************)
EXTENDS Naturals

CONSTANT Locations

VARIABLES
    begun,    \* whether there was an attempt yet
    loc,      \* the location of the attempt under way
    total,    \* the questions the attempt asks
    asked,    \* the questions answered so far
    right,    \* the ones answered right
    owed,     \* locations won, their coin not handed out yet
    coins     \* locations whose coin was handed out

rulesVars == <<begun, loc, total, asked, right, owed, coins>>

RulesInit ==
    /\ begun = FALSE
    /\ loc \in Locations
    /\ total = 0
    /\ asked = 0
    /\ right = 0
    /\ owed = {}
    /\ coins = {}

\* A location without questions ends the application, and what was owed with it.
Begin ==
    /\ begun' = TRUE
    /\ loc' \in Locations
    /\ total' \in Nat
    /\ asked' = 0
    /\ right' = 0
    /\ owed' \subseteq owed
    /\ UNCHANGED coins

\* Only the answer that completes a perfect attempt can win a coin.
Answer ==
    /\ asked < total
    /\ asked' = asked + 1
    /\ right' \in {right, right + 1}
    /\ owed' \subseteq owed \cup {x \in {loc} : asked' = total /\ right' = total}
    /\ UNCHANGED <<begun, loc, total, coins>>

\* A tap that slips in after the last answer is judged and counted once more, and
\* so is the one answer to an attempt that asks nothing.
AnswerAgain ==
    /\ begun
    /\ asked >= total
    /\ asked' \in {asked, asked + 1}
    /\ right' \in {right, right + 1}
    /\ owed' \subseteq owed \cup {x \in {loc} : right' = total}
    /\ UNCHANGED <<begun, loc, total, coins>>

\* A coin that is owed is handed out.
Award ==
    /\ \E l \in owed : coins' = coins \cup {l}
    /\ owed' \subseteq owed
    /\ UNCHANGED <<begun, loc, total, asked, right>>

\* The application may end before it hands out a coin.
Forget ==
    /\ owed' \subseteq owed
    /\ UNCHANGED <<begun, loc, total, asked, right, coins>>

StrictNext == Begin \/ Answer \/ Award \/ Forget
RulesNext  == StrictNext \/ AnswerAgain

StrictSpec == RulesInit /\ [][StrictNext]_rulesVars
RulesSpec  == RulesInit /\ [][RulesNext]_rulesVars
=============================================================================
