---------------------------- MODULE TreasureHunt ----------------------------
(***************************************************************************)
(* What the game promises as a whole: a coin is found only at a location   *)
(* whose quiz was won, one coin a location, and a claim is for no more     *)
(* than coins once found and held together are worth.  Everything found    *)
(* may be lost at once, when the project changes or a failed download is   *)
(* tried again; a claim may still be made for what was lost.               *)
(***************************************************************************)
EXTENDS Naturals, FiniteSets

CONSTANTS
    Coins,        \* the coins of all projects
    LocationOf    \* LocationOf[c]: the location name coin c belongs to

VARIABLES
    won,          \* location names whose quiz was ever won
    found,        \* the coins in hand
    best,         \* the most coins in hand at a time
    claim         \* the last claim, a percentage

huntVars == <<won, found, best, claim>>

HuntInit ==
    /\ won = {}
    /\ found = {}
    /\ best = 0
    /\ claim = 0

WinQuiz(l) ==
    /\ won' = won \cup {l}
    /\ UNCHANGED <<found, best, claim>>

FindCoin(c) ==
    /\ LocationOf[c] \in won
    /\ \A d \in found : LocationOf[d] # LocationOf[c]
    /\ found' = found \cup {c}
    /\ best' = IF Cardinality(found') > best THEN Cardinality(found') ELSE best
    /\ UNCHANGED <<won, claim>>

StartOver ==
    /\ found' = {}
    /\ UNCHANGED <<won, best, claim>>

Claim ==
    /\ claim' \in 1..(2 * best)
    /\ UNCHANGED <<won, found, best>>

HuntNext ==
    \/ \E c \in Coins : WinQuiz(LocationOf[c]) \/ FindCoin(c)
    \/ StartOver
    \/ Claim

HuntSpec == HuntInit /\ [][HuntNext]_huntVars
=============================================================================
