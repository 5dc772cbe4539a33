------------------------------ MODULE CoinBook ------------------------------
(***************************************************************************)
(* The coin book: the coins in the managed object context, the             *)
(* CoinDataSources that hear of a won quiz, and the coin tab, whose data   *)
(* handler works out the discount while it fills the tab's first cell.     *)
(*                                                                         *)
(* Every choice of a project builds a new coin tab.  The old one is        *)
(* released only if its view was never loaded (the reachability callbacks  *)
(* hold on to a loaded one), so several data sources may hear of one coin. *)
(* NotificationCenter calls them one after the other, in any order, and    *)
(* each saves the context before the next one is called.                   *)
(*                                                                         *)
(* The tab's menu is a message: it may wait behind others in the queue of  *)
(* SwiftMessages and be answered on any screen, even after another project *)
(* was chosen, and it redeems what its own tab's data handler holds.       *)
(***************************************************************************)
EXTENDS Naturals, FiniteSets

CONSTANTS
    Projects,     \* the projects of the server
    Coins,        \* the Coin objects of all downloads; two may stand for one document
    CoinsOf,      \* CoinsOf[p]: those of project p
    LocationOf,   \* LocationOf[c]: the location name coin c belongs to
    Rank,         \* Rank[c]: the place of c's name in the alphabet
    MaxTabs       \* bound: how many coin tabs are built

Locations == {LocationOf[c] : c \in Coins}

ASSUME CoinBookAssumption ==
    /\ IsFiniteSet(Coins)
    /\ CoinsOf \in [Projects -> SUBSET Coins]
    /\ Rank \in [Coins -> Nat]
    /\ MaxTabs \in Nat \ {0}

VARIABLES
    project,      \* user defaults: ProjectID
    coins,        \* the coins in the context
    collected,    \* those with collected = true
    tab,          \* the number of the latest coin tab
    sources,      \* the coin tabs whose CoinDataSource is alive
    notifying,    \* the CoinEarned notification being posted
    loaded,       \* whether the latest tab's view was loaded
    screen,       \* "coins" or "elsewhere"
    scrolled,     \* whether the tab's first cell is scrolled out of sight
    percentage,   \* percentage[t]: CoinCollectionViewDataHandler.percentage of tab t
    menu,         \* the tab whose menu is in the queue of messages, or NoMenu
    redeemed,     \* the percentage sent last
    best,         \* history: the most coins in hand at a time
    outdated      \* history: tabs that count coins deleted since

bookVars    == <<coins, collected>>
tabVars     == <<tab, sources, loaded, screen>>
historyVars == <<redeemed, best>>
vars == <<project, bookVars, tabVars, scrolled, notifying, percentage, menu, historyVars, outdated>>

NoMenu == 0
NoNotification == [loc |-> "none", rest |-> {}]

\* The main queue runs one event at a time: nothing else while CoinEarned is posted.
Quiet == notifying.rest = {}

-----------------------------------------------------------------------------
(* CoinDataSource *)

\* Mutant: the coins still to be found come first.
BeforeUncollected(c, d) ==
    IF (c \in collected) = (d \in collected) THEN Rank[c] <= Rank[d] ELSE d \in collected

\* fetchCoins: collected ones first, then by name.
Before(c, d) ==
    IF (c \in collected) = (d \in collected) THEN Rank[c] <= Rank[d] ELSE c \in collected

\* coinEarned's filter and first; coins of one name come in any order.
FirstOf(l) ==
    LET here == {c \in coins : LocationOf[c] = l}
    IN  {c \in here : \A d \in here : Before(c, d)}

-----------------------------------------------------------------------------
(* CoinCollectionViewDataHandler *)

Worth(S) == 2 * Cardinality(S)

\* Mutant: a change does not reload the collection view.
FillsCellOnAppear(here, out) == here /\ screen # "coins" /\ ~out

\* cellForItemAt runs for the first cell when the tab is on screen and the cell in
\* sight: here and out say whether they are.
FillsCell(here, out) == here /\ ~out

\* It counts S, what has been collected.
Render(here, out, S) ==
    IF FillsCell(here, out)
    THEN /\ percentage' = [percentage EXCEPT ![tab] = Worth(S)]
         /\ outdated' = outdated \ {tab}
    ELSE UNCHANGED <<percentage, outdated>>

\* A change of the context: controllerDidChangeContent of every data source, and
\* reloadData, which does nothing to a tab that is not on screen.
Change(here, found) ==
    /\ coins' = here
    /\ collected' = found
    /\ Render(screen = "coins", scrolled, found)

\* Every coin is deleted, while the coin tab is not on screen.
Delete ==
    /\ coins' = {}
    /\ collected' = {}
    /\ outdated' = {t \in 1..tab : percentage[t] # 0}

-----------------------------------------------------------------------------
(* Operations *)

\* A reply of the download inserts coins of its project, none of them collected: of
\* another project, or once more, if the Saver that asked was replaced meanwhile.
CoinsArrive ==
    /\ Quiet
    /\ \E p \in Projects :
           \E S \in SUBSET (CoinsOf[p] \ coins) : S # {} /\ Change(coins \cup S, collected)
    /\ UNCHANGED <<project, tabVars, scrolled, notifying, menu, historyVars>>

\* The retry of a failed download, from the location list, deletes every coin,
\* collected or not, before its alert has closed.
DeleteCoins ==
    /\ Quiet
    /\ screen = "elsewhere"
    /\ Delete
    /\ UNCHANGED <<project, tabVars, scrolled, notifying, percentage, menu, historyVars>>

\* Mutant: the new tab's data source does not observe CoinEarned.
StartProjectUnobserved(p) ==
    /\ Quiet
    /\ screen = "elsewhere"
    /\ tab < MaxTabs
    /\ project' = p
    /\ IF p = project THEN UNCHANGED <<bookVars, outdated>> ELSE Delete
    /\ tab' = tab + 1
    /\ sources' = sources
    /\ loaded' = FALSE
    /\ scrolled' = FALSE
    /\ UNCHANGED <<screen, notifying, percentage, menu, historyVars>>

\* openProject builds a new MainTabBarController; another project's coins go.
StartProject(p) ==
    /\ Quiet
    /\ screen = "elsewhere"
    /\ tab < MaxTabs
    /\ project' = p
    /\ IF p = project THEN UNCHANGED <<bookVars, outdated>> ELSE Delete
    /\ tab' = tab + 1
    /\ sources' = (IF loaded THEN sources ELSE sources \ {tab}) \cup {tab + 1}
    /\ loaded' = FALSE
    /\ scrolled' = FALSE
    /\ UNCHANGED <<screen, notifying, percentage, menu, historyVars>>

\* A won quiz posts CoinEarned with the name of its location.
PostCoinEarned(l) ==
    /\ Quiet
    /\ notifying' = [loc |-> l, rest |-> sources]
    /\ UNCHANGED <<project, bookVars, tabVars, scrolled, percentage, menu, historyVars, outdated>>

\* One data source handles it: mark the first coin of the location, and save.
CoinEarned(s) ==
    /\ s \in notifying.rest
    /\ notifying' = [notifying EXCEPT !.rest = @ \ {s}]
    /\ \/ \E c \in FirstOf(notifying.loc) :
              LET found == collected \cup {c} IN
              /\ Change(coins, found)
              /\ best' = IF Cardinality(found) > best THEN Cardinality(found) ELSE best
       \/ /\ FirstOf(notifying.loc) = {}
          /\ UNCHANGED <<bookVars, percentage, best, outdated>>
    /\ UNCHANGED <<project, tabVars, scrolled, menu, redeemed>>

\* The collection view is laid out as it appears: an empty one scrolls back, and so
\* may one with fewer coins than before.
OpenTab ==
    /\ Quiet
    /\ screen = "elsewhere"
    /\ screen' = "coins"
    /\ loaded' = TRUE
    /\ scrolled' \in {FALSE, scrolled /\ coins # {}}
    /\ Render(TRUE, scrolled', collected)
    /\ UNCHANGED <<project, bookVars, tab, sources, notifying, menu, historyVars>>

LeaveTab ==
    /\ Quiet
    /\ screen = "coins"
    /\ screen' = "elsewhere"
    /\ UNCHANGED <<project, bookVars, tab, sources, loaded, scrolled, notifying, percentage, menu,
                   historyVars, outdated>>

Scroll ==
    /\ Quiet
    /\ screen = "coins"
    /\ coins # {}
    /\ scrolled' = ~scrolled
    /\ Render(TRUE, scrolled', collected)
    /\ UNCHANGED <<project, bookVars, tabVars, notifying, menu, historyVars>>

\* onOptionsBarButtonItemTouch; a second menu is dropped as a duplicate of the first.
OpenMenu ==
    /\ Quiet
    /\ screen = "coins"
    /\ menu = NoMenu
    /\ menu' = tab
    /\ UNCHANGED <<project, bookVars, tabVars, scrolled, notifying, percentage, historyVars,
                   outdated>>

\* A tap beside the menu, "inspect", "redeem" with nothing to redeem, or a hide() of
\* somebody else.
CloseMenu ==
    /\ Quiet
    /\ menu # NoMenu
    /\ menu' = NoMenu
    /\ UNCHANGED <<project, bookVars, tabVars, scrolled, notifying, percentage, historyVars,
                   outdated>>

\* Mutant: the coins still to be found are counted too.
RedeemUnfiltered ==
    /\ Quiet
    /\ menu # NoMenu
    /\ percentage[menu] # 0
    /\ redeemed' = Worth(coins)
    /\ menu' = NoMenu
    /\ UNCHANGED <<project, bookVars, tabVars, scrolled, notifying, percentage, best, outdated>>

\* "redeem" sends the percentage the menu's data handler holds, wherever the player is.
Redeem ==
    /\ Quiet
    /\ menu # NoMenu
    /\ percentage[menu] # 0
    /\ redeemed' = percentage[menu]
    /\ menu' = NoMenu
    /\ UNCHANGED <<project, bookVars, tabVars, scrolled, notifying, percentage, best, outdated>>

\* The application is started again; coinEarned saved every collected coin.
Relaunch ==
    /\ tab < MaxTabs
    /\ tab' = tab + 1
    /\ sources' = {tab + 1}
    /\ notifying' = NoNotification
    /\ loaded' = FALSE
    /\ screen' = "elsewhere"
    /\ scrolled' = FALSE
    /\ percentage' = [t \in 1..MaxTabs |-> 0]
    /\ menu' = NoMenu
    /\ outdated' = {}
    /\ UNCHANGED <<project, bookVars, historyVars>>

-----------------------------------------------------------------------------
Init ==
    /\ project \in Projects
    /\ coins = {}
    /\ collected = {}
    /\ tab = 1
    /\ sources = {1}
    /\ notifying = NoNotification
    /\ loaded = FALSE
    /\ screen = "elsewhere"
    /\ scrolled = FALSE
    /\ percentage = [t \in 1..MaxTabs |-> 0]
    /\ menu = NoMenu
    /\ redeemed = 0
    /\ best = 0
    /\ outdated = {}

Next ==
    \/ CoinsArrive
    \/ DeleteCoins
    \/ \E p \in Projects : StartProject(p)
    \/ \E l \in Locations : PostCoinEarned(l)
    \/ \E s \in 1..MaxTabs : CoinEarned(s)
    \/ OpenTab
    \/ LeaveTab
    \/ Scroll
    \/ OpenMenu
    \/ CloseMenu
    \/ Redeem
    \/ Relaunch

Spec == Init /\ [][Next]_vars

-----------------------------------------------------------------------------
(* Properties *)

TypeOK ==
    /\ project \in Projects
    /\ coins \subseteq Coins
    /\ collected \subseteq coins
    /\ tab \in 1..MaxTabs
    /\ sources \subseteq 1..tab
    /\ tab \in sources
    /\ notifying.rest \subseteq sources
    /\ loaded \in BOOLEAN
    /\ screen \in {"coins", "elsewhere"}
    /\ scrolled \in BOOLEAN
    /\ percentage \in [1..MaxTabs -> Nat]
    /\ menu \in 0..tab
    /\ redeemed \in Nat
    /\ best \in Nat
    /\ outdated \subseteq 1..tab

\* A location yields one coin at most, however many data sources hear of the won
\* quiz, however often it is won, and however many coins carry the location's
\* name: the discount is never more than two per cent a location.
OneCoinPerLocation ==
    \A c, d \in collected : LocationOf[c] = LocationOf[d] => c = d

\* The discount in the first cell of the tab is up to date whenever it is in
\* sight, although it is worked out only when the cell is filled.
ShownDiscountIsCurrent ==
    screen = "coins" /\ ~scrolled => percentage[tab] = Worth(collected)

\* Nobody redeems what was never earned.  The menu may be answered long after its
\* tab has last counted, with the first cell out of sight, from another screen or
\* in another project: the discount sent is then behind the coins, or, only if a
\* retry or another project has deleted coins since the tab counted them, ahead of
\* them, but even so never more than the most coins ever held together are worth.
RedeemsWhatWasEarned ==
    [][Redeem => /\ redeemed' <= 2 * best
                 /\ menu \in outdated \/ redeemed' <= Worth(collected)]_vars
=============================================================================
