--------------------------- MODULE CoinBookProofs ---------------------------
(***************************************************************************)
(* Proofs about the coin book, for any projects, coins and names and any   *)
(* number of coin tabs.                                                    *)
(***************************************************************************)
EXTENDS CoinBook, FiniteSetTheorems, TLAPS

\* What is needed beside the types: who is being notified is alive, and while
\* the first cell is in sight the discount is the worth of the coins.
CoinInv == TypeOK /\ OneCoinPerLocation /\ ShownDiscountIsCurrent

LEMMA WorthType ==
    ASSUME NEW S \in SUBSET Coins
    PROVE  Worth(S) \in Nat
<1>1. IsFiniteSet(S)
    BY CoinBookAssumption, FS_Subset
<1>2. Cardinality(S) \in Nat
    BY <1>1, FS_CardinalityType
<1> QED
    BY <1>2 DEF Worth

\* The coin a data source marks is the one collected at that location already,
\* if there is one: collected coins come first.
LEMMA FirstIsCollected ==
    ASSUME NEW l, NEW c \in FirstOf(l), NEW d \in collected, TypeOK, OneCoinPerLocation,
           LocationOf[d] = l
    PROVE  c = d
<1>1. d \in {x \in coins : LocationOf[x] = l}
    BY DEF TypeOK
<1>2. Before(c, d) /\ LocationOf[c] = l
    BY <1>1 DEF FirstOf
<1>3. c \in collected
    BY <1>2 DEF Before
<1> QED
    BY <1>2, <1>3 DEF OneCoinPerLocation

\* What Render does to the tabs: the latest may count S, the others stay.
Counts(S) ==
    /\ percentage' = [percentage EXCEPT ![tab] = Worth(S)]
    /\ outdated' = outdated \ {tab}

Recount(S) == Counts(S) \/ UNCHANGED <<percentage, outdated>>

LEMMA CountsStep ==
    ASSUME TypeOK, NEW S \in SUBSET Coins, Recount(S)
    PROVE  /\ percentage' \in [1..MaxTabs -> Nat]
           /\ outdated' \subseteq 1..tab
           /\ Counts(S) => percentage'[tab] = Worth(S)
<1>1. Worth(S) \in Nat
    BY WorthType
<1>2. percentage \in [1..MaxTabs -> Nat] /\ tab \in 1..MaxTabs /\ outdated \subseteq 1..tab
    BY DEF TypeOK
<1> QED
    BY <1>1, <1>2 DEF Recount, Counts

LEMMA ChangeStep ==
    ASSUME CoinInv, NEW here \in SUBSET Coins, NEW found \in SUBSET here, Change(here, found),
           UNCHANGED <<tabVars, scrolled>>
    PROVE  /\ coins' \subseteq Coins /\ collected' \subseteq coins'
           /\ percentage' \in [1..MaxTabs -> Nat] /\ outdated' \subseteq 1..tab
           /\ ShownDiscountIsCurrent'
<1>1. found \in SUBSET Coins
    OBVIOUS
<1>2. /\ coins' = here /\ collected' = found /\ Recount(found)
      /\ screen = "coins" /\ ~scrolled => Counts(found)
    BY DEF Change, Render, FillsCell, Recount, Counts
<1>3. /\ percentage' \in [1..MaxTabs -> Nat] /\ outdated' \subseteq 1..tab
      /\ Counts(found) => percentage'[tab] = Worth(found)
    BY <1>1, <1>2, CountsStep DEF CoinInv
<1>4. ShownDiscountIsCurrent'
    BY <1>2, <1>3 DEF ShownDiscountIsCurrent, Worth, tabVars
<1> QED
    BY <1>2, <1>3, <1>4

LEMMA CoinInvInit == Init => CoinInv
<1> SUFFICES ASSUME Init PROVE CoinInv
    OBVIOUS
<1>1. TypeOK
    <2>1. 1 \in 1..MaxTabs
        BY CoinBookAssumption
    <2>2. notifying.rest = {} /\ redeemed \in Nat /\ best \in Nat
        BY DEF Init, NoNotification
    <2>3. tab \in 1..MaxTabs /\ sources \subseteq 1..tab /\ tab \in sources
        BY <2>1 DEF Init
    <2>4. coins \subseteq Coins /\ collected \subseteq coins /\ notifying.rest \subseteq sources
        BY <2>2 DEF Init
    <2>5. project \in Projects /\ percentage \in [1..MaxTabs -> Nat]
        BY DEF Init
    <2>6. loaded \in BOOLEAN /\ scrolled \in BOOLEAN /\ screen \in {"coins", "elsewhere"}
        BY DEF Init
    <2>7. menu \in 0..tab /\ outdated \subseteq 1..tab
        BY DEF Init, NoMenu
    <2> QED
        BY <2>2, <2>3, <2>4, <2>5, <2>6, <2>7 DEF TypeOK
<1>2. OneCoinPerLocation /\ ShownDiscountIsCurrent
    BY DEF Init, OneCoinPerLocation, ShownDiscountIsCurrent
<1> QED
    BY <1>1, <1>2 DEF CoinInv

LEMMA CoinInvStep == CoinInv /\ [Next]_vars => CoinInv'
<1> SUFFICES ASSUME CoinInv, [Next]_vars PROVE CoinInv'
    OBVIOUS
<1> USE DEF CoinInv
<1>1. CASE CoinsArrive
    <2>1. PICK p \in Projects :
              \E S \in SUBSET (CoinsOf[p] \ coins) : Change(coins \cup S, collected)
        BY <1>1 DEF CoinsArrive
    <2>2. PICK S \in SUBSET (CoinsOf[p] \ coins) : Change(coins \cup S, collected)
        BY <2>1
    <2>3. coins \cup S \in SUBSET Coins /\ collected \in SUBSET (coins \cup S)
        BY CoinBookAssumption DEF TypeOK
    <2>4. UNCHANGED <<project, tabVars, scrolled, notifying, menu, historyVars>>
        BY <1>1 DEF CoinsArrive
    <2>5. /\ coins' \subseteq Coins /\ collected' \subseteq coins'
          /\ percentage' \in [1..MaxTabs -> Nat] /\ outdated' \subseteq 1..tab
          /\ ShownDiscountIsCurrent'
        BY <2>2, <2>3, <2>4, ChangeStep
    <2>6. TypeOK'
        BY <2>4, <2>5 DEF TypeOK, tabVars, historyVars
    <2>7. OneCoinPerLocation'
        BY <2>2 DEF Change, OneCoinPerLocation
    <2> QED
        BY <2>5, <2>6, <2>7
<1>2. CASE DeleteCoins
    <2>1. /\ coins' = {} /\ collected' = {} /\ outdated' \subseteq 1..tab /\ screen # "coins"
          /\ UNCHANGED <<project, tabVars, scrolled, notifying, percentage, menu, historyVars>>
        BY <1>2 DEF DeleteCoins, Delete
    <2>2. TypeOK'
        BY <2>1 DEF TypeOK, tabVars, historyVars
    <2>3. OneCoinPerLocation' /\ ShownDiscountIsCurrent'
        BY <2>1 DEF OneCoinPerLocation, ShownDiscountIsCurrent, tabVars
    <2> QED
        BY <2>2, <2>3
<1>3. ASSUME NEW p \in Projects, StartProject(p) PROVE CoinInv'
    <2>1. /\ tab' \in 1..MaxTabs /\ sources' \subseteq 1..tab' /\ tab' \in sources'
          /\ 1..tab \subseteq 1..tab' /\ 0..tab \subseteq 0..tab'
        BY <1>3, CoinBookAssumption DEF StartProject, TypeOK
    <2>2. notifying'.rest \subseteq sources' /\ screen' # "coins"
        BY <1>3 DEF StartProject, TypeOK, Quiet
    <2>3. coins' \subseteq Coins /\ collected' \subseteq coins' /\ collected' \subseteq collected
        BY <1>3 DEF StartProject, Delete, TypeOK, bookVars
    <2>4. outdated' \subseteq 1..tab
        BY <1>3 DEF StartProject, Delete, TypeOK
    <2>5. TypeOK'
        BY <1>3, <2>1, <2>2, <2>3, <2>4 DEF StartProject, TypeOK, historyVars
    <2>6. OneCoinPerLocation' /\ ShownDiscountIsCurrent'
        BY <2>2, <2>3 DEF OneCoinPerLocation, ShownDiscountIsCurrent
    <2> QED
        BY <2>5, <2>6
<1>4. ASSUME NEW l \in Locations, PostCoinEarned(l) PROVE CoinInv'
    <2>1. notifying'.rest \subseteq sources
        BY <1>4 DEF PostCoinEarned
    <2>2. TypeOK'
        BY <1>4, <2>1 DEF PostCoinEarned, TypeOK, bookVars, tabVars, historyVars
    <2>3. OneCoinPerLocation' /\ ShownDiscountIsCurrent'
        BY <1>4 DEF PostCoinEarned, OneCoinPerLocation, ShownDiscountIsCurrent, bookVars, tabVars
    <2> QED
        BY <2>2, <2>3
<1>5. ASSUME NEW s \in 1..MaxTabs, CoinEarned(s) PROVE CoinInv'
    <2>1. /\ notifying'.rest \subseteq sources
          /\ UNCHANGED <<project, tabVars, scrolled, menu, redeemed>>
        BY <1>5 DEF CoinEarned, TypeOK
    <2>2. ASSUME NEW c \in FirstOf(notifying.loc), Change(coins, collected \cup {c}),
                 best' \in {best, Cardinality(collected \cup {c})}
          PROVE  CoinInv'
        <3>1. c \in coins /\ LocationOf[c] = notifying.loc
            BY DEF FirstOf
        <3>2. collected \cup {c} \in SUBSET Coins
            BY <3>1 DEF TypeOK
        <3>3. best' \in Nat
            BY <2>2, <3>2, CoinBookAssumption, FS_Subset, FS_CardinalityType DEF TypeOK
        <3>4. /\ coins' \subseteq Coins /\ collected' \subseteq coins'
              /\ percentage' \in [1..MaxTabs -> Nat] /\ outdated' \subseteq 1..tab
              /\ ShownDiscountIsCurrent'
            BY <2>1, <2>2, <3>1, ChangeStep DEF TypeOK
        <3>5. TypeOK'
            BY <2>1, <3>3, <3>4 DEF TypeOK, tabVars
        <3>6. \A d \in collected : LocationOf[d] = LocationOf[c] => d = c
            BY <3>1, FirstIsCollected
        <3>7. OneCoinPerLocation'
            BY <2>2, <3>6 DEF Change, OneCoinPerLocation
        <3> QED
            BY <3>4, <3>5, <3>7
    <2>3. CASE UNCHANGED <<bookVars, percentage, best, outdated>>
        <3>1. TypeOK'
            BY <2>1, <2>3 DEF TypeOK, tabVars, bookVars
        <3>2. OneCoinPerLocation' /\ ShownDiscountIsCurrent'
            BY <2>1, <2>3 DEF OneCoinPerLocation, ShownDiscountIsCurrent, tabVars, bookVars
        <3> QED
            BY <3>1, <3>2
    <2> QED
        BY <1>5, <2>2, <2>3 DEF CoinEarned
<1>6. CASE OpenTab \/ Scroll
    <2>0. Recount(collected) /\ (~scrolled' => Counts(collected))
        BY <1>6 DEF OpenTab, Scroll, Render, FillsCell, Recount, Counts
    <2>1. /\ screen' = "coins" /\ scrolled' \in BOOLEAN
          /\ UNCHANGED <<project, bookVars, tab, sources, notifying, menu, historyVars>>
        BY <1>6 DEF OpenTab, Scroll, TypeOK, tabVars
    <2>2. loaded' \in BOOLEAN
        BY <1>6 DEF OpenTab, Scroll, TypeOK, tabVars
    <2>3. /\ percentage' \in [1..MaxTabs -> Nat] /\ outdated' \subseteq 1..tab
          /\ ~scrolled' => percentage'[tab] = Worth(collected)
        BY <2>0, CountsStep DEF TypeOK
    <2>4. TypeOK'
        BY <2>1, <2>2, <2>3 DEF TypeOK, bookVars, historyVars
    <2>5. OneCoinPerLocation' /\ ShownDiscountIsCurrent'
        BY <2>1, <2>3 DEF OneCoinPerLocation, ShownDiscountIsCurrent, bookVars, Worth
    <2> QED
        BY <2>4, <2>5
<1>7. CASE LeaveTab
    <2>1. TypeOK'
        BY <1>7 DEF LeaveTab, TypeOK, bookVars, historyVars
    <2>2. OneCoinPerLocation' /\ ShownDiscountIsCurrent'
        BY <1>7 DEF LeaveTab, OneCoinPerLocation, ShownDiscountIsCurrent, bookVars
    <2> QED
        BY <2>1, <2>2
<1>8. CASE OpenMenu \/ CloseMenu \/ Redeem
    <2>1. /\ UNCHANGED <<project, bookVars, tabVars, scrolled, notifying, percentage, best, outdated>>
          /\ menu' \in {NoMenu, tab}
        BY <1>8 DEF OpenMenu, CloseMenu, Redeem, historyVars
    <2>2. redeemed' \in Nat
        <3>1. menu # NoMenu => menu \in 1..MaxTabs
            BY CoinBookAssumption DEF TypeOK, NoMenu
        <3> QED
            BY <1>8, <3>1 DEF OpenMenu, CloseMenu, Redeem, historyVars, TypeOK
    <2>3. menu' \in 0..tab
        BY <2>1 DEF TypeOK, NoMenu
    <2>4. TypeOK'
        BY <2>1, <2>2, <2>3 DEF TypeOK, bookVars, tabVars
    <2>5. OneCoinPerLocation' /\ ShownDiscountIsCurrent'
        BY <2>1 DEF OneCoinPerLocation, ShownDiscountIsCurrent, bookVars, tabVars
    <2> QED
        BY <2>4, <2>5
<1>9. CASE Relaunch
    <2>1. tab' \in 1..MaxTabs /\ sources' \subseteq 1..tab' /\ tab' \in sources'
        BY <1>9, CoinBookAssumption DEF Relaunch, TypeOK
    <2>2. menu' \in 0..tab' /\ percentage' \in [1..MaxTabs -> Nat]
        BY <1>9, <2>1 DEF Relaunch, NoMenu
    <2>3. TypeOK'
        BY <1>9, <2>1, <2>2 DEF Relaunch, TypeOK, bookVars, historyVars, NoNotification
    <2>4. OneCoinPerLocation' /\ ShownDiscountIsCurrent'
        BY <1>9 DEF Relaunch, OneCoinPerLocation, ShownDiscountIsCurrent, bookVars
    <2> QED
        BY <2>3, <2>4
<1>10. CASE UNCHANGED vars
    <2>1. TypeOK'
        BY <1>10 DEF vars, TypeOK, bookVars, tabVars, historyVars
    <2>2. OneCoinPerLocation' /\ ShownDiscountIsCurrent'
        BY <1>10 DEF vars, OneCoinPerLocation, ShownDiscountIsCurrent, bookVars, tabVars
    <2> QED
        BY <2>1, <2>2
<1> QED
    BY <1>1, <1>2, <1>3, <1>4, <1>5, <1>6, <1>7, <1>8, <1>9, <1>10 DEF Next

\* The invariant of the coin book.
THEOREM CoinBookInvariant == Spec => []CoinInv
BY CoinInvInit, CoinInvStep, PTL DEF Spec

\* coinEarned never marks two coins of one location, however many CoinDataSources
\* are alive and however many coins carry the location's name.
THEOREM CoinsEarnedOnce == Spec => []OneCoinPerLocation
<1>1. CoinInv => OneCoinPerLocation
    BY DEF CoinInv
<1> QED
    BY <1>1, CoinBookInvariant, PTL

\* The discount on screen is the worth of the coins collected.
THEOREM DiscountIsCurrent == Spec => []ShownDiscountIsCurrent
<1>1. CoinInv => ShownDiscountIsCurrent
    BY DEF CoinInv
<1> QED
    BY <1>1, CoinBookInvariant, PTL

\* The types of the coin book: what the context, the data sources and the coin tab hold.
THEOREM CoinBookTypeCorrect == Spec => []TypeOK
<1>1. CoinInv => TypeOK
    BY DEF CoinInv
<1> QED
    BY <1>1, CoinBookInvariant, PTL

-----------------------------------------------------------------------------
(* What is redeemed *)

\* RedeemsWhatWasEarned needs to know of every tab, of the old ones too, that it
\* counts no more than was ever in hand, nor, unless coins were deleted since, more
\* than is in hand now; a tab still to be built counts nothing.
Earned ==
    /\ Cardinality(collected) <= best
    /\ \A t \in 1..MaxTabs : /\ percentage[t] <= 2 * best
                             /\ t \in outdated \/ percentage[t] <= Worth(collected)
                             /\ t > tab => percentage[t] = 0

\* The worth of the coins grows with them.
LEMMA WorthGrows ==
    ASSUME NEW S \in SUBSET Coins, NEW T \in SUBSET S
    PROVE  Worth(T) <= Worth(S)
<1>1. IsFiniteSet(S)
    BY CoinBookAssumption, FS_Subset
<1>2. IsFiniteSet(T) /\ Cardinality(T) <= Cardinality(S)
    BY <1>1, FS_Subset
<1>3. Cardinality(S) \in Nat /\ Cardinality(T) \in Nat
    BY <1>1, <1>2, FS_CardinalityType
<1> QED
    BY <1>2, <1>3 DEF Worth

\* A step that takes no collected coin away, whether the tab counts again or not.
LEMMA EarnedKept ==
    ASSUME CoinInv, CoinInv', Earned, collected \subseteq collected', best <= best',
           Cardinality(collected') <= best', Recount(collected'), tab' = tab
    PROVE  Earned'
<1>1. /\ percentage \in [1..MaxTabs -> Nat] /\ percentage' \in [1..MaxTabs -> Nat]
      /\ collected \in SUBSET Coins /\ collected' \in SUBSET Coins
      /\ best \in Nat /\ best' \in Nat /\ tab \in 1..MaxTabs
    BY DEF CoinInv, TypeOK
<1>2. Cardinality(collected') \in Nat
    BY <1>1, CoinBookAssumption, FS_Subset, FS_CardinalityType
<1>3. Worth(collected) <= Worth(collected')
    BY <1>1, WorthGrows
<1>4. Worth(collected) \in Nat /\ Worth(collected') \in Nat
    BY <1>1, WorthType
<1>5. Worth(collected') <= 2 * best'
    BY <1>1, <1>2 DEF Worth
<1>6. ASSUME NEW t \in 1..MaxTabs
      PROVE  /\ percentage'[t] <= 2 * best'
             /\ t \in outdated' \/ percentage'[t] <= Worth(collected')
             /\ t > tab => percentage'[t] = 0
    <2>1. percentage[t] \in Nat
        BY <1>1
    <2>2. CASE percentage'[t] = Worth(collected') /\ t = tab
        BY <1>1, <1>4, <1>5, <2>2
    <2>3. CASE percentage'[t] = percentage[t] /\ (t \in outdated => t \in outdated')
        BY <1>1, <1>3, <1>4, <2>1, <2>3 DEF Earned
    <2> QED
        BY <1>1, <2>2, <2>3 DEF Recount, Counts
<1> QED
    BY <1>6 DEF Earned, Worth

LEMMA EarnedInit == Init => Earned
<1> SUFFICES ASSUME Init PROVE Earned
    OBVIOUS
<1>1. Cardinality(collected) = 0 /\ Worth(collected) = 0
    BY FS_EmptySet DEF Init, Worth
<1>2. best = 0 /\ \A t \in 1..MaxTabs : percentage[t] = 0
    BY DEF Init
<1> QED
    BY <1>1, <1>2 DEF Earned

LEMMA EarnedStep == CoinInv /\ Earned /\ [Next]_vars => Earned'
<1> SUFFICES ASSUME CoinInv, Earned, [Next]_vars PROVE Earned'
    OBVIOUS
<1>0. CoinInv' /\ TypeOK
    BY CoinInvStep DEF CoinInv
<1>1. /\ tab \in 1..MaxTabs /\ best \in Nat /\ collected \in SUBSET Coins
      /\ percentage \in [1..MaxTabs -> Nat]
    BY <1>0 DEF TypeOK
<1>3. CASE CoinsArrive
    <2>1. PICK here : Change(here, collected) /\ UNCHANGED <<tab, best>>
        BY <1>3 DEF CoinsArrive, tabVars, historyVars
    <2>2. collected' = collected /\ Recount(collected)
        BY <2>1 DEF Change, Render, Recount, Counts
    <2>3. Recount(collected')
        BY <2>2
    <2> QED
        BY <1>0, <1>1, <2>1, <2>2, <2>3, EarnedKept DEF Earned
<1>4. CASE DeleteCoins \/ \E p \in Projects : StartProject(p)
    <2>1. UNCHANGED <<percentage, best>> /\ tab' \in {tab, tab + 1}
        BY <1>4 DEF DeleteCoins, StartProject, tabVars, historyVars
    <2>2. \A t \in 1..MaxTabs : t > tab' => percentage'[t] = 0
        BY <1>1, <2>1 DEF Earned
    <2>3. CASE Delete
        <3>1. Cardinality(collected') = 0 /\ Worth(collected') = 0
            BY <2>3, FS_EmptySet DEF Delete, Worth
        <3>2. \A t \in 1..MaxTabs : t \in outdated' \/ percentage[t] = 0
            BY <1>1, <2>3 DEF Delete, Earned
        <3> QED
            BY <1>1, <2>1, <2>2, <3>1, <3>2 DEF Earned
    <2>4. CASE UNCHANGED <<bookVars, outdated>>
        BY <1>1, <2>1, <2>2, <2>4 DEF Earned, Worth, bookVars
    <2> QED
        BY <1>4, <2>3, <2>4 DEF DeleteCoins, StartProject
<1>5. ASSUME NEW s \in 1..MaxTabs, CoinEarned(s) PROVE Earned'
    <2>1. UNCHANGED tab
        BY <1>5 DEF CoinEarned, tabVars
    <2>2. ASSUME NEW c \in FirstOf(notifying.loc), Change(coins, collected \cup {c}),
                 best' = IF Cardinality(collected \cup {c}) > best
                         THEN Cardinality(collected \cup {c}) ELSE best
          PROVE  Earned'
        <3>1. collected \cup {c} \in SUBSET Coins
            BY <1>0 DEF FirstOf, TypeOK
        <3>2. Cardinality(collected \cup {c}) \in Nat
            BY <3>1, CoinBookAssumption, FS_Subset, FS_CardinalityType
        <3>3. collected' = collected \cup {c} /\ Recount(collected \cup {c})
            BY <2>2 DEF Change, Render, Recount, Counts
        <3>4. best <= best' /\ Cardinality(collected \cup {c}) <= best'
            BY <1>1, <2>2, <3>2
        <3>5. Recount(collected')
            BY <3>3
        <3> QED
            BY <1>0, <2>1, <3>3, <3>4, <3>5, EarnedKept
    <2>3. CASE UNCHANGED <<bookVars, percentage, best, outdated>>
        BY <2>1, <2>3 DEF Earned, bookVars, Worth
    <2> QED
        BY <1>5, <2>2, <2>3 DEF CoinEarned
<1>6. CASE OpenTab \/ Scroll
    <2>1. Recount(collected) /\ UNCHANGED <<tab, best, collected>>
        BY <1>6 DEF OpenTab, Scroll, Render, Recount, Counts, tabVars, historyVars, bookVars
    <2>2. Recount(collected')
        BY <2>1
    <2> QED
        BY <1>0, <1>1, <2>1, <2>2, EarnedKept DEF Earned
<1>7. CASE \/ LeaveTab \/ OpenMenu \/ CloseMenu \/ Redeem \/ UNCHANGED vars
           \/ \E l \in Locations : PostCoinEarned(l)
    <2>1. UNCHANGED <<tab, percentage, collected, best, outdated>>
        BY <1>7 DEF LeaveTab, OpenMenu, CloseMenu, Redeem, PostCoinEarned, vars, bookVars, tabVars,
                    historyVars
    <2> QED
        BY <2>1 DEF Earned, Worth
<1>8. CASE Relaunch
    <2>1. UNCHANGED <<collected, best>> /\ \A t \in 1..MaxTabs : percentage'[t] = 0
        BY <1>8 DEF Relaunch, bookVars, historyVars
    <2>2. Worth(collected) \in Nat
        BY <1>1, WorthType
    <2>3. 0 <= Worth(collected) /\ 0 <= 2 * best
        BY <1>1, <2>2
    <2> QED
        BY <2>1, <2>3 DEF Earned, Worth
<1> QED
    BY <1>3, <1>4, <1>5, <1>6, <1>7, <1>8 DEF Next

\* The redeem closure of the coin tab's menu sends no discount that was never earned,
\* and none above the coins in hand unless they were deleted since the tab's data
\* handler counted them: whichever tab the menu belongs to and wherever, and in
\* whichever project, it is answered.
THEOREM RedeemsEarned == Spec => RedeemsWhatWasEarned
<1>1. CoinInv /\ Earned => [Redeem => /\ redeemed' <= 2 * best
                                      /\ \/ menu \in outdated
                                         \/ redeemed' <= Worth(collected)]_vars
    <2> SUFFICES ASSUME CoinInv, Earned, Redeem
                 PROVE  redeemed' <= 2 * best /\ (menu \in outdated \/ redeemed' <= Worth(collected))
        OBVIOUS
    <2>1. menu \in 1..MaxTabs /\ redeemed' = percentage[menu]
        BY CoinBookAssumption DEF Redeem, NoMenu, CoinInv, TypeOK
    <2> QED
        BY <2>1 DEF Earned
<1> QED
    BY <1>1, EarnedInit, EarnedStep, CoinBookInvariant, PTL DEF Spec, RedeemsWhatWasEarned
=============================================================================
