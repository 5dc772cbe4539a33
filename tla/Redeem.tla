------------------------------- MODULE Redeem -------------------------------
(***************************************************************************)
(* Redeeming the discount: CoinViewController's menu, its view of the      *)
(* network, the write FirebaseService.post sends to Firestore, and the     *)
(* QR codes kept in the user defaults, one for each project.               *)
(*                                                                         *)
(* Firestore keeps the writes it could not send in a queue that outlives   *)
(* the process, sends them in order and calls back for each; the callback  *)
(* belongs to the process that sent the write.  postQRCodeToFirebase reads *)
(* the dictionary of codes before the write and stores it after.           *)
(*                                                                         *)
(* The menu is a message, one at a time: it may be answered on any screen, *)
(* and when another tab was built meanwhile it still asks its own tab, the *)
(* old one, whether there is a network.                                    *)
(***************************************************************************)
EXTENDS Naturals, Sequences

CONSTANTS
    Projects,      \* the projects of the server
    Percentages,   \* the discounts the coin tab may show
    NoCode,        \* no code stored for a project
    MaxGames,      \* bound: how many games are started
    MaxPosts       \* bound: writes waiting in Firestore's queue

ASSUME RedeemAssumption ==
    /\ Percentages \subseteq Nat
    /\ MaxGames \in Nat \ {0}
    /\ MaxPosts \in Nat
    /\ NoCode \notin [project : Projects, game : Nat, percentage : Nat]

VARIABLES
    project,      \* user defaults: ProjectID
    game,         \* user defaults: GameID
    codes,        \* user defaults: QRCode, a dictionary
    screen,       \* "coins" or "elsewhere"
    loaded,       \* whether the coin tab's view was loaded
    notifier,     \* whether the tab's reachability notifier runs
    flags,        \* the state the notifier has seen: "nil", "up" or "down"
    hasNetwork,   \* CoinViewController.hasNetwork: "nil", "up" or "down"
    menu,         \* whose menu is in the queue of messages: "none", "this" tab's or an "old" one's
    old,          \* the old tab of that menu: its flags and hasNetwork
    network,      \* the network: "up" or "down"
    posts,        \* Firestore's queue of writes
    accepted,     \* history: the codes the server has stored, each game's document
                  \* holding the last of its own
    told          \* the last code the player was congratulated on, by project

defaultsVars == <<project, game, codes>>
tabVars      == <<screen, loaded, notifier, flags, hasNetwork>>
menuVars     == <<menu, old>>
serverVars   == <<posts, accepted>>
vars == <<defaultsVars, tabVars, menuVars, network, serverVars, told>>

NoTab == [flags |-> "nil", hasNetwork |-> "nil"]

Code(p, g, n) == [project |-> p, game |-> g, percentage |-> n]

-----------------------------------------------------------------------------
(* The network *)

NetworkChanges ==
    /\ network' = IF network = "up" THEN "down" ELSE "up"
    /\ flags' = IF notifier THEN network' ELSE flags
    /\ UNCHANGED <<defaultsVars, screen, loaded, notifier, hasNetwork, menuVars, serverVars, told>>

\* Mutant: the first report is the last one kept.
SetNetworkStatusOnce ==
    /\ flags # "nil"
    /\ hasNetwork = "nil"
    /\ hasNetwork' = flags
    /\ UNCHANGED <<defaultsVars, screen, loaded, notifier, flags, menuVars, network, serverVars,
                   told>>

\* whenReachable or whenUnreachable, on the main queue.
SetNetworkStatus ==
    /\ flags # "nil"
    /\ hasNetwork # flags
    /\ hasNetwork' = flags
    /\ UNCHANGED <<defaultsVars, screen, loaded, notifier, flags, menuVars, network, serverVars,
                   told>>

\* The last report of the old tab, whose notifier was stopped.
OldNetworkStatus ==
    /\ old.hasNetwork # old.flags
    /\ old' = [old EXCEPT !.hasNetwork = old.flags]
    /\ UNCHANGED <<defaultsVars, tabVars, menu, network, serverVars, told>>

-----------------------------------------------------------------------------
(* CoinViewController *)

\* viewDidLoad, the first time, starts the notifier.
OpenTab ==
    /\ screen = "elsewhere"
    /\ screen' = "coins"
    /\ loaded' = TRUE
    /\ IF loaded THEN UNCHANGED <<notifier, flags>> ELSE notifier' = TRUE /\ flags' = network
    /\ UNCHANGED <<defaultsVars, hasNetwork, menuVars, network, serverVars, told>>

\* viewDidDisappear stops it.
LeaveTab ==
    /\ screen = "coins"
    /\ screen' = "elsewhere"
    /\ notifier' = FALSE
    /\ UNCHANGED <<defaultsVars, loaded, flags, hasNetwork, menuVars, network, serverVars, told>>

\* onOptionsBarButtonItemTouch; a second menu is dropped as a duplicate of the first.
OpenMenu ==
    /\ screen = "coins"
    /\ menu = "none"
    /\ menu' = "this"
    /\ UNCHANGED <<defaultsVars, tabVars, old, network, serverVars, told>>

MenuGone == menu' = "none" /\ old' = NoTab

\* A tap beside the menu, "inspect", a hide() of somebody else, or "redeem" without a
\* percentage or without (known) network, which only shows a message.
CloseMenu ==
    /\ menu # "none"
    /\ MenuGone
    /\ UNCHANGED <<defaultsVars, tabVars, network, serverVars, told>>

\* What the menu's own tab has heard of the network.
MenuNetwork == IF menu = "this" THEN hasNetwork ELSE old.hasNetwork

\* Mutant: the code is stored before the write is through.
PostQRCodeAtOnce(n) ==
    /\ menu # "none"
    /\ n # 0
    /\ MenuNetwork = "up"
    /\ Len(posts) < MaxPosts
    /\ MenuGone
    /\ codes' = [codes EXCEPT ![project] = Code(project, game, n)]
    /\ posts' = Append(posts, [code |-> Code(project, game, n), dict |-> codes', heard |-> TRUE,
                               sent |-> FALSE])
    /\ UNCHANGED <<project, game, tabVars, network, accepted, told>>

\* "redeem", where it reaches Firestore: for the project and game of the moment,
\* whichever tab the menu belongs to.
PostQRCodeToFirebase(n) ==
    /\ menu # "none"
    /\ n # 0
    /\ MenuNetwork = "up"
    /\ Len(posts) < MaxPosts
    /\ MenuGone
    /\ posts' = Append(posts, [code |-> Code(project, game, n), dict |-> codes, heard |-> TRUE,
                               sent |-> FALSE])
    /\ UNCHANGED <<defaultsVars, tabVars, network, accepted, told>>

-----------------------------------------------------------------------------
(* Firestore *)

\* The server stores the first write of the queue, over an earlier one of that game.
Store ==
    /\ network = "up"
    /\ posts # <<>>
    /\ ~Head(posts).sent
    /\ accepted' = accepted \cup {Head(posts).code}
    /\ posts' = [posts EXCEPT ![1].sent = TRUE]
    /\ UNCHANGED <<defaultsVars, tabVars, menuVars, network, told>>

\* Mutant: a dictionary of the new code alone is stored.
SucceedForgetting ==
    /\ posts # <<>>
    /\ Head(posts).sent
    /\ posts' = Tail(posts)
    /\ LET r == Head(posts) IN
       IF r.heard
       THEN /\ codes' = [p \in {r.code.project} |-> r.code]
            /\ told' = [told EXCEPT ![r.code.project] = r.code]
       ELSE UNCHANGED <<codes, told>>
    /\ UNCHANGED <<project, game, tabVars, menuVars, network, accepted>>

\* The answer: the dictionary read before the write, with the new code, is stored.
Succeed ==
    /\ posts # <<>>
    /\ Head(posts).sent
    /\ posts' = Tail(posts)
    /\ LET r == Head(posts) IN
       IF r.heard
       THEN /\ codes' = [r.dict EXCEPT ![r.code.project] = r.code]
            /\ told' = [told EXCEPT ![r.code.project] = r.code]
       ELSE UNCHANGED <<codes, told>>
    /\ UNCHANGED <<project, game, tabVars, menuVars, network, accepted>>

\* The server refuses the write; the player reads "please try again".
Refuse ==
    /\ network = "up"
    /\ posts # <<>>
    /\ ~Head(posts).sent
    /\ posts' = Tail(posts)
    /\ UNCHANGED <<defaultsVars, tabVars, menuVars, network, accepted, told>>

-----------------------------------------------------------------------------
(* The application *)

\* A new coin tab, whose view is not loaded yet.
NewTab ==
    /\ screen' = "elsewhere"
    /\ loaded' = FALSE
    /\ notifier' = FALSE
    /\ flags' = "nil"
    /\ hasNetwork' = "nil"

\* The choice of a project; another project than before starts a new game.
StartProject(p) ==
    /\ screen = "elsewhere"
    /\ project' = p
    /\ game' = IF p = project THEN game ELSE game + 1
    /\ game' <= MaxGames
    /\ NewTab
    /\ IF menu = "this"
       THEN menu' = "old" /\ old' = [flags |-> flags, hasNetwork |-> hasNetwork]
       ELSE UNCHANGED menuVars
    /\ UNCHANGED <<codes, network, serverVars, told>>

\* The application is started again: Firestore's queue is kept, its callbacks go.
Relaunch ==
    /\ NewTab
    /\ MenuGone
    /\ posts' = [i \in DOMAIN posts |-> [posts[i] EXCEPT !.heard = FALSE]]
    /\ UNCHANGED <<defaultsVars, network, accepted, told>>

-----------------------------------------------------------------------------
Init ==
    /\ project \in Projects
    /\ game = 1
    /\ codes = [p \in Projects |-> NoCode]
    /\ screen = "elsewhere"
    /\ loaded = FALSE
    /\ notifier = FALSE
    /\ flags = "nil"
    /\ hasNetwork = "nil"
    /\ menu = "none"
    /\ old = NoTab
    /\ network \in {"up", "down"}
    /\ posts = <<>>
    /\ accepted = {}
    /\ told = [p \in Projects |-> NoCode]

Next ==
    \/ NetworkChanges
    \/ SetNetworkStatus
    \/ OldNetworkStatus
    \/ OpenTab
    \/ LeaveTab
    \/ OpenMenu
    \/ CloseMenu
    \/ \E n \in Percentages : PostQRCodeToFirebase(n)
    \/ Store
    \/ Succeed
    \/ Refuse
    \/ \E p \in Projects : StartProject(p)
    \/ Relaunch

\* The main queue runs the notifier's blocks.
Fairness == WF_vars(SetNetworkStatus)

Spec == Init /\ [][Next]_vars /\ Fairness

-----------------------------------------------------------------------------
(* Properties *)

Codes == [project : Projects, game : 1..MaxGames, percentage : Percentages]
Dictionaries == [Projects -> Codes \cup {NoCode}]
Status == {"nil", "up", "down"}

TypeOK ==
    /\ project \in Projects
    /\ game \in 1..MaxGames
    /\ codes \in Dictionaries
    /\ screen \in {"coins", "elsewhere"}
    /\ loaded \in BOOLEAN
    /\ notifier \in BOOLEAN
    /\ flags \in Status
    /\ hasNetwork \in Status
    /\ menu \in {"none", "this", "old"}
    /\ old \in [flags : Status, hasNetwork : Status]
    /\ network \in {"up", "down"}
    /\ posts \in Seq([code : Codes, dict : Dictionaries, heard : BOOLEAN, sent : BOOLEAN])
    /\ accepted \subseteq Codes
    /\ told \in Dictionaries

\* A code the player can show is one the server has stored: whatever the order in
\* which writes are answered and dictionaries stored, whatever a restart cuts off
\* and whichever tab's menu asked, no code gets into the dictionary before the
\* server has stored it, and none under another project.  (The server may have
\* overwritten its percentage since: a game has one document.)
CodesAreAccepted ==
    \A p \in Projects : codes[p] # NoCode => codes[p] \in accepted /\ codes[p].project = p

\* As long as the notifier runs, which is while the tab is open for the first time,
\* a network that has settled is what redeem comes to see, however often it has
\* changed before and although the reports come late.
StatusFollows ==
    \A s \in {"up", "down"} :
        <>[](notifier /\ network = s) => <>[](hasNetwork = s)

\* "Congratulations, off to the museum": the code the player was last congratulated
\* on is the one the menu's "inspect" shows.
CodeIsKept == \A p \in Projects : told[p] # NoCode => codes[p] = told[p]
=============================================================================
