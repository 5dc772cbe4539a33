---------------------------- MODULE ProjectList -----------------------------
(***************************************************************************)
(* The project list: ProjectViewController and its ProjectDataSource, the  *)
(* Reachability notifier that enables it, the question that starts a       *)
(* project, and the user defaults that tell MainTabBarController whether   *)
(* to download.                                                            *)
(*                                                                         *)
(* A list is built at the first launch and whenever the player asks for it *)
(* on the location tab.  No list is ever released (its callbacks hold on   *)
(* to it), but its coordinator is: the scene delegate keeps the latest     *)
(* one only.  The question travels through the message queue, where it may *)
(* wait behind the red "network not reachable" line and outlive its list.  *)
(*                                                                         *)
(* A project identifier stands for the pair of ProjectID and               *)
(* OrganisationID, which are always written together.                      *)
(***************************************************************************)
EXTENDS Naturals, SwiftMessages

CONSTANTS
    Organisations,   \* the organisations of the server
    Projects,        \* the projects of all organisations
    NoProject,       \* ProjectID before the first choice
    ProjectsOf,      \* ProjectsOf[o]: the projects of organisation o
    Malformed,       \* projects whose document lacks a field: their id is nil
    MaxLists,        \* bound: how many lists one process builds
    MaxReports       \* bound: reports of the network waiting on the main queue

ASSUME ProjectListAssumption ==
    /\ NoProject \notin Projects
    /\ ProjectsOf \in [Organisations -> SUBSET Projects]
    /\ Malformed \subseteq Projects
    /\ MaxLists \in Nat \ {0}
    /\ MaxReports \in Nat

VARIABLES
    projectID,       \* user defaults: ProjectID
    downloadNeeded,  \* user defaults: DownloadNeeded
    downloaded,      \* the project the latest Saver was started for
    orphaned,        \* whether a list without coordinator chose a project since
    screen,          \* what the player looks at
    list,            \* the number of the latest list of this process
    enable,          \* its enableProjectStart
    notifier,        \* whether its Reachability notifier runs
    flags,           \* the connection its Reachability saw last
    reports,         \* how many of its reports wait on the main queue
    fetching,        \* whether its request for the organisations is pending
    requests,        \* organisations whose projects it has asked for
    listed,          \* the projects in its snapshot
    alert,           \* whether "check your connection" covers it
    network,         \* the connection the device has
    dismissed        \* whether the player swiped the red line away since it came up

defaultsVars == <<projectID, downloadNeeded, downloaded, orphaned>>
listVars     == <<fetching, requests, listed>>
reachVars    == <<notifier, flags, reports>>
vars == <<defaultsVars, listVars, reachVars, messageVars, screen, list, enable, alert, network,
          dismissed>>

Connections == {"wifi", "cellular", "none"}
Screens == {"projects", "away", "tabs", "closed"}

\* Mutant: the question names the project.
StartMessageNamed(p) == [id |-> <<"start", p>>, kind |-> "start", project |-> p, list |-> list]

\* "Kezdhetjük a játékot?": the text does not name the project.
StartMessage(p) == [id |-> <<"start">>, kind |-> "start", project |-> p, list |-> list]

\* "A hálózat nem elérhető": the red status line, up for ever.
StatusMessage == [id |-> <<"status">>, kind |-> "status"]

\* The question's blurred window takes every touch, the alert those on the list.
Touchable == ~(presented /\ current.kind = "start") /\ ~alert

\* Navigation takes a touch of its own, later than the blocks queued before it.
Settled == Touchable /\ (current # None => presented) /\ reports = 0

-----------------------------------------------------------------------------
(* Reachability's callbacks *)

\* errorHandling, showProjectLoadError: an alert before the first choice only; its
\* button does nothing.
ErrorHandling == alert' = (alert \/ projectID = NoProject)

WhenUnreachable ==
    /\ enable' = FALSE
    /\ Show(StatusMessage)
    /\ dismissed' = IF Duplicate(StatusMessage) THEN dismissed ELSE FALSE
    /\ ErrorHandling

\* Mutant: the list stays as it was.
WhenReachableHidesOnly ==
    /\ enable' = enable
    /\ HideMessage
    /\ UNCHANGED <<alert, dismissed>>

\* Whatever message is the current one goes, a question too.
WhenReachable ==
    /\ enable' = TRUE
    /\ HideMessage
    /\ UNCHANGED <<alert, dismissed>>

Notify(connection) == IF connection = "none" THEN WhenUnreachable ELSE WhenReachable

\* The device's connection changes; a running notifier queues a report.
NetworkChanges(c) ==
    /\ screen # "closed"
    /\ c # network
    /\ network' = c
    /\ IF notifier
       THEN /\ reports < MaxReports
            /\ reports' = reports + 1
            /\ flags' = c
       ELSE UNCHANGED <<reports, flags>>
    /\ UNCHANGED <<defaultsVars, listVars, messageVars, screen, list, enable, notifier, alert,
                   dismissed>>

\* A queued report runs, even after stopNotifier; it reads the flags as they are now.
Report ==
    /\ reports > 0
    /\ reports' = reports - 1
    /\ Notify(flags)
    /\ UNCHANGED <<defaultsVars, listVars, screen, list, notifier, flags, network>>

-----------------------------------------------------------------------------
(* MainTabBarController *)

\* checkIfDownloadNeeded, where needed is what the defaults hold for project p.
CheckIfDownloadNeeded(p, needed) ==
    /\ downloadNeeded' = FALSE
    /\ downloaded' = IF needed THEN p ELSE downloaded
    /\ orphaned' = (orphaned /\ ~needed)

-----------------------------------------------------------------------------
(* The list *)

\* viewDidLoad of list n, and the notifier's first report: it is queued in
\* viewDidLoad, before any touch of the list and any reply to it.
ViewDidLoad(n) ==
    /\ list' = n
    /\ screen' = "projects"
    /\ notifier' = TRUE
    /\ flags' = network
    /\ reports' = 0
    /\ fetching' = TRUE
    /\ requests' = {}
    /\ listed' = {}
    /\ Notify(network)

\* The location tab's button: openProjectList replaces the coordinator.
OpenProjectList ==
    /\ screen = "tabs"
    /\ Settled
    /\ list < MaxLists
    /\ ViewDidLoad(list + 1)
    /\ UNCHANGED <<defaultsVars, network>>

\* viewDidDisappear, to another tab or back to the location list.
Leave(to) ==
    /\ screen = "projects"
    /\ projectID # NoProject
    /\ Settled
    /\ screen' = to
    /\ notifier' = FALSE
    /\ UNCHANGED <<defaultsVars, listVars, messageVars, list, enable, flags, reports, alert,
                   network, dismissed>>

\* Back to the tab of the list: nothing starts the notifier again.
ReturnToList ==
    /\ screen = "away"
    /\ Settled
    /\ screen' = "projects"
    /\ UNCHANGED <<defaultsVars, listVars, reachVars, messageVars, list, enable, alert, network,
                   dismissed>>

\* getOrganisations: the documents of the server, or an empty cache.
OrganisationsReply ==
    /\ fetching
    /\ fetching' = FALSE
    /\ requests' \in {Organisations, {}}
    /\ UNCHANGED <<defaultsVars, reachVars, messageVars, screen, list, listed, enable, alert,
                   network, dismissed>>

\* getProjects: each organisation's reply replaces what is listed.
ProjectsReply(o) ==
    /\ o \in requests
    /\ requests' = requests \ {o}
    /\ listed' \in {ProjectsOf[o], {}}
    /\ UNCHANGED <<defaultsVars, reachVars, messageVars, screen, list, fetching, enable, alert,
                   network, dismissed>>

\* Either request fails and posts firebaseDownloadError.
RequestFails ==
    /\ \/ /\ fetching
          /\ fetching' = FALSE
          /\ UNCHANGED requests
       \/ /\ \E o \in requests : requests' = requests \ {o}
          /\ UNCHANGED fetching
    /\ ErrorHandling
    /\ UNCHANGED <<defaultsVars, reachVars, messageVars, screen, list, listed, enable, network,
                   dismissed>>

DismissAlert ==
    /\ alert
    /\ alert' = FALSE
    /\ UNCHANGED <<defaultsVars, listVars, reachVars, messageVars, screen, list, enable, network,
                   dismissed>>

\* Mutant: a project without id is started like any other.
DidSelectItemAny(p) ==
    /\ screen = "projects"
    /\ Touchable
    /\ p \in listed
    /\ enable
    /\ Show(StartMessage(p))
    /\ UNCHANGED <<defaultsVars, listVars, reachVars, screen, list, enable, alert, network,
                   dismissed>>

\* didSelectItemAt and createPopup: a malformed project has no id.
DidSelectItem(p) ==
    /\ screen = "projects"
    /\ Touchable
    /\ p \in listed \ Malformed
    /\ enable
    /\ Show(StartMessage(p))
    /\ UNCHANGED <<defaultsVars, listVars, reachVars, screen, list, enable, alert, network,
                   dismissed>>

-----------------------------------------------------------------------------
(* The question *)

\* Mutant: the identifiers are saved before they are compared.
DownloadNeededLate(p) == FALSE

\* createPopup: another project than the one chosen last is to be downloaded.
DownloadNeeded(p) == projectID # p

\* "Igen", on whatever screen the question has come up.  The list that asked it may
\* be an old one, whose coordinator is gone: it saves the defaults and opens nothing.
\* A new root view controller may or may not take an alert with it.
ButtonTapped ==
    /\ presented
    /\ current.kind = "start"
    /\ HideMessage
    /\ projectID' = current.project
    /\ notifier' = (notifier /\ current.list # list)
    /\ IF current.list = list
       THEN /\ CheckIfDownloadNeeded(current.project, DownloadNeeded(current.project))
            /\ screen' = "tabs"
            /\ alert' \in {alert, FALSE}
       ELSE /\ downloadNeeded' = DownloadNeeded(current.project)
            /\ orphaned' = (orphaned \/ DownloadNeeded(current.project))
            /\ UNCHANGED <<downloaded, screen, alert>>
    /\ UNCHANGED <<listVars, list, enable, flags, reports, network, dismissed>>

\* A tap beside the question, or a swipe over the red line.
Dismiss ==
    /\ presented
    /\ HideMessage
    /\ dismissed' = (dismissed \/ current.kind = "status")
    /\ UNCHANGED <<defaultsVars, listVars, reachVars, screen, list, enable, alert, network>>

\* The blocks of the message queue.
NextMessage ==
    /\ PresentCurrent \/ DequeueNext
    /\ UNCHANGED <<defaultsVars, listVars, reachVars, screen, list, enable, alert, network,
                   dismissed>>

-----------------------------------------------------------------------------
(* The process *)

Terminate ==
    /\ screen # "closed"
    /\ screen' = "closed"
    /\ LoseMessages
    /\ list' = 0
    /\ notifier' = FALSE
    /\ flags' = "none"
    /\ reports' = 0
    /\ fetching' = FALSE
    /\ requests' = {}
    /\ listed' = {}
    /\ enable' = FALSE
    /\ alert' = FALSE
    /\ dismissed' = FALSE
    /\ UNCHANGED <<defaultsVars, network>>

\* SceneDelegate: the tabs of the chosen project, or the first list.
Launch ==
    /\ screen = "closed"
    /\ IF projectID = NoProject
       THEN /\ ViewDidLoad(1)
            /\ UNCHANGED defaultsVars
       ELSE /\ screen' = "tabs"
            /\ CheckIfDownloadNeeded(projectID, downloadNeeded)
            /\ UNCHANGED <<projectID, listVars, reachVars, messageVars, list, enable, alert,
                           dismissed>>
    /\ UNCHANGED network

-----------------------------------------------------------------------------
Init ==
    /\ projectID = NoProject
    /\ downloadNeeded = FALSE
    /\ downloaded = NoProject
    /\ orphaned = FALSE
    /\ screen = "closed"
    /\ list = 0
    /\ notifier = FALSE
    /\ flags = "none"
    /\ reports = 0
    /\ fetching = FALSE
    /\ requests = {}
    /\ listed = {}
    /\ enable = FALSE
    /\ alert = FALSE
    /\ dismissed = FALSE
    /\ network \in Connections
    /\ NoMessages

Next ==
    \/ \E c \in Connections : NetworkChanges(c)
    \/ Report
    \/ OpenProjectList
    \/ \E to \in {"away", "tabs"} : Leave(to)
    \/ ReturnToList
    \/ OrganisationsReply
    \/ \E o \in Organisations : ProjectsReply(o)
    \/ RequestFails
    \/ DismissAlert
    \/ \E p \in Projects : DidSelectItem(p)
    \/ ButtonTapped
    \/ Dismiss
    \/ NextMessage
    \/ Terminate
    \/ Launch

Spec == Init /\ [][Next]_vars

-----------------------------------------------------------------------------
(* Properties *)

\* What may be stored as ProjectID: never the missing id of a malformed document.
Ids == (Projects \ Malformed) \cup {NoProject}

TypeOK ==
    /\ projectID \in Ids
    /\ downloadNeeded \in BOOLEAN
    /\ downloaded \in Ids
    /\ orphaned \in BOOLEAN
    /\ screen \in Screens
    /\ list \in 0..MaxLists
    /\ enable \in BOOLEAN
    /\ notifier \in BOOLEAN
    /\ flags \in Connections
    /\ reports \in 0..MaxReports
    /\ fetching \in BOOLEAN
    /\ requests \subseteq Organisations
    /\ listed \subseteq Projects
    /\ alert \in BOOLEAN
    /\ network \in Connections
    /\ dismissed \in BOOLEAN
    /\ presented \in BOOLEAN

\* createPopup never lets two questions wait, however fast the player taps and
\* whatever hides the first: once a project is started no forgotten question can
\* come up and start another.
OneQuestion ==
    /\ current.kind = "start" => \A i \in DOMAIN queue : queue[i].kind # "start"
    /\ \A i, j \in DOMAIN queue : queue[i].kind = "start" /\ queue[j].kind = "start" => i = j

\* DownloadNeeded and ProjectID are written in one place and read in another, in
\* this process or the next: when no download is needed the latest one was of the
\* chosen project, unless a list without coordinator made the choice.
ChoiceIsDownloaded == downloadNeeded \/ downloaded = projectID \/ orphaned

\* While the notifier of the list runs and has nothing to report, projects can be
\* started exactly when there is a network, and without one the red line is up or
\* waiting, unless the player has swiped it away.
ListFollowsNetwork ==
    notifier /\ reports = 0 =>
        /\ enable <=> network # "none"
        /\ network = "none" => dismissed \/ \E m \in Pending : m.kind = "status"
=============================================================================
