-------------------------- MODULE ProjectListProofs -------------------------
(***************************************************************************)
(* Proofs about the project list, for any organisations and projects, any  *)
(* number of lists and of reports waiting on the main queue.               *)
(***************************************************************************)
EXTENDS ProjectList, SequenceTheorems, TLAPS

\* The messages of the list: the question, from any list, and the red line.
Questions == [id : {<<"start">>}, kind : {"start"}, project : Projects \ Malformed,
              list : 0..MaxLists]
Messages == Questions \cup {StatusMessage}

QueueType ==
    /\ current \in Messages \cup {None}
    /\ queue \in Seq(Messages)

\* The defaults ask for a download only after a list without coordinator has chosen.
ChoiceInv ==
    /\ downloaded = projectID \/ orphaned
    /\ downloadNeeded => orphaned

\* A running notifier has seen the connection the device has.
Informed == notifier => flags = network

ListInv ==
    /\ TypeOK
    /\ QueueType
    /\ OneQuestion
    /\ ChoiceInv
    /\ Informed
    /\ ListFollowsNetwork

-----------------------------------------------------------------------------
(* The message queue *)

LEMMA MessageKinds ==
    /\ None \notin Messages
    /\ None.kind = "none"
    /\ \A m \in Messages : \/ m.kind = "start" /\ m.id = <<"start">> /\ m \in Questions
                           \/ m.kind = "status" /\ m.id = <<"status">> /\ m = StatusMessage
<1>1. None.kind = "none"
    BY DEF None
<1>2. \A m \in Questions : m.kind = "start" /\ m.id = <<"start">>
    BY DEF Questions
<1>3. StatusMessage.kind = "status" /\ StatusMessage.id = <<"status">>
    BY DEF StatusMessage
<1>4. "none" # "start" /\ "none" # "status"
    OBVIOUS
<1>5. None \notin Messages
    BY <1>1, <1>2, <1>3, <1>4 DEF Messages
<1> QED
    BY <1>1, <1>2, <1>3, <1>5 DEF Messages

LEMMA IdsDiffer == <<"start">> # <<"status">>
OBVIOUS

\* A sequence with a first element.
LEMMA HeadAndTail ==
    ASSUME NEW S, NEW s \in Seq(S), s # <<>>
    PROVE  /\ 1 \in DOMAIN s /\ Head(s) = s[1] /\ Head(s) \in S
           /\ Tail(s) \in Seq(S)
           /\ \A i \in DOMAIN Tail(s) : i + 1 \in DOMAIN s /\ Tail(s)[i] = s[i + 1] /\ i \in Nat \ {0}
           /\ \A i \in DOMAIN s : i = 1 \/ (i - 1 \in DOMAIN Tail(s) /\ Tail(s)[i - 1] = s[i])
BY EmptySeq, HeadTailProperties, ElementOfSeq

LEMMA AppendOne ==
    ASSUME NEW S, NEW s \in Seq(S), NEW m \in S
    PROVE  /\ Append(s, m) \in Seq(S) /\ Append(s, m) # <<>>
           /\ \A i \in DOMAIN s : i \in DOMAIN Append(s, m) /\ Append(s, m)[i] = s[i]
           /\ \A i \in DOMAIN Append(s, m) :
                  \/ i \in DOMAIN s /\ Append(s, m)[i] = s[i]
                  \/ i = Len(s) + 1 /\ Append(s, m)[i] = m
           /\ \E i \in DOMAIN Append(s, m) : Append(s, m)[i] = m
BY AppendProperties

\* Whatever waits in q is still pending after dequeueNext, and at most one question is.
LEMMA DequeueStep ==
    ASSUME QueueType, NEW q \in Seq(Messages), Dequeue(q),
           current.kind = "start" => \A i \in DOMAIN q : q[i].kind # "start",
           \A i, j \in DOMAIN q : q[i].kind = "start" /\ q[j].kind = "start" => i = j
    PROVE  /\ QueueType' /\ OneQuestion'
           /\ current = None \/ current \in Pending'
           /\ \A i \in DOMAIN q : q[i] \in Pending'
<1>1. CASE current = None /\ q # <<>>
    <2>1. current' = Head(q) /\ queue' = Tail(q)
        BY <1>1 DEF Dequeue
    <2>2. QueueType'
        <3>1. Head(q) \in Messages /\ Tail(q) \in Seq(Messages)
            BY <1>1, HeadAndTail
        <3> QED
            BY <2>1, <3>1 DEF QueueType
    <2>3. \A i \in DOMAIN q : q[i] \in Pending'
        <3>1. Head(q) = q[1]
            BY <1>1, HeadAndTail
        <3>2. \A i \in DOMAIN q : i = 1 \/ (i - 1 \in DOMAIN Tail(q) /\ Tail(q)[i - 1] = q[i])
            BY <1>1, HeadAndTail
        <3> QED
            BY <2>1, <3>1, <3>2 DEF Pending
    <2>4. \A i \in DOMAIN queue' : i + 1 \in DOMAIN q /\ queue'[i] = q[i + 1] /\ i \in Nat \ {0}
        BY <1>1, <2>1, HeadAndTail
    <2>5. 1 \in DOMAIN q /\ current' = q[1]
        BY <1>1, <2>1, HeadAndTail
    <2>6. current'.kind = "start" => \A i \in DOMAIN queue' : queue'[i].kind # "start"
        BY <2>4, <2>5
    <2>7. \A i, j \in DOMAIN queue' : queue'[i].kind = "start" /\ queue'[j].kind = "start" => i = j
        BY <2>4
    <2> QED
        BY <1>1, <2>2, <2>3, <2>6, <2>7 DEF OneQuestion
<1>2. CASE ~(current = None /\ q # <<>>)
    <2>1. current' = current /\ queue' = q
        BY <1>2 DEF Dequeue
    <2> QED
        BY <2>1 DEF QueueType, OneQuestion, Pending
<1> QED
    BY <1>1, <1>2

\* show: the message, or an equal one, is pending afterwards, and nothing is lost.
LEMMA ShowStep ==
    ASSUME QueueType, OneQuestion, NEW m \in Messages, Show(m)
    PROVE  /\ QueueType' /\ OneQuestion'
           /\ \A x \in Pending : x # None => x \in Pending'
           /\ \E x \in Pending' : x # None /\ x.id = m.id
<1>1. CASE Duplicate(m)
    <2>1. UNCHANGED <<current, queue>>
        BY <1>1 DEF Show
    <2>2. \E x \in Pending : x # None /\ x.id = m.id
        <3>1. \A i \in DOMAIN queue : queue[i] # None
            BY ElementOfSeq, MessageKinds DEF QueueType
        <3> QED
            BY <1>1, <3>1 DEF Duplicate, Pending
    <2> QED
        BY <2>1, <2>2 DEF QueueType, OneQuestion, Pending
<1>2. CASE ~Duplicate(m)
    <2> DEFINE q == Append(queue, m)
    <2>1. Dequeue(q)
        BY <1>2 DEF Show
    <2>2. q \in Seq(Messages)
        BY AppendOne DEF QueueType
    <2>3. \A i \in DOMAIN q : (i \in DOMAIN queue /\ q[i] = queue[i]) \/ (i = Len(queue) + 1 /\ q[i] = m)
        BY AppendOne DEF QueueType
    <2>4. /\ current # None => current.id # m.id
          /\ \A i \in DOMAIN queue : queue[i].id # m.id
        BY <1>2 DEF Duplicate
    <2>5. \A i \in DOMAIN queue : queue[i] \in Messages
        BY ElementOfSeq DEF QueueType
    <2>6. m.kind = "start" => /\ current.kind # "start"
                              /\ \A i \in DOMAIN queue : queue[i].kind # "start"
        BY <2>4, <2>5, MessageKinds DEF QueueType
    <2>7. current.kind = "start" => \A i \in DOMAIN q : q[i].kind # "start"
        BY <2>3, <2>6 DEF OneQuestion
    <2>8. \A i, j \in DOMAIN q : q[i].kind = "start" /\ q[j].kind = "start" => i = j
        BY <2>3, <2>6 DEF OneQuestion
    <2>9. /\ QueueType' /\ OneQuestion'
          /\ current = None \/ current \in Pending'
          /\ \A i \in DOMAIN q : q[i] \in Pending'
        BY <2>1, <2>2, <2>7, <2>8, DequeueStep
    <2>10. \A x \in Pending : x # None => x \in Pending'
        <3>1. \A i \in DOMAIN queue : i \in DOMAIN q /\ q[i] = queue[i]
            BY AppendOne DEF QueueType
        <3>2. \A i \in DOMAIN queue : queue[i] \in Pending'
            BY <2>9, <3>1
        <3> QED
            BY <2>9, <3>2 DEF Pending
    <2>11. m \in Pending' /\ m # None
        <3>1. \E i \in DOMAIN q : q[i] = m
            BY AppendOne DEF QueueType
        <3> QED
            BY <2>9, <3>1, MessageKinds
    <2> QED
        BY <2>9, <2>10, <2>11
<1> QED
    BY <1>1, <1>2

LEMMA HideStep ==
    ASSUME QueueType, OneQuestion, HideMessage
    PROVE  /\ QueueType' /\ OneQuestion'
           /\ \A x \in Pending : x # current => x \in Pending'
<1>1. current' = None /\ queue' = queue
    BY DEF HideMessage
<1>2. QueueType'
    BY <1>1 DEF QueueType
<1>3. current'.kind # "start"
    BY <1>1, MessageKinds
<1>4. OneQuestion'
    BY <1>1, <1>3 DEF OneQuestion
<1> QED
    BY <1>1, <1>2, <1>4 DEF Pending

-----------------------------------------------------------------------------
(* The reports of the network *)

\* What a report leaves behind: the list is enabled as it says, and without network
\* the red line is up or waiting, unless it was swiped away.
LEMMA NotifyStep ==
    ASSUME TypeOK, QueueType, OneQuestion, NEW c \in Connections, Notify(c)
    PROVE  /\ QueueType' /\ OneQuestion'
           /\ alert' \in BOOLEAN /\ dismissed' \in BOOLEAN /\ presented' \in BOOLEAN
           /\ enable' = (c # "none")
           /\ c = "none" => dismissed' \/ \E m \in Pending' : m.kind = "status"
<1>1. CASE c = "none"
    <2>1. /\ enable' = FALSE /\ Show(StatusMessage) /\ ErrorHandling
          /\ dismissed' = IF Duplicate(StatusMessage) THEN dismissed ELSE FALSE
        BY <1>1 DEF Notify, WhenUnreachable
    <2>2. StatusMessage \in Messages /\ StatusMessage.id = <<"status">>
        BY DEF Messages, StatusMessage
    <2>3. /\ QueueType' /\ OneQuestion'
          /\ \E x \in Pending' : x # None /\ x.id = <<"status">>
        BY <2>1, <2>2, ShowStep
    <2>4. \A x \in Pending' : x # None => x \in Messages
        <3>1. \A i \in DOMAIN queue' : queue'[i] \in Messages
            BY <2>3, ElementOfSeq DEF QueueType
        <3> QED
            BY <2>3, <3>1 DEF QueueType, Pending
    <2>5. \E x \in Pending' : x.kind = "status"
        BY <2>3, <2>4, MessageKinds, IdsDiffer
    <2>6. alert' \in BOOLEAN
        BY <2>1 DEF ErrorHandling
    <2>7. dismissed' \in BOOLEAN
        BY <2>1 DEF TypeOK
    <2>8. presented' \in BOOLEAN
        BY <2>1 DEF Show, TypeOK
    <2> QED
        BY <1>1, <2>1, <2>3, <2>5, <2>6, <2>7, <2>8
<1>2. CASE c # "none"
    <2>1. enable' = TRUE /\ HideMessage /\ UNCHANGED <<alert, dismissed>>
        BY <1>2 DEF Notify, WhenReachable
    <2>2. QueueType' /\ OneQuestion'
        BY <2>1, HideStep
    <2>3. alert' \in BOOLEAN /\ dismissed' \in BOOLEAN
        BY <2>1 DEF TypeOK
    <2>4. presented' \in BOOLEAN
        BY <2>1 DEF HideMessage
    <2> QED
        BY <1>2, <2>1, <2>2, <2>3, <2>4
<1> QED
    BY <1>1, <1>2

-----------------------------------------------------------------------------
(* The inductive invariant *)

LEMMA ListInvInit == Init => ListInv
<1> SUFFICES ASSUME Init PROVE ListInv
    OBVIOUS
<1>1. TypeOK
    <2>1. /\ downloadNeeded \in BOOLEAN /\ orphaned \in BOOLEAN /\ enable \in BOOLEAN
          /\ notifier \in BOOLEAN /\ fetching \in BOOLEAN /\ alert \in BOOLEAN
          /\ dismissed \in BOOLEAN /\ presented \in BOOLEAN
        BY DEF Init, NoMessages
    <2>2. projectID \in Ids /\ downloaded \in Ids /\ screen \in Screens
        BY DEF Init, Ids, Screens
    <2>3. list \in 0..MaxLists /\ reports \in 0..MaxReports
        BY ProjectListAssumption DEF Init
    <2>4. flags \in Connections /\ network \in Connections
        BY DEF Init, Connections
    <2>5. requests \subseteq Organisations /\ listed \subseteq Projects
        BY DEF Init
    <2> QED
        BY <2>1, <2>2, <2>3, <2>4, <2>5 DEF TypeOK
<1>2. current = None /\ queue = <<>>
    BY DEF Init, NoMessages
<1>3. QueueType
    <2>1. <<>> \in Seq(Messages)
        OBVIOUS
    <2> QED
        BY <1>2, <2>1 DEF QueueType
<1>4. OneQuestion
    <2>1. DOMAIN queue = {}
        BY <1>2
    <2> QED
        BY <2>1 DEF OneQuestion
<1>5. ChoiceInv
    BY DEF Init, ChoiceInv
<1>6. Informed /\ ListFollowsNetwork
    BY DEF Init, Informed, ListFollowsNetwork
<1> QED
    BY <1>1, <1>3, <1>4, <1>5, <1>6 DEF ListInv

\* viewDidLoad of a list.
LEMMA ViewDidLoadStep ==
    ASSUME ListInv, NEW n \in 0..MaxLists, ViewDidLoad(n), UNCHANGED <<defaultsVars, network>>
    PROVE  ListInv'
<1> USE DEF ListInv
<1>1. network \in Connections
    BY DEF TypeOK
<1>2. /\ QueueType' /\ OneQuestion'
      /\ alert' \in BOOLEAN /\ dismissed' \in BOOLEAN /\ presented' \in BOOLEAN
      /\ enable' = (network # "none")
      /\ network = "none" => dismissed' \/ \E m \in Pending' : m.kind = "status"
    BY <1>1, NotifyStep DEF ViewDidLoad
<1>3. TypeOK'
    <2>1. /\ downloadNeeded' \in BOOLEAN /\ orphaned' \in BOOLEAN
          /\ projectID' \in Ids /\ downloaded' \in Ids
        BY DEF TypeOK, Ids, defaultsVars
    <2>2. notifier' \in BOOLEAN /\ fetching' \in BOOLEAN
        BY DEF ViewDidLoad
    <2>3. /\ list' \in 0..MaxLists /\ reports' \in 0..MaxReports
          /\ screen' \in Screens
        BY ProjectListAssumption DEF ViewDidLoad, Screens
    <2>4. flags' \in Connections /\ network' \in Connections
        BY <1>1 DEF ViewDidLoad, Connections
    <2>5. requests' \subseteq Organisations /\ listed' \subseteq Projects
        BY DEF ViewDidLoad
    <2>6. enable' \in BOOLEAN
        BY <1>2
    <2> QED
        BY <1>2, <2>1, <2>2, <2>3, <2>4, <2>5, <2>6 DEF TypeOK, Ids
<1>4. ChoiceInv'
    BY DEF ChoiceInv, defaultsVars
<1>5. Informed'
    BY DEF ViewDidLoad, Informed
<1>6. ListFollowsNetwork'
    BY <1>2 DEF ListFollowsNetwork
<1> QED
    BY <1>2, <1>3, <1>4, <1>5, <1>6

\* Steps that leave messages, defaults, network and notifier alone.
LEMMA OnlyTheList ==
    ASSUME ListInv, TypeOK',
           UNCHANGED <<defaultsVars, messageVars, reachVars, enable, network, dismissed>>
    PROVE  ListInv'
<1> USE DEF ListInv, messageVars, defaultsVars, reachVars
<1>1. QueueType' /\ OneQuestion'
    BY DEF QueueType, OneQuestion
<1>2. ChoiceInv' /\ Informed'
    BY DEF ChoiceInv, Informed
<1>3. ListFollowsNetwork'
    BY DEF ListFollowsNetwork, Pending
<1> QED
    BY <1>1, <1>2, <1>3

\* Messages come and none of the red lines goes but by the player's hand.
LEMMA LineStays ==
    ASSUME ListInv, UNCHANGED <<reports, enable, network>>, notifier' => notifier,
           \A x \in Pending : x.kind = "status" => dismissed' \/ x \in Pending',
           dismissed => dismissed'
    PROVE  ListFollowsNetwork'
<1> SUFFICES ASSUME notifier', reports' = 0
             PROVE  /\ enable' <=> network' # "none"
                    /\ network' = "none" => dismissed' \/ \E m \in Pending' : m.kind = "status"
    BY DEF ListFollowsNetwork
<1>1. /\ enable <=> network # "none"
      /\ network = "none" => dismissed \/ \E m \in Pending : m.kind = "status"
    BY DEF ListInv, ListFollowsNetwork
<1> QED
    BY <1>1

LEMMA ListInvStep == ListInv /\ [Next]_vars => ListInv'
<1> SUFFICES ASSUME ListInv, [Next]_vars PROVE ListInv'
    OBVIOUS
<1> USE DEF ListInv
<1>1. ASSUME NEW c \in Connections, NetworkChanges(c) PROVE ListInv'
    <2>1. /\ UNCHANGED <<defaultsVars, listVars, messageVars, screen, list, enable, notifier, alert,
                         dismissed>>
          /\ network' = c
          /\ IF notifier THEN reports < MaxReports /\ reports' = reports + 1 /\ flags' = c
                         ELSE UNCHANGED <<reports, flags>>
        BY <1>1 DEF NetworkChanges
    <2>2. reports' \in 0..MaxReports /\ (notifier => reports' # 0) /\ flags' \in Connections
        BY <2>1, ProjectListAssumption DEF TypeOK
    <2>3. TypeOK'
        BY <2>1, <2>2 DEF TypeOK, defaultsVars, listVars, messageVars, Ids, Connections
    <2>4. QueueType' /\ OneQuestion' /\ ChoiceInv'
        BY <2>1 DEF QueueType, OneQuestion, ChoiceInv, messageVars, defaultsVars
    <2>5. Informed'
        BY <2>1 DEF Informed
    <2>6. ListFollowsNetwork'
        BY <2>1, <2>2 DEF ListFollowsNetwork
    <2> QED
        BY <2>3, <2>4, <2>5, <2>6
<1>2. CASE Report
    <2>1. /\ reports > 0 /\ reports' = reports - 1 /\ Notify(flags)
          /\ UNCHANGED <<defaultsVars, listVars, screen, list, notifier, flags, network>>
        BY <1>2 DEF Report
    <2>2. flags \in Connections
        BY DEF TypeOK
    <2>3. /\ QueueType' /\ OneQuestion'
          /\ alert' \in BOOLEAN /\ dismissed' \in BOOLEAN /\ presented' \in BOOLEAN
          /\ enable' = (flags # "none")
          /\ flags = "none" => dismissed' \/ \E m \in Pending' : m.kind = "status"
        BY <2>1, <2>2, NotifyStep
    <2>4. reports' \in 0..MaxReports
        BY <2>1, ProjectListAssumption DEF TypeOK
    <2>5. enable' \in BOOLEAN
        BY <2>3
    <2>6. TypeOK'
        BY <2>1, <2>3, <2>4, <2>5 DEF TypeOK, defaultsVars, listVars, Ids, Connections
    <2>7. ChoiceInv' /\ Informed'
        BY <2>1 DEF ChoiceInv, Informed, defaultsVars
    <2>8. ListFollowsNetwork'
        BY <2>1, <2>3 DEF ListFollowsNetwork, Informed
    <2> QED
        BY <2>3, <2>6, <2>7, <2>8
<1>3. CASE OpenProjectList
    <2>1. list + 1 \in 0..MaxLists
        BY <1>3, ProjectListAssumption DEF OpenProjectList, TypeOK
    <2> QED
        BY <1>3, <2>1, ViewDidLoadStep DEF OpenProjectList
<1>4. ASSUME NEW to \in {"away", "tabs"}, Leave(to) PROVE ListInv'
    <2>1. /\ screen' = to /\ notifier' = FALSE
          /\ UNCHANGED <<defaultsVars, listVars, messageVars, list, enable, flags, reports, alert,
                         network, dismissed>>
        BY <1>4 DEF Leave
    <2>2. TypeOK'
        <3>1. notifier' \in BOOLEAN /\ screen' \in Screens
            BY <2>1 DEF Screens
        <3> QED
            BY <2>1, <3>1 DEF TypeOK, defaultsVars, listVars, messageVars, Ids, Connections
    <2>3. QueueType' /\ OneQuestion' /\ ChoiceInv'
        BY <2>1 DEF QueueType, OneQuestion, ChoiceInv, messageVars, defaultsVars
    <2>4. Informed' /\ ListFollowsNetwork'
        BY <2>1 DEF Informed, ListFollowsNetwork
    <2> QED
        BY <2>2, <2>3, <2>4
<1>5. CASE ReturnToList
    <2>1. TypeOK'
        BY <1>5 DEF ReturnToList, TypeOK, defaultsVars, listVars, reachVars, messageVars, Ids,
                    Connections, Screens
    <2> QED
        BY <1>5, <2>1, OnlyTheList DEF ReturnToList
<1>6. CASE OrganisationsReply
    <2>1. requests' \subseteq Organisations /\ fetching' \in BOOLEAN
        BY <1>6 DEF OrganisationsReply
    <2>2. TypeOK'
        BY <1>6, <2>1 DEF OrganisationsReply, TypeOK, defaultsVars, reachVars, messageVars, Ids,
                          Connections
    <2> QED
        BY <1>6, <2>2, OnlyTheList DEF OrganisationsReply
<1>7. ASSUME NEW o \in Organisations, ProjectsReply(o) PROVE ListInv'
    <2>1. requests' \subseteq Organisations /\ listed' \subseteq Projects
        BY <1>7, ProjectListAssumption DEF ProjectsReply, TypeOK
    <2>2. TypeOK'
        BY <1>7, <2>1 DEF ProjectsReply, TypeOK, defaultsVars, reachVars, messageVars, Ids,
                          Connections
    <2> QED
        BY <1>7, <2>2, OnlyTheList DEF ProjectsReply
<1>8. CASE RequestFails
    <2>1. requests' \subseteq Organisations
        BY <1>8 DEF RequestFails, TypeOK
    <2>2. fetching' \in BOOLEAN
        BY <1>8 DEF RequestFails, TypeOK
    <2>3. alert' \in BOOLEAN
        BY <1>8 DEF RequestFails, ErrorHandling
    <2>4. UNCHANGED <<defaultsVars, reachVars, messageVars, screen, list, listed, enable, network,
                      dismissed>>
        BY <1>8 DEF RequestFails
    <2>5. TypeOK'
        BY <2>1, <2>2, <2>3, <2>4 DEF TypeOK, defaultsVars, reachVars, messageVars, Ids, Connections
    <2> QED
        BY <2>4, <2>5, OnlyTheList
<1>9. CASE DismissAlert
    <2>1. TypeOK'
        BY <1>9 DEF DismissAlert, TypeOK, defaultsVars, listVars, reachVars, messageVars, Ids,
                    Connections
    <2> QED
        BY <1>9, <2>1, OnlyTheList DEF DismissAlert
<1>10. ASSUME NEW p \in Projects, DidSelectItem(p) PROVE ListInv'
    <2>1. /\ p \in Projects \ Malformed /\ Show(StartMessage(p))
          /\ UNCHANGED <<defaultsVars, listVars, reachVars, screen, list, enable, alert, network,
                         dismissed>>
        BY <1>10 DEF DidSelectItem, TypeOK
    <2>2. StartMessage(p) \in Messages
        BY <2>1 DEF StartMessage, Messages, Questions, TypeOK
    <2>3. /\ QueueType' /\ OneQuestion'
          /\ \A x \in Pending : x # None => x \in Pending'
        BY <2>1, <2>2, ShowStep
    <2>4. TypeOK'
        BY <2>1 DEF Show, TypeOK, defaultsVars, listVars, reachVars, Ids, Connections
    <2>5. ChoiceInv' /\ Informed'
        BY <2>1 DEF ChoiceInv, Informed, defaultsVars, reachVars
    <2>6. ListFollowsNetwork'
        BY <2>1, <2>3, MessageKinds, LineStays DEF reachVars
    <2> QED
        BY <2>3, <2>4, <2>5, <2>6
<1>11. CASE ButtonTapped
    <2>1. /\ current.kind = "start" /\ HideMessage
          /\ projectID' = current.project
          /\ notifier' = (notifier /\ current.list # list)
          /\ UNCHANGED <<listVars, list, enable, flags, reports, network, dismissed>>
        BY <1>11 DEF ButtonTapped
    <2>2. current \in Questions /\ current.project \in Ids
        <3>1. current \in Questions
            BY <2>1, MessageKinds DEF QueueType
        <3> QED
            BY <3>1 DEF Questions, Ids
    <2>3. /\ QueueType' /\ OneQuestion'
          /\ \A x \in Pending : x # current => x \in Pending'
        BY <2>1, HideStep
    <2>4. /\ downloadNeeded' \in BOOLEAN /\ orphaned' \in BOOLEAN /\ alert' \in BOOLEAN
          /\ downloaded' \in Ids /\ screen' \in Screens
          /\ ChoiceInv'
        <3>1. CASE current.list = list
            <4>1. /\ downloadNeeded' = FALSE
                  /\ downloaded' = IF DownloadNeeded(current.project) THEN current.project
                                                                      ELSE downloaded
                  /\ orphaned' = (orphaned /\ ~DownloadNeeded(current.project))
                  /\ screen' = "tabs" /\ alert' \in {alert, FALSE}
                BY <1>11, <3>1 DEF ButtonTapped, CheckIfDownloadNeeded
            <4>2. /\ downloadNeeded' \in BOOLEAN /\ orphaned' \in BOOLEAN /\ alert' \in BOOLEAN
                BY <4>1 DEF TypeOK
            <4>3. downloaded' \in Ids /\ screen' \in Screens
                BY <2>2, <4>1 DEF TypeOK, Screens
            <4>4. downloaded' = projectID' \/ orphaned'
                BY <2>1, <4>1 DEF ChoiceInv, DownloadNeeded
            <4> QED
                BY <4>1, <4>2, <4>3, <4>4 DEF ChoiceInv
        <3>2. CASE current.list # list
            <4>1. /\ downloadNeeded' = DownloadNeeded(current.project)
                  /\ orphaned' = (orphaned \/ DownloadNeeded(current.project))
                  /\ UNCHANGED <<downloaded, screen, alert>>
                BY <1>11, <3>2 DEF ButtonTapped
            <4>2. downloadNeeded' \in BOOLEAN /\ orphaned' \in BOOLEAN
                BY <4>1 DEF DownloadNeeded
            <4>3. alert' \in BOOLEAN /\ downloaded' \in Ids /\ screen' \in Screens
                BY <4>1 DEF TypeOK
            <4>4. downloaded' = projectID' \/ orphaned'
                BY <2>1, <4>1 DEF ChoiceInv, DownloadNeeded
            <4>5. downloadNeeded' => orphaned'
                BY <4>1
            <4> QED
                BY <4>2, <4>3, <4>4, <4>5 DEF ChoiceInv
        <3> QED
            BY <3>1, <3>2
    <2>5. notifier' \in BOOLEAN /\ presented' \in BOOLEAN
        BY <2>1 DEF HideMessage
    <2>6. projectID' \in Ids
        BY <2>1, <2>2
    <2>7. TypeOK'
        BY <2>1, <2>4, <2>5, <2>6 DEF TypeOK, listVars, Connections
    <2>8. Informed'
        BY <2>1 DEF Informed
    <2>9. ListFollowsNetwork'
        <3>1. \A x \in Pending : x.kind = "status" => x \in Pending'
            BY <2>1, <2>3
        <3> QED
            BY <2>1, <3>1, LineStays
    <2> QED
        BY <2>3, <2>4, <2>7, <2>8, <2>9
<1>12. CASE Dismiss
    <2>1. /\ HideMessage /\ dismissed' = (dismissed \/ current.kind = "status")
          /\ UNCHANGED <<defaultsVars, listVars, reachVars, screen, list, enable, alert, network>>
        BY <1>12 DEF Dismiss
    <2>2. /\ QueueType' /\ OneQuestion'
          /\ \A x \in Pending : x # current => x \in Pending'
        BY <2>1, HideStep
    <2>3. dismissed' \in BOOLEAN /\ presented' \in BOOLEAN
        BY <2>1 DEF HideMessage, TypeOK
    <2>4. TypeOK'
        BY <2>1, <2>3 DEF TypeOK, defaultsVars, listVars, reachVars, Ids, Connections
    <2>5. ChoiceInv' /\ Informed'
        BY <2>1 DEF ChoiceInv, Informed, defaultsVars, reachVars
    <2>6. ListFollowsNetwork'
        <3>1. \A x \in Pending : x.kind = "status" => dismissed' \/ x \in Pending'
            BY <2>1, <2>2
        <3> QED
            BY <2>1, <3>1, LineStays DEF reachVars
    <2> QED
        BY <2>2, <2>4, <2>5, <2>6
<1>13. CASE NextMessage
    <2>1. UNCHANGED <<defaultsVars, listVars, reachVars, screen, list, enable, alert, network,
                      dismissed>>
        BY <1>13 DEF NextMessage
    <2>2. /\ QueueType' /\ OneQuestion' /\ presented' \in BOOLEAN
          /\ \A x \in Pending : x # None => x \in Pending'
        <3>1. CASE PresentCurrent
            <4>1. UNCHANGED <<current, queue>> /\ presented' = TRUE
                BY <3>1 DEF PresentCurrent
            <4> QED
                BY <4>1 DEF QueueType, OneQuestion, Pending
        <3>2. CASE DequeueNext
            <4>1. current = None /\ Dequeue(queue) /\ UNCHANGED presented
                BY <3>2 DEF DequeueNext
            <4>2. /\ QueueType' /\ OneQuestion'
                  /\ \A i \in DOMAIN queue : queue[i] \in Pending'
                BY <4>1, DequeueStep DEF QueueType, OneQuestion
            <4>3. \A x \in Pending : x # None => x \in Pending'
                BY <4>1, <4>2 DEF Pending
            <4>4. presented' \in BOOLEAN
                BY <4>1 DEF TypeOK
            <4> QED
                BY <4>2, <4>3, <4>4
        <3> QED
            BY <1>13, <3>1, <3>2 DEF NextMessage
    <2>3. TypeOK'
        BY <2>1, <2>2 DEF TypeOK, defaultsVars, listVars, reachVars, Ids, Connections
    <2>4. ChoiceInv' /\ Informed'
        BY <2>1 DEF ChoiceInv, Informed, defaultsVars, reachVars
    <2>5. ListFollowsNetwork'
        BY <2>1, <2>2, MessageKinds, LineStays DEF reachVars
    <2> QED
        BY <2>2, <2>3, <2>4, <2>5
<1>14. CASE Terminate
    <2>1. /\ current' = None /\ presented' = FALSE /\ queue' = <<>>
        BY <1>14 DEF Terminate, LoseMessages
    <2>2. /\ screen' = "closed" /\ list' = 0 /\ flags' = "none" /\ reports' = 0
          /\ requests' = {} /\ listed' = {}
          /\ UNCHANGED <<defaultsVars, network>>
        BY <1>14 DEF Terminate
    <2>3. /\ notifier' = FALSE /\ fetching' = FALSE /\ enable' = FALSE
          /\ alert' = FALSE /\ dismissed' = FALSE
        BY <1>14 DEF Terminate
    <2>4. list' \in 0..MaxLists /\ reports' \in 0..MaxReports
        BY <2>2, ProjectListAssumption
    <2>5. /\ flags' \in Connections /\ screen' \in Screens
          /\ requests' \subseteq Organisations /\ listed' \subseteq Projects
        BY <2>2 DEF Connections, Screens
    <2>6. /\ notifier' \in BOOLEAN /\ fetching' \in BOOLEAN /\ enable' \in BOOLEAN
          /\ alert' \in BOOLEAN /\ dismissed' \in BOOLEAN /\ presented' \in BOOLEAN
        BY <2>1, <2>3
    <2>7. TypeOK'
        BY <2>2, <2>4, <2>5, <2>6 DEF TypeOK, defaultsVars, Ids, Connections
    <2>8. QueueType' /\ OneQuestion'
        <3>1. <<>> \in Seq(Messages)
            OBVIOUS
        <3>2. DOMAIN queue' = {}
            BY <2>1
        <3> QED
            BY <2>1, <3>1, <3>2 DEF QueueType, OneQuestion
    <2>9. ChoiceInv'
        BY <2>2 DEF ChoiceInv, defaultsVars
    <2>10. Informed' /\ ListFollowsNetwork'
        BY <2>3 DEF Informed, ListFollowsNetwork
    <2> QED
        BY <2>7, <2>8, <2>9, <2>10
<1>15. CASE Launch
    <2>1. CASE projectID = NoProject
        <3>1. ViewDidLoad(1) /\ UNCHANGED <<defaultsVars, network>>
            BY <1>15, <2>1 DEF Launch
        <3>2. 1 \in 0..MaxLists
            BY ProjectListAssumption
        <3> QED
            BY <3>1, <3>2, ViewDidLoadStep
    <2>2. CASE projectID # NoProject
        <3>1. /\ screen' = "tabs" /\ downloadNeeded' = FALSE
              /\ downloaded' = IF downloadNeeded THEN projectID ELSE downloaded
              /\ orphaned' = (orphaned /\ ~downloadNeeded)
              /\ UNCHANGED <<projectID, listVars, reachVars, messageVars, list, enable, alert,
                             dismissed, network>>
            BY <1>15, <2>2 DEF Launch, CheckIfDownloadNeeded
        <3>2. downloadNeeded' \in BOOLEAN /\ orphaned' \in BOOLEAN
            BY <3>1
        <3>3. downloaded' \in Ids /\ screen' \in Screens
            BY <3>1 DEF TypeOK, Screens
        <3>4. TypeOK'
            BY <3>1, <3>2, <3>3 DEF TypeOK, listVars, reachVars, messageVars, Ids, Connections
        <3>5. QueueType' /\ OneQuestion' /\ Informed'
            BY <3>1 DEF QueueType, OneQuestion, Informed, messageVars, reachVars
        <3>6. ChoiceInv'
            BY <3>1 DEF ChoiceInv
        <3>7. ListFollowsNetwork'
            BY <3>1, LineStays DEF Pending, messageVars, reachVars
        <3> QED
            BY <3>4, <3>5, <3>6, <3>7
    <2> QED
        BY <2>1, <2>2
<1>16. CASE UNCHANGED vars
    <2>1. TypeOK'
        BY <1>16 DEF vars, TypeOK, defaultsVars, listVars, reachVars, messageVars, Ids, Connections
    <2> QED
        BY <1>16, <2>1, OnlyTheList DEF vars
<1> QED
    BY <1>1, <1>2, <1>3, <1>4, <1>5, <1>6, <1>7, <1>8, <1>9, <1>10, <1>11, <1>12, <1>13, <1>14,
       <1>15, <1>16 DEF Next

\* The invariant of the project list.
THEOREM ListInvariant == Spec => []ListInv
BY ListInvInit, ListInvStep, PTL DEF Spec

\* The types of the list, of its Reachability and of the user defaults: ProjectID is
\* never the missing id of a malformed document.
THEOREM ListTypeCorrect == Spec => []TypeOK
<1>1. ListInv => TypeOK
    BY DEF ListInv
<1> QED
    BY <1>1, ListInvariant, PTL

\* createPopup never has two questions waiting in SwiftMessages' queue.
THEOREM QuestionAskedOnce == Spec => []OneQuestion
<1>1. ListInv => OneQuestion
    BY DEF ListInv
<1> QED
    BY <1>1, ListInvariant, PTL

\* Without an orphaned list in between, the project in the user defaults is the one
\* whose download checkIfDownloadNeeded has started, restarts included.
THEOREM ChosenIsDownloaded == Spec => []ChoiceIsDownloaded
<1>1. ListInv => ChoiceIsDownloaded
    BY DEF ListInv, ChoiceInv, ChoiceIsDownloaded
<1> QED
    BY <1>1, ListInvariant, PTL

\* whenReachable and whenUnreachable keep enableProjectStart and the red line in step
\* with the network while the notifier runs.
THEOREM ListAlwaysFollows == Spec => []ListFollowsNetwork
<1>1. ListInv => ListFollowsNetwork
    BY DEF ListInv
<1> QED
    BY <1>1, ListInvariant, PTL
=============================================================================
