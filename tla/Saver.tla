------------------------------- MODULE Saver --------------------------------
(***************************************************************************)
(* The download of a project: Saver, the FirebaseService and FileDownloader*)
(* it drives, the Core Data context and store it fills, the error alert of *)
(* the location list with its retry, and the choice of a project.          *)
(*                                                                         *)
(* Two threads take part.  The main queue runs Firestore replies, the      *)
(* completions of image downloads, the player's taps and the alert; it     *)
(* runs one block at a time.  URLSession's queue finishes image downloads, *)
(* writes the files and calls postError itself when one fails.             *)
(*                                                                         *)
(* No request is ever cancelled: the replies to a Saver that was replaced, *)
(* by a retry or by the choice of another project, still arrive.           *)
(***************************************************************************)
EXTENDS Naturals, FiniteSets

CONSTANTS
    Projects,       \* the projects of the server
    Organisations,  \* its organisations, each the set of its projects
    CoinsOf,        \* CoinsOf[p]: the names of the coins of p
    LocationsOf,    \* LocationsOf[p]: the names of the locations of p
    Reconstructed,  \* locations that have reconstruction images
    Malformed,      \* locations whose document lacks a field: create leaves them blank
    DiskMayFail,    \* whether moving a downloaded file into place may fail
    NoProject,      \* no ProjectID in the user defaults
    MaxSavers,      \* bound: how many downloads are started
    MaxVisits       \* bound: how often the player leaves the location list
                    \* (a project list is numbered by the visits before it)

ASSUME SaverAssumption ==
    /\ NoProject \notin Projects
    /\ Organisations \subseteq SUBSET Projects
    /\ DiskMayFail \in BOOLEAN
    /\ MaxSavers \in Nat
    /\ MaxVisits \in Nat

VARIABLES
    projectID,       \* user defaults: ProjectID
    saver,           \* the Savers started so far, by number
    started,         \* how many: the latest Saver is saver[started]
    running,         \* whether the latest Saver lives in this process
    late,            \* who else adds objects now: earlier Savers, and 0 for a project list
    inflight,        \* requests without an answer yet
    done,            \* images written to disk, their completion waits for the main queue
    block,           \* the loop the main queue is in the middle of
    background,      \* what URLSession's queue is doing
    cleanup,         \* whether the retry's clean-up block waits for the main queue
    context,         \* the managed object context, as a set of facts
    store,           \* the persistent store, as a set of facts
    files,           \* the files of the documents directory
    withheld,        \* objects that replies without error have left out
    list,            \* the number of the latest project list
    fetching,        \* project lists whose organisations were asked for
    requests,        \* project lists with the organisations whose projects they asked for
    listed,          \* the projects in the list on screen
    screen,          \* what is on screen: "projects", "locations" or "elsewhere"
    visits,          \* how often the player left the location list
    errorPresented,  \* LocationViewController.errorPresented
    alert            \* whether the error alert is on screen

saverVars == <<saver, started, running, late>>
listVars  == <<list, fetching, requests, listed>>
netVars   == <<inflight, done>>
dataVars  == <<context, store, files>>
uiVars    == <<screen, visits, errorPresented, alert>>
vars == <<projectID, saverVars, netVars, block, background, cleanup, withheld, dataVars, listVars,
          uiVars>>

-----------------------------------------------------------------------------
(* Managed objects.  What the context knows of an object is a set of facts:  *)
(* it exists, it is linked to its parent, it names the file of an image.     *)

Object(kind, id, from) == [kind |-> kind, id |-> id, from |-> from]
Fact(o, what) == [obj |-> o, what |-> what]
Exists(o) == Fact(o, "exists")

ProjectObject(k) == Object("project", saver[k].project, k)
OrganisationObject(k) == Object("organisation", saver[k].project, k)
CoinObjects(k) == {Object("coin", c, k) : c \in CoinsOf[saver[k].project]}
LocationObjects(k) == {Object("location", l, k) : l \in LocationsOf[saver[k].project]}
QuizObject(o) == Object("task", o.id, o.from)

Insert(S) == {Exists(o) : o \in S}

\* Setting a property of an object whose row was deleted has no effect.
Set(o, what, ctx) == IF Exists(o) \in ctx THEN {Fact(o, what)} ELSE {}

\* Mutant: save goes ahead without a URL.
ImagesOfUnguarded(o) == IF o.kind = "location" THEN {"image", "none"} ELSE {"image"}

\* The images an object has a URL for; a missing URL makes save return at once.
ImagesOf(o) ==
    CASE o.kind \in {"coin", "organisation"} -> {"image"}
      [] o.kind = "location" /\ o.id \in Reconstructed ->
             {"image", "reconstruction", "background"}
      [] o.kind = "location" /\ o.id \notin Reconstructed -> {"image"}
      [] OTHER -> {}

\* Files are named after the object's name: a coin and a location may collide.
FileName(o, image) == <<o.id, image>>

Request(kind, o, image) == [kind |-> kind, obj |-> o, image |-> image]
Ask(kind, o) == Request(kind, o, "none")
ImageRequests(o) == {Request("image", o, i) : i \in ImagesOf(o)}

\* AppDelegate.saveContext
SaveContext(ctx) == context' = ctx /\ store' = ctx

\* deleteExistingProject deletes the rows of the store and merges the deletion
\* into the context; the save that follows makes rows of the objects that were
\* inserted but never saved.
AfterDelete(ctx, rows) == {f \in ctx : Exists(f.obj) \notin rows}

-----------------------------------------------------------------------------
(* Threads *)

NoBlock == [kind |-> "none"]
Idle == [kind |-> "idle"]

MainIdle == block = NoBlock

\* Mutant: the clean-up may run among the replies.
MayReplyEarly(k) == MainIdle

\* The clean-up block was queued before the latest Saver sent its first request,
\* so it runs before any of that Saver's replies.
MayReply(k) == MainIdle /\ (k = started => ~cleanup)

Outstanding(k) ==
    {r \in inflight \cup done : r.obj.from = k} \cup
    {b \in {block} : b # NoBlock /\ b.from = k} \cup
    {b \in {background} : b # Idle /\ b.from = k}

\* LocationViewController.errorHandling.  The alert can be presented only by a
\* view controller that is on screen; errorPresented is set either way.
ErrorHandling ==
    IF errorPresented \/ projectID = NoProject
    THEN UNCHANGED <<errorPresented, alert>>
    ELSE errorPresented' = TRUE /\ alert' = (screen = "locations")

Fail(k, thrown) ==
    [saver EXCEPT ![k].failed = TRUE, ![k].errorThrown = thrown]

\* Saver.postError on the main queue: the event is handled inside the call.
PostError(k) ==
    /\ saver' = Fail(k, TRUE)
    /\ IF saver[k].errorThrown THEN UNCHANGED <<errorPresented, alert>>
                               ELSE ErrorHandling

\* getSelectedProject and getSelectedOrganisation post the event themselves and
\* leave errorThrown alone.
PostDirectly(k) ==
    /\ saver' = Fail(k, saver[k].errorThrown)
    /\ ErrorHandling

-----------------------------------------------------------------------------
(* Starting a download *)

\* saveProject, up to its request; rows and ctx are what the caller left behind.
StartSaver(p, ctx, rows) ==
    LET k == started + 1 IN
    /\ started < MaxSavers
    /\ started' = k
    /\ saver' = [saver EXCEPT ![k] = [project |-> p, errorThrown |-> FALSE, failed |-> FALSE]]
    /\ running' = TRUE
    /\ late' = {j \in 1..started : Outstanding(j) # {}}
    /\ inflight' = inflight \cup {Ask("project", Object("project", p, k))}
    /\ SaveContext(AfterDelete(ctx, rows))

\* Mutant: the old project is deleted only once.
DownloadProjectOnce(p) ==
    /\ files' = {}
    /\ StartSaver(p, context, store)

\* checkIfDownloadNeeded with DownloadNeeded set: the old project is deleted by
\* the view controller, and deleted again by saveProject.
DownloadProject(p) ==
    LET ctx == AfterDelete(context, store) IN
    /\ files' = {}
    /\ StartSaver(p, ctx, ctx)

\* The player starts project p from the list (createPopup, openProject and
\* MainTabBarController.viewDidLoad).  DownloadNeeded is set only when p is
\* another project, and is false again when this step ends.
StartProject(p) ==
    /\ MainIdle /\ ~alert /\ ~cleanup
    /\ screen = "projects" /\ p \in listed
    /\ projectID' = p
    /\ screen' = "locations"
    /\ listed' = {}
    /\ errorPresented' = FALSE
    /\ IF p # projectID
       THEN DownloadProject(p)
       ELSE UNCHANGED <<saverVars, inflight, dataVars>>
    /\ UNCHANGED <<done, block, background, cleanup, withheld, list, fetching, requests, visits,
                   alert>>

\* The alert's "retry": saveProject runs inside the tap, the clean-up later.
Retry ==
    /\ MainIdle /\ alert /\ ~cleanup
    /\ alert' = FALSE
    /\ errorPresented' = FALSE
    /\ cleanup' = TRUE
    /\ StartSaver(projectID, context, store)
    /\ UNCHANGED <<projectID, done, block, background, withheld, files, listVars, screen, visits>>

\* Mutant: the clean-up deletes the images and leaves the objects.
CleanUpFiles ==
    /\ MainIdle /\ cleanup
    /\ cleanup' = FALSE
    /\ files' = {}
    /\ UNCHANGED <<projectID, saverVars, netVars, block, background, withheld, context, store,
                   listVars, uiVars>>

\* The clean-up block of the retry: images and objects go, once more.
CleanUp ==
    /\ MainIdle /\ cleanup
    /\ cleanup' = FALSE
    /\ files' = {}
    /\ SaveContext(AfterDelete(context, store))
    /\ UNCHANGED <<projectID, saverVars, netVars, block, background, withheld, listVars, uiVars>>

-----------------------------------------------------------------------------
(* Replies of Firestore, on the main queue *)

Answered(kind, k) == {r \in inflight : r.kind = kind /\ r.obj.from = k}

ProjectReply(k) ==
    \E r \in Answered("project", k) :
        /\ MayReply(k)
        /\ \/ /\ context' = context \cup Insert({ProjectObject(k)})
              /\ inflight' = (inflight \ {r}) \cup
                     {Ask("coins", ProjectObject(k)), Ask("organisation", ProjectObject(k))} \cup
                     {q \in {Ask("locations", ProjectObject(k))} : ~saver[k].errorThrown}
              /\ UNCHANGED <<saver, errorPresented, alert>>
           \/ /\ inflight' = inflight \ {r}
              /\ PostDirectly(k)
              /\ UNCHANGED context
        /\ UNCHANGED <<projectID, started, running, late, done, block, background, cleanup,
                       withheld, store, files, listVars, screen, visits>>

\* What a list would bring: a location comes with its quiz, asked for in its turn.
ListObjects(kind, k) == IF kind = "coins" THEN CoinObjects(k) ELSE LocationObjects(k)
WithQuizzes(S) == S \cup {QuizObject(o) : o \in {l \in S : l.kind = "location"}}

\* getCoins and getLocations insert every object, then call the Saver's loop.  Any
\* snapshot without error will do: without a connection Firestore answers with the
\* documents of its cache, which may be some of them or none.
ListReply(kind, k) ==
    \E r \in Answered(kind, k) :
        /\ MayReply(k)
        /\ inflight' = inflight \ {r}
        /\ \/ \E objects \in SUBSET ListObjects(kind, k) :
                 /\ context' = context \cup Insert(objects)
                 /\ block' = [kind |-> kind, from |-> k, rest |-> objects]
                 /\ withheld' = withheld \cup WithQuizzes(ListObjects(kind, k) \ objects)
                 /\ UNCHANGED <<saver, errorPresented, alert>>
           \/ /\ PostError(k)
              /\ UNCHANGED <<context, block, withheld>>
        /\ UNCHANGED <<projectID, started, running, late, done, background, cleanup, store,
                       files, listVars, screen, visits>>

CoinsReply(k) == ListReply("coins", k)
LocationsReply(k) == ListReply("locations", k)

\* The application ends.  The location list of the next launch is on screen if a
\* project was chosen; DownloadNeeded is false, so no download resumes.
Ends ==
    /\ running' = FALSE
    /\ inflight' = {}
    /\ done' = {}
    /\ block' = NoBlock
    /\ background' = Idle
    /\ cleanup' = FALSE
    /\ context' = store
    /\ screen' = IF projectID = NoProject THEN "projects" ELSE "locations"
    /\ list' = visits
    /\ fetching' = {n \in {visits} : projectID = NoProject}
    /\ requests' = {}
    /\ listed' = {}
    /\ errorPresented' = FALSE
    /\ alert' = FALSE
    /\ UNCHANGED <<projectID, saver, started, late, withheld, store, files, visits>>

\* One turn of the loop of saveCoin or saveLocation, or its end.
LoopReturn ==
    /\ block # NoBlock
    /\ block.rest # {}
    /\ saver[block.from].errorThrown
    /\ block' = NoBlock
    /\ UNCHANGED <<projectID, saverVars, netVars, background, cleanup, withheld, dataVars,
                   listVars, uiVars>>

\* saveQuiz reads errorThrown again, and URLSession's queue may have set it since
\* the turn began: then the images are asked for and the quiz is not.
QuizAsked(k) == IF background = [kind |-> "checked", from |-> k] THEN BOOLEAN ELSE {TRUE}

\* A blank location has no id, and location.id! ends the application.
LoopTurn ==
    /\ block # NoBlock
    /\ ~saver[block.from].errorThrown
    /\ \E o \in block.rest, quizAsked \in QuizAsked(block.from) :
        IF o.kind = "location" /\ o.id \in Malformed
        THEN Ends
        ELSE /\ context' = IF Exists(ProjectObject(block.from)) \in context
                           THEN context \cup Set(o, "linked", context) ELSE context
             /\ inflight' = inflight \cup ImageRequests(o) \cup
                                {q \in {Ask("quiz", o)} : o.kind = "location" /\ quizAsked}
             /\ block' = [block EXCEPT !.rest = @ \ {o}]
             /\ UNCHANGED <<projectID, saverVars, done, background, cleanup, withheld, store,
                            files, listVars, uiVars>>

LoopEnd ==
    /\ block # NoBlock
    /\ block.rest = {}
    /\ block' = NoBlock
    /\ SaveContext(context)
    /\ UNCHANGED <<projectID, saverVars, netVars, background, cleanup, withheld, files, listVars,
                   uiVars>>

\* saveQuiz: the tasks of a location, one object for all of them.  A cache may
\* answer without any.
QuizReply(k) ==
    \E r \in Answered("quiz", k) :
        /\ MayReply(k)
        /\ inflight' = inflight \ {r}
        /\ \/ LET quiz == QuizObject(r.obj)
                  ctx == context \cup Insert({quiz}) IN
              /\ SaveContext(IF Exists(r.obj) \in ctx THEN ctx \cup Set(quiz, "linked", ctx)
                                                      ELSE ctx)
              /\ UNCHANGED <<saver, withheld, errorPresented, alert>>
           \/ /\ SaveContext(context)
              /\ withheld' = withheld \cup {QuizObject(r.obj)}
              /\ UNCHANGED <<saver, errorPresented, alert>>
           \/ /\ PostError(k)
              /\ UNCHANGED <<context, store, withheld>>
        /\ UNCHANGED <<projectID, started, running, late, done, block, background, cleanup,
                       files, listVars, screen, visits>>

\* saveOrganisation, and the request of saveOrganisationImage.  A cache without the
\* organisation answers with no document: nothing is called, nothing posted.
OrganisationReply(k) ==
    \E r \in Answered("organisation", k) :
        /\ MayReply(k)
        /\ \/ LET o == OrganisationObject(k)
                  ctx == context \cup Insert({o}) IN
              /\ SaveContext(IF Exists(ProjectObject(k)) \in ctx THEN ctx \cup Set(o, "linked", ctx)
                                                                 ELSE ctx)
              /\ inflight' = (inflight \ {r}) \cup ImageRequests(o)
              /\ UNCHANGED <<saver, withheld, errorPresented, alert>>
           \/ /\ inflight' = inflight \ {r}
              /\ withheld' = withheld \cup {OrganisationObject(k)}
              /\ UNCHANGED <<saver, context, store, errorPresented, alert>>
           \/ /\ inflight' = inflight \ {r}
              /\ PostDirectly(k)
              /\ UNCHANGED <<context, store, withheld>>
        /\ UNCHANGED <<projectID, started, running, late, done, block, background, cleanup,
                       files, listVars, screen, visits>>

-----------------------------------------------------------------------------
(* Image downloads: FileDownloader, on URLSession's queue *)

\* Mutant: a file is moved into place only where there is none yet, the old one
\* being removed before.
ImageArrivesRemoving ==
    \E r \in inflight :
        /\ r.kind = "image"
        /\ background = Idle
        /\ inflight' = inflight \ {r}
        /\ done' = done \cup {r}
        /\ files' = {n \in files \cup {FileName(r.obj, r.image)} :
                         FileName(r.obj, r.image) \in files => n # FileName(r.obj, r.image)}
        /\ UNCHANGED <<projectID, saverVars, block, background, cleanup, withheld, context, store,
                       listVars, uiVars>>

\* The file is moved into place, replacing one of that name; the completion is
\* sent to the main queue.
ImageArrives ==
    \E r \in inflight :
        /\ r.kind = "image"
        /\ background = Idle
        /\ inflight' = inflight \ {r}
        /\ done' = done \cup {r}
        /\ files' = files \cup {FileName(r.obj, r.image)}
        /\ UNCHANGED <<projectID, saverVars, block, background, cleanup, withheld, context, store,
                       listVars, uiVars>>

\* The download fails, or the file cannot be moved into place after the old one
\* was removed.  postError reads errorThrown here, without any lock.
ImageFails ==
    \E r \in inflight :
        LET k == r.obj.from IN
        /\ r.kind = "image"
        /\ background = Idle
        /\ inflight' = inflight \ {r}
        /\ files' \in {files} \cup
               {files \ {FileName(r.obj, r.image)} : d \in {x \in {TRUE} : DiskMayFail}}
        /\ saver' = Fail(k, saver[k].errorThrown)
        /\ background' = IF saver[k].errorThrown THEN Idle ELSE [kind |-> "checked", from |-> k]
        /\ UNCHANGED <<projectID, started, running, late, done, block, cleanup, withheld, context,
                       store, listVars, uiVars>>

\* postError sets errorThrown and posts; the post waits for the main queue.
BackgroundPost ==
    /\ background.kind = "checked"
    /\ saver' = Fail(background.from, TRUE)
    /\ background' = [background EXCEPT !.kind = "posted"]
    /\ UNCHANGED <<projectID, started, running, late, netVars, block, cleanup, withheld, dataVars,
                   listVars, uiVars>>

\* Mutant: the event is kept back while an error is being presented.
DeliverOnce ==
    /\ MainIdle
    /\ background.kind = "posted"
    /\ ~errorPresented
    /\ background' = Idle
    /\ ErrorHandling
    /\ UNCHANGED <<projectID, saverVars, netVars, block, cleanup, withheld, dataVars, listVars,
                   screen, visits>>

\* The main queue handles the event.
Deliver ==
    /\ MainIdle
    /\ background.kind = "posted"
    /\ background' = Idle
    /\ ErrorHandling
    /\ UNCHANGED <<projectID, saverVars, netVars, block, cleanup, withheld, dataVars, listVars,
                   screen, visits>>

\* Mutant: the file name is not saved.
ImageDoneUnsaved ==
    \E r \in done :
        /\ MainIdle
        /\ done' = done \ {r}
        /\ context' = context \cup Set(r.obj, r.image, context)
        /\ UNCHANGED <<projectID, saverVars, inflight, block, background, cleanup, withheld, files,
                       store, listVars, uiVars>>

\* The completion of an image download: the file name is set and, except for
\* the organisation's image, saved.
ImageDone ==
    \E r \in done :
        LET ctx == context \cup Set(r.obj, r.image, context) IN
        /\ MainIdle
        /\ done' = done \ {r}
        /\ IF r.obj.kind = "organisation" THEN context' = ctx /\ UNCHANGED store
                                          ELSE SaveContext(ctx)
        /\ UNCHANGED <<projectID, saverVars, inflight, block, background, cleanup, withheld, files,
                       listVars, uiVars>>

-----------------------------------------------------------------------------
(* The rest of the application *)

\* The project list asks for the organisations.
OpenProjectList ==
    /\ MainIdle /\ ~alert /\ ~cleanup
    /\ screen = "locations"
    /\ visits < MaxVisits
    /\ visits' = visits + 1
    /\ screen' = "projects"
    /\ list' = visits + 1
    /\ fetching' = fetching \cup {visits + 1}
    /\ listed' = {}
    /\ UNCHANGED <<projectID, saverVars, netVars, block, background, cleanup, withheld, dataVars,
                   requests, errorPresented, alert>>

\* getOrganisations: the organisations, none from an empty cache, are inserted into
\* the context that the download uses, and the projects of each are asked for.
OrganisationsReply ==
    \E n \in fetching, found \in {Organisations, {}} :
        /\ MainIdle
        /\ fetching' = fetching \ {n}
        /\ requests' = requests \cup ({n} \X found)
        /\ context' = context \cup Insert({Object("organisation", p, 0) : p \in UNION found})
        /\ late' = late \cup {0}
        /\ UNCHANGED <<projectID, saver, started, running, netVars, block, background, cleanup,
                       withheld, store, files, list, listed, uiVars>>

\* getProjects, once for each organisation: replies may still come when a project
\* of another organisation was started, and insert their projects all the same.
ProjectsReply ==
    \E r \in requests : \E found \in {r[2], {}} :
        /\ MainIdle
        /\ requests' = requests \ {r}
        /\ context' = context \cup Insert({Object("project", p, 0) : p \in found})
        /\ late' = late \cup {0}
        /\ listed' = IF r[1] = list /\ screen = "projects" THEN found ELSE listed
        /\ UNCHANGED <<projectID, saver, started, running, netVars, block, background, cleanup,
                       withheld, store, files, list, fetching, uiVars>>

\* Either request fails and posts the same event as a download.
ListFails ==
    /\ MainIdle
    /\ \/ \E n \in fetching : fetching' = fetching \ {n} /\ UNCHANGED requests
       \/ \E r \in requests : requests' = requests \ {r} /\ UNCHANGED fetching
    /\ ErrorHandling
    /\ UNCHANGED <<projectID, saverVars, netVars, block, background, cleanup, withheld, dataVars,
                   list, listed, screen, visits>>

\* Another tab or a pushed view controller covers the location list.
Leave ==
    /\ MainIdle /\ ~alert /\ ~cleanup
    /\ screen = "locations"
    /\ visits < MaxVisits
    /\ visits' = visits + 1
    /\ screen' = "elsewhere"
    /\ UNCHANGED <<projectID, saverVars, netVars, block, background, cleanup, withheld, dataVars,
                   listVars, errorPresented, alert>>

\* The player comes back to the location list.
Return ==
    /\ MainIdle /\ ~cleanup
    /\ projectID # NoProject
    /\ screen # "locations"
    /\ screen' = "locations"
    /\ listed' = {}
    /\ UNCHANGED <<projectID, saverVars, netVars, block, background, cleanup, withheld, dataVars, list,
                   fetching, requests, visits, errorPresented, alert>>

\* sceneDidEnterBackground, and CoinDataSource.coinEarned: the context is saved.
EnterBackground ==
    /\ MainIdle
    /\ SaveContext(context)
    /\ UNCHANGED <<projectID, saverVars, netVars, block, background, cleanup, withheld, files,
                   listVars, uiVars>>

\* The application is killed and launched again.
Relaunch == Ends

-----------------------------------------------------------------------------
Savers == 1..MaxSavers

Init ==
    /\ projectID = NoProject
    /\ saver = [k \in Savers |-> [project |-> NoProject, errorThrown |-> FALSE, failed |-> FALSE]]
    /\ started = 0
    /\ running = FALSE
    /\ late = {}
    /\ inflight = {}
    /\ done = {}
    /\ block = NoBlock
    /\ background = Idle
    /\ cleanup = FALSE
    /\ context = {}
    /\ store = {}
    /\ files = {}
    /\ withheld = {}
    /\ list = 0
    /\ fetching = {0}
    /\ requests = {}
    /\ listed = {}
    /\ screen = "projects"
    /\ visits = 0
    /\ errorPresented = FALSE
    /\ alert = FALSE

\* What the two queues do by themselves, once the network has answered.
MainQueue ==
    \/ \E k \in Savers : \/ ProjectReply(k) \/ CoinsReply(k) \/ LocationsReply(k)
                         \/ QuizReply(k) \/ OrganisationReply(k)
    \/ LoopReturn \/ LoopTurn \/ LoopEnd
    \/ ImageDone
    \/ Deliver
    \/ CleanUp
    \/ OrganisationsReply \/ ProjectsReply \/ ListFails

Background == ImageArrives \/ ImageFails \/ BackgroundPost

Player ==
    \/ \E p \in Projects : StartProject(p)
    \/ Retry
    \/ OpenProjectList
    \/ Leave
    \/ Return
    \/ EnterBackground
    \/ Relaunch

Next == MainQueue \/ Background \/ Player

\* Firestore answers every read, if only with an error; URLSession times out; the
\* run loop serves the main queue.
Fairness == WF_vars(MainQueue) /\ WF_vars(Background)

Spec == Init /\ [][Next]_vars /\ Fairness

-----------------------------------------------------------------------------
(* Properties *)

Names ==
    (UNION {CoinsOf[p] : p \in Projects}) \cup (UNION {LocationsOf[p] : p \in Projects})
        \cup Projects \cup {NoProject}
Images == {"image", "reconstruction", "background"}
Objects == [kind : {"project", "organisation", "coin", "location", "task"}, id : Names,
            from : 0..MaxSavers]
Facts == [obj : Objects, what : {"exists", "linked"} \cup Images]
Requests == [kind : {"project", "coins", "locations", "organisation", "quiz", "image"},
             obj : Objects, image : {"none"} \cup Images]

TypeOK ==
    /\ projectID \in Projects \cup {NoProject}
    /\ saver \in [Savers -> [project : Projects \cup {NoProject}, errorThrown : BOOLEAN,
                             failed : BOOLEAN]]
    /\ started \in 0..MaxSavers
    /\ running \in BOOLEAN
    /\ late \subseteq 0..MaxSavers
    /\ inflight \subseteq Requests
    /\ done \subseteq Requests
    /\ block \in {NoBlock} \cup
           [kind : {"coins", "locations"}, from : 1..started, rest : SUBSET Objects]
    /\ background \in {Idle} \cup [kind : {"checked", "posted"}, from : 1..started]
    /\ cleanup \in BOOLEAN
    /\ context \subseteq Facts
    /\ store \subseteq Facts
    /\ files \subseteq (Names \X Images)
    /\ withheld \subseteq Objects
    /\ list \in 0..MaxVisits
    /\ fetching \subseteq 0..MaxVisits
    /\ requests \subseteq ((0..MaxVisits) \X Organisations)
    /\ listed \subseteq Projects
    /\ screen \in {"projects", "locations", "elsewhere"}
    /\ visits \in 0..MaxVisits
    /\ errorPresented \in BOOLEAN
    /\ alert \in BOOLEAN

\* A download starts from nothing: once its clean-up has run, the context
\* and the store hold objects of an earlier Saver only if that Saver still had
\* replies to come when it was replaced.  In particular the objects that
\* getCoins, getLocations or the project list inserted and nobody saved, which
\* the first deleteExistingProject turns into rows, are gone after the second.
StartsFromNothing ==
    running /\ ~cleanup =>
        \A f \in context \cup store : f.obj.from \in {started} \cup late

\* Everything the project of Saver k consists of.
Complete(k) ==
    LET o == {OrganisationObject(k)} \cup CoinObjects(k) \cup LocationObjects(k)
        quizzes == {QuizObject(l) : l \in LocationObjects(k)}
    IN  Insert({ProjectObject(k)} \cup o \cup quizzes)
            \cup {Fact(x, "linked") : x \in o \cup quizzes}
            \cup (UNION {{Fact(x, i) : i \in ImagesOf(x)} : x \in o})

\* The file name of the organisation's image is the one thing nobody saves.
Unsaved(k) == {Fact(OrganisationObject(k), "image")}

\* What a cache withheld: the Saver takes any reply without error for the whole.
Missing(k) == {f \in Complete(k) : f.obj \in withheld}

\* A download none of whose requests failed leaves the project behind when its last
\* reply has been handled, but for the documents its replies left out, saved up to
\* the organisation's file name, whatever the order of the replies and whatever
\* earlier Savers still do; if every reply brought all its documents, the whole.
QuietMeansComplete ==
    LET k == started
        due == Complete(k) \ Missing(k) IN
    running /\ Outstanding(k) = {} /\ ~saver[k].failed /\ ~cleanup =>
        due \subseteq context /\ due \ Unsaved(k) \subseteq store

\* A file name in the store or in the context names a file of the documents
\* directory, although files are written by one thread, their names are recorded
\* later by another, and a retry empties the directory in between, as long as moving
\* a downloaded file into place does not fail (~DiskMayFail).  It is so for
\* the latest Saver and for earlier ones that are still adding objects; a Saver
\* that threw its error and was replaced is left out: its loop may have returned
\* with objects that the clean-up does not find in the store and keeps.
NamedFilesExist ==
    \A f \in context \cup store :
        /\ f.what \in Images
        /\ f.obj.from = started \/ ~saver[f.obj.from].errorThrown
        => FileName(f.obj, f.what) \in files

\* How far the latest download is.
Phase ==
    IF ~running THEN "off"
    ELSE IF saver[started].failed THEN "failed"
    ELSE IF Outstanding(started) = {} THEN "over"
    ELSE "loading"

\* What it has to save, and what it has saved.
ToSave == IF started = 0 THEN {} ELSE Complete(started) \ Unsaved(started)
Lost == IF started = 0 THEN {} ELSE Missing(started) \ Unsaved(started)
Saved == IF started = 0 THEN {} ELSE {f \in store : f.obj.from = started} \ Unsaved(started)

Promise == INSTANCE Replacement WITH
    number <- started, contents <- ToSave, missing <- Lost, saved <- Saved, phase <- Phase

\* A download replaces the project as a whole: what the latest Saver has saved is
\* never lost before the next one starts, not to the clean-up of a retry, to a late
\* reply or to a launch; it saves nothing that is not of its project; it is over only
\* with all of it saved that its replies did not leave out; and once the application
\* has ended it adds nothing any more.
ReplacesProject == Promise!ReplacementSpec

\* Every download comes to rest: its requests are answered, its loops end and the
\* two threads never wait for each other for good.
DownloadSettles ==
    \A k \in Savers : Outstanding(k) # {} ~> Outstanding(k) = {}

\* "An error occurred during the download" with its retry button: a player who
\* looks at the location list of a download that failed is offered the retry.
FailureOffersRetry ==
    started > 0 /\ running /\ saver[started].failed /\ background = Idle
        /\ screen = "locations" => alert
=============================================================================
