------------------------------ MODULE Tracking ------------------------------
(***************************************************************************)
(* The map tab: MapViewController and the LocationManager that looks for   *)
(* the player.  A search is begun whenever the map appears and ends with   *)
(* the first of an accurate fix, a failure, fifteen seconds and the map's  *)
(* disappearance.  Everything runs on the main run loop, in any order.     *)
(*                                                                         *)
(* The map reads the locations and the first organisation once, when its   *)
(* view is loaded; it marks them anew whenever it appears.  It marks       *)
(* objects: a place that late replies of a replaced Saver have inserted    *)
(* twice has two.                                                          *)
(***************************************************************************)
EXTENDS Integers

CONSTANTS
    Objects,       \* the Location and Organisation objects that downloads insert; two
                   \* of them may stand for one place
    Organisations, \* those that are organisations: objects of the chosen one only,
                   \* since the map's data source asks for no other
    Accuracies,    \* horizontalAccuracy of a fix, in metres; negative: invalid
    Desired,       \* desiredAccuracy
    NoFix,         \* no location found yet
    MaxSearches    \* bound: how many searches are begun

ASSUME TrackingAssumption ==
    /\ Organisations \subseteq Objects
    /\ Accuracies \subseteq Int
    /\ Desired \in Nat
    /\ MaxSearches \in Nat
    /\ NoFix \notin [search : Nat, accuracy : Nat]

VARIABLES
    stored,         \* the objects in the managed object context
    loaded,         \* whether the map's view was loaded
    locations,      \* MapViewController.locations and .organisation
    visible,        \* whether the map is on screen
    marks,          \* the annotations of the map: an object, and the search at which it was added
    search,         \* how many searches were begun: names the latest CLLocationManager
    updating,       \* whether it is updating
    timers,         \* valid timers, by the search that scheduled them
    lastLocation,   \* LocationManager.lastLocation
    region          \* the fix the map was last centred on

dataVars   == <<stored, loaded, locations>>
searchVars == <<search, updating, timers>>
vars == <<dataVars, visible, marks, searchVars, lastLocation, region>>

-----------------------------------------------------------------------------
(* LocationManager *)

\* Mutant: the timer is scheduled when the first fix is in.
StartLocationManagerUntimed ==
    /\ search < MaxSearches
    /\ search' = search + 1
    /\ updating' = TRUE
    /\ timers' = IF lastLocation = NoFix THEN timers ELSE timers \cup {search + 1}

\* startLocationManager: the old timer is overwritten, not invalidated.
StartLocationManager ==
    /\ search < MaxSearches
    /\ search' = search + 1
    /\ updating' = TRUE
    /\ timers' = timers \cup {search + 1}

\* Mutant: the timer is left alone.
StopLocationManagerOnly(last) ==
    /\ timers' = timers
    /\ updating' = FALSE
    /\ region' = IF last = NoFix THEN region ELSE last
    /\ UNCHANGED search

\* stopLocationManager: only the latest timer is known; the callback centres the
\* map on the best fix so far, if there is one.
StopLocationManager(last) ==
    /\ timers' = timers \ {search}
    /\ updating' = FALSE
    /\ region' = IF last = NoFix THEN region ELSE last
    /\ UNCHANGED search

\* Mutant: a fix as good as desired is not good enough.
EnoughStrictly(accuracy) == accuracy < Desired

Enough(accuracy) == accuracy <= Desired

Better(accuracy) == lastLocation = NoFix \/ lastLocation.accuracy > accuracy

\* Mutant: invalid fixes are taken.
DidUpdateLocationsInvalid(accuracy, old) ==
    /\ updating
    /\ IF old \/ ~Better(accuracy)
       THEN UNCHANGED <<searchVars, lastLocation, region>>
       ELSE /\ lastLocation' = [search |-> search, accuracy |-> accuracy]
            /\ IF Enough(accuracy) THEN StopLocationManager(lastLocation')
                                   ELSE UNCHANGED <<searchVars, region>>
    /\ UNCHANGED <<dataVars, visible, marks>>

\* didUpdateLocations; old says whether the fix is more than five seconds old.
DidUpdateLocations(accuracy, old) ==
    /\ updating
    /\ IF old \/ accuracy < 0 \/ ~Better(accuracy)
       THEN UNCHANGED <<searchVars, lastLocation, region>>
       ELSE /\ lastLocation' = [search |-> search, accuracy |-> accuracy]
            /\ IF Enough(accuracy) THEN StopLocationManager(lastLocation')
                                   ELSE UNCHANGED <<searchVars, region>>
    /\ UNCHANGED <<dataVars, visible, marks>>

DidFailWithError ==
    /\ updating
    /\ StopLocationManager(lastLocation)
    /\ UNCHANGED <<dataVars, visible, marks, lastLocation>>

\* A timer fires: it is valid no more, and stops whichever search is under way.
Timeout(s) ==
    /\ s \in timers
    /\ timers' = timers \ {s, search}
    /\ updating' = FALSE
    /\ region' = IF lastLocation = NoFix THEN region ELSE lastLocation
    /\ UNCHANGED <<dataVars, visible, marks, search, lastLocation>>

-----------------------------------------------------------------------------
(* MapViewController *)

\* LocationDataSource fetches every location, OrganisationDataSource the objects of
\* the chosen organisation, in any order.
FetchLocations == stored \ Organisations
FetchOrganisation == stored \cap Organisations

\* What viewDidLoad may read: the locations and the first organisation, if there is one.
Fetched ==
    LET first == {{o} : o \in FetchOrganisation}
    IN  {FetchLocations \cup org : org \in IF first = {} THEN {{}} ELSE first}

\* setupAnnotations makes an annotation for every object.
Annotations(objects, s) == {[object |-> o, search |-> s] : o \in objects}

\* viewDidLoad, the first time, and viewWillAppear.
OpenMap ==
    /\ ~visible
    /\ visible' = TRUE
    /\ loaded' = TRUE
    /\ locations' \in IF loaded THEN {locations} ELSE Fetched
    /\ StartLocationManager
    /\ marks' = marks \cup Annotations(locations', search')
    /\ UNCHANGED <<stored, lastLocation, region>>

\* Mutant: the annotations stay.
LeaveMapMarked ==
    /\ visible
    /\ visible' = FALSE
    /\ StopLocationManager(lastLocation)
    /\ UNCHANGED <<dataVars, marks, lastLocation>>

\* viewWillDisappear stops the search a second time if it is over already.
LeaveMap ==
    /\ visible
    /\ visible' = FALSE
    /\ StopLocationManager(lastLocation)
    /\ marks' = {}
    /\ UNCHANGED <<dataVars, lastLocation>>

-----------------------------------------------------------------------------
(* The rest of the application *)

\* A reply of a download, the list of projects or a replaced Saver inserts an object.
Download(o) ==
    /\ stored' = stored \cup {o}
    /\ UNCHANGED <<loaded, locations, visible, marks, searchVars, lastLocation, region>>

\* The clean-up of a retry, which is chosen on another screen, deletes the objects;
\* the map keeps its references to them.
Retry ==
    /\ ~visible
    /\ stored' = {}
    /\ UNCHANGED <<loaded, locations, visible, marks, searchVars, lastLocation, region>>

\* A project is chosen, which takes another screen than the map: the tab bar is
\* built anew.  The old project's objects go if the project is another one.
StartProject(another) ==
    /\ ~visible
    /\ stored' = IF another THEN {} ELSE stored
    /\ loaded' = FALSE
    /\ locations' = {}
    /\ lastLocation' = NoFix
    /\ region' = NoFix
    /\ UNCHANGED <<visible, marks, searchVars>>

-----------------------------------------------------------------------------
Init ==
    /\ stored \in SUBSET Objects
    /\ loaded = FALSE
    /\ locations = {}
    /\ visible = FALSE
    /\ marks = {}
    /\ search = 0
    /\ updating = FALSE
    /\ timers = {}
    /\ lastLocation = NoFix
    /\ region = NoFix

Next ==
    \/ \E a \in Accuracies, old \in BOOLEAN : DidUpdateLocations(a, old)
    \/ DidFailWithError
    \/ \E s \in timers : Timeout(s)
    \/ OpenMap
    \/ LeaveMap
    \/ \E o \in Objects : Download(o)
    \/ Retry
    \/ \E another \in BOOLEAN : StartProject(another)

\* The run loop fires its timers.
Fairness == WF_vars(\E s \in timers : Timeout(s))

Spec == Init /\ [][Next]_vars /\ Fairness

-----------------------------------------------------------------------------
(* Properties *)

Fixes == [search : 0..MaxSearches, accuracy : Accuracies \cap Nat] \cup {NoFix}

TypeOK ==
    /\ stored \subseteq Objects
    /\ loaded \in BOOLEAN
    /\ locations \subseteq Objects
    /\ visible \in BOOLEAN
    /\ marks \subseteq [object : Objects, search : 1..MaxSearches]
    /\ search \in 0..MaxSearches
    /\ updating \in BOOLEAN
    /\ timers \subseteq 1..MaxSearches
    /\ lastLocation \in Fixes
    /\ region \in Fixes

\* The timer that is running belongs to the search that is under way: although
\* startLocationManager forgets the old timer, no timer of an earlier search can
\* cut a later one short, and none is left when the map is gone.
TimerIsOfThisSearch ==
    /\ timers = IF updating THEN {search} ELSE {}
    /\ updating => visible

\* However often the map comes and goes, what it shows is what it read when its
\* view was loaded: one mark for each Location object, so that a place has as many
\* as the context had objects for it then, one organisation at most, and none of it
\* outlives its appearance.
OneMarkEach ==
    /\ \A m, n \in marks : m.object = n.object => m = n
    /\ \A m, n \in marks : {m.object, n.object} \subseteq Organisations => m = n
    /\ {m.object : m \in marks} = IF visible THEN locations ELSE {}

\* A search goes on only while it has found nothing good enough, and when it has
\* stopped the map is centred on the best fix the tab has seen.
StopsWithTheBest ==
    /\ (updating /\ lastLocation # NoFix /\ lastLocation.search = search) =>
           lastLocation.accuracy > Desired
    /\ ~updating => region = lastLocation

\* Every search ends, whatever fixes arrive.
SearchEnds == updating ~> ~updating
=============================================================================
