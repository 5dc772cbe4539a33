--------------------------- MODULE TrackingProofs ---------------------------
(* Proofs about the map tab, for any objects, accuracies and number of searches. *)
EXTENDS Tracking, TLAPS

\* The type of every variable of the map tab and its location manager is kept.
THEOREM TrackingTypeCorrect == Spec => []TypeOK
<1>1. Init => TypeOK
  <2> SUFFICES ASSUME Init PROVE TypeOK
    OBVIOUS
  <2>1. search \in 0..MaxSearches
    BY TrackingAssumption DEF Init
  <2>2. QED
    BY <2>1, Zenon DEF Init, TypeOK, Fixes
<1>2. TypeOK /\ [Next]_vars => TypeOK'
  <2> SUFFICES ASSUME TypeOK, [Next]_vars PROVE TypeOK'
    OBVIOUS
  <2> USE TrackingAssumption DEF TypeOK, dataVars, searchVars
  <2>1. ASSUME NEW a \in Accuracies, NEW old \in BOOLEAN, DidUpdateLocations(a, old)
        PROVE  TypeOK'
    <3>1. search' = search /\ timers' \subseteq timers /\ updating' \in BOOLEAN
      BY <2>1 DEF DidUpdateLocations, StopLocationManager
    <3>2. lastLocation' \in Fixes
      <4>1. CASE UNCHANGED lastLocation
        BY <4>1
      <4>2. CASE ~(a < 0) /\ lastLocation' = [search |-> search, accuracy |-> a]
        <5>1. a \in Accuracies \cap Nat
          BY <4>2
        <5>2. QED
          BY <4>2, <5>1 DEF Fixes
      <4>3. \/ UNCHANGED lastLocation
            \/ ~(a < 0) /\ lastLocation' = [search |-> search, accuracy |-> a]
        BY <2>1, Zenon DEF DidUpdateLocations
      <4>4. QED
        BY <4>1, <4>2, <4>3
    <3>3. region' \in Fixes
      BY <2>1, <3>2 DEF DidUpdateLocations, StopLocationManager
    <3>4. QED
      BY <2>1, <3>1, <3>2, <3>3 DEF DidUpdateLocations
  <2>2. CASE DidFailWithError
    BY <2>2 DEF DidFailWithError, StopLocationManager
  <2>3. ASSUME NEW s \in timers, Timeout(s) PROVE TypeOK'
    BY <2>3 DEF Timeout
  <2>4. CASE OpenMap
    <3>1. search' \in 1..MaxSearches /\ timers' \subseteq 1..MaxSearches
      BY <2>4 DEF OpenMap, StartLocationManager
    <3>2. locations' \subseteq Objects
      BY <2>4 DEF OpenMap, Fetched, FetchLocations, FetchOrganisation
    <3>3. marks' \subseteq [object : Objects, search : 1..MaxSearches]
      BY <2>4, <3>1, <3>2 DEF OpenMap, Annotations
    <3>4. QED
      BY <2>4, <3>1, <3>2, <3>3 DEF OpenMap, StartLocationManager
  <2>5. CASE LeaveMap
    BY <2>5 DEF LeaveMap, StopLocationManager
  <2>6. ASSUME NEW o \in Objects, Download(o) PROVE TypeOK'
    BY <2>6 DEF Download
  <2>7. CASE Retry
    BY <2>7 DEF Retry
  <2>8. ASSUME NEW another \in BOOLEAN, StartProject(another) PROVE TypeOK'
    BY <2>8 DEF StartProject, Fixes
  <2>9. CASE UNCHANGED vars
    BY <2>9 DEF vars
  <2>10. QED
    BY <2>1, <2>2, <2>3, <2>4, <2>5, <2>6, <2>7, <2>8, <2>9 DEF Next
<1>3. QED
  BY <1>1, <1>2, PTL DEF Spec
-----------------------------------------------------------------------------
\* Every search has its own timer and no other: although startLocationManager
\* overwrites the timer it knows, no timer of an earlier search is ever left to
\* cut a later one short.
THEOREM TimerAlwaysOfThisSearch == Spec => []TimerIsOfThisSearch
<1>1. Init => TimerIsOfThisSearch
  BY DEF Init, TimerIsOfThisSearch
<1>2. TypeOK /\ TimerIsOfThisSearch /\ [Next]_vars => TimerIsOfThisSearch'
  <2> SUFFICES ASSUME TypeOK, TimerIsOfThisSearch, [Next]_vars
               PROVE  TimerIsOfThisSearch'
    OBVIOUS
  <2> USE DEF TypeOK, TimerIsOfThisSearch, dataVars, searchVars
  <2>1. ASSUME NEW a \in Accuracies, NEW old \in BOOLEAN, DidUpdateLocations(a, old)
        PROVE  TimerIsOfThisSearch'
    BY <2>1 DEF DidUpdateLocations, StopLocationManager
  <2>2. CASE DidFailWithError
    BY <2>2 DEF DidFailWithError, StopLocationManager
  <2>3. ASSUME NEW s \in timers, Timeout(s) PROVE TimerIsOfThisSearch'
    BY <2>3 DEF Timeout
  <2>4. CASE OpenMap
    BY <2>4 DEF OpenMap, StartLocationManager
  <2>5. CASE LeaveMap
    BY <2>5 DEF LeaveMap, StopLocationManager
  <2>6. ASSUME NEW o \in Objects, Download(o) PROVE TimerIsOfThisSearch'
    BY <2>6 DEF Download
  <2>7. CASE Retry
    BY <2>7 DEF Retry
  <2>8. ASSUME NEW another \in BOOLEAN, StartProject(another)
        PROVE  TimerIsOfThisSearch'
    BY <2>8 DEF StartProject
  <2>9. CASE UNCHANGED vars
    BY <2>9 DEF vars
  <2>10. QED
    BY <2>1, <2>2, <2>3, <2>4, <2>5, <2>6, <2>7, <2>8, <2>9 DEF Next
<1>3. QED
  BY <1>1, <1>2, TrackingTypeCorrect, PTL DEF Spec

-----------------------------------------------------------------------------
\* The strengthening of OneMarkEach: the marks are the annotations of this
\* appearance, and the map has read one organisation at most.
MarksOfThisAppearance ==
    /\ marks = IF visible THEN Annotations(locations, search) ELSE {}
    /\ \A o, q \in locations \cap Organisations : o = q

\* However often the map comes and goes, every object it has read is marked once while
\* it is on screen, one organisation at most among them, and nothing else is.
THEOREM ObjectsMarkedOnce == Spec => []OneMarkEach
<1>1. Init => MarksOfThisAppearance
  BY DEF Init, MarksOfThisAppearance
<1>2. TypeOK /\ MarksOfThisAppearance /\ [Next]_vars => MarksOfThisAppearance'
  <2> SUFFICES ASSUME TypeOK, MarksOfThisAppearance, [Next]_vars
               PROVE  MarksOfThisAppearance'
    OBVIOUS
  <2> USE DEF MarksOfThisAppearance, Annotations, dataVars, searchVars
  <2>1. ASSUME NEW a \in Accuracies, NEW old \in BOOLEAN, DidUpdateLocations(a, old)
        PROVE  MarksOfThisAppearance'
    <3>1. UNCHANGED <<search, visible, marks, locations>>
      BY <2>1 DEF DidUpdateLocations, StopLocationManager
    <3>2. QED
      BY <3>1
  <2>2. CASE DidFailWithError
    BY <2>2 DEF DidFailWithError, StopLocationManager
  <2>3. ASSUME NEW s \in timers, Timeout(s) PROVE MarksOfThisAppearance'
    BY <2>3 DEF Timeout
  <2>4. CASE OpenMap
    <3>1. \A o, q \in locations' \cap Organisations : o = q
      <4>1. CASE loaded
        BY <2>4, <4>1 DEF OpenMap
      <4>2. CASE ~loaded
        <5>1. PICK org \in {{}} \cup {{o} : o \in stored \cap Organisations} :
                locations' = (stored \ Organisations) \cup org
          BY <2>4, <4>2 DEF OpenMap, Fetched, FetchLocations, FetchOrganisation
        <5>2. QED
          BY <5>1
      <4>3. QED
        BY <4>1, <4>2
    <3>2. ~visible /\ visible' /\ marks' = marks \cup Annotations(locations', search')
      BY <2>4 DEF OpenMap
    <3>3. QED
      BY <3>1, <3>2
  <2>5. CASE LeaveMap
    BY <2>5 DEF LeaveMap, StopLocationManager
  <2>6. ASSUME NEW o \in Objects, Download(o) PROVE MarksOfThisAppearance'
    BY <2>6 DEF Download
  <2>7. CASE Retry
    BY <2>7 DEF Retry
  <2>8. ASSUME NEW another \in BOOLEAN, StartProject(another) PROVE MarksOfThisAppearance'
    BY <2>8 DEF StartProject
  <2>9. CASE UNCHANGED vars
    BY <2>9 DEF vars
  <2>10. QED
    BY <2>1, <2>2, <2>3, <2>4, <2>5, <2>6, <2>7, <2>8, <2>9 DEF Next
<1>3. TypeOK /\ MarksOfThisAppearance => OneMarkEach
  <2> SUFFICES ASSUME TypeOK, MarksOfThisAppearance PROVE OneMarkEach
    OBVIOUS
  <2>1. CASE visible
    <3>1. \A m \in marks : m = [object |-> m.object, search |-> search] /\ m.object \in locations
      BY <2>1 DEF MarksOfThisAppearance, Annotations
    <3>2. \A o \in locations : \E m \in marks : m.object = o
      <4>1. \A o \in locations : [object |-> o, search |-> search] \in marks
        BY <2>1 DEF MarksOfThisAppearance, Annotations
      <4>2. \A o \in locations : [object |-> o, search |-> search].object = o
        OBVIOUS
      <4>3. QED
        BY <4>1, <4>2
    <3>3. {m.object : m \in marks} = locations
      BY <3>1, <3>2
    <3>4. \A m, n \in marks : m.object = n.object => m = n
      BY <3>1
    <3>5. \A m, n \in marks : {m.object, n.object} \subseteq Organisations => m = n
      BY <3>1, <3>4 DEF MarksOfThisAppearance
    <3>6. QED
      BY <2>1, <3>3, <3>4, <3>5 DEF OneMarkEach
  <2>2. CASE ~visible
    BY <2>2 DEF MarksOfThisAppearance, OneMarkEach
  <2>3. QED
    BY <2>1, <2>2
<1>4. QED
  BY <1>1, <1>2, <1>3, TrackingTypeCorrect, PTL DEF Spec
-----------------------------------------------------------------------------
\* The strengthening of StopsWithTheBest: the best fix is of this search or of an
\* earlier one, and once the map was centred there is a best fix.
BestSoFar ==
    /\ lastLocation # NoFix => lastLocation.search <= search
    /\ region # NoFix => lastLocation # NoFix
    /\ StopsWithTheBest

\* What taking a fix means for the location manager's state.
LEMMA FixCases ==
    ASSUME NEW a, NEW old, DidUpdateLocations(a, old)
    PROVE  \/ UNCHANGED <<searchVars, lastLocation, region>>
           \/ /\ ~(a < 0) /\ lastLocation' = [search |-> search, accuracy |-> a]
              /\ \/ a <= Desired /\ StopLocationManager(lastLocation')
                 \/ ~(a <= Desired) /\ UNCHANGED <<searchVars, region>>
BY Zenon DEF DidUpdateLocations, Enough

\* A search goes on only while it has found nothing good enough, and whichever of
\* fix, failure, timeout and disappearance stops it, the map is then centred on
\* the best fix.
THEOREM SearchStopsWithTheBest == Spec => []StopsWithTheBest
<1>1. Init => BestSoFar
  BY DEF Init, BestSoFar, StopsWithTheBest
<1>2. TypeOK /\ BestSoFar /\ [Next]_vars => BestSoFar'
  <2> SUFFICES ASSUME TypeOK, BestSoFar, [Next]_vars PROVE BestSoFar'
    OBVIOUS
  <2> USE TrackingAssumption DEF BestSoFar, StopsWithTheBest, dataVars, searchVars
  <2>1. ASSUME NEW a \in Accuracies, NEW old \in BOOLEAN, DidUpdateLocations(a, old)
        PROVE  BestSoFar'
    <3>1. CASE UNCHANGED <<searchVars, lastLocation, region>>
      BY <3>1
    <3>2. CASE /\ a \in Nat /\ lastLocation' = [search |-> search, accuracy |-> a]
               /\ \/ a <= Desired /\ StopLocationManager(lastLocation')
                  \/ ~(a <= Desired) /\ UNCHANGED <<searchVars, region>>
      <4>1. lastLocation'.search = search /\ lastLocation'.accuracy = a
        BY <3>2
      <4>2. lastLocation' # NoFix
        BY <3>2 DEF TypeOK
      <4>3. CASE a <= Desired /\ StopLocationManager(lastLocation')
        BY <4>1, <4>2, <4>3 DEF StopLocationManager, TypeOK
      <4>4. CASE ~(a <= Desired) /\ UNCHANGED <<searchVars, region>>
        <5>1. updating /\ updating'
          BY <2>1, <4>4, Zenon DEF DidUpdateLocations
        <5>2. QED
          BY <3>2, <4>1, <4>2, <4>4, <5>1 DEF TypeOK
      <4>5. QED
        BY <3>2, <4>3, <4>4
    <3>3. ~(a < 0) => a \in Nat
      OBVIOUS
    <3>4. QED
      BY <2>1, <3>1, <3>2, <3>3, FixCases
  <2>2. CASE DidFailWithError
    BY <2>2 DEF DidFailWithError, StopLocationManager
  <2>3. ASSUME NEW s \in timers, Timeout(s) PROVE BestSoFar'
    BY <2>3 DEF Timeout
  <2>4. CASE OpenMap
    <3>1. search' = search + 1 /\ search \in Nat /\ updating'
      BY <2>4 DEF OpenMap, StartLocationManager, TypeOK
    <3>2. lastLocation # NoFix => lastLocation.search \in Nat
      BY DEF TypeOK, Fixes
    <3>3. QED
      BY <2>4, <3>1, <3>2 DEF OpenMap
  <2>5. CASE LeaveMap
    BY <2>5 DEF LeaveMap, StopLocationManager
  <2>6. ASSUME NEW o \in Objects, Download(o) PROVE BestSoFar'
    BY <2>6 DEF Download
  <2>7. CASE Retry
    BY <2>7 DEF Retry
  <2>8. ASSUME NEW another \in BOOLEAN, StartProject(another) PROVE BestSoFar'
    BY <2>8 DEF StartProject
  <2>9. CASE UNCHANGED vars
    BY <2>9 DEF vars
  <2>10. QED
    BY <2>1, <2>2, <2>3, <2>4, <2>5, <2>6, <2>7, <2>8, <2>9 DEF Next
<1>3. QED
  BY <1>1, <1>2, TrackingTypeCorrect, PTL DEF Spec, BestSoFar
=============================================================================
