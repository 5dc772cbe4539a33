---------------------------- MODULE ScannerProofs ----------------------------
(* Proofs about the scanner, for any number of callbacks, alerts and quizzes. *)
EXTENDS Scanner, TLAPS

LEMMA EmptyPending == <<>> \in Seq(Alerts) /\ Len(<<>>) = 0
OBVIOUS

LEMMA ShowAlertType ==
    ASSUME TypeOK, NEW kind \in Alerts, ShowAlert(kind)
    PROVE  pending' \in Seq(Alerts) /\ Len(pending') <= MaxPending
BY ScannerAssumption DEF TypeOK, ShowAlert

LEMMA CloseScannerType ==
    ASSUME TypeOK, CloseScanner, access' = access, visible' = visible,
           alert' \in {alert, "none"}
    PROVE  TypeOK'
<1>1. pending' \in Seq(Alerts) /\ Len(pending') <= MaxPending
  BY EmptyPending, ScannerAssumption DEF CloseScanner
<1>2. quizzes' \in 0..MaxQuizzes /\ frames' \in 0..MaxFrames
  BY ScannerAssumption DEF CloseScanner
<1>3. QED
  BY <1>1, <1>2, Zenon DEF TypeOK, CloseScanner

\* The type invariant (access and request, navigation, camera, alerts) is kept by
\* every action of the scanner.
THEOREM ScannerTypeCorrect == Spec => []TypeOK
<1>1. Init => TypeOK
  <2> SUFFICES ASSUME Init PROVE TypeOK
    OBVIOUS
  <2>1. pending \in Seq(Alerts) /\ Len(pending) <= MaxPending
    BY EmptyPending, ScannerAssumption DEF Init
  <2>2. quizzes \in 0..MaxQuizzes /\ frames \in 0..MaxFrames
    BY ScannerAssumption DEF Init
  <2>3. QED
    BY <2>1, <2>2, Zenon DEF Init, TypeOK
<1>2. TypeOK /\ [Next]_vars => TypeOK'
  <2> SUFFICES ASSUME TypeOK, [Next]_vars PROVE TypeOK'
    OBVIOUS
  <2> USE ScannerAssumption DEF TypeOK, Alerts, Codes
  <2>1. CASE OpenQRScanner
    BY <2>1 DEF OpenQRScanner, SetupView, ShowAlert, alerts
  <2>2. CASE AnswerRequest
    BY <2>2 DEF AnswerRequest, navigation, cameraState, alerts
  <2>3. CASE RequestReplied
    <3>1. CASE access = "authorized"
      BY <2>3, <3>1, ShowAlertType DEF RequestReplied, StartScanning, navigation
    <3>2. CASE access = "denied"
      BY <2>3, <3>2, CloseScannerType DEF RequestReplied
    <3>3. QED
      BY <2>3, <3>1, <3>2 DEF RequestReplied
  <2>4. ASSUME NEW code \in Codes, MetadataOutput(code) PROVE TypeOK'
    <3>1. read' \in Codes \cup {"none", "behind"} /\ running' \in BOOLEAN
      BY <2>4 DEF MetadataOutput, StopScanning
    <3>2. pending' \in Seq(Alerts) /\ Len(pending') <= MaxPending
      BY <2>4, ShowAlertType DEF MetadataOutput
    <3>3. quizzes' \in 0..MaxQuizzes /\ frames' \in 0..MaxFrames
      BY <2>4 DEF MetadataOutput
    <3>4. QED
      BY <2>4, <3>1, <3>2, <3>3 DEF MetadataOutput
  <2>5. CASE PresentAlert
    BY <2>5 DEF PresentAlert, navigation, cameraState
  <2>6. CASE DismissAlert
    BY <2>6, CloseScannerType DEF DismissAlert, StartScanning, cameraState
  <2>7. CASE InfoBarButtonTouched
    BY <2>7 DEF InfoBarButtonTouched, ShowAlert, navigation, cameraState
  <2>8. CASE Frame
    BY <2>8 DEF Frame, navigation, alerts
  <2>9. CASE BackFromQuiz
    <3>1. quizzes' \in 0..MaxQuizzes
      BY <2>9 DEF BackFromQuiz
    <3>2. running' \in BOOLEAN /\ read' \in Codes \cup {"none", "behind"}
      BY <2>9 DEF BackFromQuiz, ViewWillAppear, StartScanning
    <3>3. QED
      BY <2>9, <3>1, <3>2 DEF BackFromQuiz, alerts
  <2>10. CASE Leave
    BY <2>10, CloseScannerType DEF Leave
  <2>11. CASE LeaveTab
    BY <2>11 DEF LeaveTab, StopScanning, alerts
  <2>12. CASE ReturnToTab
    BY <2>12 DEF ReturnToTab, ViewWillAppear, StartScanning, alerts
  <2>13. CASE UNCHANGED vars
    BY <2>13 DEF vars, navigation, cameraState, alerts
  <2>14. QED
    BY <2>1, <2>2, <2>3, <2>4, <2>5, <2>6, <2>7, <2>8, <2>9, <2>10, <2>11,
       <2>12, <2>13 DEF Next
<1>3. QED
  BY <1>1, <1>2, PTL DEF Spec

-----------------------------------------------------------------------------
\* A retry alert that waits is the first to be presented, and nothing is on screen.
RetryNext == alert = "none" /\ pending # <<>> /\ Head(pending) = "wrong"

\* The strengthening: where StoppedForAReason says that the retry alert is among
\* those that wait, it is the next one and cannot be lost.
ScannerInv ==
    /\ open \/ session = "nil"
    /\ (InSight /\ session # "nil" /\ ~running) =>
           \/ read \in {"unreadable", "behind"}
           \/ read = "wrong" /\ (alert = "wrong" \/ RetryNext)

LEMMA RetryNextIsOffered ==
    ASSUME TypeOK, ScannerInv
    PROVE  StoppedForAReason
<1>1. RetryNext => \E i \in DOMAIN pending : pending[i] = "wrong"
  BY DEF RetryNext, TypeOK
<1>2. QED
  BY <1>1 DEF ScannerInv, StoppedForAReason, RetryOffered

LEMMA AppendKeepsRetryNext ==
    ASSUME TypeOK, NEW kind \in Alerts, ShowAlert(kind), RetryNext, alert' = alert
    PROVE  RetryNext'
BY DEF ShowAlert, RetryNext, TypeOK

LEMMA AppearStarts ==
    ASSUME TypeOK, ViewWillAppear, session' = session, session # "nil"
    PROVE  running'
BY DEF ViewWillAppear, StartScanning, TypeOK

LEMMA ScannerStep ==
    ASSUME TypeOK, ScannerInv, [Next]_vars
    PROVE  ScannerInv'
<1> USE DEF InSight
<1>1. CASE OpenQRScanner
  BY <1>1 DEF OpenQRScanner, SetupView, ScannerInv, TypeOK
<1>2. CASE AnswerRequest
  BY <1>2 DEF AnswerRequest, navigation, cameraState, alerts, ScannerInv, RetryNext
<1>3. CASE RequestReplied
  BY <1>3 DEF RequestReplied, StartScanning, CloseScanner, navigation, ScannerInv, TypeOK
<1>4. ASSUME NEW code \in Codes, MetadataOutput(code) PROVE ScannerInv'
  <2>1. CASE code = "right"
    BY <1>4, <2>1 DEF MetadataOutput, ScannerInv, TypeOK
  <2>2. CASE code = "wrong" /\ NothingElse
    <3>1. pending' = <<"wrong">> /\ alert' = "none" /\ read' = "wrong"
      BY <1>4, <2>2 DEF MetadataOutput, ShowAlert, StopScanning, NothingElse
    <3>2. RetryNext'
      BY <3>1 DEF RetryNext
    <3>3. QED
      BY <1>4, <3>1, <3>2 DEF MetadataOutput, ScannerInv
  <2>3. CASE code = "wrong" /\ ~NothingElse
    BY <1>4, <2>3 DEF MetadataOutput, StopScanning, ScannerInv
  <2>4. CASE code = "unreadable"
    BY <1>4, <2>4 DEF MetadataOutput, StopScanning, ScannerInv
  <2>5. QED
    BY <1>4, <2>1, <2>2, <2>3, <2>4 DEF Codes
<1>5. CASE PresentAlert
  BY <1>5 DEF PresentAlert, navigation, cameraState, ScannerInv, RetryNext
<1>6. CASE DismissAlert
  BY <1>6 DEF DismissAlert, CloseScanner, StartScanning, cameraState, ScannerInv,
              RetryNext, TypeOK
<1>7. CASE InfoBarButtonTouched
  <2>1. RetryNext => RetryNext'
    BY <1>7, AppendKeepsRetryNext DEF InfoBarButtonTouched, Alerts
  <2>2. QED
    BY <1>7, <2>1 DEF InfoBarButtonTouched, navigation, cameraState, ScannerInv
<1>8. CASE Frame
  BY <1>8 DEF Frame, navigation, alerts, ScannerInv, RetryNext
<1>9. CASE BackFromQuiz
  BY <1>9, AppearStarts DEF BackFromQuiz, ScannerInv, TypeOK
<1>10. CASE Leave
  BY <1>10 DEF Leave, CloseScanner, ScannerInv
<1>11. CASE LeaveTab
  BY <1>11 DEF LeaveTab, ScannerInv
<1>12. CASE ReturnToTab
  BY <1>12, AppearStarts DEF ReturnToTab, ScannerInv, TypeOK
<1>13. CASE UNCHANGED vars
  BY <1>13 DEF vars, navigation, cameraState, alerts, ScannerInv, RetryNext
<1>14. QED
  BY <1>1, <1>2, <1>3, <1>4, <1>5, <1>6, <1>7, <1>8, <1>9, <1>10, <1>11, <1>12,
     <1>13 DEF Next

\* However tabs, quizzes, alerts, callbacks and the request for access interleave,
\* a session that stands still in sight was stopped by a code, and a wrong code
\* read with no alert in the way has its retry.
THEOREM ScannerStopsForAReason == Spec => []StoppedForAReason
<1>1. Init => ScannerInv
  BY DEF Init, ScannerInv
<1>2. TypeOK /\ ScannerInv /\ [Next]_vars => ScannerInv'
  BY ScannerStep
<1>3. TypeOK /\ ScannerInv => StoppedForAReason
  BY RetryNextIsOffered
<1>4. QED
  BY <1>1, <1>2, <1>3, ScannerTypeCorrect, PTL DEF Spec
=============================================================================
