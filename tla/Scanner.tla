------------------------------ MODULE Scanner ------------------------------
(***************************************************************************)
(* The QR code scanner of a location: ScannerViewController and the        *)
(* ScannerView that owns the capture session.  The scanner is pushed on    *)
(* the location's detail screen and quizzes are pushed on the scanner.     *)
(*                                                                         *)
(* Four things drive it, in any order: UIKit's appearance callbacks, the   *)
(* camera's callbacks, which wait on the main queue, the alerts, which     *)
(* are presented by blocks on the main queue, and the reply to the request *)
(* for access to the camera, which comes on a queue of its own.            *)
(***************************************************************************)
EXTENDS Integers, Sequences

CONSTANTS
    MaxFrames,    \* bound: callbacks of the camera that wait at a time
    MaxPending,   \* bound: blocks that wait to present an alert
    MaxQuizzes    \* bound: quizzes pushed on one scanner

ASSUME ScannerAssumption ==
    MaxFrames \in Nat /\ MaxPending \in Nat /\ MaxQuizzes \in Nat

VARIABLES
    access,    \* AVCaptureDevice.authorizationStatus
    request,   \* the request for access: none, asked, or replied to
    open,      \* whether the scanner is on the navigation stack
    quizzes,   \* how many quizzes are on top of it
    visible,   \* whether the tab of the locations is in front
    session,   \* ScannerView.captureSession: complete, without input, or nil
    running,   \* whether the session is running
    frames,    \* the camera's callbacks that wait on the main queue
    pending,   \* blocks that wait to present an alert
    alert,     \* the alert on screen
    read       \* history: the code that stopped the session since it was started

navigation  == <<open, quizzes, visible>>
cameraState == <<session, running, frames, read>>
alerts      == <<pending, alert>>
vars == <<access, request, navigation, cameraState, alerts>>

Alerts == {"instructions", "wrong", "denied"}

Codes == {"right", "wrong", "unreadable"}

\* The scanner's view is on screen: appearance callbacks go to it.
InSight == open /\ quizzes = 0 /\ visible

\* Nothing modal is in the way of the player.
Touchable == alert = "none" /\ request # "asked"

-----------------------------------------------------------------------------
(* ScannerView *)

StartScanning ==
    /\ running' = (session # "nil")
    /\ read' = "none"

\* stopScanning; reason records, for the properties, what stopped the session.
StopScanning(reason) ==
    /\ running' = FALSE
    /\ read' = reason

\* setupView, while the view is made: the delegate is not set yet, so a failure
\* tells nobody.  Without access, or without a camera, there is no input.
SetupView ==
    /\ session' \in IF access = "denied" THEN {"bare"} ELSE {"ready", "bare", "nil"}
    /\ running' = (session' # "nil")
    /\ frames' = 0
    /\ read' = "none"

-----------------------------------------------------------------------------
(* ScannerViewController *)

ShowAlert(kind) == Len(pending) < MaxPending /\ pending' = Append(pending, kind)

\* viewDidLoad and the first viewWillAppear.  The alert of a denied access is
\* presented by a view that is not in a window yet, which may fail.
OpenQRScanner ==
    /\ visible /\ ~open
    /\ open' = TRUE
    /\ SetupView
    /\ \/ access = "authorized" /\ ShowAlert("instructions")
          /\ UNCHANGED <<request, alert>>
       \/ access = "undetermined" /\ request' = "asked" /\ UNCHANGED alerts
       \/ access = "denied" /\ alert' \in {"none", "denied"} /\ UNCHANGED <<request, pending>>
    /\ UNCHANGED <<access, quizzes, visible>>

\* The scanner leaves the navigation stack, and what waits for it is void.
CloseScanner ==
    /\ open' = FALSE
    /\ quizzes' = 0
    /\ session' = "nil"
    /\ running' = FALSE
    /\ frames' = 0
    /\ read' = "none"
    /\ pending' = <<>>
    /\ request' = "none"

AnswerRequest ==
    /\ request = "asked"
    /\ access' \in {"authorized", "denied"}
    /\ request' = "replied"
    /\ UNCHANGED <<navigation, cameraState, alerts>>

\* The completion handler of requestAccess, wherever the player is by then.
RequestReplied ==
    /\ request = "replied"
    /\ \/ /\ access = "authorized"
          /\ ShowAlert("instructions")
          /\ StartScanning
          /\ request' = "none"
          /\ UNCHANGED <<navigation, session, frames>>
       \/ access = "denied" /\ CloseScanner /\ UNCHANGED visible
    /\ UNCHANGED <<access, alert>>

\* Mutant: the session is started only when the scanner is first opened.
ViewWillAppearOnce == UNCHANGED <<running, read>>

\* viewWillAppear.
ViewWillAppear ==
    IF running THEN UNCHANGED <<running, read>> ELSE StartScanning

\* Whether a retry alert asked for now will find nothing else on screen.
NothingElse == alert = "none" /\ pending = <<>> /\ InSight

\* metadataOutput stops the session whatever was read; the right code opens the
\* quiz, a wrong one asks for the retry alert, anything else is ignored.
MetadataOutput(code) ==
    /\ frames > 0
    /\ frames' = frames - 1
    /\ StopScanning(IF code = "wrong" /\ ~NothingElse THEN "behind" ELSE code)
    /\ \/ code = "right" /\ quizzes < MaxQuizzes /\ quizzes' = quizzes + 1
          /\ UNCHANGED pending
       \/ code = "wrong" /\ ShowAlert("wrong") /\ UNCHANGED quizzes
       \/ code = "unreadable" /\ UNCHANGED <<quizzes, pending>>
    /\ UNCHANGED <<access, request, open, visible, session, alert>>

\* A block presents its alert.  Behind another alert it is lost; from a screen
\* that is leaving it may be.
PresentAlert ==
    /\ pending # <<>>
    /\ pending' = Tail(pending)
    /\ \/ alert = "none" /\ alert' = Head(pending)
       \/ ~(alert = "none" /\ InSight) /\ UNCHANGED alert
    /\ UNCHANGED <<access, request, navigation, cameraState>>

\* The player presses an alert's button: retry starts the session again; of the
\* two buttons about the denied access one leaves the scanner.
DismissAlert ==
    /\ alert # "none" /\ request # "asked"
    /\ alert' = "none"
    /\ \/ alert = "denied" /\ CloseScanner
       \/ alert = "wrong" /\ StartScanning
          /\ UNCHANGED <<request, open, quizzes, session, frames, pending>>
       \/ alert \in {"instructions", "denied"}
          /\ UNCHANGED <<request, open, quizzes, cameraState, pending>>
    /\ UNCHANGED <<access, visible>>

InfoBarButtonTouched ==
    /\ InSight /\ Touchable
    /\ ShowAlert("instructions")
    /\ UNCHANGED <<access, request, navigation, cameraState, alert>>

-----------------------------------------------------------------------------
(* Camera and navigation *)

Frame ==
    /\ running /\ session = "ready" /\ access = "authorized"
    /\ frames < MaxFrames
    /\ frames' = frames + 1
    /\ UNCHANGED <<access, request, navigation, session, running, read, alerts>>

\* Mutant: the quiz is popped twice.
BackFromQuizTwice ==
    /\ visible /\ Touchable /\ quizzes > 0
    /\ quizzes' = quizzes - 2
    /\ IF quizzes = 1 THEN ViewWillAppear ELSE UNCHANGED <<running, read>>
    /\ UNCHANGED <<access, request, open, visible, session, frames, alerts>>

\* Back from a quiz; the scanner appears when it was the last.
BackFromQuiz ==
    /\ visible /\ Touchable /\ quizzes > 0
    /\ quizzes' = quizzes - 1
    /\ IF quizzes = 1 THEN ViewWillAppear ELSE UNCHANGED <<running, read>>
    /\ UNCHANGED <<access, request, open, visible, session, frames, alerts>>

\* Back from the scanner, the quiz's verdict, or a second tap on the tab.
Leave ==
    /\ visible /\ Touchable /\ open
    /\ CloseScanner
    /\ UNCHANGED <<access, visible, alert>>

\* viewWillDisappear, if the scanner is the screen that disappears.
LeaveTab ==
    /\ visible /\ Touchable
    /\ visible' = FALSE
    /\ IF InSight /\ running THEN StopScanning("none") ELSE UNCHANGED <<running, read>>
    /\ UNCHANGED <<access, request, open, quizzes, session, frames, alerts>>

ReturnToTab ==
    /\ ~visible /\ Touchable
    /\ visible' = TRUE
    /\ IF open /\ quizzes = 0 THEN ViewWillAppear ELSE UNCHANGED <<running, read>>
    /\ UNCHANGED <<access, request, open, quizzes, session, frames, alerts>>

-----------------------------------------------------------------------------
Init ==
    /\ access \in {"authorized", "undetermined", "denied"}
    /\ request = "none"
    /\ open = FALSE
    /\ quizzes = 0
    /\ visible = TRUE
    /\ session = "nil"
    /\ running = FALSE
    /\ frames = 0
    /\ pending = <<>>
    /\ alert = "none"
    /\ read = "none"

Next ==
    \/ OpenQRScanner
    \/ AnswerRequest
    \/ RequestReplied
    \/ \E code \in Codes : MetadataOutput(code)
    \/ PresentAlert
    \/ DismissAlert
    \/ InfoBarButtonTouched
    \/ Frame
    \/ BackFromQuiz
    \/ Leave
    \/ LeaveTab
    \/ ReturnToTab

Spec == Init /\ [][Next]_vars

-----------------------------------------------------------------------------
(* Properties *)

TypeOK ==
    /\ access \in {"authorized", "undetermined", "denied"}
    /\ request \in {"none", "asked", "replied"}
    /\ open \in BOOLEAN
    /\ quizzes \in 0..MaxQuizzes
    /\ visible \in BOOLEAN
    /\ session \in {"ready", "bare", "nil"}
    /\ running \in BOOLEAN
    /\ frames \in 0..MaxFrames
    /\ pending \in Seq(Alerts)
    /\ Len(pending) <= MaxPending
    /\ alert \in Alerts \cup {"none"}
    /\ read \in Codes \cup {"none", "behind"}

\* The retry alert is on its way or on screen.
RetryOffered == alert = "wrong" \/ \E i \in DOMAIN pending : pending[i] = "wrong"

\* A scanner in sight whose session stands still was stopped by a code, never by
\* coming and going between tabs, quizzes and the request for access; if it was a
\* wrong code, read while no alert was in the way, the retry is offered.
StoppedForAReason ==
    (InSight /\ session # "nil" /\ ~running) =>
        \/ read \in {"unreadable", "behind"}
        \/ read = "wrong" /\ RetryOffered
=============================================================================
