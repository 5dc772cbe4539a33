-------------------------------- MODULE Quiz --------------------------------
(***************************************************************************)
(* The quiz of a location: QuizHandler (the score keeper), the             *)
(* QuizViewController and QuizView that drive it, and the message queue    *)
(* (SwiftMessages, one message on screen at a time) through which the      *)
(* verdict reaches the player and the coin reaches the coin book.          *)
(*                                                                         *)
(* Everything runs on the main queue, but a tap, the half-second timer     *)
(* that refreshes the question and the asynchronous presentation of a      *)
(* message interleave freely.  The message queue is shared with the rest   *)
(* of the application; its other relevant user is the project list, whose  *)
(* "network not reachable" line stays up until it is dismissed.            *)
(***************************************************************************)
EXTENDS Naturals, FiniteSets, SequencesExt, SwiftMessages

CONSTANTS
    Locations,          \* the locations of the project
    Tasks,              \* the stored quiz tasks
    Answers,            \* the texts a button or an answer may hold
    Blank,              \* tasks left empty by Task.create on a malformed document
    QuizOf,             \* QuizOf[l]: the tasks stored for location l
    OptionsOf,          \* OptionsOf[t]: the options of task t
    AnswerOf,           \* AnswerOf[t]: the right answer of task t
    NumberOfQuestions,  \* NumberOfQuestions[l]: how many questions l wants asked
    MaxLateTaps,        \* bound: taps answered after a verdict, before it covers the quiz
    MaxAttempts         \* bound: how often a quiz is opened

ASSUME QuizAssumption ==
    /\ Blank \subseteq Tasks
    /\ IsFiniteSet(Tasks)
    /\ QuizOf \in [Locations -> SUBSET Tasks]
    /\ OptionsOf \in [Tasks -> SUBSET Answers]
    /\ AnswerOf \in [Tasks -> Answers]
    /\ NumberOfQuestions \in [Locations -> Nat]
    /\ MaxLateTaps \in Nat
    /\ MaxAttempts \in Nat

VARIABLES
    screen,             \* which view controller the player looks at
    location,           \* the location whose quiz is open
    attempt,            \* how many quizzes were opened: names the open QuizViewController
    quizSet,            \* QuizHandler.quizSet, shuffled
    questionNumber,     \* QuizHandler.questionNumber, from 0
    rightAnswer,        \* QuizHandler.rightAnswer
    maxQuestionNumber,  \* QuizHandler.maxQuestionNumber
    shown,              \* the question number whose text the view shows
    buttons,            \* the answers on the buttons of the view
    timers,             \* scheduled, not yet fired updateUI timers
    verdicts,           \* verdicts the open quiz has issued
    earned,             \* locations for which CoinEarned was posted
    won                 \* locations whose quiz was won since the launch

handlerVars == <<location, attempt, quizSet, questionNumber, rightAnswer,
                 maxQuestionNumber, verdicts, won>>
viewVars    == <<shown, buttons, timers>>
vars == <<screen, handlerVars, viewVars, messageVars, earned>>

Screens == {"detail", "projects", "quiz", "crashed"}

\* The identity of a message is its kind and the score its text holds.
Message(kind, l, score, total) ==
    [id |-> <<kind, score, total>>, kind |-> kind, loc |-> l, attempt |-> attempt]

\* "Hurra": the text does not depend on the location.
WinMessage == Message("win", location, 0, 0)

\* "Try again": the text holds the score.
RetryMessage(score) == Message("retry", location, score, maxQuestionNumber)

\* The red line of the project list; it belongs to no quiz.
StatusMessage == Message("status", location, 0, 0)

IsVerdict(m) == m.kind \in {"win", "retry"}

-----------------------------------------------------------------------------
(* The messages on the screens of the quiz *)

Present ==
    /\ PresentCurrent
    /\ UNCHANGED <<screen, handlerVars, viewVars, earned>>

NextMessage ==
    /\ DequeueNext
    /\ UNCHANGED <<screen, handlerVars, viewVars, earned>>

\* A verdict's blurred window takes every touch; the status line takes none.
Touchable == ~(presented /\ IsVerdict(current))

\* To navigate takes a touch of its own, later than the block that presents a
\* message; only a second finger on the quiz can be quicker.
Settled == Touchable /\ (current # None => presented)

\* The status line can be swiped away; the verdicts are not interactive.
SwipeStatus ==
    /\ presented
    /\ current.kind = "status"
    /\ HideMessage
    /\ UNCHANGED <<screen, handlerVars, viewVars, earned>>

-----------------------------------------------------------------------------
(* QuizHandler *)

\* setMaxNumber
MaxNumber(count, maxNumber) == IF count > maxNumber THEN maxNumber ELSE count

Task(n) == quizSet[n + 1]

\* checkAnswer: the answer of a blank task is nil and equals no text.
IsRight(answer) ==
    Task(questionNumber) \notin Blank /\ answer = AnswerOf[Task(questionNumber)]

\* Mutant: one question too many.
IsLastQuestionLate == ~(questionNumber < maxQuestionNumber)

\* nextQuestion's test, negated.
IsLastQuestion == ~(questionNumber + 1 < maxQuestionNumber)

-----------------------------------------------------------------------------
(* QuizViewController and QuizView *)

\* updateUI: the options of a blank task are nil, and the old buttons stay.
ButtonsFor(t, old) == IF t \in Blank THEN old ELSE OptionsOf[t]

\* The scanner read the location's code and pushes its quiz (viewDidLoad).
\* The first updateUI reads quizSet[0]: an empty quiz ends the application.
OpenQuiz(l) ==
    /\ screen = "detail"
    /\ Settled
    /\ attempt < MaxAttempts
    /\ attempt' = attempt + 1
    /\ location' = l
    /\ IF QuizOf[l] = {}
       THEN /\ screen' = "crashed"
            /\ quizSet' = <<>>
            /\ buttons' = {}
            /\ LoseMessages
            /\ won' = {}
       ELSE /\ screen' = "quiz"
            /\ quizSet' \in SetToSeqs(QuizOf[l])
            /\ buttons' = ButtonsFor(quizSet'[1], {})
            /\ UNCHANGED <<messageVars, won>>
    /\ maxQuestionNumber' = MaxNumber(Cardinality(QuizOf[l]), NumberOfQuestions[l])
    /\ questionNumber' = 0
    /\ rightAnswer' = 0
    /\ verdicts' = 0
    /\ shown' = 0
    /\ timers' = 0
    /\ UNCHANGED earned

\* didSelect: the tapped text is judged against the question the handler is at,
\* which the view may not show yet.
DidSelect(answer) ==
    LET score == rightAnswer + (IF IsRight(answer) THEN 1 ELSE 0)
    IN  /\ screen = "quiz"
        /\ Touchable
        /\ verdicts <= MaxLateTaps
        /\ answer \in buttons
        /\ rightAnswer' = score
        /\ IF IsLastQuestion
           THEN /\ IF score = maxQuestionNumber
                   THEN Show(WinMessage) /\ won' = won \cup {location}
                   ELSE Show(RetryMessage(score)) /\ UNCHANGED won
                /\ verdicts' = verdicts + 1
                /\ UNCHANGED <<questionNumber, timers>>
           ELSE /\ questionNumber' = questionNumber + 1
                /\ timers' = timers + 1
                /\ UNCHANGED <<verdicts, won, messageVars>>
        /\ UNCHANGED <<screen, location, attempt, quizSet, maxQuestionNumber,
                       shown, buttons, earned>>

\* Mutant: the timer repeats.
UpdateUIRepeats ==
    /\ screen = "quiz"
    /\ timers' = timers - 1
    /\ shown' = questionNumber
    /\ buttons' = ButtonsFor(Task(questionNumber), buttons)
    /\ UNCHANGED <<screen, handlerVars, messageVars, earned>>

\* Mutant: the view counts its own questions and keeps one timer.
UpdateUICoalesced ==
    /\ screen = "quiz"
    /\ timers > 0
    /\ timers' = 0
    /\ shown' = shown + 1
    /\ buttons' = ButtonsFor(Task(shown + 1), buttons)
    /\ UNCHANGED <<screen, handlerVars, messageVars, earned>>

\* Mutant: a task without options leaves the old question up.
UpdateUIUnlessBlank ==
    /\ screen = "quiz"
    /\ timers > 0
    /\ timers' = timers - 1
    /\ IF Task(questionNumber) \in Blank
       THEN UNCHANGED <<shown, buttons>>
       ELSE shown' = questionNumber /\ buttons' = OptionsOf[Task(questionNumber)]
    /\ UNCHANGED <<screen, handlerVars, messageVars, earned>>

\* A half-second timer fires updateUI.
UpdateUI ==
    /\ screen = "quiz"
    /\ timers > 0
    /\ timers' = timers - 1
    /\ shown' = questionNumber
    /\ buttons' = ButtonsFor(Task(questionNumber), buttons)
    /\ UNCHANGED <<screen, handlerVars, messageVars, earned>>

\* Mutant: both verdicts post CoinEarned.
VerdictButtonAlways ==
    /\ presented
    /\ IsVerdict(current)
    /\ HideMessage
    /\ earned' = earned \cup {current.loc}
    /\ screen' = IF screen = "quiz" /\ current.attempt = attempt THEN "detail" ELSE screen
    /\ UNCHANGED <<handlerVars, viewVars>>

\* The button of a verdict: hide it, post CoinEarned if it was won, and pop the
\* quiz if it is still the one on the navigation stack.
VerdictButton ==
    /\ presented
    /\ IsVerdict(current)
    /\ HideMessage
    /\ earned' = earned \cup (IF current.kind = "win" THEN {current.loc} ELSE {})
    /\ screen' = IF screen = "quiz" /\ current.attempt = attempt THEN "detail" ELSE screen
    /\ UNCHANGED <<handlerVars, viewVars>>

\* The navigation bar's back button; the controller's timers die unseen.
Back ==
    /\ screen \in {"quiz", "projects"}
    /\ Settled
    /\ screen' = "detail"
    /\ UNCHANGED <<handlerVars, viewVars, messageVars, earned>>

-----------------------------------------------------------------------------
(* The project list and the application *)

OpenProjectList ==
    /\ screen = "detail"
    /\ Settled
    /\ screen' = "projects"
    /\ UNCHANGED <<handlerVars, viewVars, messageVars, earned>>

\* reachability.whenUnreachable
Unreachable ==
    /\ screen = "projects"
    /\ Show(StatusMessage)
    /\ UNCHANGED <<screen, handlerVars, viewVars, earned>>

\* reachability.whenReachable hides the current message, whichever it is.
Reachable ==
    /\ screen = "projects"
    /\ HideMessage
    /\ UNCHANGED <<screen, handlerVars, viewVars, earned>>

\* The application ends (crash, or killed in the background) and is started
\* again: the collected coins were saved, everything else is gone.
Relaunch ==
    /\ screen' = "detail"
    /\ LoseMessages
    /\ won' = {}
    /\ UNCHANGED <<location, attempt, quizSet, questionNumber, rightAnswer,
                   maxQuestionNumber, verdicts, viewVars, earned>>

-----------------------------------------------------------------------------
Init ==
    /\ screen = "detail"
    /\ location \in Locations
    /\ attempt = 0
    /\ quizSet = <<>>
    /\ questionNumber = 0
    /\ rightAnswer = 0
    /\ maxQuestionNumber = 0
    /\ shown = 0
    /\ buttons = {}
    /\ timers = 0
    /\ verdicts = 0
    /\ NoMessages
    /\ earned = {}
    /\ won = {}

Next ==
    \/ \E l \in Locations : OpenQuiz(l)
    \/ \E a \in Answers : DidSelect(a)
    \/ UpdateUI
    \/ VerdictButton
    \/ Back
    \/ Present
    \/ NextMessage
    \/ SwipeStatus
    \/ OpenProjectList
    \/ Unreachable
    \/ Reachable
    \/ Relaunch

\* Timers fire and main-queue blocks run; the player owes nothing.
Fairness ==
    /\ WF_vars(UpdateUI)
    /\ WF_vars(Present)
    /\ WF_vars(NextMessage)

Spec == Init /\ [][Next]_vars /\ Fairness

-----------------------------------------------------------------------------
(* Properties *)

Kinds == {"win", "retry", "status"}

Messages ==
    {None} \cup [id : Kinds \X Nat \X Nat, kind : Kinds, loc : Locations, attempt : Nat]

TypeOK ==
    /\ screen \in Screens
    /\ location \in Locations
    /\ attempt \in Nat
    /\ quizSet \in Seq(Tasks)
    /\ questionNumber \in Nat
    /\ rightAnswer \in Nat
    /\ maxQuestionNumber \in Nat
    /\ shown \in Nat
    /\ buttons \subseteq Answers
    /\ timers \in Nat
    /\ verdicts \in Nat
    /\ current \in Messages
    /\ presented \in BOOLEAN
    /\ queue \in Seq(Messages \ {None})
    /\ earned \subseteq Locations
    /\ won \subseteq Locations

\* While a quiz is open, the index with which getQuestionText, getOptions and
\* checkAnswer read quizSet is inside it, whatever the number of questions asked
\* for, however fast the player taps and whichever timers are still scheduled; the
\* one read that ends the application is that of a location without any task.
QuestionInRange ==
    /\ screen = "quiz" => questionNumber < Len(quizSet)
    /\ screen = "crashed" => QuizOf[location] = {}

\* A view that lags behind the handler always has a timer on its way that will
\* bring it up to date: nextQuestion never leaves the old question up for good.
RefreshPending == screen = "quiz" /\ shown # questionNumber => timers > 0

\* The same, as a promise: the question on screen becomes the one that is judged,
\* or the quiz is left.
QuestionCatchesUp ==
    screen = "quiz" /\ shown # questionNumber
        ~> screen # "quiz" \/ shown = questionNumber

\* "You have won the coin": a quiz that was won has handed its coin out, or the
\* message whose button does so is still waiting.
WonCoinArrives ==
    \A l \in won : l \in earned \/ \E m \in Pending : m.kind = "win" /\ m.loc = l

\* The locations a win message on its way will hand a coin out for.
Owed == {m.loc : m \in {x \in Pending : x.kind = "win"}}

\* The quiz implements its rules.
Rules == INSTANCE QuizRules WITH
    begun <- attempt > 0,
    loc   <- location,
    total <- maxQuestionNumber,
    asked <- questionNumber + (IF verdicts > 0 THEN 1 ELSE 0),
    right <- rightAnswer,
    owed  <- Owed,
    coins <- earned

\* With screens, timers, fast taps and the message queue in between, the quiz
\* follows its rules: no question is skipped or judged twice but the last, and
\* CoinEarned is posted only for a location whose attempt had a full score.
ImplementsRules == Rules!RulesSpec

\* The same, with every question judged once.
ImplementsStrictRules == Rules!StrictSpec
=============================================================================
