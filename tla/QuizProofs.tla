----------------------------- MODULE QuizProofs -----------------------------
(* Proofs about Quiz, for all locations, tasks, answers and bounds. *)
EXTENDS Quiz, TLAPS, FiniteSetTheorems

-----------------------------------------------------------------------------
(* The operators of Quiz *)

\* A shuffled quiz is a sequence of exactly its tasks.
LEMMA ShuffledQuiz ==
    ASSUME NEW S, IsFiniteSet(S), S # {}, NEW q \in SetToSeqs(S)
    PROVE  q \in Seq(S) /\ Len(q) = Cardinality(S) /\ Cardinality(S) \in Nat \ {0}
<1>1. Cardinality(S) \in Nat
    BY FS_CardinalityType
<1>2. Cardinality(S) # 0
    BY FS_EmptySet
<1>3. q \in [1..Cardinality(S) -> S]
    BY DEF SetToSeqs
<1> QED
    BY <1>1, <1>2, <1>3

\* setMaxNumber never asks for more questions than there are tasks.
LEMMA MaxNumberBound ==
    ASSUME NEW count \in Nat, NEW maxNumber \in Nat
    PROVE  MaxNumber(count, maxNumber) \in Nat /\ MaxNumber(count, maxNumber) <= count
BY DEF MaxNumber

\* Every verdict and the status line are messages.
LEMMA MessageType ==
    ASSUME TypeOK
    PROVE  /\ WinMessage \in Messages \ {None}
           /\ StatusMessage \in Messages \ {None}
           /\ \A n \in Nat : RetryMessage(n) \in Messages \ {None}
BY DEF TypeOK, Messages, Kinds, WinMessage, StatusMessage, RetryMessage, Message, None

\* dequeueNext keeps the current message and the queue well formed.
LEMMA DequeueType ==
    ASSUME TypeOK, NEW q \in Seq(Messages \ {None}), Dequeue(q)
    PROVE  current' \in Messages /\ queue' \in Seq(Messages \ {None})
<1>1. CASE current = None /\ q # <<>>
    BY <1>1 DEF Dequeue
<1>2. CASE ~(current = None /\ q # <<>>)
    BY <1>2 DEF Dequeue, TypeOK
<1> QED
    BY <1>1, <1>2

LEMMA ShowType ==
    ASSUME TypeOK, NEW m \in Messages \ {None}, Show(m)
    PROVE  /\ current' \in Messages
           /\ queue' \in Seq(Messages \ {None})
           /\ presented' \in BOOLEAN
<1>1. CASE Duplicate(m)
    BY <1>1 DEF Show, TypeOK
<1>2. CASE ~Duplicate(m)
    <2>1. Append(queue, m) \in Seq(Messages \ {None})
        BY DEF TypeOK
    <2>2. Dequeue(Append(queue, m))
        BY <1>2 DEF Show
    <2> QED
        BY <2>1, <2>2, DequeueType DEF Show, TypeOK
<1> QED
    BY <1>1, <1>2

-----------------------------------------------------------------------------
(* Type correctness *)

LEMMA InitType == Init => TypeOK
<1> SUFFICES ASSUME Init PROVE TypeOK
    OBVIOUS
<1>1. current \in Messages
    BY DEF Init, NoMessages, Messages
<1>2. quizSet \in Seq(Tasks) /\ queue \in Seq(Messages \ {None})
    BY DEF Init, NoMessages
<1>3. /\ screen \in Screens
      /\ buttons \subseteq Answers
      /\ earned \subseteq Locations
      /\ won \subseteq Locations
    BY DEF Init, Screens
<1> QED
    BY <1>1, <1>2, <1>3 DEF Init, NoMessages, TypeOK

LEMMA ButtonsType ==
    ASSUME NEW t \in Tasks, NEW old \in SUBSET Answers
    PROVE  ButtonsFor(t, old) \subseteq Answers
BY QuizAssumption DEF ButtonsFor

\* What opening a quiz leaves behind.
LEMMA OpenQuizType ==
    ASSUME TypeOK, NEW l \in Locations, OpenQuiz(l)
    PROVE  /\ TypeOK'
           /\ screen' = "quiz" =>
                  /\ maxQuestionNumber' <= Len(quizSet')
                  /\ Len(quizSet') > 0
           /\ screen' = "crashed" => QuizOf[location'] = {}
<1> DEFINE S == QuizOf[l]
<1>1. S \subseteq Tasks /\ IsFiniteSet(S) /\ NumberOfQuestions[l] \in Nat
    BY QuizAssumption, FS_Subset
<1>2. Cardinality(S) \in Nat
    BY <1>1, FS_CardinalityType
<1>3. maxQuestionNumber' \in Nat /\ maxQuestionNumber' <= Cardinality(S)
    BY <1>1, <1>2, MaxNumberBound DEF OpenQuiz
<1>4. CASE S = {}
    <2>1. /\ screen' = "crashed"
          /\ quizSet' = <<>>
          /\ buttons' = {}
          /\ won' = {}
          /\ location' = l
        BY <1>4 DEF OpenQuiz
    <2>2. quizSet' \in Seq(Tasks)
        BY <2>1
    <2>3. current' \in Messages /\ presented' \in BOOLEAN /\ queue' \in Seq(Messages \ {None})
        <3>1. LoseMessages
            BY <1>4 DEF OpenQuiz
        <3>2. <<>> \in Seq(Messages \ {None}) /\ None \in Messages
            BY DEF Messages
        <3> QED
            BY <3>1, <3>2, Zenon DEF LoseMessages
    <2> QED
        BY <1>3, <1>4, <2>1, <2>2, <2>3 DEF OpenQuiz, TypeOK, Screens
<1>5. CASE S # {}
    <2>1. /\ screen' = "quiz"
          /\ quizSet' \in SetToSeqs(S)
          /\ buttons' = ButtonsFor(quizSet'[1], {})
          /\ UNCHANGED <<messageVars, won>>
        BY <1>5 DEF OpenQuiz
    <2>2. quizSet' \in Seq(S) /\ Len(quizSet') = Cardinality(S) /\ Cardinality(S) \in Nat \ {0}
        BY <1>1, <1>5, <2>1, ShuffledQuiz
    <2>3. quizSet' \in Seq(Tasks) /\ quizSet'[1] \in Tasks
        BY <1>1, <2>2
    <2>4. buttons' \subseteq Answers
        BY <2>1, <2>3, ButtonsType
    <2> QED
        BY <1>3, <2>1, <2>2, <2>3, <2>4 DEF OpenQuiz, TypeOK, Screens, messageVars
<1> QED
    BY <1>4, <1>5

\* The index invariant: it is inductive together with the types.  The limit is
\* needed because nextQuestion compares with it and not with the quiz itself.
InRange ==
    /\ screen = "quiz" =>
        /\ maxQuestionNumber <= Len(quizSet)
        /\ questionNumber < Len(quizSet)
        /\ shown # questionNumber => timers > 0
    /\ screen = "crashed" => QuizOf[location] = {}

QuizInv == TypeOK /\ InRange

\* A tap keeps the types and the range; nextQuestion stops before the limit, and
\* schedules a timer whenever it moves on.
LEMMA DidSelectInv ==
    ASSUME QuizInv, NEW a \in Answers, DidSelect(a)
    PROVE  QuizInv'
<1> DEFINE score == rightAnswer + (IF IsRight(a) THEN 1 ELSE 0)
<1>1. TypeOK /\ screen = "quiz" /\ screen' = "quiz"
    BY DEF QuizInv, DidSelect
<1>2. score \in Nat
    BY <1>1 DEF TypeOK
<1>3. CASE IsLastQuestion
    <2>1. /\ current' \in Messages
          /\ queue' \in Seq(Messages \ {None})
          /\ presented' \in BOOLEAN
          /\ won' \subseteq Locations
        <3>1. CASE score = maxQuestionNumber
            <4>1. Show(WinMessage) /\ won' = won \cup {location}
                BY <1>3, <3>1 DEF DidSelect
            <4> QED
                BY <1>1, <4>1, ShowType, MessageType DEF TypeOK
        <3>2. CASE score # maxQuestionNumber
            <4>1. Show(RetryMessage(score)) /\ won' = won
                BY <1>3, <3>2 DEF DidSelect
            <4>2. RetryMessage(score) \in Messages \ {None}
                BY <1>1, <1>2, MessageType
            <4> QED
                BY <1>1, <4>1, <4>2, ShowType DEF TypeOK
        <3> QED
            BY <3>1, <3>2
    <2>2. /\ rightAnswer' = score
          /\ verdicts' = verdicts + 1
          /\ UNCHANGED <<questionNumber, timers>>
        BY <1>3 DEF DidSelect
    <2>3. TypeOK'
        BY <1>1, <1>2, <2>1, <2>2 DEF DidSelect, TypeOK, Screens
    <2>4. InRange'
        BY <2>2 DEF QuizInv, InRange, DidSelect
    <2> QED
        BY <2>3, <2>4 DEF QuizInv
<1>4. CASE ~IsLastQuestion
    <2>1. /\ rightAnswer' = score
          /\ questionNumber' = questionNumber + 1
          /\ timers' = timers + 1
          /\ UNCHANGED <<verdicts, won, messageVars>>
        BY <1>4 DEF DidSelect
    <2>2. TypeOK'
        BY <1>1, <1>2, <2>1 DEF DidSelect, TypeOK, Screens, messageVars
    <2>3. questionNumber + 1 < maxQuestionNumber
        BY <1>1, <1>4 DEF IsLastQuestion
    <2>4. /\ questionNumber \in Nat /\ timers \in Nat /\ maxQuestionNumber \in Nat
          /\ quizSet \in Seq(Tasks) /\ maxQuestionNumber <= Len(quizSet)
        BY <1>1 DEF TypeOK, QuizInv, InRange
    <2>5. InRange'
        BY <2>1, <2>3, <2>4 DEF InRange, DidSelect
    <2> QED
        BY <2>2, <2>5 DEF QuizInv
<1> QED
    BY <1>3, <1>4

LEMMA UpdateUIInv == ASSUME QuizInv, UpdateUI PROVE QuizInv'
<1>1. /\ TypeOK
      /\ screen = "quiz"
      /\ questionNumber < Len(quizSet)
      /\ timers > 0
    BY DEF QuizInv, InRange, UpdateUI
<1>2. Task(questionNumber) \in Tasks
    BY <1>1 DEF TypeOK, Task
<1>3. buttons' \subseteq Answers
    BY <1>1, <1>2, ButtonsType DEF UpdateUI, TypeOK
<1>4. timers' \in Nat
    BY <1>1 DEF UpdateUI, TypeOK
<1>5. TypeOK'
    BY <1>1, <1>3, <1>4 DEF UpdateUI, TypeOK, handlerVars, messageVars
<1>6. InRange'
    BY DEF QuizInv, InRange, UpdateUI, handlerVars
<1> QED
    BY <1>5, <1>6 DEF QuizInv

\* The steps that leave the quiz and its view alone.
LEMMA OtherInv ==
    ASSUME QuizInv, UNCHANGED <<location, attempt, quizSet, questionNumber, rightAnswer,
                                maxQuestionNumber, verdicts, viewVars>>,
           screen' \in Screens, screen' \in {screen, "detail", "projects"},
           current' \in Messages, presented' \in BOOLEAN, queue' \in Seq(Messages \ {None}),
           earned' \subseteq Locations, won' \subseteq Locations
    PROVE  QuizInv'
<1>1. TypeOK'
    BY DEF QuizInv, TypeOK, viewVars
<1>2. InRange'
    BY DEF QuizInv, InRange, viewVars
<1> QED
    BY <1>1, <1>2 DEF QuizInv

\* Every step keeps the invariant.
LEMMA NextInv == QuizInv /\ [Next]_vars => QuizInv'
<1> SUFFICES ASSUME QuizInv, [Next]_vars PROVE QuizInv'
    OBVIOUS
<1> USE DEF QuizInv
<1>t. None \in Messages /\ TypeOK
    BY DEF Messages
<1>1. ASSUME NEW l \in Locations, OpenQuiz(l) PROVE QuizInv'
    <2>1. /\ TypeOK'
          /\ screen' = "quiz" => maxQuestionNumber' <= Len(quizSet') /\ Len(quizSet') > 0
          /\ screen' = "crashed" => QuizOf[location'] = {}
        BY <1>1, OpenQuizType
    <2>2. questionNumber' = 0 /\ shown' = 0
        BY <1>1 DEF OpenQuiz
    <2> QED
        BY <2>1, <2>2 DEF InRange
<1>2. ASSUME NEW a \in Answers, DidSelect(a) PROVE QuizInv'
    BY <1>2, DidSelectInv
<1>3. CASE UpdateUI
    BY <1>3, UpdateUIInv
<1>4. CASE VerdictButton
    <2>1. current.kind = "win" => current.loc \in Locations
        BY <1>t DEF TypeOK, Messages, None
    <2>2. earned' \subseteq Locations /\ screen' \in Screens /\ screen' \in {screen, "detail"}
        BY <1>t, <1>4, <2>1 DEF VerdictButton, TypeOK, Screens
    <2> QED
        BY <1>t, <1>4, <2>2, OtherInv DEF VerdictButton, HideMessage, handlerVars, TypeOK
<1>5. CASE Back
    BY <1>t, <1>5, OtherInv DEF Back, handlerVars, messageVars, TypeOK, Screens
<1>6. CASE Present
    BY <1>t, <1>6, OtherInv DEF Present, PresentCurrent, handlerVars, TypeOK
<1>7. CASE NextMessage
    <2>1. current' \in Messages /\ queue' \in Seq(Messages \ {None})
        BY <1>t, <1>7, DequeueType DEF NextMessage, DequeueNext, TypeOK
    <2> QED
        BY <1>t, <1>7, <2>1, OtherInv DEF NextMessage, DequeueNext, handlerVars, TypeOK
<1>8. CASE SwipeStatus
    BY <1>t, <1>8, OtherInv DEF SwipeStatus, HideMessage, handlerVars, TypeOK
<1>9. CASE OpenProjectList
    BY <1>t, <1>9, OtherInv DEF OpenProjectList, handlerVars, messageVars, TypeOK, Screens
<1>10. CASE Unreachable
    <2>1. /\ current' \in Messages
          /\ queue' \in Seq(Messages \ {None})
          /\ presented' \in BOOLEAN
        BY <1>t, <1>10, ShowType, MessageType DEF Unreachable
    <2> QED
        BY <1>t, <1>10, <2>1, OtherInv DEF Unreachable, handlerVars, TypeOK
<1>11. CASE Reachable
    BY <1>t, <1>11, OtherInv DEF Reachable, HideMessage, handlerVars, TypeOK
<1>12. CASE Relaunch
    <2>1. queue' \in Seq(Messages \ {None}) /\ won' \subseteq Locations
        BY <1>12 DEF Relaunch, LoseMessages
    <2> QED
        BY <1>t, <1>12, <2>1, OtherInv DEF Relaunch, LoseMessages, TypeOK, Screens
<1>13. CASE UNCHANGED vars
    BY <1>t, <1>13, OtherInv DEF vars, handlerVars, messageVars, TypeOK
<1> QED
    BY <1>1, <1>2, <1>3, <1>4, <1>5, <1>6, <1>7, <1>8, <1>9, <1>10, <1>11, <1>12, <1>13 DEF Next

LEMMA Invariance == Spec => []QuizInv
<1>1. Init => QuizInv
    BY InitType DEF Init, NoMessages, QuizInv, InRange
<1> QED
    BY <1>1, NextInv, PTL DEF Spec

\* Every variable of the quiz keeps its type, whatever the tasks and the bounds.
THEOREM TypeCorrect == Spec => []TypeOK
<1>1. QuizInv => TypeOK
    BY DEF QuizInv
<1> QED
    BY <1>1, Invariance, PTL

\* checkAnswer, getQuestionText and getOptions never read outside quizSet, for
\* every quiz, every number of questions and any number of late taps.
THEOREM QuestionAlwaysInRange == Spec => []QuestionInRange
<1>1. QuizInv => QuestionInRange
    BY DEF QuizInv, InRange, QuestionInRange
<1> QED
    BY <1>1, Invariance, PTL

\* Whenever the view lags behind the handler, a refresh is on its way.
THEOREM RefreshAlwaysPending == Spec => []RefreshPending
<1>1. QuizInv => RefreshPending
    BY DEF QuizInv, InRange, RefreshPending
<1> QED
    BY <1>1, Invariance, PTL

-----------------------------------------------------------------------------
(* The quiz implements its rules *)

\* What the rules need beyond the index: an attempt has issued no verdict before
\* its last question.
VerdictIsLast ==
    screen = "quiz" =>
        /\ attempt > 0
        /\ verdicts > 0 => IsLastQuestion

\* What the strict rules need: at most one verdict, too.
OneVerdict ==
    screen = "quiz" =>
        /\ questionNumber < maxQuestionNumber
        /\ verdicts > 0 => questionNumber + 1 = maxQuestionNumber

\* The environment in which the strict rules hold: no tap between a verdict and its
\* window, and at least one question per location.
Orderly == MaxLateTaps = 0 /\ \A l \in Locations : NumberOfQuestions[l] > 0

LEMMA VerdictIsLastStep ==
    ASSUME QuizInv, VerdictIsLast, [Next]_vars
    PROVE  VerdictIsLast'
<1>1. ASSUME NEW l \in Locations, OpenQuiz(l) PROVE VerdictIsLast'
    BY <1>1 DEF OpenQuiz, VerdictIsLast, QuizInv, TypeOK
<1>2. ASSUME NEW a \in Answers, DidSelect(a) PROVE VerdictIsLast'
    <2>1. screen = "quiz" /\ verdicts \in Nat /\ UNCHANGED <<attempt, maxQuestionNumber>>
        BY <1>2 DEF DidSelect, QuizInv, TypeOK
    <2>2. CASE IsLastQuestion
        BY <1>2, <2>1, <2>2 DEF DidSelect, VerdictIsLast, IsLastQuestion
    <2>3. CASE ~IsLastQuestion
        BY <1>2, <2>1, <2>3 DEF DidSelect, VerdictIsLast
    <2> QED
        BY <2>2, <2>3
<1>3. ASSUME UNCHANGED <<attempt, questionNumber, maxQuestionNumber, verdicts>>,
             screen' = "quiz" => screen = "quiz"
      PROVE  VerdictIsLast'
    BY <1>3 DEF VerdictIsLast, IsLastQuestion
<1>4. CASE VerdictButton
    BY <1>3, <1>4 DEF VerdictButton, handlerVars
<1>5. CASE Back \/ OpenProjectList \/ Relaunch
    BY <1>3, <1>5 DEF Back, OpenProjectList, Relaunch, handlerVars
<1>6. CASE UpdateUI \/ Present \/ NextMessage \/ SwipeStatus \/ Unreachable \/ Reachable
    BY <1>3, <1>6 DEF UpdateUI, Present, NextMessage, SwipeStatus, Unreachable, Reachable, handlerVars
<1>7. CASE UNCHANGED vars
    BY <1>3, <1>7 DEF vars, handlerVars
<1> QED
    BY <1>1, <1>2, <1>4, <1>5, <1>6, <1>7 DEF Next

LEMMA OpenQuizAsks ==
    ASSUME Orderly, QuizInv, NEW l \in Locations, OpenQuiz(l), screen' = "quiz"
    PROVE  maxQuestionNumber' > 0
<1>1. QuizOf[l] # {} /\ QuizOf[l] \subseteq Tasks /\ NumberOfQuestions[l] \in Nat
    BY QuizAssumption DEF OpenQuiz
<1>2. Cardinality(QuizOf[l]) \in Nat /\ Cardinality(QuizOf[l]) # 0
    BY <1>1, QuizAssumption, FS_Subset, FS_CardinalityType, FS_EmptySet
<1>3. NumberOfQuestions[l] > 0
    BY DEF Orderly
<1> QED
    BY <1>1, <1>2, <1>3 DEF OpenQuiz, MaxNumber

LEMMA OneVerdictStep ==
    ASSUME Orderly, QuizInv, OneVerdict, [Next]_vars
    PROVE  OneVerdict'
<1>1. ASSUME NEW l \in Locations, OpenQuiz(l) PROVE OneVerdict'
    <2>1. questionNumber' = 0 /\ verdicts' = 0
        BY <1>1 DEF OpenQuiz
    <2> QED
        BY <1>1, <2>1, OpenQuizAsks DEF OneVerdict
<1>2. ASSUME NEW a \in Answers, DidSelect(a) PROVE OneVerdict'
    <2>1. /\ screen = "quiz" /\ maxQuestionNumber' = maxQuestionNumber
          /\ verdicts = 0
          /\ questionNumber \in Nat /\ maxQuestionNumber \in Nat
        BY <1>2 DEF DidSelect, Orderly, QuizInv, TypeOK
    <2>2. CASE IsLastQuestion
        BY <1>2, <2>1, <2>2 DEF DidSelect, OneVerdict, IsLastQuestion
    <2>3. CASE ~IsLastQuestion
        BY <1>2, <2>1, <2>3 DEF DidSelect, OneVerdict, IsLastQuestion
    <2> QED
        BY <2>2, <2>3
<1>3. ASSUME UNCHANGED <<questionNumber, maxQuestionNumber, verdicts>>,
             screen' = "quiz" => screen = "quiz"
      PROVE  OneVerdict'
    BY <1>3 DEF OneVerdict
<1>4. CASE VerdictButton
    BY <1>3, <1>4 DEF VerdictButton, handlerVars
<1>5. CASE Back \/ OpenProjectList \/ Relaunch
    BY <1>3, <1>5 DEF Back, OpenProjectList, Relaunch, handlerVars
<1>6. CASE UpdateUI \/ Present \/ NextMessage \/ SwipeStatus \/ Unreachable \/ Reachable
    BY <1>3, <1>6 DEF UpdateUI, Present, NextMessage, SwipeStatus, Unreachable, Reachable, handlerVars
<1>7. CASE UNCHANGED vars
    BY <1>3, <1>7 DEF vars, handlerVars
<1> QED
    BY <1>1, <1>2, <1>4, <1>5, <1>6, <1>7 DEF Next

\* Taking the next message from q brings up no message that q or current lacks.
LEMMA DequeuePending ==
    ASSUME NEW q \in Seq(Messages \ {None}), Dequeue(q),
           NEW m \in Pending'
    PROVE  m = current \/ \E i \in DOMAIN q : m = q[i]
<1>1. CASE current = None /\ q # <<>>
    <2>1. current' = Head(q) /\ queue' = Tail(q)
        BY <1>1 DEF Dequeue
    <2>2. CASE m = current'
        BY <1>1, <2>1, <2>2
    <2>3. CASE \E i \in DOMAIN queue' : m = queue'[i]
        <3>1. PICK i \in DOMAIN Tail(q) : m = Tail(q)[i]
            BY <2>1, <2>3
        <3>2. i + 1 \in DOMAIN q /\ Tail(q)[i] = q[i + 1]
            BY <1>1, <3>1
        <3> QED
            BY <3>1, <3>2
    <2> QED
        BY <2>2, <2>3 DEF Pending
<1>2. CASE ~(current = None /\ q # <<>>)
    <2>1. current' = current /\ queue' = q
        BY <1>2 DEF Dequeue
    <2> QED
        BY <2>1 DEF Pending
<1> QED
    BY <1>1, <1>2

\* Showing a message adds at most that message.
LEMMA ShowPending ==
    ASSUME QuizInv, NEW m \in Messages \ {None}, Show(m)
    PROVE  Pending' \subseteq Pending \cup {m}
<1>1. CASE Duplicate(m)
    BY <1>1 DEF Show, Pending
<1>2. CASE ~Duplicate(m)
    <2>1. queue \in Seq(Messages \ {None})
        BY DEF QuizInv, TypeOK
    <2>2. Append(queue, m) \in Seq(Messages \ {None}) /\ Dequeue(Append(queue, m))
        BY <1>2, <2>1 DEF Show
    <2>3. ASSUME NEW i \in DOMAIN Append(queue, m)
          PROVE  Append(queue, m)[i] \in Pending \cup {m}
        BY <2>1 DEF Pending
    <2>4. ASSUME NEW x \in Pending' PROVE x \in Pending \cup {m}
        <3>1. x = current \/ \E i \in DOMAIN Append(queue, m) : x = Append(queue, m)[i]
            BY <2>2, DequeuePending
        <3>2. current \in Pending
            BY DEF Pending
        <3> QED
            BY <2>3, <3>1, <3>2
    <2> QED
        BY <2>4
<1> QED
    BY <1>1, <1>2

LEMMA OwedShrinks ==
    ASSUME Pending' \subseteq Pending \cup {None} PROVE Owed' \subseteq Owed
BY DEF Owed, None

\* A tap makes a win owed only if the score is full.
LEMMA DidSelectOwes ==
    ASSUME QuizInv, NEW a \in Answers, DidSelect(a)
    PROVE  Owed' \subseteq Owed \cup {x \in {location} : IsLastQuestion /\ rightAnswer' = maxQuestionNumber}
<1> DEFINE score == rightAnswer + (IF IsRight(a) THEN 1 ELSE 0)
<1>1. rightAnswer \in Nat /\ rightAnswer' = score
    BY DEF DidSelect, QuizInv, TypeOK
<1>2. CASE IsLastQuestion /\ score = maxQuestionNumber
    <2>1. Show(WinMessage)
        BY <1>2 DEF DidSelect
    <2>2. Pending' \subseteq Pending \cup {WinMessage}
        BY <2>1, ShowPending, MessageType DEF QuizInv
    <2>3. WinMessage.loc = location
        BY DEF WinMessage, Message
    <2> QED
        BY <1>1, <1>2, <2>2, <2>3 DEF Owed
<1>3. CASE IsLastQuestion /\ score # maxQuestionNumber
    <2>1. Show(RetryMessage(score)) /\ score \in Nat
        BY <1>1, <1>3 DEF DidSelect
    <2>2. Pending' \subseteq Pending \cup {RetryMessage(score)}
        BY <2>1, ShowPending, MessageType DEF QuizInv
    <2>3. RetryMessage(score).kind # "win"
        BY DEF RetryMessage, Message
    <2> QED
        BY <2>2, <2>3 DEF Owed
<1>4. CASE ~IsLastQuestion
    BY <1>4 DEF DidSelect, messageVars, Owed, Pending
<1> QED
    BY <1>2, <1>3, <1>4

\* A tap answers the next question of the attempt, or the last one again.
LEMMA DidSelectAnswers ==
    ASSUME QuizInv, VerdictIsLast, NEW a \in Answers, DidSelect(a)
    PROVE  /\ Rules!Answer \/ Rules!AnswerAgain
           /\ verdicts = 0 /\ questionNumber < maxQuestionNumber => Rules!Answer
<1> DEFINE asked == questionNumber + (IF verdicts > 0 THEN 1 ELSE 0)
<1>1. /\ screen = "quiz" /\ verdicts \in Nat
      /\ questionNumber \in Nat /\ maxQuestionNumber \in Nat /\ rightAnswer \in Nat
      /\ attempt > 0
      /\ UNCHANGED <<attempt, location, maxQuestionNumber, earned>>
    BY DEF DidSelect, QuizInv, TypeOK, VerdictIsLast
<1>2. rightAnswer' \in {rightAnswer, rightAnswer + 1}
    BY <1>1 DEF DidSelect
<1>3. Owed' \subseteq Owed \cup {x \in {location} : IsLastQuestion /\ rightAnswer' = maxQuestionNumber}
    BY DidSelectOwes
<1>4. CASE verdicts = 0 /\ questionNumber < maxQuestionNumber
    <2>1. asked < maxQuestionNumber /\ asked' = asked + 1
        <3>1. CASE IsLastQuestion
            BY <1>1, <1>4, <3>1 DEF DidSelect
        <3>2. CASE ~IsLastQuestion
            BY <1>1, <1>4, <3>2 DEF DidSelect
        <3> QED
            BY <3>1, <3>2
    <2>2. IsLastQuestion => asked' = maxQuestionNumber
        BY <1>1, <1>4, <2>1 DEF IsLastQuestion
    <2>3. Owed' \subseteq Owed \cup {x \in {location} : asked' = maxQuestionNumber /\ rightAnswer' = maxQuestionNumber}
        BY <1>3, <2>2
    <2>4. Rules!Answer
        BY <1>1, <1>2, <2>1, <2>3 DEF Rules!Answer
    <2> QED
        BY <2>4
<1>5. CASE ~(verdicts = 0 /\ questionNumber < maxQuestionNumber)
    <2>1. IsLastQuestion
        BY <1>1, <1>5 DEF VerdictIsLast, IsLastQuestion
    <2>2. asked >= maxQuestionNumber /\ asked' \in {asked, asked + 1}
        BY <1>1, <1>5, <2>1 DEF DidSelect, IsLastQuestion
    <2>3. Owed' \subseteq Owed \cup {x \in {location} : rightAnswer' = maxQuestionNumber}
        BY <1>3
    <2>4. Rules!AnswerAgain
        BY <1>1, <1>2, <2>2, <2>3 DEF Rules!AnswerAgain
    <2> QED
        BY <1>5, <2>4
<1> QED
    BY <1>4, <1>5

\* Every step but a tap is a step of the strict rules, or none.
LEMMA StepRefines ==
    ASSUME QuizInv, [Next]_vars, ~\E a \in Answers : DidSelect(a)
    PROVE  [Rules!StrictNext]_(Rules!rulesVars)
<1> USE DEF Rules!StrictNext
<1>f. ASSUME UNCHANGED <<attempt, location, maxQuestionNumber, questionNumber, verdicts, rightAnswer,
                         earned>>,
             Pending' \subseteq Pending \cup {None}
      PROVE  Rules!Forget
    BY <1>f, OwedShrinks DEF Rules!Forget
<1>1. ASSUME NEW l \in Locations, OpenQuiz(l) PROVE Rules!Begin
    <2>1. maxQuestionNumber' \in Nat
        BY <1>1, OpenQuizType DEF QuizInv, TypeOK
    <2>2. Owed' \subseteq Owed
        <3>1. CASE QuizOf[l] = {}
            BY <1>1, <3>1, OwedShrinks DEF OpenQuiz, LoseMessages, Pending
        <3>2. CASE QuizOf[l] # {}
            BY <1>1, <3>2 DEF OpenQuiz, messageVars, Owed, Pending
        <3> QED
            BY <3>1, <3>2
    <2>3. (attempt > 0)' = TRUE
        BY <1>1 DEF OpenQuiz, QuizInv, TypeOK
    <2>4. /\ location' \in Locations
          /\ (questionNumber + (IF verdicts > 0 THEN 1 ELSE 0))' = 0
          /\ rightAnswer' = 0 /\ earned' = earned
        BY <1>1 DEF OpenQuiz
    <2> QED
        BY <2>1, <2>2, <2>3, <2>4 DEF Rules!Begin
<1>h. ASSUME HideMessage PROVE Pending' \subseteq Pending \cup {None}
    BY <1>h DEF HideMessage, Pending
<1>4. CASE VerdictButton
    <2>1. Pending' \subseteq Pending \cup {None}
        BY <1>4, <1>h DEF VerdictButton
    <2>2. CASE current.kind = "win"
        <3>1. current.loc \in Owed
            BY <2>2 DEF Owed, Pending
        <3>2. Rules!Award
            BY <1>4, <2>1, <2>2, <3>1, OwedShrinks DEF VerdictButton, handlerVars, Rules!Award
        <3> QED
            BY <3>2
    <2>3. CASE current.kind # "win"
        BY <1>4, <1>f, <2>1, <2>3 DEF VerdictButton, handlerVars
    <2> QED
        BY <2>2, <2>3
<1>5. CASE UpdateUI \/ Back \/ Present \/ OpenProjectList
    <2>1. Pending' = Pending
        BY <1>5 DEF UpdateUI, Back, Present, PresentCurrent, OpenProjectList, messageVars, Pending
    <2> QED
        BY <1>5, <1>f, <2>1 DEF UpdateUI, Back, Present, OpenProjectList, handlerVars
<1>6. CASE NextMessage
    <2>1. queue \in Seq(Messages \ {None}) /\ Dequeue(queue)
        BY <1>6 DEF NextMessage, DequeueNext, QuizInv, TypeOK
    <2>2. Pending' \subseteq Pending
        BY <2>1, DequeuePending DEF Pending
    <2> QED
        BY <1>6, <1>f, <2>2 DEF NextMessage, handlerVars
<1>7. CASE SwipeStatus \/ Reachable
    BY <1>7, <1>f, <1>h DEF SwipeStatus, Reachable, handlerVars
<1>8. CASE Unreachable
    <2>1. Pending' \subseteq Pending \cup {StatusMessage}
        BY <1>8, ShowPending, MessageType DEF Unreachable, QuizInv
    <2>2. StatusMessage.kind # "win"
        BY DEF StatusMessage, Message
    <2>3. Owed' \subseteq Owed
        BY <2>1, <2>2 DEF Owed
    <2> QED
        BY <1>8, <2>3 DEF Unreachable, handlerVars, Rules!Forget
<1>9. CASE Relaunch
    <2>1. Pending' = {None}
        BY <1>9 DEF Relaunch, LoseMessages, Pending
    <2> QED
        BY <1>9, <1>f, <2>1 DEF Relaunch
<1>10. CASE UNCHANGED vars
    BY <1>10 DEF vars, handlerVars, messageVars, Owed, Pending, Rules!rulesVars
<1> QED
    BY <1>1, <1>4, <1>5, <1>6, <1>7, <1>8, <1>9, <1>10 DEF Next

LEMMA InitRefines == Init => Rules!RulesInit
<1> SUFFICES ASSUME Init PROVE Rules!RulesInit
    OBVIOUS
<1>1. Pending = {None}
    BY DEF Init, NoMessages, Pending
<1>2. Owed = {}
    BY <1>1 DEF Owed, None
<1> QED
    BY <1>2 DEF Init, Rules!RulesInit

\* Whatever is stored and however the player taps, the quiz follows its rules:
\* CoinEarned is posted only for a location whose attempt had a full score.
THEOREM QuizImplementsRules == Spec => ImplementsRules
<1>1. Init => VerdictIsLast
    BY DEF Init, VerdictIsLast
<1>2. QuizInv /\ VerdictIsLast /\ [Next]_vars => VerdictIsLast'
    BY VerdictIsLastStep
<1>3. QuizInv /\ VerdictIsLast /\ [Next]_vars => [Rules!RulesNext]_(Rules!rulesVars)
    <2> SUFFICES ASSUME QuizInv, VerdictIsLast, [Next]_vars
                 PROVE  [Rules!RulesNext]_(Rules!rulesVars)
        OBVIOUS
    <2>1. ASSUME NEW a \in Answers, DidSelect(a) PROVE Rules!RulesNext
        BY <2>1, DidSelectAnswers DEF Rules!RulesNext, Rules!StrictNext
    <2> QED
        BY <2>1, StepRefines DEF Rules!RulesNext
<1> QED
    BY <1>1, <1>2, <1>3, InitRefines, Invariance, PTL DEF Spec, ImplementsRules, Rules!RulesSpec

\* As long as no tap slips in between a verdict and its window, and every location
\* asks a question, each question is judged once.
THEOREM QuizImplementsStrictRules ==
    ASSUME Orderly PROVE Spec => ImplementsStrictRules
<1>1. Init => OneVerdict /\ VerdictIsLast
    BY DEF Init, OneVerdict, VerdictIsLast
<1>2. QuizInv /\ OneVerdict /\ VerdictIsLast /\ [Next]_vars => OneVerdict' /\ VerdictIsLast'
    BY OneVerdictStep, VerdictIsLastStep
<1>3. QuizInv /\ OneVerdict /\ VerdictIsLast /\ [Next]_vars => [Rules!StrictNext]_(Rules!rulesVars)
    <2> SUFFICES ASSUME QuizInv, OneVerdict, VerdictIsLast, [Next]_vars
                 PROVE  [Rules!StrictNext]_(Rules!rulesVars)
        OBVIOUS
    <2>1. ASSUME NEW a \in Answers, DidSelect(a) PROVE Rules!Answer
        <3>1. verdicts = 0 /\ questionNumber < maxQuestionNumber
            BY <2>1 DEF DidSelect, Orderly, OneVerdict, QuizInv, TypeOK
        <3> QED
            BY <2>1, <3>1, DidSelectAnswers
    <2> QED
        BY <2>1, StepRefines DEF Rules!StrictNext
<1> QED
    BY <1>1, <1>2, <1>3, InitRefines, Invariance, PTL
       DEF Spec, ImplementsStrictRules, Rules!StrictSpec
=============================================================================
