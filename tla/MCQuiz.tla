------------------------------- MODULE MCQuiz -------------------------------
(* Instances of Quiz for TLC. *)
EXTENDS Quiz

CONSTANTS l1, l2, l3, l4, t1, t2, t3, a, b, c

\* Questions whose options overlap, so that a stale button can hold the right
\* answer of the next question; a location that asks for fewer questions than it
\* has, one that asks for more, one of its tasks blank, one without tasks, and
\* one that asks for none.
MCQuizOf == (l1 :> {t1, t2}) @@ (l2 :> {t1, t2, t3}) @@ (l3 :> {}) @@ (l4 :> {t2})
MCNumberOfQuestions == (l1 :> 1) @@ (l2 :> 4) @@ (l3 :> 1) @@ (l4 :> 0)
\* The same, every location asking for a question.
AskingNumberOfQuestions == [MCNumberOfQuestions EXCEPT ![l4] = 1]
MCOptionsOf == (t1 :> {a, b}) @@ (t2 :> {b, c}) @@ (t3 :> {})
MCAnswerOf == (t1 :> a) @@ (t2 :> b) @@ (t3 :> c)
=============================================================================
