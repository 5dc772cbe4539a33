SPECIFICATION Spec
CONSTANTS
  l1 = l1
  l2 = l2
  l3 = l3
  l4 = l4
  t1 = t1
  t2 = t2
  t3 = t3
  a = a
  b = b
  c = c
  Tasks = {t1, t2, t3}
  Answers = {a, b, c}
  AnswerOf <- MCAnswerOf
  Locations = {l1, l2, l3, l4}
  Blank = {t3}
  QuizOf <- MCQuizOf
  OptionsOf <- MCOptionsOf
  NumberOfQuestions <- MCNumberOfQuestions
  MaxLateTaps = 2
  MaxAttempts = 2
INVARIANTS TypeOK QuestionInRange RefreshPending
PROPERTIES QuestionCatchesUp ImplementsRules
