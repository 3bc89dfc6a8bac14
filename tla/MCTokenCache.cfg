CONSTANTS
  t1 = t1
  t2 = t2
  Thread <- MCThread
  Special <- MCSpecial
  ContextMark = "C1"
  QuestionMark = "Q1"
  Quote = "q"
  Escape = "e"
  AnswerPrefix <- MCAnswerPrefix
  CodeCandidates <- MCCodeCandidates
  MaxOptions = 2
  Probe <- MCProbe
  Document <- MCDocument
  Tokenizers <- MCTokenizers
  Skeletons <- MCSkeletons
  Entries = 2
  TokenBudget = 11
  MaxModelLen = 22
  MaxTotal = 30
  MaxQuestions = 2
  Asked <- MCAsked
SPECIFICATION FairSpec
INVARIANTS BudgetKept PromptIsTheText
PROPERTIES NeedfulEviction CompilationEnds
