\* Two logins at once, with a service that stops, starts, and answers late or in part.
CONSTANTS
  Threads = {t1, t2}
  t1 = t1
  t2 = t2
  Names <- FourNames
  User <- Lookup
  Blank = ""
  Operators = {"admin"}
SPECIFICATION FairLoginSpec
INVARIANTS
  LoginTypeOK
  OnlyOperatorsEnter
  VerdictsRestOnAnswers
PROPERTY
  LoginEnds
