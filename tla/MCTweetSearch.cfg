SPECIFICATION Spec
CONSTANTS
  None = None
  a1 = a1
  c1 = c1
  c2 = c2
  r1 = r1
  s1 = s1
  t1 = t1
  t2 = t2
  Symbol = {s1}
  Tweet = {t1, t2}
  Author = {a1}
  author <- MCAuthor
  Spam = {t2}
  Search = {c1, c2}
  Request = {r1}
  MaxPages = 2
  MaxAge <- MCMaxAge
SYMMETRY Symmetry
CHECK_DEADLOCK FALSE
INVARIANTS
  TypeOK
  NothingForgotten
  
