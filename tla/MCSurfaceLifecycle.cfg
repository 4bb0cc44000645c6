SPECIFICATION MCSpec
CONSTANTS
  eager = eager
  paced = paced
  x1 = x1
  p1 = p1
  p2 = p2
  Windows = {eager, paced}
  X11Windows = {x1}
  Popups = {p1, p2}
  Parent <- MCParent
  Dismissable = {p2}
  Paced = {paced, p1, p2}
  MaxEvents = 7
INVARIANTS
  ShellTrue
  ClientsAgree
PROPERTIES
  NoResurrection
  Settles
