SPECIFICATION Spec
CONSTANTS
  p1 = p1
  p2 = p2
  l1 = l1
  Posters = {p1, p2}
  Pollers = {l1}
  MaxResults = 2
INVARIANT AtMostOneRunning
