SPECIFICATION Spec
CONSTANTS
  a1 = a1
  a2 = a2
  a3 = a3
  s1 = s1
  s2 = s2
  None = None
  Agents = {a1, a3}
  Systems = {s1, s2}
  SystemOf <- MCSystemOf
  Threads = {t1, t2}
  Silent = {}
INVARIANT HeartbeatersSurvive
