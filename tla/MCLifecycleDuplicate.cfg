SPECIFICATION LifecycleSpec
CONSTANTS
  a1 = a1
  a2 = a2
  a3 = a3
  s1 = s1
  s2 = s2
  h1 = h1
  h2 = h2
  t1 = t1
  t2 = t2
  None = None
  Agents = {a1, a2}
  Systems = {s1}
  SystemOf <- MCSystemOf
  Threads = {t1, t2}
  Silent = {}
  Handlers = {h1, h2}
  PoolOf <- MCPoolOf
INVARIANT DuplicateOnIgnored
CHECK_DEADLOCK FALSE
