CONSTANTS
  r1 = r1
  r2 = r2
  s1 = s1
  w1 = w1
  w2 = w2
  m1 = m1
  m2 = m2
  m3 = m3
  None = None
  Request = {r1, r2, s1}
  Streaming = {s1}
  Worker = {w1, w2}
  Msg = {m1, m2, m3}
  Chan = {m1, m2, m3}
SYMMETRY Alike
SPECIFICATION Spec
INVARIANTS OwnAnswer HookedOnce
CHECK_DEADLOCK FALSE
