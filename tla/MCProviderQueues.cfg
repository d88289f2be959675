CONSTANTS
  c1 = c1
  c2 = c2
  a1 = a1
  a2 = a2
  w1 = w1
  w2 = w2
  Nobody = Nobody
  Caller = {c1, c2}
  Batch = {c1}
  Admin = {a1, a2}
  Operation = {"Update", "Remove", "Shutdown"}
  Worker = {w1}
  BufferSize = 1
  MaxGen = 6
  Created = {TRUE, FALSE}
SYMMETRY Alike
SPECIFICATION Spec
INVARIANTS HandledOnce StoppedIsQuiet AlwaysServed
