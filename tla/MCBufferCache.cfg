\* Two processes and a pinned block use all three buffers; buffers move on.
CONSTANTS
  p1 = p1  p2 = p2  b1 = b1  b2 = b2  b3 = b3  b4 = b4  d1 = d1  d2 = d2
  u1 = u1  u2 = u2  u3 = u3
  Proc = {p1, p2}
  Block = {b1, b2, b3, b4}
  Data = {d1, d2}
  Buf = {u1, u2, u3}
  MaxPins = 1
  None = None
SPECIFICATION Spec
SYMMETRY Symmetry
INVARIANT RefcntExact
PROPERTY IsBlockStore
