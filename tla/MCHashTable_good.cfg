\* Three threads; their own buckets, or one bucket read, updated and added to;
\* a queue for one writer, so that some are refused; the heap runs out.
CONSTANTS
  t1 = t1
  t2 = t2
  t3 = t3
  k1 = k1
  k2 = k2
  k3 = k3
  b1 = b1
  b2 = b2
  v1 = v1
  v2 = v2
  n1 = n1
  n2 = n2
  c1 = c1
  c2 = c2
  c3 = c3
  NULL = NULL
  Absent = Absent
  Threads = {t1, t2, t3}
  Keys = {k1, k2, k3}
  Buckets = {b1, b2}
  Values = {v1, v2}
  Nodes = {n1, n2}
  Cells = {c1, c2, c3}
  Capacity = 1
  SizeModulus = 4
  Hash <- HashOf
  Mixes <- GoodMixes
SPECIFICATION Spec
SYMMETRY HeapSymmetry
INVARIANTS ListsSound NoUseAfterFree
PROPERTIES ImplementsStore LocksObeyed
