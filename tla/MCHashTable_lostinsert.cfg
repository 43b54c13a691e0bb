\* Two threads create in one bucket.
CONSTANTS
  t1 = t1
  t2 = t2
  t3 = t3
  k1 = k1
  k2 = k2
  k3 = k3
  b1 = b1
  b2 = b2
  v1 = v1
  v2 = v2
  n1 = n1
  n2 = n2
  c1 = c1
  c2 = c2
  c3 = c3
  NULL = NULL
  Absent = Absent
  Threads = {t1, t2}
  Keys = {k1, k2, k3}
  Buckets = {b1, b2}
  Values = {v1, v2}
  Nodes = {n1, n2}
  Cells = {c1, c2, c3}
  Capacity = 2
  SizeModulus = 4
  Hash <- HashOf
  Mixes <- CreateMixes
SPECIFICATION Spec
INVARIANTS ListsSound
CHECK_DEADLOCK FALSE
