SPECIFICATION Spec
CONSTANTS
  Components = {"rbtree", "radix_tree", "idr", "dict", "ring", "list", "hlist", "bitmap",
                "parselist", "sort", "event_cores"}
  Threads = {t1, t2}
  NoThread = NoThread
  Producers = {"p1", "p2"}
  Consumers = {"c1"}
  Modulus = 8
  Starts = {7}
  RingCount = 2
  ExactSize = TRUE
  Batches = {1, 2}
  MaxItems = 3
SYMMETRY Symmetry
INVARIANTS
  RedBlackTree
  RadixTreeIsMap
  IdsAreExact
  DictIsSet
  RingIsQueue
  LinksAgree
  
  DeletedIsQuiet
