SPECIFICATION Spec
CONSTANTS
  Components = {"slab_shared"}
  Threads = {t1, t2}
  NoThread = NoThread
  Pages = {p1, p2, p3}
  NoPage = NoPage
SYMMETRY Symmetry
INVARIANT SlabAssertionsHold
