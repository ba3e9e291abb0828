SPECIFICATION Spec
CONSTANTS
  Components = {"pbuff", "buddy", "slab_tls", "slab_shared", "objpool", "slab_sizes"}
  Threads = {t1, t2}
  NoThread = NoThread
  Pages = {p1, p2, p3}
  NoPage = NoPage
SYMMETRY Symmetry
INVARIANTS BuffersKeepText PagesAccounted SlabObjectsAccounted CachesFit
