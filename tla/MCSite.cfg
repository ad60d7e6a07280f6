SPECIFICATION Spec
CONSTANTS
  Blogs = {"main", "en"}
  Prefix <- Subpaths
  Sections = {"posts", "notes"}
  FewFeatures = 2
  Handlers = {h1, h2}
  Edited = {"main"}
  Changed = {"hideShareButton", "addReplyTitle", "reactionsEnabled", "disableReceiving", "reactions", "defaultSection", "user", "blog", "sections", "reload"}
  MaxRequests = 2
  MaxFaults = 1
  Tabs = {t1, t2}
  MaxConnections = 3
  MaxTroubles = 1
  Words = {w1, w2, w3}
  Odd = {w3}
  MaxTyped = 2
  MaxWaiting = 1
SYMMETRY Symmetry
CHECK_DEADLOCK FALSE
INVARIANTS NoDeadLinks HiddenStaysHidden MemoryIsStored RouterIsCurrent SectionInUseStays PagesAreCurrent EditorsConverge
