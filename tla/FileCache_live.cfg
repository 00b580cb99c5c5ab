SPECIFICATION FairSpec
CONSTANTS
  Callers = {c}
  Feed = Feed
  Pictures = {p}
  Corrupt = {}
  NoPicture = NoPicture
  Trimmers = {t}
  MaxProfiles = 2
  MaxChanges = 1
  Gone = Gone
CHECK_DEADLOCK FALSE
INVARIANTS
  ShownTogether
PROPERTIES
  CacheSettles
  ProfileIsShown
  TrimsThoughRestarted
