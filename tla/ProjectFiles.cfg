SPECIFICATION FairSpec
CONSTANTS
  s1 = s1
  s2 = s2
  e1 = e1
  Op = {o1, o2}
  Files <- TwoFiles
  EpisodeOf <- SameEpisode
  Draft = Draft
  Absent = Absent
  NULL = NULL
  Scan = Scan
  MaxCrashes = 1
INVARIANTS
    BindingInv
PROPERTIES
    EditsSurvive
    FilesSettle
CHECK_DEADLOCK FALSE
