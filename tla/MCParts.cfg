CONSTANTS
  Worker = {w1, w2}
  NoWorker = NoWorker
  Session = {s1, s2}
  StartId = {i1, i2, i3}
  NoId = NoId
  StartTask = {t1, t2, t3}
  Rule = {anywhere, japan}
  AnyRule = anywhere
  Caller = {c1, c2}
  NoCaller = NoCaller
  Token = {k1, k2}
  NoToken = NoToken
  Tab = {b1, b2}
  NoAddress = NoAddress
  Client = {browser}
SPECIFICATION Spec
SYMMETRY Symmetry
CHECK_DEADLOCK FALSE
INVARIANTS
  SuccessIsReal
  NothingBypassesTunnel
  CapacityOvershoot
  NetdAgrees
  
  ExportFaithful
  FramingExact
  TargetsVetted
  InBounds
  TriesWhatIsListed
  PagesCoverTheList
  StoreFollowsLive
  EndedStaysEnded
  OneUpstreamAddress
  ViewIsCurrent
PROPERTIES
  SwitchSparesConnecting
  WholeListOrNothing
