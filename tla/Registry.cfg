SPECIFICATION Spec
CONSTANTS
  p1 = p1
  p2 = p2
  b = b
  cfg1 = cfg1
  cfg2 = cfg2
  t1 = t1
  d1 = d1
  u1 = u1
  r1 = r1
  Pushers = {p1, p2}
  Putters = {u1}
  Deleters = {d1}
  Pullers = {r1}
  Blobs = {b, cfg1, cfg2}
  EmptyBlob = EmptyBlob
  Tags = {t1}
  NoImage = NoImage
  Layers <- MCLayers
  Config <- MCConfig
  Blob <- MCBlob
  Tag <- MCTag
  MaxRetries = 1
  Teams <- MCTeams
INVARIANTS TypeOK MissingOnlyIfDeleted AnswersAreTrue
PROPERTIES ImplementsRepository CallsReturn
CHECK_DEADLOCK FALSE
