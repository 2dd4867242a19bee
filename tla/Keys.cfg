SPECIFICATION MCSpec
CONSTANTS
  p1 = p1
  p2 = p2
  k1 = k1
  k2 = k2
  Processes = {p1, p2}
  Refs <- MeetingRefs
  Keys = {k1, k2}
  KeyType <- MCKeyType
  Supplied <- PemFile
  Key0 = k1
  Images <- MCImages
  Digest = "sha256"
  NoKey = NoKey
  PackageIDs = {"a", "b"}
  Descriptions = {"", "x", "y"}
  Scans <- MCScans
  MaxDocs = 4
  MaxPkgs = 6
CHECK_DEADLOCK FALSE
INVARIANTS KeysAreKept SignaturesAreAccepted DocumentsAreRight
