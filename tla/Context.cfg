SPECIFICATION MCSpec
CONSTANTS
  local = local
  git = git
  tar = tar
  upward = upward
  archive = archive
  stdin = stdin
  file = file
  Contexts <- MCContexts
  Kind <- MCKind
  Source <- MCSource
  Dotted = {"../etc"}
  Stages <- MCStages
  Causes <- MCCauses
  Remarks <- MCRemarks
  Steps = {"FROM", "COPY"}
  MaxErrors = 5
  a = a
  b = b
  Values <- MCValues
  Singles <- MCSingles
  MaxStages = 3
  MaxList = 4
  MaxCells = 8
CHECK_DEADLOCK FALSE
INVARIANTS ReadyHoldsSource CategoriesAreRight SharingIsInvisible
