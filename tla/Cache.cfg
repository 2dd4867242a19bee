SPECIFICATION Spec
CONSTANTS
  e1 = e1
  e2 = e2
  e3 = e3
  i1 = i1
  i2 = i2
  main = main
  other = other
  l1 = l1
  Exporters <- MCExporters
  Importers <- MCImporters
  Repositories = {main, other}
  Tags <- MCTags
  Repository <- MCRepository
  Place <- MCPlace
  Version <- MCVersion
  Others <- MCOthers
CHECK_DEADLOCK FALSE
INVARIANT TransfersAreRight
