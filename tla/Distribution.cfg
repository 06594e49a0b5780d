CONSTANTS
  Runs = {r1, r2, r3}
  Files = {PluginYaml, binary}
  PluginYaml = PluginYaml
  NoImage = NoImage
  NoRow = NoRow
SPECIFICATION Spec
SYMMETRY Symmetry
CHECK_DEADLOCK FALSE
INVARIANTS TypeOK RunAloneRepairs RowIsTag InstalledIsCatalogued
PROPERTY TagNeverMoves
