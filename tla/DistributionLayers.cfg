CONSTANTS
  Runs = {r1, r2}
  Files = {PluginYaml, binary}
  PluginYaml = PluginYaml
  NoImage = NoImage
  NoRow = NoRow
SPECIFICATION Spec
SYMMETRY Symmetry
CHECK_DEADLOCK FALSE
INVARIANT InstallIsComplete
