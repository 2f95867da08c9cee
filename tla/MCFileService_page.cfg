SPECIFICATION FairSpec
CONSTANTS
  SizeBits = 16
  Basedirs <- MCBasedirs
  Files <- MCFiles
  Paths <- MCPaths
INVARIANTS
  ContentTypeFits
  ClientSeesThePage
PROPERTIES
  ConstructorEnds
