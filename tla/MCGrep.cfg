SPECIFICATION GrepSpec
CONSTANTS
  Patterns <- MCPatterns
  Find <- MCFind
  Entries <- MCEntries
  Arguments <- MCArguments
  Contexts <- MCContexts
  ChunkSize = 2
INVARIANTS
  GrepTypeOK
  LabelsTrue
  NothingTwice
  ContextShown
  NoMatchSkipped
  FilesNamed
PROPERTIES
  SearchAdvances
