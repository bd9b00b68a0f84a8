SPECIFICATION GrepSpec
CONSTANTS
  Patterns <- NullablePatterns
  Find <- MCFind
  Entries <- MCEntries
  Arguments <- MCArguments
  Contexts <- MCContexts
  ChunkSize = 2
INVARIANTS
  StartsInData
