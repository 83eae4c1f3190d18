SPECIFICATION ListSpec
CONSTANTS
  Width <- MCWidth
  Names <- MCNames
  Ranges <- MCRanges
  Ids <- MCIds
  IdOf <- MCIdOf
  Overviews <- MCOverviews
  Wildmats <- MCWildmats
  MaxEntries <- MCMaxEntries
INVARIANTS
  AskedOfBackend
  EntriesShown
  GroupsListed
