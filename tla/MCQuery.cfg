SPECIFICATION MCSpec
CONSTANTS
  Dn <- MCDn
  Rn <- MCRn
  Class = {"polUni", "fvTenant", "fvBD", "fvSubnet"}
  Val = {"9", "10"}
  Unset = Unset
  NoMO = NoMO
  ClassOf <- MCClassOf
  Writable <- MCWritable
  Root <- uni
  Text <- MCText
  NoFilter <- MCNoFilter
  FilterFails <- MCFilterFails
  FilterHolds <- MCFilterHolds
  MaxSize = 2
  Query <- MCQueries
  Paged <- MCPaged
  NoListing = NoListing
  NoNum = NoNum
  Token <- MCToken
  Missing = Unset
  Num <- MCNum
  Rank <- MCRank
  Within <- MCWithin
  Object <- MCObject
  Comparisons <- MCComparisons
  MaxNesting = 2
  MaxTokens = 16
INVARIANTS
  AnswerExact
  FilterExact
  PagesExact
