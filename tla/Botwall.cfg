SPECIFICATION Spec
CONSTANTS
  Names <- MCNames
  Slugs <- MCSlugs
  NoSlug <- NoText
  SlugOf <- MCSlugOf
  TitleOf <- MCTitleOf
  Categories <- MCCategories
  Segments <- MCSegments
  PathOf <- MCPathOf
  Tokens <- MCTokens
  NoToken <- NoText
  Plain <- MCPlain
  Addrs <- MCAddrs
  NoAddr <- NoText
  Ranges <- MCRanges
  Covers <- MCCovers
  Configs <- MCConfigs
  Definitions <- MCDefinitions
  Snapshots <- MCSnapshots
  Requests <- MCRequests
  Statuses = {200, 403}
  Informational = 103
  NoStatus = NoStatus
  MaxLive = 2
INVARIANTS
  TypeOK
  ClaimIsVerified
  HumansPass
  VerifiedBotPassesGate
  PolicyIsFollowed
  ProtectedIsLogged
