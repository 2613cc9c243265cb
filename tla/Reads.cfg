CONSTANTS
  root = root
  a = a
  b = b
  c = c
  Files = {root, a, b, c}
  Root = root
  Away = Away
  RefLists <- Lists
  Sizes <- SizeChoices
  Basename <- Names
  Limits <- LimitChoices
  s1 = s1
  s2 = s2
  s3 = s3
  site = site
  lone = lone
  app = app
  h1 = h1
  h2 = h2
  h3 = h3
  h4 = h4
  Nowhere = Nowhere
  mine = mine
  other = other
  repo = repo
  stranger = stranger
  t1 = t1
  t2 = t2
  None = None
  Untagged = Untagged
  api = api
  sib = sib
  wsp = wsp
  id1 = id1
  id2 = id2
  g1 = g1
  g2 = g2
  u1 = u1
  u2 = u2
  u3 = u3
  u4 = u4
  host1 = host1
  host2 = host2
  SubscriptionIds = {s1, s2, s3}
  Selected <- Two
  CloudKinds <- ApimOnly
  HeaderWidth = 2
  MaxHeaders = 2
  Resources = {site, app, lone}
  Apps = {app}
  Associations = {mine, other}
  Width = 2
  MaxPages = 2
  Home <- Located
  InScope = {site, app, lone}
  Enumerated = {h1, h2, h3, h4}
  At <- Placed
  Web = {h1, h2}
  Ours = {mine}
  Tokens = {t1, t2}
  Repos = {repo, stranger}
  RepoOf <- Bound
  Apis = {api, sib, wsp}
  InWorkspace = {wsp}
  IdOf <- Ids
  GroupOf <- Groups
  MaxServices = 2
  MaxChildren = 2
  MaxInventory = 3
  Urls = {u1, u2, u3, u4}
  SafeUrls = {u1, u2, u3}
  HostOf <- Hosts
  MaxRedirects = 1
  MaxBytes = 2
  MaxAttempts = 2
  MaxPolls = 2
  MaxWall = 1
  Links = {u1, u4}
  Sites <- Standard
  NoLink = NoLink
  NoRead = NoRead
  Consumption = flow
  NoWorkflow = NoWorkflow
  Unused = Unused
  Idle = Idle
  Stopped = Stopped
  Kinds = {"http", "grpc", "websocket", "unknown"}
  Current = {"yes", "no", "unset"}
  Keys = {"none", "canonical"}
SPECIFICATION ReadsSpec
INVARIANTS Typed FullMeansClosed BundleWithinLimits FullIffComplete
INVARIANTS ScopesVerified HeadersAreInOrder EnrichmentIsTrue RosterIsTrue
INVARIANTS ListingIsTrue InventoryIsWhole ExportsAreTrue
CHECK_DEADLOCK FALSE
