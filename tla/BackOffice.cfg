SPECIFICATION BackOfficeSpec
CONSTANTS
  d1 = d1
  d2 = d2
  d3 = d3
  o1 = o1
  o2 = o2
  m1 = m1
  Distributions = {d1, d2, d3}
  NetOf <- MCNetOf
  SaleOf <- MCSaleOf
  Payouts = {p1, p2}
  Reviews = {v1, v2}
  MinThreshold = 4
  PayoutDelay = TRUE
  RlsSettings = {TRUE, FALSE}
  PayoutLimits = {1, 2}
  NoPayout = NoPayout
  Downloads = {r1, r2, r3}
  DownloadLimits = {0, 1, 2}
  Readerships = {1, 2, 3}
  Visits = {w1, w2}
  MaxCodes = 2
  MaxAttempts = 1
  AuthLimits = {1, 2}
  Memberships = {m1, m2}
  Users = {u1, u2, boss}
  Founder = u1
  PlatformAdmins = {boss}
  TeamRequests = {q1, q2}
  TeamLimits = {1, 2}
  PoliciesBind = TRUE
  Nobody = Nobody
  Publications = {t1, t2}
  Creations = {c1}
  MaxVersion = 3
  Edits = {e1, e2}
  Statuses = {"draft", "submitted", "under_review", "published"}
  Visibilities = {"private"}
  Authors = {own}
  Employed = {own}
  Oneself = own
  EditLimits = {1, 2}
  WorkPoliciesBind = TRUE
  Uploads = {f1, f2}
  PagesOf <- MCPagesOf
  MaxRenderPages = 2
  PageCaps = {0, 1, 2}
  PreviewRestarts = 1
  Providers = {"fake", "real", "bare"}
  Installed = {"fake", "real"}
  RequiredFields <- MCRequiredFields
  ProviderRequests = {a1, a2}
  ProviderLimits = {1, 2}
  NoProvider = NoProvider
  Accounts = {"a1", "a2"}
  Setups = {s1, s2}
CHECK_DEADLOCK FALSE
INVARIANT BackOfficeTypeOK
INVARIANT PaidIsTransferred
INVARIANT NothingIsLost
INVARIANT MoneyBalances
INVARIANT LimitHolds
INVARIANT CodeOpensOnce
INVARIANT OnlyVerifiedEnter
INVARIANT AttemptsAreBounded
INVARIANT OwnerRemains
INVARIANT LatestIsInForce
INVARIANT PublicIffPublished
INVARIANT AnnouncedPagesExist
INVARIANT RightsOnlyAdd
INVARIANT DefaultStands
PROPERTY PaidForGood
PROPERTY CancelledIsPaidIfCounted
PROPERTY OwnersMakeOwners
PROPERTY OnlyManagersPublish
PROPERTY PreviewSettles
