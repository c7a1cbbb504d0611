\* One request at a time, steps fail but answers are not lost.
SPECIFICATION MCFairSpec
CONSTANTS
  Clients = {h1}
  NumServices = 2
  Services <- MCServices
  www = www
  api = api
  Names = {www, api}
  Extra = Extra
  Wildcard = Wildcard
  Types = {cname}
  Targets = {root, ip}
  DefaultType = cname
  DefaultTarget = root
  AddressType = a
  Addresses = {ip}
  HostIds = {g1, g2, g3}
  CertIds = {c1, c2, c3}
  ForeignHost = g1
  ForeignNames = {{www, Extra}, {www, api}}
  MayBeEmpty = TRUE
  Shared = c1
  Foreign = None
  SharedNames = {{Wildcard}, {www, api}}
  ForeignCert = {www}
  Other = ip
  Forms <- MCForms
  Unused = Unused
  Gone = Gone
  None = None
  Attempts = 2
  LostReplies = FALSE
  MaxRequests = 3
  MaxFaults = 0
INVARIANTS TypeOK NothingForgotten ActiveIsPublished Settled

CHECK_DEADLOCK FALSE
