\* Two requests at a time, and lost answers.
SPECIFICATION MCSpec
CONSTANTS
  Clients = {h1, h2}
  NumServices = 2
  Services <- MCServices
  www = www
  api = api
  Names = {www, api}
  Extra = Extra
  Wildcard = Wildcard
  Types = {cname}
  Targets = {root}
  DefaultType = cname
  DefaultTarget = root
  AddressType = a
  Addresses = {ip}
  HostIds = {g1, g2}
  CertIds = {c1, c2, c3}
  ForeignHost = g1
  ForeignNames = {{www, Extra}}
  MayBeEmpty = FALSE
  Shared = c1
  Foreign = None
  SharedNames = {{Wildcard}}
  ForeignCert = {www}
  Other = None
  Forms <- MCForms
  Unused = Unused
  Gone = Gone
  None = None
  Attempts = 1
  LostReplies = TRUE
  MaxRequests = 3
  MaxFaults = 0
PROPERTIES ExtraDomainsKept SharedCertificatesKept
CHECK_DEADLOCK FALSE
