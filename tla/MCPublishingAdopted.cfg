\* A certificate that was there before the service.
SPECIFICATION MCSpec
CONSTANTS
  Clients = {h1}
  NumServices = 1
  Services <- MCServices
  www = www
  api = api
  Names = {www, api}
  Extra = Extra
  Wildcard = Wildcard
  Types = {cname}
  Targets = {root, ip}
  DefaultType = cname
  DefaultTarget = root
  AddressType = a
  Addresses = {ip}
  HostIds = {g1, g2}
  CertIds = {c1, c2, c3, c4}
  ForeignHost = g1
  ForeignNames = {{www, Extra}}
  MayBeEmpty = TRUE
  Shared = c1
  Foreign = c2
  SharedNames = {{Wildcard}}
  ForeignCert = {www}
  Other = ip
  Forms <- MCForms
  Unused = Unused
  Gone = Gone
  None = None
  Attempts = 2
  LostReplies = FALSE
  MaxRequests = 2
  MaxFaults = 0

PROPERTY OnlyOwnCertificatesDeleted
CHECK_DEADLOCK FALSE
