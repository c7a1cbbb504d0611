\* One request at a time, steps fail; the process dies once or one commit fails.
SPECIFICATION MCFairSpec
CONSTANTS
  Clients = {h1}
  NumServices = 2
  Services <- MCServices
  www = www
  api = api
  Names = {www, api}
  Extra = Extra
  Wildcard = Wildcard
  Types = {cname}
  Targets = {root, ip}
  DefaultType = cname
  DefaultTarget = root
  AddressType = a
  Addresses = {ip}
  HostIds = {g1, g2}
  CertIds = {c1, c2, c3, c4}
  ForeignHost = g1
  ForeignNames = {{www, Extra}}
  MayBeEmpty = TRUE
  Shared = c1
  Foreign = c2
  SharedNames = {{Wildcard}}
  ForeignCert = {www}
  Other = ip
  Forms <- MCForms
  Unused = Unused
  Gone = Gone
  None = None
  Attempts = 2
  LostReplies = FALSE
  MaxRequests = 2
  MaxFaults = 1
INVARIANT OneCertificatePerName
PROPERTIES RunsEnd
CHECK_DEADLOCK FALSE
