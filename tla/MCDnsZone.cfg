\* Two callers on one domain, any zone to begin with.
SPECIFICATION Spec
CONSTANTS
  Callers = {task, manager}
  Names = {www, mx}
  Values = {cname, a, srv}
  UnsafeValues = {srv}
  MailModes = {forward, private}
  MaxCalls = 3
  None = None
INVARIANT TypeOK
PROPERTIES RestOfZoneKept UnsafeZoneUntouched NamesStayUnique
CHECK_DEADLOCK FALSE
