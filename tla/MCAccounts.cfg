CONSTANTS
  None = None
  Browsers = {b1, b2}
  Handlers = {h1, h2}
  Passkeys = {key, old}
  Legacy = old
  Apps = {app1, app2}
  Procs = {server, command}
  Server = server
  Registered = {client}
  Sites = {site}
  Scopes = {create}
  Age <- SessionAge
  MaxTime = 2
  MaxRequests = 3
  MaxFaults = 1
SPECIFICATION Spec
INVARIANTS EndedStaysEnded WayIn MigrationIsComplete CaptchaHolds TokensAreApproved
SYMMETRY Symmetry
CHECK_DEADLOCK FALSE
