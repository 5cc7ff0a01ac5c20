\* Two saves, two key requests and one EDID request, with two hosts and two
\* passwords.
SPECIFICATION Spec
CONSTANTS
  h1 = h1
  h2 = h2
  p1 = p1
  p2 = p2
  admin = admin
  None = None
  save1 = save1
  save2 = save2
  type1 = type1
  type2 = type2
  edid = edid
  Hosts = {h1, h2}
  Secrets = {admin, p1, p2}
  Forms <- MCForms
  Files <- MCFiles
  Sourced <- MCSourced
  Savers = {save1, save2}
  Typists = {type1, type2}
  Operators = {edid}
SYMMETRY Symmetry
INVARIANTS
  TypeOK
  ClientCurrent
  RestartKeepsSettings
  KeysComeUp
  FetchedClientIsReady
CHECK_DEADLOCK FALSE
