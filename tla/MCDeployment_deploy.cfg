CONSTANTS
  h1 = h1
  h2 = h2
  c1 = c1
  c2 = c2
  v1 = v1
  v2 = v2
  Configs = {c1, c2}
  Versions = {v1, v2}
  Accepts <- MCAccepts
  Handlers = {h1, h2}
  MaxCerts = 1
  Torn = Torn
  None = None
SYMMETRY Symmetry
SPECIFICATION Spec
ACTION_CONSTRAINT CertificateBound
INVARIANTS
  TypeOK
  FilesFitTogether
PROPERTIES
  PushIsAtomic
  UpgradesAreAllOrNothing
  RenewedIsServed
VIEW View
