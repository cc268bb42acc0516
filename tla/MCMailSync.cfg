CONSTANTS
  m1 = m1
  m2 = m2
  Msgs = {m1, m2}
  Initial = {m1}
  NoIdentity = NoIdentity
  Identity <- Identities
  Kinds = {"plain", "condstore", "qresync"}
  Syncers = {s1}
  Setters = {t1}
  Bounds <- Together
SPECIFICATION FairSpec
CHECK_DEADLOCK FALSE
INVARIANTS
  TypeOK
  OneRowPerMessage
PROPERTIES
  LiveMailIsKept
  Converges
