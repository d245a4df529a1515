CONSTANTS
  Tasks = {t1, t2}
  Deadlined = {t2}
  Nobody = Nobody
SPECIFICATION SignerSpec
INVARIANTS
  ConnectedHasClient
PROPERTY RequestsEnd
