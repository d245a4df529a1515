CONSTANTS
  Tasks = {t1, t2}
  Deadlined = {}
  Nobody = Nobody
SPECIFICATION SignerSpec
PROPERTY RequestsEnd
CHECK_DEADLOCK FALSE
