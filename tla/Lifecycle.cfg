\* No symmetry: ConnectedCallsEnd is a liveness property.
SPECIFICATION FairSpec
CONSTANTS
  Boot = Boot
  NoTx = NoTx
  Writer = {w1, w2}
  TxClient = {t1, t2}
  Connector = {k1, k2}
  Closer = {d1}
  LastVersion = 2
INVARIANTS MigratedOnce ConnectedMeansMigrated
PROPERTIES ConnectedCallsEnd
CHECK_DEADLOCK FALSE
