\* three events of a warm Lambda, or of the local server; any awaits fail
CONSTANTS
  Tasks = {t1,t2,t3}
SPECIFICATION Spec
INVARIANT TypeOK
INVARIANT RunsConnected
INVARIANT NothingLeftConnected
INVARIANT StaleNamesAreCleared
\* every event is processed once: the system stops
CHECK_DEADLOCK FALSE
