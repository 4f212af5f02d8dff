CONSTANTS
  Threads = {t1, t2, t3}
  MaxToken = 2
  NoThread = NoThread
SPECIFICATION Spec
PROPERTY TokenNeverGoesBack
PROPERTY NewTokenIsUsed
