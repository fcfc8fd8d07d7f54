SPECIFICATION Spec
CONSTANTS
  t1 = t1
  t2 = t2
  f1 = f1
  f2 = f2
  f3 = f3
  Thread <- MCThread
  Frame <- MCFrame
PROPERTY BufferHeldInProgress
