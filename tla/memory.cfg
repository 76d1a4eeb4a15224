SPECIFICATION MCSpec
CONSTANTS
  t1 = t1
  t2 = t2
  t3 = t3
  va = va
  vb = vb
  none = none
  CodeThreads = {t1, t2, t3}
  CodeWriters = {t3}
  CodeNames = {"kernel", "user", "window"}
  CodeWords = {1, 2}
  CodeEntries = {1, 2, 3, 4, 5}
  Blank = {1}
  Zeroed = {1}
  MaxAttempts = 2
  MaxVersion = 2
  End <- BothWords
  Page <- PageEach
  SweepNames <- AliasesOf
  Settings <- EachSetting
INVARIANT CompiledIsCurrent
INVARIANT ReadsCurrent
INVARIANT DrawsCurrent
CHECK_DEADLOCK FALSE
