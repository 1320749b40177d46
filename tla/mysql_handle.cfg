SPECIFICATION Spec
CONSTANTS
  Thread = {t1, t2, t3}
  Handle = {h1, h2}
  NoHandle = NoHandle
  NoThread = NoThread
INVARIANTS StatementHandleStable NoHandleLeaks
PROPERTY LockedSectionsAtomic
