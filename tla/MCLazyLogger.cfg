SPECIFICATION Spec
CONSTANTS
  c1 = c1
  c2 = c2
  f1 = f1
  f2 = f2
  Temporary = Temporary
  NoLogger = NoLogger
  Warner = Warner
  Classes <- MCClasses
  Factories <- MCFactories
  BufferSizes <- MCBufferSizes
  MaxMessages = 5
INVARIANTS TypeOK EmittedInOrder DropsAreAnnounced WarningIsLast
PROPERTIES NoDropAfterSwitch
