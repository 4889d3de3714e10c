\* Four launchers one after the other, four reads in all.
CONSTANTS
  MaxSessions = 4
  MaxReads = 4
SPECIFICATION Spec
INVARIANTS
  TypeOK
  OneToken
  NoCrossing
PROPERTY ListensAgain
