CONSTANTS
  N = 10
SPECIFICATION Spec
INVARIANTS
  TypeOK
  RetrievableFaithful
PROPERTIES
  ReuploadImplementsSession
CHECK_DEADLOCK FALSE
