CONSTANTS
  Sessions = {s1, s2, s3}
  Names = {ana, beto}
  Deaf = {s3}
  None = None
SPECIFICATION Spec
INVARIANTS
  RegisteredQueueExists
  RegisteredWhilePlaying
PROPERTY
  EndedSessionUnregistered
CHECK_DEADLOCK FALSE
