SPECIFICATION ImagesSpec
CONSTANTS
  MaxImages = 2
  Inline <- BothInline
  Viewers <- OneViewer
  MaxJobs = 2
  MaxBytes = 5
  MaxEvents = 3
  NoCall = NoCall
  v1 = v1
  v2 = v2
INVARIANTS ImagesTypeOK ImagesAgree NothingStranded
PROPERTIES DrainRespected
CHECK_DEADLOCK FALSE
