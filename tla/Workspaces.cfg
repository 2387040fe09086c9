SPECIFICATION Spec
CONSTANTS
  Calls = {c1, c2}
  c1 = c1
  c2 = c2
  Lines <- MCLines
  Jobs <- MCJobs
  Contents <- MCContents
  NoFile = NoFile
  Binary = Binary
  Picture = Picture
  BigPicture = BigPicture
  Size <- MCSize
  LineCap = 4
  CharCap = 8
  Limits = {1, 3}
  MaxOutput = 2
INVARIANTS ResultIsFinal EditsCompose PagesCoverFile
PROPERTY ExecReturns
CHECK_DEADLOCK FALSE
