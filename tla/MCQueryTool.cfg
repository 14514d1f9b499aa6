SPECIFICATION QuerySpec
CONSTANTS
  Backends = 2
  Names <- MCNames
  PropertyChars <- MCPropertyChars
  ChannelChars <- MCChannelChars
  Channel <- MCChannel
  Values <- MCValues
  None = None
  Incomparable <- MCIncomparable
  Default <- MCDefault
  Locked <- MCLocked
  Tools = {t1, t2}
  Commands <- MCCommands
  Readable <- MCReadable
  StoredBefore <- MCStoredBefore
SYMMETRY ToolSymmetry
INVARIANTS
  QueryTypeOK
  DecidedByWhatWas
PROPERTIES
  SetReadsBack
