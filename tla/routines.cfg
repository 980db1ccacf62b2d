CONSTANTS
  t1 = t1
  t2 = t2
  Tracers = {t1, t2}
  Size = 3
  Depths <- MCDepths
  OctetStrings <- MCOctetStrings
  WideStrings <- MCWideStrings
  WideSizes = {1, 2, 4}
  Width = 2
  Printable = {"a"}
  Unprintable = {"nul"}
  Dot = "."
  Blank = "  "
  Buffers <- MCBuffers
  Natives <- MCNatives
  LongDigits = 4
  IntDigits = 2
  Names = {"a", "b", "."}
  MaxLength = 4
SPECIFICATION Spec
INVARIANT SameText AcceptsExactly CutAtCharacter ShowsEveryByte TellsThreadsApart BuiltAfterRace SplitsPath
PROPERTY Returns
CHECK_DEADLOCK FALSE
