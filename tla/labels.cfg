SPECIFICATION Spec
CONSTANTS
  Alloc = FALSE
  Byte = 16
  Dot = 2
  LLEN = 3
  Inputs <- MCInputs
  Names <- MCNames
INVARIANTS LabelTypeOK IteratesWhatWasRead CopyReadsTheSame TextIsRead
PROPERTY ParsingEnds
CHECK_DEADLOCK FALSE
