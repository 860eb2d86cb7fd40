SPECIFICATION Spec
CONSTANTS
  Pending = Pending
  Inputs <- MCInputs
  Scale = 60
  RowInkFraction = 4
  MinPaperSpan = 3
  EdgeGuard = 1
  MergeGap = 1
  MaxHeight <- MCMaxHeight
  Valley <- MCValley
  Core <- MCCore
  NoSpan = NoSpan
  NoThreshold = 128
  StrokeWindow = 4
  InkDrop = 1
  SkewRange = 48
  CoarseStep = 6
  FineSteps = 5
  NoCap = NoCap
  OverlapFraction <- MCOverlap
  Alike <- MCAlike
  Aliens <- MCAliens
  SheetTarget = 2
  LadderGate = 2000
CHECK_DEADLOCK FALSE
INVARIANTS
  RowsAreFound
  InkIsFound
  PageIsRead
  NotesKeepTheirMeaning
  CorrectionsAreCharged
  ReportsAreFair
