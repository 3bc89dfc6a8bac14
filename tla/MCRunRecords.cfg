CONSTANTS
  w1 = w1
  w2 = w2
  Worker <- MCWorker
  Cases = 3
  Warmups = 2
  Option <- MCOption
  Datasets <- MCDatasets
  Shuffles <- MCShuffles
SPECIFICATION FairEvalSpec
INVARIANTS OneRecordPerAttempt EachCaseOnce NoWriteAfterClose SummaryTellsTheFile ReportTellsTheFile
PROPERTIES InterruptedRunEnds
