SPECIFICATION FairSpec
CONSTANTS
  Files <- MCFiles
  Names <- MCNames
  FileOf <- MCFileOf
  Rows <- MCRows
  Slice <- MCSlice
  Answerable <- MCRows
  Commands <- MCCommands
  Environments <- MCEnvironments
  Disks <- MCDisks
  MaxRuns = 2
  MaxFaults = 3
INVARIANTS
  TypeOK
  ReadRowsSurvive
  GoneMeansOutputThere
  ZeroMeansDone
PROPERTIES
  ProgressKept
  ResumeFinishes
