CONSTANTS
  Jobs <- MCJobs
  AskJobs <- MCAskJobs
  RawChoices <- MCRawChoices
  RawScores <- MCRawScores
  Nouls <- MCNouls
  Finds <- MCFinds
  Caps <- MCCaps
  Tree <- MCTree
  Dirs <- MCDirs
  Names <- MCNames
  SKIP_DIRECTORIES = {"dist"}
  PathLists <- MCPathLists
  Chunk = 2
  ByteCap = 2
  WriteMax = 4
SPECIFICATION AskSpec
INVARIANTS AnswersHonest CommandHonest GroupDies SplitWorks PlanHonest
PROPERTIES RunReturns
