CONSTANTS
  None = None
  a = a
  b = b
  c = c
  Device = {a, b, c}
  Stage <- MCStage
  Replicas = 2
  Pictures <- MCPictures
  Results <- MCResults
  Plays = {1, 2}
  MaxRun = 3
  NumShards = 2
  Questions = {"p", "q"}
  Answers <- MCAnswers
  Replays = {1, 2}
  Runs <- MCRuns
  PlotWidth = 300
SPECIFICATION SiteSpec
INVARIANT FrozenOnlyWhileReplaying
