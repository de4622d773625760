SPECIFICATION InterviewSpec
CONSTANTS
  None = None
  t1 = t1
  t2 = t2
  p1 = p1
  p2 = p2
  Tabs <- MCTabs
  Prompts <- MCPrompts
  QuestionCount = 2
  MaxRetired = 1
  MaxExperiences = 2
  Expirable = {1}
  MaxLosses = 1
SYMMETRY Symmetry
CHECK_DEADLOCK FALSE
 
PROPERTIES InterviewIsKept
