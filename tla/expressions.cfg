SPECIFICATION Spec
CONSTANTS
  IntMax = 32767
  MaxStringLen = 40
  SysVars = {"U", "T"}
  ConstSysVars = {"U"}
  Func <- MCFunc
  NO_MAX_ARGS = 99
  MAX_PARSE_LEVEL = 200
  Functions <- MCFunctions
  Text <- MCText
  ExpressionNodeLimitPerLine = 24
  MAX_RECURSION_LEVEL = 4
  Styles <- MCStyles
  Today <- MCToday
  Envs <- MCEnvs
INVARIANTS MeansWhatItSays NothingLeftOver ConstantsStayConstant
PROPERTY LimitIsFinal
CHECK_DEADLOCK FALSE
