SPECIFICATION Spec
CONSTANTS
  bucket_choices <- MCBuckets
  HashVal <- MCHashVal
  Names <- MCNames
  Lower <- MCLower
  SysVarArr <- MCSysVars
  FuncNames <- MCFuncNames
  FuncLower <- MCFuncLower
  Builtins <- MCBuiltins
  MAX_FUNC_ARGS = 3
  FsetLines <- MCFsets
  Settable <- MCSettable
  Preservable <- MCPreservable
  Contextual <- MCContextual
  VarValues = {1, 2}
  VarLists <- MCVarLists
  SysSettings <- MCSettings
  SkippedFsets <- MCSkipped
  FuncLists <- MCFuncLists
  Renames <- MCRenames
  Messages <- MCMessages
  Reminders <- MCReminders
  MaxPushed = 1
INVARIANTS TypeOK FunctionsAsWritten DedupeIsExact
PROPERTIES IncludedFilesOnlyLowerTheLimit ImplementsMaps
