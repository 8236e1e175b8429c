\* The attribute additional_rdeps of one source package, edited and taken in by its build.
SPECIFICATION Spec
CONSTANTS
  BuiltVersion <- MCBuiltVersion
  CategoryOf <- MCCategoryOf
  BaseOf <- MCBaseOf
  CurrentWord <- MCCurrentWord
  BuiltWord <- MCBuiltWord
  Worlds <- MCWorlds
  InitialValues <- MCInitialValues
  Typed <- MCTyped
  Pasted <- MCPasted
  Assigned <- MCAssigned
  Effort = 3
INVARIANTS UntouchedKeeps AskedIsMeant PublishedAsAsked
