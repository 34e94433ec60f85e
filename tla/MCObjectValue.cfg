CONSTANTS
  o1 = o1
  v1 = v1
  Zero = Zero
  NullPtr = NullPtr
  Objects <- MCObjects
  FieldKind <- MCFieldKind
  Names <- MCNames
  Types <- MCTypes
  Vals <- MCVals
SPECIFICATION Spec
INVARIANT TypeOK
PROPERTIES UpdateWritesNamedField RetrieveReadsNamedField
