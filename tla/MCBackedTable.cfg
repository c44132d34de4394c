SPECIFICATION Spec
CONSTANTS
  Tables = {"t", "u"}
  KeyTypes <- MCKeyTypes
  FieldTypes <- MCFieldTypes
  NULL <- MCNull
  Statements <- MCStatements
  RecordType <- MCRecordType
  MaxVariable = 3
INVARIANTS
  StoredBlobsAreValid
  KeyBlobsAreCanonical
PROPERTIES
  ImplementsTables
