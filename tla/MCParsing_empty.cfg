SPECIFICATION Spec
CONSTANTS
  Room = 3
  Names <- MCNames
  Forms <- MCForms
  Queries <- MCQueries
  Csvs <- MCCsvs
  Words <- MCWords
INVARIANT EmptyRefusesAll
CHECK_DEADLOCK FALSE
