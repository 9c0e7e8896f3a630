SPECIFICATION Spec
CONSTANTS
  Room = 3
  Names <- MCNames
  Forms <- MCForms
  Queries <- MCQueries
  Csvs <- MCCsvs
  Words <- MCWords
INVARIANT StoresWhatWasSent
INVARIANT ItemsStandAlone
INVARIANT FilterIsTheList
CHECK_DEADLOCK FALSE
