CONSTANTS
  MaxItems = 4
  Cap = 22
  Scripts <- MCScripts
  Files <- MCFiles
SPECIFICATION PrinterSpec
INVARIANTS TypeOK ScannersAgree ReadsBack
PROPERTIES NameStep ReadEnds
CHECK_DEADLOCK FALSE
