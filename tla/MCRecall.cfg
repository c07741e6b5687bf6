\* Recall, and the fusion of its lanes called by itself.
SPECIFICATION RecallSpec
CONSTANTS
  none = none
  canonA = canonA
  canonB = canonB
  noRoom = noRoom
  kodo = kodo
  kintsu = kintsu
  w1 = w1
  w2 = w2
  fileA = fileA
  fileB = fileB
  houseB = houseB
  idC = idC
  textD = textD
  textE = textE
  Words = {w1, w2}
  Names = {fileA, fileB, houseB, idC, textD, textE}
  None = none
  NoRoom = noRoom
  Rows <- MCRows
  Requests <- MCRequests
  Calls <- MCCalls
  Entries <- MCEntries
  FilesOf <- MCFilesOf
  Stripped <- MCStripped
  Alphabet <- MCAlphabet
  MaxNamed = 1
  MaxResults = 12
  NoCap = 100
  MaxRows = 5
INVARIANTS
  EvidenceKept
  BestRowShown
  OutrankedOnly
  CanonComplete
\* A query that is answered or refused is over.
CHECK_DEADLOCK FALSE
