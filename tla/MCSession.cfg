SPECIFICATION Spec
CONSTANTS
  Dir = {"d1", "d2"}
  Name = {"a", "b"}
  FirstPath <- MCFirstPath
  FileSystem <- MCFileSystem
  Text <- MCText
  Source <- MCSource
  MaxLines = 3
  MaxDepth = 5
INVARIANTS
  TypeOK
  CodeOfTheText
  StackAfterRun
PROPERTIES
  FilesStay
  LinesEnd
