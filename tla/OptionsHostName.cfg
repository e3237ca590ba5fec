SPECIFICATION Spec
CONSTANTS
  BufferSize <- MCBufferSize
  Garbage <- MCGarbage
  Datagrams <- MCDatagrams
  ServerName <- MCServerName
  MaxReceived = 2
INVARIANTS
  OwnHostNameIsRecognised
