SPECIFICATION Spec
CONSTANTS
  Links <- MCLinks
  Texts <- MCTexts
  Imports <- MCImports
  Labels <- MCLabels
  Graphs <- MCGraphs
  Requests <- MCRequests
  MaxConcurrent = 2
INVARIANT XrayDnsInTunnel
CHECK_DEADLOCK FALSE
