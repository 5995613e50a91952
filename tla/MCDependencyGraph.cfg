SPECIFICATION SearchSpec
CONSTANTS
  Symbol <- MCSymbol
  Consumer <- MCConsumer
  Edge <- MCEdge
  NoNode = NoNode
INVARIANTS FindsReachable ShortestPaths
PROPERTY Terminates
