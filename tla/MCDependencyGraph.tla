------------------------- MODULE MCDependencyGraph -------------------------
(* Three symbols, three consumers: every symbol may be read by every consumer, *)
(* and five outputs close cycles and give one symbol two producers.            *)
EXTENDS DependencyGraph

MCSymbol == {1, 2, 3}
MCConsumer == {4, 5, 6}
MCEdge == (MCSymbol \X MCConsumer) \union {<<4, 3>>, <<5, 2>>, <<5, 1>>, <<6, 3>>, <<6, 1>>}
=============================================================================
