--------------------------- MODULE MCRemediation ---------------------------
EXTENDS Remediation, TLC

Rename(id, from, to) == [id |-> id, from |-> from, to |-> {to}]
MCChanges == {Rename("c1", "old", "new"), Rename("c2", "new", "newer")}
MCRefs == ("qOld" :> {"old"}) @@ ("qNew" :> {"new"}) @@ ("qNewer" :> {"newer"}) @@ ("qBoth" :> {"old", "new"})
          @@ ("qRec" :> {"recorded"}) @@ ("qSecret" :> {"newer"}) @@ ("qVar" :> {}) @@ ("text" :> {})
MCExpressions == DOMAIN MCRefs
MCCriticality == ("alert" :> 4) @@ ("rec" :> 3) @@ ("panel" :> 2)
MCProduces == ("alert" :> {}) @@ ("rec" :> {"recorded"}) @@ ("panel" :> {})
MCFileOf == ("alert" :> "rules") @@ ("rec" :> "rules") @@ ("note" :> "rules") @@ ("panel" :> "board")
MCFiles == <<"rules", "board">>
MCPolicies == {[failOnLegacy |-> TRUE, failOnUnknown |-> TRUE, minimum |-> 3, transitive |-> TRUE],
               [failOnLegacy |-> TRUE, failOnUnknown |-> FALSE, minimum |-> 4, transitive |-> FALSE]}
MCInitialContents ==
  {("alert" :> a) @@ ("rec" :> r) @@ ("panel" :> p) @@ ("note" :> n) :
     a \in {"qOld", "qRec"}, r \in {"qOld", "qNew"}, p \in {"qOld", "qVar"}, n \in {"qOld", "text"}}
One(asked) == {[id |-> i, target |-> t, before |-> b, after |-> a] :
                   i \in {1}, t \in asked \cup {<<Rename("c1", "old", "new"), "panel">>}, b \in {"qOld", "qNew"},
                   a \in {"qNew", "qNewer", "qBoth", "qSecret", "qVar"}}
Two(asked) == {[id |-> i, target |-> t, before |-> b, after |-> a] :
                   i \in {1, 2}, t \in asked, b \in {"qOld"}, a \in {"qNew", "qNewer"}}
MCResponsesTo(asked) ==
  {<< >>} \cup {<<c>> : c \in One(asked)} \cup {<<c, d>> : c \in {c \in Two(asked) : c.id = 1}, d \in Two(asked)}
MCAdviceFor(findings) ==
  {<< >>} \cup {<<[order |-> o, consumer |-> c]>> : o \in 0..1, c \in Consumers}
  \cup {<<[order |-> 1, consumer |-> c], [order |-> o, consumer |-> d]>> : o \in 1..2, c, d \in Consumers}
=============================================================================
