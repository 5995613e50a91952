------------------------ MODULE MCEvidenceDiscovery ------------------------
(* Two sources over the five kinds of adapter.  Two sources of one adapter may *)
(* share items, agree or disagree on settings and on being required; sources   *)
(* of different adapters only follow one another.                              *)
EXTENDS EvidenceDiscovery

CONSTANTS s1, s2

MCClass == <<"patterns", "hpa", "perses", "runtime", "tempo">>

Conf(adapter, required, setting, items) ==
  [adapter |-> adapter, required |-> required, setting |-> setting, items |-> items]

ItemsFor(a) == IF MCClass[a] = "perses" THEN {{1}, {2}} ELSE {{1}, {2}, {1, 2}}

SameAdapter ==
  UNION {{<<Conf(a, q, s1, i), Conf(a, r, t, j)>> :
            q \in BOOLEAN, r \in BOOLEAN, t \in {s1, s2}, i \in ItemsFor(a), j \in ItemsFor(a)} :
         a \in 1 .. 5}

TwoAdapters ==
  {<<Conf(ab[1], q, s1, {1}), Conf(ab[2], r, s1, {1})>> :
     q \in BOOLEAN, r \in BOOLEAN, ab \in {x \in (1 .. 5) \X (1 .. 5) : x[1] < x[2]}}

MCConfigurations == SameAdapter \union TwoAdapters
=============================================================================
