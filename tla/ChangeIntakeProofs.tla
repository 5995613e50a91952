------------------------- MODULE ChangeIntakeProofs -------------------------
(***************************************************************************)
(* What the sources of changes promise, for any server, any documents and  *)
(* any limits.  The lemmas go from sequences (a set as a list, lists of    *)
(* lists flattened) over the pure operators (a built snapshot, a           *)
(* comparison, a Weaver import) to the invariants of the commands.         *)
(***************************************************************************)
EXTENDS ChangeIntake, FiniteSetTheorems, SequenceTheorems, WellFoundedInduction, TLAPS

(***************************************************************************)
(* Sets as lists.                                                          *)
(***************************************************************************)

\* SetToSeq lists the members of a finite set, each of them once.
LEMMA SetToSeqLists ==
  ASSUME NEW S, IsFiniteSet(S)
  PROVE  /\ Cardinality(S) \in Nat
         /\ SetToSeq(S) \in [1..Cardinality(S) -> S]
         /\ SetToSeq(S) \in Seq(S)
         /\ Len(SetToSeq(S)) = Cardinality(S)
         /\ DOMAIN SetToSeq(S) = 1..Cardinality(S)
         /\ Range(SetToSeq(S)) = S
         /\ noDuplicates(SetToSeq(S))
<1> DEFINE n == Cardinality(S)
           f == SetToSeq(S)
<1>1. n \in Nat /\ Bijection(1..n, S) # {}
  BY FS_CardinalityType DEF ExistsBijection
<1>2. \E g \in [1..n -> S] : IsInjective(g)
  BY <1>1 DEF Bijection, Injection
<1>3. f \in [1..n -> S] /\ IsInjective(f)
  BY <1>2 DEF SetToSeq
<1> HIDE DEF f
<1>4. f \in Injection(1..n, S)
  BY <1>3 DEF Injection
<1>5. IsFiniteSet(1..n) /\ Cardinality(1..n) = n
  BY <1>1, FS_Interval
<1>6. f \in Surjection(1..n, S)
  BY <1>4, <1>5, FS_Injection
<1>7. DOMAIN f = 1..n
  BY <1>3
<1>8. Range(f) = S
  BY <1>3, <1>6, <1>7 DEF Surjection, Range
<1>9. f \in Seq(S) /\ Len(f) = n
  BY <1>1, <1>3
<1>10. noDuplicates(f)
  BY <1>3 DEF noDuplicates, IsInjective
<1>11. QED
  BY <1>1, <1>3, <1>7, <1>8, <1>9, <1>10 DEF f

\* A list without repetition is as long as the set of its members is large.
LEMMA NoDuplicatesCardinality ==
  ASSUME NEW s, isList(s), noDuplicates(s)
  PROVE  Cardinality(Range(s)) = Len(s)
<1>1. Len(s) \in Nat /\ DOMAIN s = 1..Len(s) /\ s \in [1..Len(s) -> Range(s)]
  BY LenProperties DEF isList
<1>2. s \in Injection(1..Len(s), Range(s))
  BY <1>1 DEF noDuplicates, Injection, IsInjective
<1>3. s \in Surjection(1..Len(s), Range(s))
  BY <1>1 DEF Surjection, Range
<1>4. IsFiniteSet(1..Len(s)) /\ Cardinality(1..Len(s)) = Len(s)
  BY <1>1, FS_Interval
<1>5. QED
  BY <1>2, <1>3, <1>4, FS_Surjection

\* A list of n entries given by a function of the index is a list.
LEMMA ListByIndex ==
  ASSUME NEW n \in Nat, NEW f, f = [i \in 1..n |-> f[i]]
  PROVE  isList(f) /\ Len(f) = n
<1>1. f \in [1..n -> Range(f)]
  BY DEF Range
<1>2. QED
  BY <1>1 DEF isList

\* The members of a list are finitely many.
LEMMA ListIsFinite ==
  ASSUME NEW s, isList(s)
  PROVE  IsFiniteSet(Range(s)) /\ DOMAIN s = 1..Len(s) /\ Len(s) \in Nat
<1>1. Len(s) \in Nat /\ DOMAIN s = 1..Len(s) /\ s \in [1..Len(s) -> Range(s)]
  BY LenProperties DEF isList
<1>2. s \in Surjection(1..Len(s), Range(s))
  BY <1>1 DEF Surjection, Range
<1>3. IsFiniteSet(1..Len(s))
  BY <1>1, FS_Interval
<1>4. QED
  BY <1>1, <1>2, <1>3, FS_Surjection

Less == {p \in Nat \X Nat : p[1] < p[2]}

\* A set of numbers that holds 0 and every successor holds every number.
LEMMA SetInduction ==
  ASSUME NEW S, 0 \in S, \A n \in Nat : n \in S => n + 1 \in S
  PROVE  \A n \in Nat : n \in S
<1> DEFINE T == Nat \ S
<1>1. SUFFICES ASSUME T # {} PROVE FALSE
  OBVIOUS
<1>2. OpToRel(<, Nat) = Less
  BY DEF OpToRel, Less
<1>3. IsWellFoundedOn(Less, Nat)
  BY <1>2, NatLessThanWellFounded
<1>4. T \in SUBSET Nat
  OBVIOUS
<1> HIDE DEF T
<1>5. PICK m \in T : \A k \in T : ~(<<k, m>> \in Less)
  BY <1>1, <1>3, <1>4, WFMin
<1>6. m \in Nat /\ m # 0
  BY <1>4 DEF T
<1>7. m - 1 \in Nat /\ m - 1 < m /\ (m - 1) + 1 = m
  BY <1>6
<1>8. <<m - 1, m>> \in Less
  BY <1>6, <1>7 DEF Less
<1>9. m - 1 \in S
  BY <1>5, <1>7, <1>8 DEF T
<1>10. QED
  BY <1>7, <1>9 DEF T

\* g holds the concatenations of the first lists of ss, as FlattenSeq makes them.
IsFlat(g, ss, k) == g = [i \in 1..k |-> IF i = 1 THEN ss[i] ELSE g[i-1] \o ss[i]]

\* There is such a function for every number of lists.
LEMMA FlatExists == 
  ASSUME NEW ss
  PROVE  \A k \in Nat : \E g : IsFlat(g, ss, k)
<1> DEFINE G == {k \in Nat : \E g : IsFlat(g, ss, k)}
<1>1. 0 \in G
  <2> DEFINE g == [i \in 1..0 |-> {}]
  <2>1. 1..0 = {}
    OBVIOUS
  <2>2. IsFlat(g, ss, 0)
    BY <2>1 DEF IsFlat
  <2>3. QED
    BY <2>2
<1>2. \A k \in Nat : k \in G => k + 1 \in G
  <2> SUFFICES ASSUME NEW k \in Nat, NEW g, IsFlat(g, ss, k) PROVE \E h : IsFlat(h, ss, k + 1)
    BY DEF G
  <2> DEFINE h == [i \in 1..k+1 |-> IF i = k + 1 THEN (IF i = 1 THEN ss[i] ELSE g[i-1] \o ss[i]) ELSE g[i]]
  <2>1. \A i \in 1..k : g[i] = IF i = 1 THEN ss[i] ELSE g[i-1] \o ss[i]
    BY DEF IsFlat
  <2>2. \A i \in 1..k : i \in 1..k+1 /\ i # k + 1
    OBVIOUS
  <2>3. \A i \in 1..k : h[i] = g[i]
    BY <2>2, Zenon
  <2>4. \A i \in 1..k+1 : h[i] = IF i = 1 THEN ss[i] ELSE h[i-1] \o ss[i]
    <3> TAKE i \in 1..k+1
    <3>1. i = 1 \/ i - 1 \in 1..k
      OBVIOUS
    <3>2. CASE i = k + 1
      <4>1. h[i] = IF i = 1 THEN ss[i] ELSE g[i-1] \o ss[i]
        BY <3>2, Zenon
      <4>2. QED
        BY <4>1, <3>1, <2>3, Zenon
    <3>3. CASE i # k + 1
      <4>1. i \in 1..k
        BY <3>3
      <4>2. h[i] = IF i = 1 THEN ss[i] ELSE g[i-1] \o ss[i]
        BY <4>1, <2>1, <2>3, Zenon
      <4>3. QED
        BY <4>2, <3>1, <2>3, Zenon
    <3>4. QED
      BY <3>2, <3>3
  <2>5. h = [i \in 1..k+1 |-> h[i]]
    OBVIOUS
  <2> HIDE DEF h
  <2>6. h = [i \in 1..k+1 |-> IF i = 1 THEN ss[i] ELSE h[i-1] \o ss[i]]
    BY <2>4, <2>5, Zenon
  <2>7. QED
    BY <2>6 DEF IsFlat
<1> HIDE DEF G
<1>3. \A k \in Nat : k \in G
  BY <1>1, <1>2, SetInduction
<1>4. QED
  BY <1>3 DEF G

\* The members of the first k lists of ss.
Members(ss, k) == UNION {Range(ss[i]) : i \in 1..k}

\* The members of the lists that were put together so far.
LEMMA FlatRange ==
  ASSUME NEW n \in Nat, NEW T, NEW ss, \A i \in 1..n : ss[i] \in Seq(T), NEW g, IsFlat(g, ss, n)
  PROVE  \A k \in 1..n : g[k] \in Seq(T) /\ Range(g[k]) = Members(ss, k)
<1> DEFINE G == {k \in Nat : k \in 1..n => g[k] \in Seq(T) /\ Range(g[k]) = Members(ss, k)}
<1>0. \A i \in 1..n : g[i] = IF i = 1 THEN ss[i] ELSE g[i-1] \o ss[i]
  BY DEF IsFlat
<1>1. 0 \in G
  OBVIOUS
<1>2. \A k \in Nat : k \in G => k + 1 \in G
  <2> SUFFICES ASSUME NEW k \in Nat, k \in G, k + 1 \in 1..n
               PROVE  g[k+1] \in Seq(T) /\ Range(g[k+1]) = Members(ss, k+1)
    OBVIOUS
  <2>1. ss[k+1] \in Seq(T)
    OBVIOUS
  <2>2. CASE k = 0
    <3>1. g[k+1] = ss[k+1]
      BY <2>2, <1>0
    <3>2. 1..(k+1) = {k+1}
      BY <2>2
    <3>3. Members(ss, k+1) = Range(ss[k+1])
      BY <3>2, Zenon DEF Members
    <3>4. QED
      BY <3>1, <3>3, <2>1, Zenon
  <2>3. CASE k # 0
    <3>1. k \in 1..n /\ k + 1 # 1 /\ (k + 1) - 1 = k
      BY <2>3
    <3>2. g[k+1] = g[k] \o ss[k+1]
      BY <3>1, <1>0, Zenon
    <3>3. g[k] \in Seq(T) /\ Range(g[k]) = Members(ss, k)
      BY <3>1
    <3>4. g[k+1] \in Seq(T) /\ Range(g[k+1]) = Range(g[k]) \cup Range(ss[k+1])
      <4>1. g[k] \o ss[k+1] \in Seq(T)
        BY <2>1, <3>3, ConcatProperties
      <4>2. Range(g[k] \o ss[k+1]) = Range(g[k]) \cup Range(ss[k+1])
        BY <2>1, <3>3, RangeConcatenation
      <4>3. QED
        BY <4>1, <4>2, <3>2, Zenon
    <3>5. 1..(k+1) = (1..k) \cup {k+1}
      OBVIOUS
    <3>6. Members(ss, k+1) = Members(ss, k) \cup Range(ss[k+1])
      BY <3>5, Zenon DEF Members
    <3>7. QED
      BY <3>3, <3>4, <3>6, Zenon
  <2>4. QED
    BY <2>2, <2>3
<1> HIDE DEF G
<1>3. \A k \in Nat : k \in G
  BY <1>1, <1>2, SetInduction
<1>4. QED
  BY <1>3 DEF G

\* A flattened list has exactly the members of its lists.
LEMMA FlattenLists ==
  ASSUME NEW n \in Nat, NEW T, NEW ss \in [1..n -> Seq(T)]
  PROVE  /\ FlattenSeq(ss) \in Seq(T)
         /\ Range(FlattenSeq(ss)) = Members(ss, n)
<1>1. Len(ss) = n
  OBVIOUS
<1>2. CASE n = 0
  <2>1. FlattenSeq(ss) = ss /\ ss = << >>
    BY <1>1, <1>2 DEF FlattenSeq
  <2>2. ss \in Seq(T) /\ DOMAIN ss = {} /\ 1..n = {}
    BY <1>2, <2>1
  <2>3. QED
    BY <2>1, <2>2, Zenon DEF Range, Members
<1>3. CASE n # 0
  <2> DEFINE g == CHOOSE g : IsFlat(g, ss, n)
  <2>1. FlattenSeq(ss) = g[n]
    BY <1>1, <1>3 DEF FlattenSeq, IsFlat
  <2>2. IsFlat(g, ss, n)
    BY FlatExists
  <2> HIDE DEF g
  <2>3. n \in 1..n /\ \A i \in 1..n : ss[i] \in Seq(T)
    BY <1>3
  <2>4. QED
    BY <2>1, <2>2, <2>3, FlatRange
<1>4. QED
  BY <1>2, <1>3
(***************************************************************************)
(* Captured snapshots.                                                     *)
(***************************************************************************)

\* The parts of the snapshot that buildSnapshot puts together.
labelsOf(metadata, series, f) ==
  UNION {s.labels : s \in {s \in series : resolveFamily(s.name, metadata) = f}}
metricOf(metadata, series, f) ==
  [name |-> f,
   type |-> IF f \in DOMAIN metadata THEN metadata[f].type ELSE "unknown",
   unit |-> IF f \in DOMAIN metadata THEN metadata[f].unit ELSE "",
   labels |-> SetToSeq(labelsOf(metadata, series, f))]
familiesOf(metadata, series) == DOMAIN metadata \cup {resolveFamily(s.name, metadata) : s \in series}

\* A series is put under its own name or its family's.
LEMMA FamilyResolved ==
  ASSUME NEW name, NEW metadata
  PROVE  resolveFamily(name, metadata) \in family(name)
BY DEF resolveFamily, family

\* The lists of a snapshot document are sequences.
listed(snapshot) == isList(snapshot.metrics) /\ \A m \in Range(snapshot.metrics) : isList(m.labels)

\* The metrics of a built snapshot are those of the families, each with its labels.
LEMMA BuiltMetrics ==
  ASSUME NEW name, NEW metadata, NEW series,
         IsFiniteSet(DOMAIN metadata), IsFiniteSet(series), IsFiniteSet(UNION {one.labels : one \in series}),
         NEW s \in buildSnapshot(name, metadata, series)
  PROVE  /\ listed(s) /\ Normalize(s) /\ \A o \in buildSnapshot(name, metadata, series) : o = s
         /\ Range(s.metrics) = {metricOf(metadata, series, f) : f \in familiesOf(metadata, series)}
         /\ \A f : Range(metricOf(metadata, series, f).labels) = labelsOf(metadata, series, f)
<1> DEFINE F == familiesOf(metadata, series)
           seq == SetToSeq(F)
           metrics == [i \in DOMAIN seq |-> metricOf(metadata, series, seq[i])]
           snap == [envelope |-> "TelemetrySnapshot", name |-> name, metrics |-> metrics]
           fits == Len(seq) <= MaxMetrics /\ (\A one \in series : one.name # "") /\ Normalize(snap)
<1>1. s.metrics = metrics /\ Normalize(s) /\ \A o \in buildSnapshot(name, metadata, series) : o = s
  <2>1. buildSnapshot(name, metadata, series) = only(fits, snap)
    BY Zenon DEF buildSnapshot, metricOf, labelsOf, familiesOf
  <2>2. snap.metrics = metrics /\ (fits => Normalize(snap))
    BY Zenon
  <2> HIDE DEF snap, fits
  <2>3. s \in only(fits, snap)
    BY <2>1
  <2>4. s = snap /\ fits
    BY <2>3 DEF only
  <2>5. \A o \in only(fits, snap) : o = snap
    BY DEF only
  <2>6. QED
    BY <2>1, <2>2, <2>4, <2>5, Zenon
<1>2. IsFiniteSet(F)
  <2>1. IsFiniteSet({resolveFamily(x.name, metadata) : x \in series})
    <3> DEFINE P == {resolveFamily(x.name, metadata) : x \in series}
               g == [x \in series |-> resolveFamily(x.name, metadata)]
    <3>1. g \in Surjection(series, P)
      BY DEF Surjection
    <3>2. QED
      BY <3>1, FS_Surjection
  <2>2. QED
    BY <2>1, FS_Union DEF familiesOf
<1> HIDE DEF F
<1>3. Cardinality(F) \in Nat /\ DOMAIN seq = 1..Cardinality(F) /\ Range(seq) = F
  BY <1>2, SetToSeqLists
<1> HIDE DEF seq
<1>4. isList(metrics)
  <2>1. DOMAIN metrics = 1..Cardinality(F) /\ metrics = [i \in 1..Cardinality(F) |-> metrics[i]]
    BY <1>3
  <2> HIDE DEF metrics
  <2>2. QED
    BY <1>3, <2>1, ListByIndex
<1>5. Range(metrics) = {metricOf(metadata, series, f) : f \in F}
  BY <1>3 DEF Range
<1>6. \A f : /\ isList(metricOf(metadata, series, f).labels)
             /\ Range(metricOf(metadata, series, f).labels) = labelsOf(metadata, series, f)
  <2> TAKE f
  <2> DEFINE L == labelsOf(metadata, series, f)
  <2>1. L \in SUBSET UNION {one.labels : one \in series}
    BY DEF labelsOf
  <2>2. IsFiniteSet(L)
    BY <2>1, FS_Subset
  <2>3. metricOf(metadata, series, f).labels = SetToSeq(L)
    BY DEF metricOf
  <2> HIDE DEF L
  <2>4. SetToSeq(L) \in Seq(L) /\ Range(SetToSeq(L)) = L
    BY <2>2, SetToSeqLists
  <2>5. QED
    BY <2>3, <2>4 DEF isList, L
<1> HIDE DEF metrics
<1>7. listed(s)
  BY <1>1, <1>4, <1>5, <1>6 DEF listed
<1>8. QED
  BY <1>1, <1>5, <1>6, <1>7 DEF F

\* The server's state s agrees with the record h of the running capture.
current(h, s) ==
  /\ h.steady.series \subseteq s.series /\ s.series \subseteq h.ever.series
  /\ DOMAIN s.meta \subseteq h.ever.names
  /\ \A n \in DOMAIN h.steady.meta : n \in DOMAIN s.meta /\ h.steady.meta[n] = s.meta[n]

\* Metadata, and series, that were loaded during the capture that h records.
metadataOf(md, h) ==
  /\ IsFiniteSet(DOMAIN md)
  /\ DOMAIN h.steady.meta \subseteq DOMAIN md /\ DOMAIN md \subseteq h.ever.names
  /\ \A n \in DOMAIN h.steady.meta : \A e \in h.steady.meta[n] :
       md[n].type = normalizeType(e.type) /\ md[n].unit = e.unit
seriesOf(part, h) ==
  /\ IsFiniteSet(part) /\ IsFiniteSet(UNION {one.labels : one \in part})
  /\ h.steady.series \subseteq part /\ part \subseteq h.ever.series

\* A snapshot names what was there all the time, and nothing that never was.
namesSteady(snapshot, h) ==
  /\ \A one \in h.steady.series : \E m \in Range(snapshot.metrics) :
       m.name \in family(one.name) /\ one.labels \subseteq Range(m.labels)
  /\ \A n \in DOMAIN h.steady.meta : \E m \in Range(snapshot.metrics) : m.name = n /\
       \A e \in h.steady.meta[n] : m.type = normalizeType(e.type) /\ m.unit = e.unit
namesEver(snapshot, h) ==
  \A m \in Range(snapshot.metrics) :
    /\ m.name \in h.ever.names \/ \E x \in h.ever.series : m.name \in family(x.name)
    /\ \A l \in Range(m.labels) : \E x \in h.ever.series : m.name \in family(x.name) /\ l \in x.labels

\* What a load of the metadata keeps: the one description that all entries agree on.
LEMMA MetadataLoaded ==
  ASSUME NEW s \in ServerStates, NEW names \in Answers(DOMAIN s.meta, MaxMetrics),
         NEW md \in loadMetadata([m \in names |-> s.meta[m]]), NEW h, current(h, s)
  PROVE  metadataOf(md, h)
<1> DEFINE raw == [m \in names |-> s.meta[m]]
           normal(e) == [type |-> normalizeType(e.type), unit |-> e.unit]
           entries(m) == {normal(e) : e \in raw[m]}
           fits == /\ Cardinality(DOMAIN raw) <= MaxMetrics
                   /\ \A m \in DOMAIN raw : Cardinality(entries(m)) = 1
           value == [m \in DOMAIN raw |-> normal(CHOOSE e \in raw[m] : TRUE)]
<1>1. loadMetadata(raw) = only(fits, value)
  BY Zenon DEF loadMetadata
<1>2. md = value /\ fits
  <2> HIDE DEF fits, value
  <2>1. md \in only(fits, value)
    BY <1>1
  <2>2. QED
    BY <2>1 DEF only
<1>3. DOMAIN raw = names /\ DOMAIN value = names
  OBVIOUS
<1>4. IsFiniteSet(names) /\ names = DOMAIN s.meta
  <2>1. names \in SUBSET DOMAIN s.meta /\ (Cardinality(names) >= MaxMetrics + 1 \/ names = DOMAIN s.meta)
    BY DEF Answers
  <2>2. IsFiniteSet(names)
    BY <2>1, ServersAssumption, FS_Subset
  <2>3. Cardinality(names) \in Nat /\ Cardinality(names) <= MaxMetrics /\ MaxMetrics \in Nat
    BY <1>2, <2>2, FS_CardinalityType, LimitsAssumption
  <2>4. QED
    BY <2>1, <2>2, <2>3
<1>5. ASSUME NEW n \in DOMAIN h.steady.meta, NEW e \in h.steady.meta[n]
      PROVE  md[n].type = normalizeType(e.type) /\ md[n].unit = e.unit
  <2>1. n \in names /\ e \in s.meta[n] /\ raw[n] = s.meta[n]
    BY <1>4 DEF current
  <2> DEFINE c == CHOOSE x \in raw[n] : TRUE
  <2>2. md[n] = normal(c) /\ c \in raw[n]
    BY <1>2, <1>3, <2>1
  <2> HIDE DEF c
  <2>3. IsFiniteSet(entries(n))
    <3> DEFINE g == [x \in raw[n] |-> normal(x)]
    <3>1. g \in Surjection(raw[n], entries(n))
      BY DEF Surjection
    <3>2. IsFiniteSet(raw[n])
      BY <1>4, <2>1, ServersAssumption
    <3> HIDE DEF g
    <3>3. QED
      BY <3>1, <3>2, FS_Surjection
  <2>4. normal(e) \in entries(n) /\ normal(c) \in entries(n)
    BY <2>1, <2>2
  <2>5. Cardinality(entries(n)) = 1
    BY <1>2, <1>3, <2>1
  <2>6. normal(e) = normal(c)
    <3> HIDE DEF entries, normal
    <3>1. \E x : entries(n) = {x}
      BY <2>3, <2>5, FS_Singleton
    <3>2. QED
      BY <3>1, <2>4
  <2>7. normal(e).type = normalizeType(e.type) /\ normal(e).unit = e.unit
    OBVIOUS
  <2>8. QED
    BY <2>2, <2>6, <2>7, Zenon
<1>6. DOMAIN md = DOMAIN s.meta
  BY <1>2, <1>3, <1>4, Zenon
<1>7. QED
  BY <1>4, <1>5, <1>6 DEF metadataOf, current

\* A load of series that keeps within the limit keeps all of them.
LEMMA SeriesLoaded ==
  ASSUME NEW s \in ServerStates, NEW part \in Answers(s.series, MaxSeries),
         NEW kept \in loadSeries(part), NEW h, current(h, s)
  PROVE  seriesOf(kept, h)
<1>1. part \in SUBSET s.series /\ (Cardinality(part) >= MaxSeries + 1 \/ part = s.series)
  BY DEF Answers
<1>2. IsFiniteSet(part)
  BY <1>1, ServersAssumption, FS_Subset
<1>3. Cardinality(part) <= MaxSeries /\ kept = part
  BY DEF loadSeries, only
<1>4. Cardinality(part) \in Nat /\ MaxSeries \in Nat
  BY <1>2, FS_CardinalityType, LimitsAssumption
<1>5. kept = s.series
  BY <1>1, <1>3, <1>4
<1>6. IsFiniteSet(s.series) /\ IsFiniteSet(UNION {one.labels : one \in s.series})
  BY ServersAssumption
<1>7. QED
  BY <1>5, <1>6, Zenon DEF seriesOf, current

\* A capture begins with a record of the server as it is.
LEMMA NowIsCurrent ==
  ASSUME NEW s
  PROVE  current(Now(s), s)
BY DEF current, Now

\* When the server moves on, the record agrees with it again, and what was
\* received before is still right.
LEMMA WitnessIsCurrent ==
  ASSUME NEW h, NEW s
  PROVE  /\ current(Witness(h, s), s)
         /\ \A md : metadataOf(md, h) => metadataOf(md, Witness(h, s))
<1> DEFINE w == Witness(h, s)
           keep == {m \in DOMAIN h.steady.meta \cap DOMAIN s.meta : h.steady.meta[m] = s.meta[m]}
<1>1. /\ w.steady.series = h.steady.series \cap s.series
      /\ w.steady.meta = [m \in keep |-> s.meta[m]]
      /\ w.ever.series = h.ever.series \cup s.series
      /\ w.ever.names = h.ever.names \cup DOMAIN s.meta
  BY DEF Witness
<1>2. DOMAIN w.steady.meta = keep /\ \A m \in keep : w.steady.meta[m] = s.meta[m]
  BY <1>1
<1>3. \A m \in keep : m \in DOMAIN h.steady.meta /\ m \in DOMAIN s.meta /\ h.steady.meta[m] = s.meta[m]
  OBVIOUS
<1> HIDE DEF w, keep
<1>4. current(w, s)
  BY <1>1, <1>2, <1>3 DEF current
<1>5. ASSUME NEW md, metadataOf(md, h) PROVE metadataOf(md, w)
  <2>1. \A n \in DOMAIN w.steady.meta : n \in DOMAIN h.steady.meta /\ w.steady.meta[n] = h.steady.meta[n]
    BY <1>2, <1>3, Zenon
  <2>2. h.ever.names \subseteq w.ever.names
    BY <1>1
  <2>3. QED
    BY <2>1, <2>2, <1>5 DEF metadataOf
<1>6. QED
  BY <1>4, <1>5 DEF w

\* A snapshot built from what was loaded names what stayed, and only what was there.
LEMMA BuiltDescribes ==
  ASSUME NEW name, NEW h, NEW md, metadataOf(md, h), NEW part, seriesOf(part, h),
         NEW s \in buildSnapshot(name, md, part)
  PROVE  /\ listed(s) /\ namesSteady(s, h) /\ namesEver(s, h)
         /\ \A o \in buildSnapshot(name, md, part) : o = s
<1> DEFINE M(f) == metricOf(md, part, f)
           L(f) == labelsOf(md, part, f)
           F == familiesOf(md, part)
<1>1. /\ listed(s)
      /\ Range(s.metrics) = {M(f) : f \in F}
      /\ \A f : Range(M(f).labels) = L(f)
      /\ \A o \in buildSnapshot(name, md, part) : o = s
  BY BuiltMetrics DEF metadataOf, seriesOf
<1>2. \A f : M(f).name = f
  BY DEF metricOf
<1>3. \A f \in DOMAIN md : f \in F /\ M(f).type = md[f].type /\ M(f).unit = md[f].unit
  BY DEF metricOf, familiesOf
<1>4. \A one \in part : LET f == resolveFamily(one.name, md) IN
        f \in F /\ f \in family(one.name) /\ one.labels \subseteq L(f)
  BY FamilyResolved DEF familiesOf, labelsOf
<1>5. \A f \in F : f \in DOMAIN md \/ \E x \in part : f = resolveFamily(x.name, md)
  BY DEF familiesOf
<1>6. \A f : \A l \in L(f) : \E x \in part : f = resolveFamily(x.name, md) /\ l \in x.labels
  BY DEF labelsOf
<1> HIDE DEF M, L, F
<1>7. namesSteady(s, h)
  <2>1. ASSUME NEW one \in h.steady.series
        PROVE  \E m \in Range(s.metrics) : m.name \in family(one.name) /\ one.labels \subseteq Range(m.labels)
    <3>1. one \in part
      BY DEF seriesOf
    <3> DEFINE f == resolveFamily(one.name, md)
    <3>2. f \in F /\ f \in family(one.name) /\ one.labels \subseteq L(f)
      BY <1>4, <3>1
    <3> HIDE DEF f
    <3>3. M(f) \in Range(s.metrics) /\ M(f).name = f /\ Range(M(f).labels) = L(f)
      BY <1>1, <1>2, <3>2
    <3>4. QED
      BY <3>2, <3>3, Zenon
  <2>2. ASSUME NEW n \in DOMAIN h.steady.meta
        PROVE  \E m \in Range(s.metrics) : m.name = n /\
                 \A e \in h.steady.meta[n] : m.type = normalizeType(e.type) /\ m.unit = e.unit
    <3>1. n \in DOMAIN md /\ \A e \in h.steady.meta[n] : md[n].type = normalizeType(e.type) /\ md[n].unit = e.unit
      BY DEF metadataOf
    <3>2. M(n) \in Range(s.metrics) /\ M(n).name = n /\ M(n).type = md[n].type /\ M(n).unit = md[n].unit
      BY <1>1, <1>2, <1>3, <3>1
    <3>3. QED
      BY <3>1, <3>2, Zenon
  <2>3. QED
    BY <2>1, <2>2 DEF namesSteady
<1>8. namesEver(s, h)
  <2> SUFFICES ASSUME NEW f \in F
               PROVE  /\ f \in h.ever.names \/ \E x \in h.ever.series : f \in family(x.name)
                      /\ \A l \in L(f) : \E x \in h.ever.series : f \in family(x.name) /\ l \in x.labels
    <3>1. \A m \in Range(s.metrics) : \E f \in F : m.name = f /\ Range(m.labels) = L(f)
      BY <1>1, <1>2, Zenon
    <3>2. QED
      BY <3>1, Zenon DEF namesEver
  <2>1. part \subseteq h.ever.series /\ DOMAIN md \subseteq h.ever.names
    BY DEF seriesOf, metadataOf
  <2>2. \A x \in part : resolveFamily(x.name, md) \in family(x.name)
    BY FamilyResolved
  <2>3. f \in h.ever.names \/ \E x \in h.ever.series : f \in family(x.name)
    BY <1>5, <2>1, <2>2
  <2>4. \A l \in L(f) : \E x \in h.ever.series : f \in family(x.name) /\ l \in x.labels
    BY <1>6, <2>1, <2>2
  <2>5. QED
    BY <2>3, <2>4
<1>9. QED
  BY <1>1, <1>7, <1>8

Steps == {"idle", "metadata", "series", "build", "deploy", "compare", "detect", "done"}

\* The inductive invariant of the captures: at each step, what was received
\* covers what stayed and nothing else than what was there; a file that was not
\* edited describes its capture, whose record nobody touches any more.
CaptureInv ==
  /\ server \in ServerStates /\ side \in Sides /\ pc \in Steps
  /\ DOMAIN files = Sides /\ DOMAIN history = Sides
  /\ capturing => current(history[side], server)
  /\ pc \in {"series", "build"} => \A md \in answer.metadata : metadataOf(md, history[side])
  /\ pc = "build" => \A part \in answer.series : seriesOf(part, history[side])
  /\ side = "baseline" => files["baseline"] = {} /\ files["candidate"] = {}
  /\ pc \in {"idle", "metadata", "series", "build", "deploy"} => files["candidate"] = {}
  /\ \A s \in Sides : \A d \in files[s] :
       /\ listed(d.snapshot) /\ \A e \in files[s] : e = d
       /\ s \notin edited => namesSteady(d.snapshot, history[s]) /\ namesEver(d.snapshot, history[s])

\* What serverLossIsReported says, with the exit code as a parameter: what went
\* is among the changes, and what needs a decision has a diagnostic and code 3.
goneIsReported(old, new, r) ==
  LET related(one) == {x \in new.ever.series : family(x.name) \cap family(one.name) # {}}
      goneMetric(one) == \E f \in family(one.name) : removedBy(r.changes, "metric_remove", f, {""})
  IN \A one \in old.series :
       /\ (related(one) = {} /\ new.ever.names \cap family(one.name) = {}) => goneMetric(one)
       /\ \A l \in one.labels : (\A x \in related(one) : l \notin x.labels) =>
            goneMetric(one) \/ removedBy(r.changes, "label_remove", l, family(one.name))
driftIsReported(old, new, r, code) ==
  \A m \in DOMAIN old.meta \cap DOMAIN new.steady.meta :
    \A e \in old.meta[m], f \in new.steady.meta[m] :
      (normalizeType(e.type) # normalizeType(f.type) \/ e.unit # f.unit) =>
         code = 3 /\ \E d \in r.required : d.metric = m

\* The losses that r has to report, of the files fs and of the server whose
\* captures hs records, when the command ends with code.
lossOf(fs, hs, hand, code, r) ==
  \A b \in fs["baseline"], c \in fs["candidate"] :
    /\ fileLossIsReported(b, c, r)
    /\ hand = {} => /\ goneIsReported(hs["baseline"].steady, hs["candidate"], r)
                    /\ driftIsReported(hs["baseline"].steady, hs["candidate"], r, code)
lossIn(r) == lossOf(files, history, edited, exit, r)
silently(changes) == [changes |-> changes, required |-> {}]

\* The inductive invariant of the detection: the documents are lists, what was
\* detected is valid and reports the losses, and so does a changes file that may
\* be used, also while it waits to be read.
DetectInv ==
  /\ pc \notin {"done", "detect"} => detected = {} /\ exported = {} /\ source = "snapshots"
  /\ \A r \in detected : isList(r.changes) /\ validateChanges(r.changes)
  /\ \A x \in exported : isList(x.changes)
  /\ source = "changes" => \A x \in input : isList(x.changes)
  /\ source = "migration" => \A x \in input : isList(x.changes)
  /\ pc = "done" => \A r \in detected : lossIn(r)
  /\ pc \in {"done", "detect"} /\ exit = 0 => \A x \in exported : lossIn(silently(x.changes))
  /\ pc = "detect" => source \in {"weaver", "changes", "migration"}
  /\ pc = "detect" => \/ files["baseline"] = {}
                      \/ source = "changes" /\ exit = 0 /\ \A x \in input : lossIn(silently(x.changes))

\* The inductive invariant of the Weaver source: the result is the pair's own.
WeaverInv ==
  source = "weaver" =>
    /\ pc \in {"detect", "done"}
    /\ \A d, e \in input : d = e
    /\ \A d \in input : d \in WeaverInputs /\ (pc = "done" => detected = DetectWeaver(d.diff, d.mapping))

(***************************************************************************)
(* The captures.                                                           *)
(***************************************************************************)

\* What CaptureInv says of the files.
filesDescribe ==
  \A s \in Sides : \A d \in files[s] :
    /\ listed(d.snapshot) /\ \A e \in files[s] : e = d
    /\ s \notin edited => namesSteady(d.snapshot, history[s]) /\ namesEver(d.snapshot, history[s])

\* The first capture begins without files.
LEMMA CaptureInit == Init => CaptureInv
<1> SUFFICES ASSUME Init PROVE CaptureInv
  OBVIOUS
<1>1. server \in ServerStates /\ side = "baseline" /\ side \in Sides /\ pc \in {"idle", "detect"}
  BY DEF Init, Sides
<1>2. DOMAIN files = Sides /\ DOMAIN history = Sides /\ \A s \in Sides : files[s] = {}
  BY DEF Init
<1>3. "baseline" \in Sides /\ "candidate" \in Sides
  BY DEF Sides
<1>4. pc \in Steps /\ pc \notin {"metadata", "series", "build"}
  BY <1>1 DEF Steps
<1>5. QED
  BY <1>1, <1>2, <1>3, <1>4 DEF CaptureInv, capturing

\* Only the record of the side that has no file yet changes.
LEMMA FilesKept ==
  ASSUME CaptureInv, files' = files, edited' = edited,
         \/ history' = history
         \/ capturing /\ \E h : history' = [history EXCEPT ![side] = h]
         \/ pc = "idle" /\ \E h : history' = [history EXCEPT ![side] = h]
  PROVE  filesDescribe' /\ DOMAIN history' = Sides
<1>1. DOMAIN history = Sides /\ side \in Sides /\ Sides = {"baseline", "candidate"}
  BY DEF CaptureInv, Sides
<1>2. capturing \/ pc = "idle" => files[side] = {}
  BY DEF CaptureInv, capturing, Sides
<1>3. DOMAIN history' = Sides
  BY <1>1
<1>4. \A s \in Sides : files[s] # {} => history'[s] = history[s]
  BY <1>1, <1>2
<1>5. filesDescribe
  BY DEF CaptureInv, filesDescribe
<1>6. ASSUME NEW s \in Sides, NEW d \in files[s]
      PROVE  /\ listed(d.snapshot) /\ \A e \in files[s] : e = d
             /\ s \notin edited => namesSteady(d.snapshot, history'[s]) /\ namesEver(d.snapshot, history'[s])
  <2>1. history'[s] = history[s]
    BY <1>4
  <2>2. QED
    BY <1>5, <2>1 DEF filesDescribe
<1>7. filesDescribe'
  BY <1>6 DEF filesDescribe
<1>8. QED
  BY <1>3, <1>7

\* Every step keeps the invariant of the captures.
LEMMA CaptureStep == CaptureInv /\ [Next]_vars => CaptureInv'
<1> SUFFICES ASSUME CaptureInv, [Next]_vars PROVE CaptureInv'
  OBVIOUS
<1>0. /\ server \in ServerStates /\ side \in Sides /\ pc \in Steps
      /\ DOMAIN files = Sides /\ DOMAIN history = Sides /\ Sides = {"baseline", "candidate"}
  BY DEF CaptureInv, Sides
<1>1. CASE ServerChanges
  <2>1. PICK s \in ServerStates : server' = s /\ history' = [history EXCEPT ![side] = Witness(history[side], s)]
    BY <1>1 DEF ServerChanges
  <2>2. /\ capturing /\ files' = files /\ edited' = edited /\ pc' = pc /\ side' = side /\ answer' = answer
    BY <1>1 DEF ServerChanges
  <2>3. filesDescribe' /\ DOMAIN history' = Sides
    BY <2>1, <2>2, FilesKept
  <2>4. history'[side] = Witness(history[side], s)
    BY <1>0, <2>1
  <2>5. current(history'[side], s)
    BY <2>4, WitnessIsCurrent
  <2>6. pc \in {"series", "build"} => \A md \in answer.metadata : metadataOf(md, history'[side])
    BY <2>4, WitnessIsCurrent DEF CaptureInv
  <2>7. pc # "build"
    BY <2>2 DEF capturing
  <2>8. QED
    BY <1>0, <2>1, <2>2, <2>3, <2>5, <2>6, <2>7 DEF CaptureInv, filesDescribe, capturing
<1>2. CASE Deploy
  <2>1. filesDescribe' /\ DOMAIN history' = Sides
    BY <1>2, FilesKept DEF Deploy
  <2>2. QED
    BY <1>0, <1>2, <2>1 DEF CaptureInv, filesDescribe, capturing, Deploy, Steps
<1>3. CASE StartCapture
  <2>1. history' = [history EXCEPT ![side] = Now(server)]
    BY <1>3 DEF StartCapture
  <2>2. filesDescribe' /\ DOMAIN history' = Sides
    BY <1>3, <2>1, FilesKept DEF StartCapture
  <2>3. current(history'[side], server)
    BY <1>0, <2>1, NowIsCurrent
  <2>4. QED
    BY <1>0, <1>3, <2>2, <2>3 DEF CaptureInv, filesDescribe, capturing, StartCapture, Steps
<1>4. CASE CaptureFails
  <2>1. filesDescribe' /\ DOMAIN history' = Sides
    BY <1>4, FilesKept DEF CaptureFails
  <2>2. QED
    BY <1>0, <1>4, <2>1 DEF CaptureInv, filesDescribe, capturing, CaptureFails, Steps
<1>5. CASE RequestMetadata
  <2>1. PICK names \in Answers(DOMAIN server.meta, MaxMetrics) :
          /\ answer' = [answer EXCEPT !.metadata = loadMetadata([m \in names |-> server.meta[m]])]
          /\ pc' \in {"done", "series"}
    BY <1>5 DEF RequestMetadata
  <2>2. UNCHANGED <<side, files, edited, history, server>> /\ pc = "metadata"
    BY <1>5 DEF RequestMetadata, fileVars, serverVars
  <2>3. filesDescribe' /\ DOMAIN history' = Sides
    BY <2>2, FilesKept
  <2>4. current(history[side], server)
    BY <2>2 DEF CaptureInv, capturing
  <2>5. \A md \in loadMetadata([m \in names |-> server.meta[m]]) : metadataOf(md, history[side])
    BY <1>0, <2>4, MetadataLoaded
  <2>6. \A md \in answer'.metadata : metadataOf(md, history'[side'])
    BY <2>1, <2>2, <2>5
  <2>7. QED
    BY <1>0, <2>1, <2>2, <2>3, <2>4, <2>6 DEF CaptureInv, filesDescribe, capturing, Steps
<1>6. CASE RequestSeries
  <2>1. PICK part \in Answers(server.series, MaxSeries) :
          /\ answer' = [answer EXCEPT !.series = loadSeries(part)]
          /\ pc' \in {"done", "build"}
    BY <1>6 DEF RequestSeries
  <2>2. UNCHANGED <<side, files, edited, history, server>> /\ pc = "series"
    BY <1>6 DEF RequestSeries, fileVars, serverVars
  <2>3. filesDescribe' /\ DOMAIN history' = Sides
    BY <2>2, FilesKept
  <2>4. current(history[side], server) /\ \A md \in answer.metadata : metadataOf(md, history[side])
    BY <2>2 DEF CaptureInv, capturing
  <2>5. \A kept \in loadSeries(part) : seriesOf(kept, history[side])
    BY <1>0, <2>4, SeriesLoaded
  <2>6. \A kept \in answer'.series : seriesOf(kept, history'[side'])
    BY <2>1, <2>2, <2>5
  <2>7. \A md \in answer'.metadata : metadataOf(md, history'[side'])
    BY <2>1, <2>2, <2>4
  <2>8. QED
    BY <1>0, <2>1, <2>2, <2>3, <2>6, <2>7 DEF CaptureInv, filesDescribe, capturing, Steps
<1>7. CASE BuildSnapshot
  <2>1. PICK metadata \in answer.metadata, series \in answer.series, fits \in BOOLEAN :
          LET built == buildSnapshot("prometheus", metadata, series) IN
          /\ files' = [files EXCEPT ![side] =
                         IF built = {} THEN files[side] ELSE {[decodes |-> fits, snapshot |-> s] : s \in built}]
          /\ pc' = IF built = {} THEN "done" ELSE IF side = "baseline" THEN "deploy" ELSE "compare"
    BY <1>7 DEF BuildSnapshot
  <2>2. pc = "build" /\ side' = "candidate" /\ UNCHANGED <<edited, history, server>>
    BY <1>7 DEF BuildSnapshot, serverVars
  <2> DEFINE built == buildSnapshot("prometheus", metadata, series)
             new == IF built = {} THEN files[side] ELSE {[decodes |-> fits, snapshot |-> s] : s \in built}
  <2>3. \A s \in built : /\ listed(s) /\ namesSteady(s, history[side]) /\ namesEver(s, history[side])
                         /\ \A o \in built : o = s
    BY <2>2, BuiltDescribes DEF CaptureInv
  <2>4. files[side] = {} /\ files["candidate"] = {}
    BY <1>0, <2>2 DEF CaptureInv
  <2>5. \A d \in new : /\ listed(d.snapshot) /\ namesSteady(d.snapshot, history[side])
                       /\ namesEver(d.snapshot, history[side]) /\ \A e \in new : e = d
    BY <2>3, <2>4
  <2>6. files' = [files EXCEPT ![side] = new]
    BY <2>1
  <2>7. pc' = (IF built = {} THEN "done" ELSE IF side = "baseline" THEN "deploy" ELSE "compare")
    BY <2>1
  <2> HIDE DEF new, built
  <2>8. DOMAIN files' = Sides /\ files'[side] = new /\ \A s \in Sides : s # side => files'[s] = files[s]
    BY <1>0, <2>6
  <2>9. filesDescribe
    BY DEF CaptureInv, filesDescribe
  <2>10. filesDescribe'
    <3>1. ASSUME NEW s \in Sides, NEW d \in files'[s]
          PROVE  /\ listed(d.snapshot) /\ \A e \in files'[s] : e = d
                 /\ s \notin edited => namesSteady(d.snapshot, history[s]) /\ namesEver(d.snapshot, history[s])
      <4>1. CASE s = side
        BY <2>5, <2>8, <4>1
      <4>2. CASE s # side
        BY <2>8, <2>9, <4>2 DEF filesDescribe
      <4>3. QED
        BY <4>1, <4>2
    <3>2. QED
      BY <2>2, <3>1 DEF filesDescribe
  <2>11. pc' = "deploy" => files'["candidate"] = {}
    BY <1>0, <2>4, <2>7, <2>8
  <2>12. pc' \in {"done", "deploy", "compare"} /\ pc' \in Steps
    BY <2>7 DEF Steps
  <2>13. QED
    BY <1>0, <2>2, <2>8, <2>10, <2>11, <2>12 DEF CaptureInv, filesDescribe, capturing
<1>8. CASE EditFile
  <2>1. PICK s \in Sides, d \in HandWritten :
          files[s] # {} /\ files' = [files EXCEPT ![s] = {d}] /\ edited' = edited \cup {s}
    BY <1>8 DEF EditFile
  <2>2. pc \in {"deploy", "compare"} /\ UNCHANGED <<pc, side, answer, server, history>>
    BY <1>8 DEF EditFile, serverVars
  <2>3. listed(d.snapshot)
    BY DocumentsAssumption DEF listed
  <2>4. DOMAIN files' = Sides /\ files'[s] = {d} /\ \A t \in Sides : t # s => files'[t] = files[t]
    BY <1>0, <2>1
  <2>5. filesDescribe
    BY DEF CaptureInv, filesDescribe
  <2>6. filesDescribe'
    <3>1. ASSUME NEW t \in Sides, NEW x \in files'[t]
          PROVE  /\ listed(x.snapshot) /\ \A e \in files'[t] : e = x
                 /\ t \notin edited' => namesSteady(x.snapshot, history[t]) /\ namesEver(x.snapshot, history[t])
      <4>1. CASE t = s
        BY <2>1, <2>3, <2>4, <4>1
      <4>2. CASE t # s
        BY <2>1, <2>4, <2>5, <4>2 DEF filesDescribe
      <4>3. QED
        BY <4>1, <4>2
    <3>2. QED
      BY <2>2, <3>1 DEF filesDescribe
  <2>7. \A t \in Sides : files[t] = {} => files'[t] = {}
    BY <2>1, <2>4
  <2>8. QED
    BY <1>0, <2>2, <2>4, <2>6, <2>7 DEF CaptureInv, filesDescribe, capturing
<1>9. CASE DiffSnapshots
  <2>1. pc' = "done" /\ UNCHANGED <<server, side, answer, files, edited, history>>
    BY <1>9 DEF DiffSnapshots, Finish, serverVars
  <2>2. QED
    BY <1>0, <2>1, FilesKept DEF CaptureInv, filesDescribe, capturing, Steps
<1>10. CASE Detect
  <2>1. pc' = "done" /\ UNCHANGED <<server, side, answer, files, edited, history>>
    BY <1>10 DEF Detect, Finish, serverVars, fileVars
  <2>2. QED
    BY <1>0, <2>1, FilesKept DEF CaptureInv, filesDescribe, capturing, Steps
<1>11. CASE UseExported
  <2>1. pc' = "detect" /\ UNCHANGED <<server, side, answer, files, edited, history>>
    BY <1>11 DEF UseExported, serverVars, fileVars
  <2>2. QED
    BY <1>0, <2>1, FilesKept DEF CaptureInv, filesDescribe, capturing, Steps
<1>12. CASE Stop \/ UNCHANGED vars
  <2>1. UNCHANGED <<pc, server, side, answer, files, edited, history>>
    BY <1>12 DEF Stop, vars
  <2>2. QED
    BY <1>0, <2>1, FilesKept DEF CaptureInv, filesDescribe, capturing, Steps
<1>13. QED
  BY <1>1, <1>2, <1>3, <1>4, <1>5, <1>6, <1>7, <1>8, <1>9, <1>10, <1>11, <1>12 DEF Next

\* At each step of a capture, what was received covers what stayed on the
\* server and nothing that was never there (Collect, its two requests and
\* buildSnapshot), and a written file keeps describing its capture.
THEOREM CaptureInvariant == Spec => []CaptureInv
BY CaptureInit, CaptureStep, PTL DEF Spec

\* What the server exposed during the whole of a capture is in the snapshot
\* file that the snapshot command writes, whatever the server does between the
\* two requests and wherever its answers are cut.
THEOREM StableTelemetryIsCaptured == Spec => []StableIsCaptured
<1>1. CaptureInv => StableIsCaptured
  <2> SUFFICES ASSUME CaptureInv, NEW s \in Sides, NEW d \in captured(s)
               PROVE  /\ \A one \in history[s].steady.series :
                           \E m \in Range(d.snapshot.metrics) :
                             m.name \in family(one.name) /\ one.labels \subseteq Range(m.labels)
                      /\ \A name \in DOMAIN history[s].steady.meta :
                           \E m \in Range(d.snapshot.metrics) : m.name = name /\
                             \A e \in history[s].steady.meta[name] : m.type = normalizeType(e.type)
    BY Zenon DEF StableIsCaptured
  <2>1. s \notin edited /\ d \in files[s]
    BY DEF captured
  <2>2. namesSteady(d.snapshot, history[s])
    BY <2>1 DEF CaptureInv
  <2>3. QED
    BY <2>2 DEF namesSteady
<1>2. QED
  BY <1>1, CaptureInvariant, PTL

(***************************************************************************)
(* The comparison of two snapshots.                                        *)
(***************************************************************************)

\* The index of an accepted snapshot finds every metric under its name.
LEMMA IndexFinds ==
  ASSUME NEW s, listed(s), Normalize(s)
  PROVE  /\ DOMAIN metricIndex(s) = {m.name : m \in Range(s.metrics)}
         /\ \A m \in Range(s.metrics) : metricIndex(s)[m.name] = m
<1> DEFINE names == {m.name : m \in Range(s.metrics)}
           at(n) == SelectLastInSeq(s.metrics, LAMBDA m : m.name = n)
           index == [n \in names |-> s.metrics[at(n)]]
<1>1. metricIndex(s) = index
  BY DEF metricIndex
<1>2. Len(s.metrics) \in Nat /\ DOMAIN s.metrics = 1..Len(s.metrics)
  BY ListIsFinite DEF listed
<1>3. ASSUME NEW m \in Range(s.metrics) PROVE s.metrics[at(m.name)] = m
  <2>1. PICK i \in DOMAIN s.metrics : s.metrics[i] = m
    BY DEF Range
  <2> DEFINE I == {j \in 1..Len(s.metrics) : s.metrics[j].name = m.name}
  <2>2. \A j \in DOMAIN s.metrics : s.metrics[j].name = m.name => j = i
    <3> DEFINE f == [j \in DOMAIN s.metrics |-> s.metrics[j].name]
    <3>1. noDuplicates(f)
      BY DEF Normalize
    <3>2. \A j \in DOMAIN s.metrics : f[j] = s.metrics[j].name
      OBVIOUS
    <3>3. DOMAIN f = DOMAIN s.metrics
      OBVIOUS
    <3> HIDE DEF f
    <3>4. QED
      BY <2>1, <3>1, <3>2, <3>3 DEF noDuplicates
  <2>3. I = {i}
    BY <1>2, <2>1, <2>2
  <2>4. at(m.name) = IF I # {} THEN Max(I) ELSE 0
    BY DEF SelectLastInSeq
  <2>5. Max({i}) = i
    BY <1>2 DEF Max
  <2> HIDE DEF I, at
  <2>6. at(m.name) = i
    BY <2>3, <2>4, <2>5, Zenon
  <2>7. QED
    BY <2>1, <2>6
<1>4. \A m \in Range(s.metrics) : m.name \in names
  OBVIOUS
<1>5. DOMAIN index = names /\ \A n \in names : index[n] = s.metrics[at(n)]
  OBVIOUS
<1> HIDE DEF index, at
<1>6. QED
  BY <1>1, <1>3, <1>4, <1>5

\* The parts of the result of Compare.
differencesBetween(b, c) == differencesOf(metricIndex(b), metricIndex(c))
kindsIn(D, kinds) == {d \in D : d.kind \in kinds}
removalsOf(D) ==
  {removalChange("metric_remove", d.metric, "") : d \in kindsIn(D, {"metric_removed"})}
  \cup {removalChange("label_remove", d.label, d.metric) : d \in kindsIn(D, {"label_removed"})}
requiredOf(D) == kindsIn(D, {"metric_type_changed", "metric_unit_changed", "metric_metadata_unavailable"})

\* The fields of a difference.
LEMMA DifferenceFields ==
  ASSUME NEW k, NEW m, NEW l, NEW f
  PROVE  /\ difference(k, m, l, f).kind = k /\ difference(k, m, l, f).metric = m
         /\ difference(k, m, l, f).label = l
BY DEF difference

\* Which differences of two metrics are removals of a label, and which labels those are.
LEMMA LabelDifferences ==
  ASSUME NEW before, NEW after, NEW d \in compareMetric(before, after)
  PROVE  /\ d.kind # "metric_removed" /\ d.kind # "metric_added"
         /\ d.metric = before.name
         /\ d.kind = "label_removed" => d.label \in Range(before.labels)
<1> DEFINE others == {"metric_type_changed", "metric_metadata_unavailable", "metric_unit_changed", "label_added"}
<1>1. \/ \E k \in others : \E l, f : d = difference(k, before.name, l, f)
      \/ \E l \in Range(before.labels) : \E f : d = difference("label_removed", before.name, l, f)
  BY Zenon DEF compareMetric, only
<1>2. CASE \E k \in others : \E l, f : d = difference(k, before.name, l, f)
  <2>1. PICK k \in others : \E l, f : d = difference(k, before.name, l, f)
    BY <1>2
  <2>2. d.kind = k /\ d.metric = before.name
    BY <2>1, DifferenceFields
  <2>3. QED
    BY <2>1, <2>2
<1>3. CASE \E l \in Range(before.labels) : \E f : d = difference("label_removed", before.name, l, f)
  BY <1>3, DifferenceFields
<1>4. QED
  BY <1>1, <1>2, <1>3

\* A removal is of a metric of the baseline or of a label of one of its metrics.
LEMMA RemovalsBounded ==
  ASSUME NEW b, NEW c, listed(b), Normalize(b), NEW x \in removalsOf(differencesBetween(b, c))
  PROVE  \E m \in Range(b.metrics) :
           \/ x = removalChange("metric_remove", m.name, "")
           \/ \E l \in Range(m.labels) : x = removalChange("label_remove", l, m.name)
<1> DEFINE old == metricIndex(b)
           new == metricIndex(c)
           D == differencesBetween(b, c)
<1>1. DOMAIN old = {m.name : m \in Range(b.metrics)} /\ \A m \in Range(b.metrics) : old[m.name] = m
  BY IndexFinds
<1>2. D = ({difference("metric_added", m, "", "") : m \in DOMAIN new \ DOMAIN old}
           \cup {difference("metric_removed", m, "", "") : m \in DOMAIN old \ DOMAIN new})
           \cup UNION {compareMetric(old[m], new[m]) : m \in DOMAIN old \cap DOMAIN new}
  BY Zenon DEF differencesBetween, differencesOf
<1>3. PICK d \in D : \/ d.kind = "metric_removed" /\ x = removalChange("metric_remove", d.metric, "")
                     \/ d.kind = "label_removed" /\ x = removalChange("label_remove", d.label, d.metric)
  BY DEF removalsOf, kindsIn
<1> HIDE DEF D, old, new
<1>4. CASE \E m \in DOMAIN new \ DOMAIN old : d = difference("metric_added", m, "", "")
  <2>1. \E m, l, f : d = difference("metric_added", m, l, f)
    BY <1>4, Zenon
  <2>2. d.kind = "metric_added"
    BY <2>1, DifferenceFields
  <2>3. QED
    BY <2>2, <1>3, Zenon
<1>5. CASE \E m \in DOMAIN old \ DOMAIN new : d = difference("metric_removed", m, "", "")
  <2>1. PICK n \in DOMAIN old : d = difference("metric_removed", n, "", "")
    BY <1>5
  <2>2. d.kind = "metric_removed" /\ d.metric = n
    <3>1. \E l, f : d = difference("metric_removed", n, l, f)
      BY <2>1, Zenon
    <3>2. QED
      BY <3>1, DifferenceFields
  <2>3. x = removalChange("metric_remove", n, "")
    BY <2>2, <1>3
  <2>4. PICK m \in Range(b.metrics) : n = m.name
    BY <1>1
  <2>5. QED
    BY <2>3, <2>4
<1>6. CASE \E m \in DOMAIN old : d \in compareMetric(old[m], new[m])
  <2>1. PICK n \in DOMAIN old : d \in compareMetric(old[n], new[n])
    BY <1>6
  <2>2. PICK m \in Range(b.metrics) : n = m.name /\ old[n] = m
    BY <1>1
  <2>3. d.kind = "label_removed" /\ x = removalChange("label_remove", d.label, d.metric)
    BY <1>3, <2>1, LabelDifferences
  <2>4. d.metric = m.name /\ d.label \in Range(m.labels)
    BY <2>1, <2>2, <2>3, LabelDifferences
  <2>5. QED
    BY <2>3, <2>4
<1>7. QED
  BY <1>2, <1>4, <1>5, <1>6

\* The removals between two snapshots are finitely many.
LEMMA RemovalsFinite ==
  ASSUME NEW b, NEW c, listed(b), Normalize(b)
  PROVE  IsFiniteSet(removalsOf(differencesBetween(b, c)))
<1> DEFINE R == removalsOf(differencesBetween(b, c))
           M == Range(b.metrics)
           gone == [m \in M |-> removalChange("metric_remove", m.name, "")]
           lost == [m \in M |-> {removalChange("label_remove", l, m.name) : l \in Range(m.labels)}]
<1>1. IsFiniteSet(M) /\ \A m \in M : IsFiniteSet(Range(m.labels))
  BY ListIsFinite DEF listed
<1>2. IsFiniteSet({gone[m] : m \in M})
  <2>1. gone \in Surjection(M, {gone[m] : m \in M})
    BY DEF Surjection
  <2> HIDE DEF gone, M
  <2>2. QED
    BY <1>1, <2>1, FS_Surjection
<1>3. IsFiniteSet({lost[m] : m \in M})
  <2>1. lost \in Surjection(M, {lost[m] : m \in M})
    BY DEF Surjection
  <2> HIDE DEF lost, M
  <2>2. QED
    BY <1>1, <2>1, FS_Surjection
<1>4. \A T \in {lost[m] : m \in M} : IsFiniteSet(T)
  <2> SUFFICES ASSUME NEW m \in M PROVE IsFiniteSet(lost[m])
    BY Zenon
  <2> DEFINE g == [l \in Range(m.labels) |-> removalChange("label_remove", l, m.name)]
  <2>1. g \in Surjection(Range(m.labels), lost[m])
    BY DEF Surjection
  <2> HIDE DEF g, lost
  <2>2. IsFiniteSet(Range(m.labels))
    BY <1>1
  <2>3. QED
    BY <2>1, <2>2, FS_Surjection
<1> DEFINE A == {gone[m] : m \in M}
           B == UNION {lost[m] : m \in M}
<1>5. IsFiniteSet(A \cup B)
  <2>1. IsFiniteSet(B)
    BY <1>3, <1>4, FS_UNION
  <2> HIDE DEF A, B
  <2>2. QED
    BY <1>2, <2>1, FS_Union DEF A
<1>6. \A x \in R : x \in A \cup B
  <2> SUFFICES ASSUME NEW x \in R PROVE x \in A \cup B
    OBVIOUS
  <2>1. PICK m \in M : \/ x = removalChange("metric_remove", m.name, "")
                       \/ \E l \in Range(m.labels) : x = removalChange("label_remove", l, m.name)
    BY RemovalsBounded
  <2>2. x = gone[m] \/ x \in lost[m]
    BY <2>1
  <2> HIDE DEF gone, lost
  <2>3. QED
    BY <2>2
<1> HIDE DEF A, B, R
<1>7. R \in SUBSET (A \cup B)
  BY <1>6
<1>8. QED
  BY <1>5, <1>7, FS_Subset DEF R

\* What an accepted comparison returns: valid changes, one for each removal, and
\* the differences that need a decision.
LEMMA Compared ==
  ASSUME NEW b, NEW c, NEW name, listed(b), NEW r \in Compare(b, c, name)
  PROVE  /\ Normalize(b) /\ Normalize(c)
         /\ isList(r.changes) /\ validateChanges(r.changes)
         /\ Range(r.changes) = removalsOf(differencesBetween(b, c))
         /\ r.required = requiredOf(differencesBetween(b, c))
<1> DEFINE R == removalsOf(differencesBetween(b, c))
           Q == requiredOf(differencesBetween(b, c))
           ok == Normalize(b) /\ Normalize(c) /\ ValidateChangeSet(changeSetOf(name, SetToSeq(R)))
           value == [changes |-> SetToSeq(R), required |-> Q]
<1>1. Compare(b, c, name) = only(ok, value)
  BY Zenon DEF Compare, removalsOf, requiredOf, kindsIn, differencesBetween
<1>2. r = value /\ ok
  <2> HIDE DEF ok, value
  <2>1. QED
    BY <1>1 DEF only
<1>3. IsFiniteSet(R)
  BY <1>2, RemovalsFinite
<1>4. r.changes = SetToSeq(R) /\ r.required = Q
  BY <1>2
<1> HIDE DEF R, Q
<1>5. SetToSeq(R) \in Seq(R) /\ Range(SetToSeq(R)) = R
  BY <1>3, SetToSeqLists
<1>6. validateChanges(SetToSeq(R))
  BY <1>2 DEF ValidateChangeSet, changeSetOf
<1>7. QED
  BY <1>2, <1>4, <1>5, <1>6 DEF isList, R, Q

\* A listed removal is found under its kind, name and parent.
LEMMA RemovalFound ==
  ASSUME NEW changes, NEW kind, NEW name, NEW parent, NEW parents, parent \in parents,
         removalChange(kind, name, parent) \in Range(changes)
  PROVE  removedBy(changes, kind, name, parents)
<1> DEFINE x == removalChange(kind, name, parent)
<1>1. x.kind = kind /\ x.from.name = name /\ x.from.parent = parent
  BY DEF removalChange
<1> HIDE DEF x
<1>2. PICK i \in DOMAIN changes : changes[i] = x
  BY DEF Range, x
<1>3. QED
  BY <1>1, <1>2 DEF removedBy

\* A metric that the candidate does not name is reported as removed.
LEMMA MetricLossReported ==
  ASSUME NEW b, NEW c, NEW name, listed(b), listed(c), NEW r \in Compare(b, c, name),
         NEW m \in Range(b.metrics), \A n \in Range(c.metrics) : n.name # m.name
  PROVE  removedBy(r.changes, "metric_remove", m.name, {""})
<1> DEFINE old == metricIndex(b)
           new == metricIndex(c)
           D == differencesBetween(b, c)
           d == difference("metric_removed", m.name, "", "")
<1>1. Normalize(b) /\ Normalize(c) /\ Range(r.changes) = removalsOf(D)
  BY Compared
<1>2. m.name \in DOMAIN old /\ m.name \notin DOMAIN new
  <2>1. DOMAIN old = {x.name : x \in Range(b.metrics)} /\ DOMAIN new = {x.name : x \in Range(c.metrics)}
    BY <1>1, IndexFinds
  <2>2. QED
    BY <2>1
<1>3. d \in D
  BY <1>2, Zenon DEF differencesBetween, differencesOf
<1>4. d.kind = "metric_removed" /\ d.metric = m.name
  <2>1. \E l, f : d = difference("metric_removed", m.name, l, f)
    BY Zenon
  <2> HIDE DEF d
  <2>2. QED
    BY <2>1, DifferenceFields
<1> HIDE DEF d, D
<1>5. removalChange("metric_remove", m.name, "") \in Range(r.changes)
  <2>1. d \in kindsIn(D, {"metric_removed"})
    BY <1>3, <1>4 DEF kindsIn
  <2>2. QED
    BY <1>1, <1>4, <2>1, Zenon DEF removalsOf
<1>6. \A e : e \in {e}
  OBVIOUS
<1>7. QED
  BY <1>5, <1>6, RemovalFound, Zenon

\* A label that the candidate does not name for its metric is reported as removed.
LEMMA LabelLossReported ==
  ASSUME NEW b, NEW c, NEW name, listed(b), listed(c), NEW r \in Compare(b, c, name),
         NEW m \in Range(b.metrics), NEW n \in Range(c.metrics), n.name = m.name,
         NEW l \in Range(m.labels), l \notin Range(n.labels),
         NEW parents, m.name \in parents
  PROVE  removedBy(r.changes, "label_remove", l, parents)
<1> DEFINE old == metricIndex(b)
           new == metricIndex(c)
           D == differencesBetween(b, c)
           d == difference("label_removed", m.name, l, "")
<1>1. Normalize(b) /\ Normalize(c) /\ Range(r.changes) = removalsOf(D)
  BY Compared
<1>2. m.name \in DOMAIN old \cap DOMAIN new /\ old[m.name] = m /\ new[m.name] = n
  <2>1. /\ DOMAIN old = {x.name : x \in Range(b.metrics)} /\ DOMAIN new = {x.name : x \in Range(c.metrics)}
        /\ old[m.name] = m /\ new[n.name] = n
    BY <1>1, IndexFinds
  <2>2. QED
    BY <2>1
<1>3. d \in compareMetric(m, n)
  BY Zenon DEF compareMetric
<1>4. d \in D
  BY <1>2, <1>3, Zenon DEF differencesBetween, differencesOf
<1>5. d.kind = "label_removed" /\ d.metric = m.name /\ d.label = l
  <2>1. \E f : d = difference("label_removed", m.name, l, f)
    BY Zenon
  <2> HIDE DEF d
  <2>2. QED
    BY <2>1, DifferenceFields
<1> HIDE DEF d, D
<1>6. removalChange("label_remove", l, m.name) \in Range(r.changes)
  <2>1. d \in kindsIn(D, {"label_removed"})
    BY <1>4, <1>5 DEF kindsIn
  <2>2. QED
    BY <1>1, <1>5, <2>1, Zenon DEF removalsOf
<1>7. QED
  BY <1>6, RemovalFound

\* Two truth values are both true, or one of each.
LEMMA TwoTruths ==
  ASSUME NEW p \in BOOLEAN, NEW q \in BOOLEAN
  PROVE  /\ p /\ q => {p, q} = {TRUE}
         /\ p # q => {p, q} = BOOLEAN
OBVIOUS

\* A type or a unit that differs needs a decision.
LEMMA DriftReported ==
  ASSUME NEW b, NEW c, NEW name, listed(b), listed(c), NEW r \in Compare(b, c, name),
         NEW m \in Range(b.metrics), NEW n \in Range(c.metrics), n.name = m.name,
         m.type # n.type \/ m.unit # n.unit
  PROVE  \E d \in r.required : d.metric = m.name
<1> DEFINE old == metricIndex(b)
           new == metricIndex(c)
           D == differencesBetween(b, c)
           kinds == {"metric_type_changed", "metric_unit_changed", "metric_metadata_unavailable"}
<1>1. Normalize(b) /\ Normalize(c) /\ r.required = requiredOf(D)
  BY Compared
<1>2. m.name \in DOMAIN old \cap DOMAIN new /\ old[m.name] = m /\ new[m.name] = n
  <2>1. /\ DOMAIN old = {x.name : x \in Range(b.metrics)} /\ DOMAIN new = {x.name : x \in Range(c.metrics)}
        /\ old[m.name] = m /\ new[n.name] = n
    BY <1>1, IndexFinds
  <2>2. QED
    BY <2>1
<1>3. compareMetric(m, n) \subseteq D
  BY <1>2, Zenon DEF differencesBetween, differencesOf
<1>4. m.type \in SupportedTypes /\ n.type \in SupportedTypes
  <2>1. \A s : Normalize(s) => \A x \in Range(s.metrics) : x.type \in SupportedTypes
    BY Zenon DEF Normalize, Range
  <2>2. QED
    BY <1>1, <2>1
<1>5. \E k \in kinds : \E l, f : difference(k, m.name, l, f) \in compareMetric(m, n)
  <2>1. CASE m.type # n.type
    <3>1. \A t \in SupportedTypes : knownType(t) <=> t # "unknown"
      BY Zenon DEF knownType, SupportedTypes
    <3>2. knownType(m.type) \in BOOLEAN /\ knownType(n.type) \in BOOLEAN
      BY Zenon DEF knownType
    <3>3. \/ knownType(m.type) /\ knownType(n.type)
          \/ knownType(m.type) # knownType(n.type)
      BY <1>4, <2>1, <3>1, <3>2, Zenon
    <3>4. CASE knownType(m.type) /\ knownType(n.type)
      <4>1. {knownType(m.type), knownType(n.type)} = {TRUE}
        BY <3>2, <3>4, TwoTruths, Zenon
      <4>2. QED
        BY <4>1, <2>1, Zenon DEF compareMetric, only
    <3>5. CASE knownType(m.type) # knownType(n.type)
      <4>1. {knownType(m.type), knownType(n.type)} = BOOLEAN
        BY <3>2, <3>5, TwoTruths, Zenon
      <4>2. QED
        BY <4>1, Zenon DEF compareMetric, only
    <3>6. QED
      BY <3>3, <3>4, <3>5, Zenon
  <2>2. CASE m.unit # n.unit
    <3>1. (m.unit # "") \in BOOLEAN /\ (n.unit # "") \in BOOLEAN
      BY Zenon
    <3>2. \/ m.unit # "" /\ n.unit # ""
          \/ (m.unit # "") # (n.unit # "")
      BY <2>2, Zenon
    <3>3. CASE m.unit # "" /\ n.unit # ""
      <4>1. {m.unit # "", n.unit # ""} = {TRUE}
        BY <3>1, <3>3, TwoTruths, Zenon
      <4>2. QED
        BY <4>1, <2>2, Zenon DEF compareMetric, only
    <3>4. CASE (m.unit # "") # (n.unit # "")
      <4>1. {m.unit # "", n.unit # ""} = BOOLEAN
        BY <3>1, <3>4, TwoTruths, Zenon
      <4>2. QED
        BY <4>1, Zenon DEF compareMetric, only
    <3>5. QED
      BY <3>2, <3>3, <3>4, Zenon
  <2>3. QED
    BY <2>1, <2>2, Zenon
<1>6. PICK k \in kinds : \E l, f : difference(k, m.name, l, f) \in compareMetric(m, n)
  BY <1>5
<1>7. PICK l, f : difference(k, m.name, l, f) \in compareMetric(m, n)
  BY <1>6
<1> DEFINE d == difference(k, m.name, l, f)
<1>8. d \in D /\ d.kind \in kinds /\ d.metric = m.name
  BY <1>3, <1>6, <1>7, DifferenceFields
<1> HIDE DEF d, D
<1>9. QED
  BY <1>1, <1>8 DEF requiredOf, kindsIn

\* Whatever a file names for a metric and the other does not is among the changes.
LEMMA FileLoss ==
  ASSUME NEW b, NEW c, listed(b.snapshot), listed(c.snapshot), NEW name,
         NEW r \in Compare(b.snapshot, c.snapshot, name)
  PROVE  fileLossIsReported(b, c, r)
<1> SUFFICES ASSUME NEW m \in Range(b.snapshot.metrics), NEW l \in Range(m.labels)
             PROVE  \/ \E n \in Range(c.snapshot.metrics) : n.name = m.name /\ l \in Range(n.labels)
                    \/ removedBy(r.changes, "metric_remove", m.name, {""})
                    \/ removedBy(r.changes, "label_remove", l, {m.name})
  BY Zenon DEF fileLossIsReported
<1>1. CASE \A n \in Range(c.snapshot.metrics) : n.name # m.name
  BY <1>1, MetricLossReported, Zenon
<1>2. CASE \E n \in Range(c.snapshot.metrics) : n.name = m.name
  <2>1. PICK n \in Range(c.snapshot.metrics) : n.name = m.name
    BY <1>2
  <2>2. CASE l \in Range(n.labels)
    BY <2>1, <2>2, Zenon
  <2>3. CASE l \notin Range(n.labels)
    <3>1. m.name \in {m.name}
      OBVIOUS
    <3>2. removedBy(r.changes, "label_remove", l, {m.name})
      BY <2>1, <2>3, <3>1, LabelLossReported
    <3>3. QED
      BY <3>2, Zenon
  <2>4. QED
    BY <2>2, <2>3, Zenon
<1>3. QED
  BY <1>1, <1>2, Zenon

\* What was on the server during the whole first capture and at no moment of the
\* second is among the changes.
LEMMA GoneReported ==
  ASSUME NEW b, NEW c, listed(b), listed(c), NEW name, NEW r \in Compare(b, c, name),
         NEW hb, NEW hc, namesSteady(b, hb), namesEver(c, hc)
  PROVE  goneIsReported(hb.steady, hc, r)
<1> DEFINE related(one) == {x \in hc.ever.series : family(x.name) \cap family(one.name) # {}}
           goneMetric(one) == \E f \in family(one.name) : removedBy(r.changes, "metric_remove", f, {""})
<1> SUFFICES ASSUME NEW one \in hb.steady.series
             PROVE  /\ (related(one) = {} /\ hc.ever.names \cap family(one.name) = {}) => goneMetric(one)
                    /\ \A l \in one.labels : (\A x \in related(one) : l \notin x.labels) =>
                         goneMetric(one) \/ removedBy(r.changes, "label_remove", l, family(one.name))
  BY Zenon DEF goneIsReported
<1>1. PICK m \in Range(b.metrics) : m.name \in family(one.name) /\ one.labels \subseteq Range(m.labels)
  BY DEF namesSteady
<1>2. (\A n \in Range(c.metrics) : n.name # m.name) => goneMetric(one)
  BY <1>1, MetricLossReported, Zenon
<1>3. \A x \in hc.ever.series : m.name \in family(x.name) => x \in related(one)
  BY <1>1
<1> HIDE DEF related, goneMetric
<1>4. (related(one) = {} /\ hc.ever.names \cap family(one.name) = {}) => goneMetric(one)
  <2> SUFFICES ASSUME related(one) = {}, hc.ever.names \cap family(one.name) = {}
               PROVE  \A n \in Range(c.metrics) : n.name # m.name
    BY <1>2
  <2> SUFFICES ASSUME NEW n \in Range(c.metrics), n.name = m.name PROVE FALSE
    OBVIOUS
  <2>1. m.name \in hc.ever.names \/ \E x \in hc.ever.series : m.name \in family(x.name)
    BY DEF namesEver
  <2>2. QED
    BY <1>1, <1>3, <2>1
<1>5. ASSUME NEW l \in one.labels, \A x \in related(one) : l \notin x.labels
      PROVE  goneMetric(one) \/ removedBy(r.changes, "label_remove", l, family(one.name))
  <2>1. CASE \A n \in Range(c.metrics) : n.name # m.name
    BY <1>2, <2>1
  <2>2. CASE \E n \in Range(c.metrics) : n.name = m.name
    <3>1. PICK n \in Range(c.metrics) : n.name = m.name
      BY <2>2
    <3>2. l \notin Range(n.labels)
      <4> SUFFICES ASSUME l \in Range(n.labels) PROVE FALSE
        OBVIOUS
      <4>1. PICK x \in hc.ever.series : n.name \in family(x.name) /\ l \in x.labels
        BY DEF namesEver
      <4>2. QED
        BY <1>3, <1>5, <3>1, <4>1
    <3>3. l \in Range(m.labels)
      BY <1>1
    <3>4. removedBy(r.changes, "label_remove", l, family(one.name))
      BY <1>1, <3>1, <3>2, <3>3, LabelLossReported
    <3>5. QED
      BY <3>4
  <2>3. QED
    BY <2>1, <2>2
<1>6. QED
  BY <1>4, <1>5

\* A type or unit that was one thing during the whole first capture and another
\* during the whole second one has a required diagnostic.
LEMMA DriftHasDiagnostic ==
  ASSUME NEW b, NEW c, listed(b), listed(c), NEW name, NEW r \in Compare(b, c, name),
         NEW hb, NEW hc, namesSteady(b, hb), namesSteady(c, hc),
         NEW code, r.required # {} => code = 3
  PROVE  driftIsReported(hb.steady, hc, r, code)
<1> SUFFICES ASSUME NEW k \in DOMAIN hb.steady.meta \cap DOMAIN hc.steady.meta,
                    NEW e \in hb.steady.meta[k], NEW f \in hc.steady.meta[k],
                    normalizeType(e.type) # normalizeType(f.type) \/ e.unit # f.unit
             PROVE  code = 3 /\ \E d \in r.required : d.metric = k
  BY Zenon DEF driftIsReported
<1>1. PICK m \in Range(b.metrics) : m.name = k /\ m.type = normalizeType(e.type) /\ m.unit = e.unit
  BY DEF namesSteady
<1>2. PICK n \in Range(c.metrics) : n.name = k /\ n.type = normalizeType(f.type) /\ n.unit = f.unit
  BY DEF namesSteady
<1>3. m.type # n.type \/ m.unit # n.unit
  BY <1>1, <1>2, Zenon
<1>4. \E d \in r.required : d.metric = m.name
  BY <1>1, <1>2, <1>3, DriftReported
<1>5. QED
  BY <1>1, <1>4

(***************************************************************************)
(* The import of a Weaver diff.                                            *)
(***************************************************************************)

\* Lists of any members, flattened.
LEMMA FlattenMembers ==
  ASSUME NEW n \in Nat, NEW ss, ss = [i \in 1..n |-> ss[i]], \A i \in 1..n : isList(ss[i])
  PROVE  /\ isList(FlattenSeq(ss))
         /\ Range(FlattenSeq(ss)) = Members(ss, n)
<1> DEFINE T == Members(ss, n)
<1>1. \A i \in 1..n : ss[i] \in Seq(T)
  <2> TAKE i \in 1..n
  <2>1. Range(ss[i]) \subseteq T
    BY Zenon DEF Members
  <2> HIDE DEF T
  <2>2. ss[i] \in Seq(Range(ss[i]))
    BY DEF isList
  <2>3. QED
    BY <2>1, <2>2, SeqMonotonic
<1> HIDE DEF T
<1>2. ss \in [1..n -> Seq(T)]
  BY <1>1
<1>3. FlattenSeq(ss) \in Seq(T) /\ Range(FlattenSeq(ss)) = Members(ss, n)
  BY <1>2, FlattenLists
<1>4. QED
  BY <1>3, SeqOfRange DEF isList

\* The answers to all items of a diff, in order, and the changes they give.
answersTo(order, groups) ==
  FlattenSeq([g \in DOMAIN order |->
    [i \in DOMAIN groups[order[g]] |-> normalizeItem(order[g], groups[order[g]][i])]])
takenFrom(answers) ==
  FlattenSeq([i \in DOMAIN answers |->
    IF answers[i].verdict = "take" THEN <<answers[i].change>> ELSE << >>])
stops(a) == a.verdict \in {"unsupported", "error"}

\* One answer for each item of each group.
LEMMA AnswersListed ==
  ASSUME NEW order, isList(order), NEW groups, \A g \in DOMAIN order : isList(groups[order[g]])
  PROVE  /\ isList(answersTo(order, groups))
         /\ \A g \in DOMAIN order : \A i \in DOMAIN groups[order[g]] :
              normalizeItem(order[g], groups[order[g]][i]) \in Range(answersTo(order, groups))
<1> DEFINE row(g) == [i \in DOMAIN groups[order[g]] |-> normalizeItem(order[g], groups[order[g]][i])]
           ss == [g \in DOMAIN order |-> row(g)]
           n == Len(order)
<1>1. n \in Nat /\ DOMAIN order = 1..n
  BY ListIsFinite
<1>2. answersTo(order, groups) = FlattenSeq(ss)
  BY Zenon DEF answersTo
<1>3. \A g \in DOMAIN order : isList(row(g))
  <2> TAKE g \in DOMAIN order
  <2>1. LET k == Len(groups[order[g]]) IN k \in Nat /\ DOMAIN groups[order[g]] = 1..k
    BY ListIsFinite
  <2>2. row(g) = [i \in 1..Len(groups[order[g]]) |-> row(g)[i]]
    BY <2>1
  <2> HIDE DEF row
  <2>3. QED
    BY <2>1, <2>2, ListByIndex
<1>4. \A g \in DOMAIN order : \A i \in DOMAIN groups[order[g]] :
        normalizeItem(order[g], groups[order[g]][i]) \in Range(row(g))
  BY Zenon DEF Range
<1> HIDE DEF row
<1>5. ss = [g \in 1..n |-> ss[g]] /\ \A g \in 1..n : ss[g] = row(g)
  BY <1>1
<1> HIDE DEF ss, n
<1>6. isList(FlattenSeq(ss)) /\ Range(FlattenSeq(ss)) = Members(ss, n)
  BY <1>1, <1>3, <1>5, FlattenMembers
<1>7. \A g \in 1..n : \A x \in Range(row(g)) : x \in Members(ss, n)
  BY <1>5, Zenon DEF Members
<1>8. QED
  BY <1>1, <1>2, <1>4, <1>6, <1>7

\* The taken changes are those of the answers that say so.
LEMMA TakenListed ==
  ASSUME NEW answers, isList(answers)
  PROVE  /\ isList(takenFrom(answers))
         /\ \A a \in Range(answers) : a.verdict = "take" => a.change \in Range(takenFrom(answers))
<1> DEFINE one(i) == IF answers[i].verdict = "take" THEN <<answers[i].change>> ELSE << >>
           ss == [i \in DOMAIN answers |-> one(i)]
           n == Len(answers)
<1>1. n \in Nat /\ DOMAIN answers = 1..n
  BY ListIsFinite
<1>2. takenFrom(answers) = FlattenSeq(ss)
  BY Zenon DEF takenFrom
<1>3. \A x : isList(<<x>>) /\ Range(<<x>>) = {x}
  BY DEF isList, Range
<1>4. isList(<< >>)
  BY DEF isList, Range
<1>5. \A i \in DOMAIN answers : isList(one(i))
  BY <1>3, <1>4, Zenon
<1>6. \A i \in DOMAIN answers : answers[i].verdict = "take" => answers[i].change \in Range(one(i))
  BY <1>3, Zenon
<1> HIDE DEF one
<1>7. ss = [i \in 1..n |-> ss[i]] /\ \A i \in 1..n : ss[i] = one(i)
  BY <1>1
<1> HIDE DEF ss, n
<1>8. isList(FlattenSeq(ss)) /\ Range(FlattenSeq(ss)) = Members(ss, n)
  BY <1>1, <1>5, <1>7, FlattenMembers
<1>9. \A i \in 1..n : \A x \in Range(one(i)) : x \in Members(ss, n)
  BY <1>7, Zenon DEF Members
<1>10. ASSUME NEW a \in Range(answers), a.verdict = "take" PROVE a.change \in Range(FlattenSeq(ss))
  <2>1. PICK i \in DOMAIN answers : answers[i] = a
    BY DEF Range
  <2>2. QED
    BY <1>1, <1>6, <1>8, <1>9, <1>10, <2>1, Zenon
<1>11. QED
  BY <1>2, <1>8, <1>10

\* An index is selected exactly when an answer stops the import, and is one that does.
LEMMA FirstStop ==
  ASSUME NEW answers, isList(answers), NEW stop,
         stop = SelectInSeq(answers, LAMBDA a : a.verdict \in {"unsupported", "error"})
  PROVE  /\ stop = 0 => \A a \in Range(answers) : ~stops(a)
         /\ stop # 0 => stops(answers[stop])
<1> DEFINE I == {i \in 1..Len(answers) : stops(answers[i])}
<1>1. Len(answers) \in Nat /\ DOMAIN answers = 1..Len(answers)
  BY ListIsFinite
<1>2. stop = IF I # {} THEN Min(I) ELSE 0
  BY DEF SelectInSeq, stops
<1>3. I # {} => Min(I) \in I
  <2> SUFFICES ASSUME I # {} PROVE \E x \in I : \A y \in I : x <= y
    BY DEF Min
  <2>1. I \in SUBSET Nat /\ I # {}
    BY <1>1
  <2> HIDE DEF I
  <2>2. OpToRel(<, Nat) = Less
    BY DEF OpToRel, Less
  <2>3. PICK m \in I : \A k \in I : ~(<<k, m>> \in Less)
    BY <2>1, <2>2, NatLessThanWellFounded, WFMin
  <2>4. \A k \in I : ~(k < m)
    BY <2>1, <2>3 DEF Less
  <2>5. QED
    BY <2>1, <2>3, <2>4
<1>4. 0 \notin I
  BY <1>1
<1>5. stop = 0 => I = {}
  <2> HIDE DEF I
  <2>1. QED
    BY <1>2, <1>3, <1>4
<1>6. stop # 0 => stop \in I
  <2> HIDE DEF I
  <2>1. QED
    BY <1>2, <1>3
<1>7. I = {} => \A a \in Range(answers) : ~stops(a)
  BY <1>1 DEF Range
<1>8. stop \in I => stops(answers[stop])
  OBVIOUS
<1>9. QED
  BY <1>5, <1>6, <1>7, <1>8

\* The kinds that each format orders: V1 has no attribute groups.
LEMMA OrderListed ==
  ASSUME NEW format
  PROVE  /\ isList(groupsOf(format))
         /\ Range(groupsOf(format)) \subseteq Range(groupsOf("v2"))
         /\ \A k \in Range(groupsOf("v2")) :
              k \in Range(groupsOf(format)) \/ (format = "v1" /\ k = "attribute_group")
<1> DEFINE five == <<"attribute", "entity", "event", "metric", "span">>
           six == <<"attribute", "attribute_group", "entity", "event", "metric", "span">>
<1>1. groupsOf("v2") = six /\ (format = "v1" => groupsOf(format) = five) /\ (format # "v1" => groupsOf(format) = six)
  BY DEF groupsOf
<1>2. DOMAIN five = 1..5 /\ DOMAIN six = 1..6
  OBVIOUS
<1>3. Range(five) = {"attribute", "entity", "event", "metric", "span"}
  <2>1. Range(five) = {five[1], five[2], five[3], five[4], five[5]}
    <3>1. 1..5 = {1, 2, 3, 4, 5}
      OBVIOUS
    <3> HIDE DEF five
    <3>2. QED
      BY <1>2, <3>1, Zenon DEF Range
  <2>2. QED
    BY <2>1
<1>4. Range(six) = {"attribute", "attribute_group", "entity", "event", "metric", "span"}
  <2>1. Range(six) = {six[1], six[2], six[3], six[4], six[5], six[6]}
    <3>1. 1..6 = {1, 2, 3, 4, 5, 6}
      OBVIOUS
    <3> HIDE DEF six
    <3>2. QED
      BY <1>2, <3>1, Zenon DEF Range
  <2>2. QED
    BY <2>1
<1>5. five = [i \in 1..5 |-> five[i]] /\ six = [i \in 1..6 |-> six[i]]
  BY <1>2
<1> HIDE DEF five, six
<1>6. isList(five) /\ isList(six)
  BY <1>5, ListByIndex
<1>7. QED
  BY <1>1, <1>3, <1>4, <1>6

\* A parsed diff has a list of changes; when nothing stops the import, every item
\* has an answer and every change that was taken is in the list.
LEMMA DiffParsed ==
  ASSUME NEW d \in WeaverInputs, NEW P, P = ParseDiff(d.diff)
  PROVE  /\ isList(P.changes) /\ P.verdict \in {"ok", "unsupported", "error"}
         /\ P.verdict = "ok" =>
              \A k \in DOMAIN d.diff.groups : \A i \in DOMAIN d.diff.groups[k] :
                LET a == normalizeItem(k, d.diff.groups[k][i]) IN
                ~stops(a) /\ (a.verdict = "take" => a.change \in Range(P.changes))
<1> DEFINE format == d.diff.format
           groups == d.diff.groups
           order == groupsOf(format)
           answers == answersTo(order, groups)
           stop == SelectInSeq(answers, LAMBDA a : a.verdict \in {"unsupported", "error"})
           reads == /\ d.diff.decodes /\ d.diff.complete
                    /\ format \in {"v1", "v2"}
                    /\ format = "v1" => groups["attribute_group"] = << >>
<1>1. DOMAIN groups = Range(groupsOf("v2")) /\ \A k \in DOMAIN groups : isList(groups[k])
  BY DocumentsAssumption
<1>2. isList(order) /\ \A g \in DOMAIN order : isList(groups[order[g]])
  BY <1>1, OrderListed DEF Range
<1>3. /\ isList(answers)
      /\ \A g \in DOMAIN order : \A i \in DOMAIN groups[order[g]] :
           normalizeItem(order[g], groups[order[g]][i]) \in Range(answers)
  BY <1>2, AnswersListed
<1>4. /\ isList(takenFrom(answers))
      /\ \A a \in Range(answers) : a.verdict = "take" => a.change \in Range(takenFrom(answers))
  BY <1>3, TakenListed
<1>5. /\ stop = 0 => \A a \in Range(answers) : ~stops(a)
      /\ stop # 0 => stops(answers[stop])
  BY <1>3, FirstStop
<1>6. P = IF reads
          THEN IF stop # 0 THEN [verdict |-> answers[stop].verdict, changes |-> << >>]
                           ELSE [verdict |-> "ok", changes |-> takenFrom(answers)]
          ELSE [verdict |-> "error", changes |-> << >>]
  BY Zenon DEF ParseDiff, normalizeChanges, answersTo, takenFrom
<1>7. isList(<< >>)
  BY DEF isList, Range
<1> HIDE DEF answers, stop, order
<1>8. CASE ~reads
  <2>1. P = [verdict |-> "error", changes |-> << >>]
    BY <1>6, <1>8, Zenon
  <2>2. P.verdict = "error" /\ P.changes = << >>
    BY <2>1
  <2>3. QED
    BY <1>7, <2>2
<1>9. CASE reads /\ stop # 0
  <2>1. P = [verdict |-> answers[stop].verdict, changes |-> << >>]
    BY <1>6, <1>9, Zenon
  <2>2. P.verdict \in {"unsupported", "error"} /\ P.changes = << >>
    BY <1>5, <1>9, <2>1 DEF stops
  <2>3. QED
    BY <1>7, <2>2
<1>10. CASE reads /\ stop = 0
  <2>1. P = [verdict |-> "ok", changes |-> takenFrom(answers)]
    BY <1>6, <1>10, Zenon
  <2>2. P.changes = takenFrom(answers) /\ P.verdict = "ok"
    BY <2>1
  <2>3. ASSUME NEW k \in DOMAIN groups, NEW i \in DOMAIN groups[k]
        PROVE  normalizeItem(k, groups[k][i]) \in Range(answers)
    <3>1. k \in Range(order) \/ (format = "v1" /\ k = "attribute_group")
      BY <1>1, OrderListed DEF order
    <3>2. CASE format = "v1" /\ k = "attribute_group"
      <4>1. groups[k] = << >>
        BY <1>10, <3>2, Zenon
      <4>2. DOMAIN << >> = {}
        OBVIOUS
      <4>3. QED
        BY <4>1, <4>2, Zenon
    <3>3. CASE k \in Range(order)
      <4>1. PICK g \in DOMAIN order : order[g] = k
        BY <3>3 DEF Range
      <4>2. QED
        BY <1>3, <4>1
    <3>4. QED
      BY <3>1, <3>2, <3>3
  <2>4. QED
    BY <1>4, <1>5, <1>10, <2>2, <2>3
<1>11. QED
  BY <1>8, <1>9, <1>10

\* The change of an item, and its answer with a verdict.
changeOf(kind, item) ==
  [kind |-> kind, type |-> item.type,
   from |-> IF item.type = "renamed" THEN textOf(item.old_name) ELSE textOf(item.name),
   to |-> IF item.type = "renamed" THEN textOf(item.new_name) ELSE "",
   note |-> textOf(item.note)]
answerWith(kind, item, verdict) == [verdict |-> verdict, change |-> changeOf(kind, item)]

\* The text of a field that is there is the trimmed text of the document.
LEMMA TextTrimmed ==
  ASSUME NEW value, value # {}
  PROVE  \E n \in value : textOf(value) = Trim(n)
<1> DEFINE c == CHOOSE v \in value : TRUE
<1>1. c \in value
  OBVIOUS
<1>2. textOf(value) = Trim(c)
  BY Zenon DEF textOf
<1> HIDE DEF c
<1>3. QED
  BY <1>1, <1>2, Zenon

\* An item that is no addition and stops nothing is taken, and its change names it.
LEMMA ItemTaken ==
  ASSUME NEW k, NEW item, NEW a, a = normalizeItem(k, item), ~stops(a), item.type # "added"
  PROVE  /\ a.verdict = "take" /\ a.change.kind = k /\ a.change.type = item.type
         /\ \E n \in item.name \cup item.old_name : a.change.from = Trim(n)
         /\ item.type = "renamed" => \E n \in item.new_name : a.change.to = Trim(n)
<1> DEFINE A(v) == answerWith(k, item, v)
<1>1. a = CASE item.type = "added" -> A(IF requireFields(item.name) THEN "skip" ELSE "error")
            [] item.type = "renamed" ->
                 A(IF requireFields(item.old_name) /\ requireFields(item.new_name) /\ item.note # {}
                   THEN "take" ELSE "error")
            [] item.type = "removed" -> A(IF requireFields(item.name) THEN "take" ELSE "error")
            [] item.type \in {"obsoleted", "uncategorized"} ->
                 A(IF requireFields(item.name) /\ item.note # {} THEN "take" ELSE "error")
            [] item.type = "updated" -> A("unsupported")
            [] OTHER -> A("error")
  BY Zenon DEF normalizeItem, answerWith, changeOf
<1>2. \A v : A(v).verdict = v /\ A(v).change = changeOf(k, item)
  BY Zenon DEF answerWith
<1> HIDE DEF A
<1>3. \/ item.type = "renamed" /\ a = A("take") /\ requireFields(item.old_name) /\ requireFields(item.new_name)
      \/ item.type # "renamed" /\ a = A("take") /\ requireFields(item.name)
  BY <1>1, <1>2 DEF stops
<1>4. \A v : requireFields(v) => v # {}
  BY Zenon DEF requireFields
<1> DEFINE c == changeOf(k, item)
<1>5. /\ c.kind = k /\ c.type = item.type
      /\ item.type = "renamed" => c.from = textOf(item.old_name) /\ c.to = textOf(item.new_name)
      /\ item.type # "renamed" => c.from = textOf(item.name)
  BY Zenon DEF changeOf
<1> HIDE DEF c
<1>6. a.verdict = "take" /\ a.change = c
  BY <1>2, <1>3 DEF c
<1>7. CASE item.type = "renamed"
  <2>1. item.old_name # {} /\ item.new_name # {}
    BY <1>3, <1>4, <1>7
  <2>2. \E n \in item.old_name : c.from = Trim(n)
    BY <1>5, <1>7, <2>1, TextTrimmed
  <2>3. \E n \in item.new_name : c.to = Trim(n)
    BY <1>5, <1>7, <2>1, TextTrimmed
  <2>4. QED
    BY <1>5, <1>6, <2>2, <2>3
<1>8. CASE item.type # "renamed"
  <2>1. item.name # {}
    BY <1>3, <1>4, <1>8
  <2>2. \E n \in item.name : c.from = Trim(n)
    BY <1>5, <1>8, <2>1, TextTrimmed
  <2>3. QED
    BY <1>5, <1>6, <1>8, <2>2
<1>9. QED
  BY <1>7, <1>8

\* The mapped changes: one for each imported change that has one.
LEMMA MappedListed ==
  ASSUME NEW result, isList(result)
  PROVE  /\ isList(mappedChanges(result))
         /\ \A i \in DOMAIN result : result[i].change # {} =>
              \E c \in result[i].change : c \in Range(mappedChanges(result))
<1> DEFINE pick(i) == CHOOSE c \in result[i].change : TRUE
           one(i) == IF result[i].change = {} THEN << >> ELSE <<pick(i)>>
           ss == [i \in DOMAIN result |-> one(i)]
           n == Len(result)
<1>1. n \in Nat /\ DOMAIN result = 1..n
  BY ListIsFinite
<1>2. mappedChanges(result) = FlattenSeq(ss)
  BY Zenon DEF mappedChanges
<1>3. \A x : isList(<<x>>) /\ Range(<<x>>) = {x}
  BY DEF isList, Range
<1>4. isList(<< >>)
  BY DEF isList, Range
<1>5. \A i \in DOMAIN result : result[i].change # {} => pick(i) \in result[i].change
  OBVIOUS
<1> HIDE DEF pick
<1>6. \A i \in DOMAIN result : isList(one(i))
  BY <1>3, <1>4, Zenon
<1>7. \A i \in DOMAIN result : result[i].change # {} => pick(i) \in Range(one(i))
  BY <1>3, Zenon
<1> HIDE DEF one
<1>8. ss = [i \in 1..n |-> ss[i]] /\ \A i \in 1..n : ss[i] = one(i)
  BY <1>1
<1> HIDE DEF ss, n
<1>9. isList(FlattenSeq(ss)) /\ Range(FlattenSeq(ss)) = Members(ss, n)
  BY <1>1, <1>6, <1>8, FlattenMembers
<1>10. \A i \in 1..n : \A x \in Range(one(i)) : x \in Members(ss, n)
  BY <1>8, Zenon DEF Members
<1>11. QED
  BY <1>1, <1>2, <1>5, <1>7, <1>9, <1>10

\* An accepted mapping has the document's entries, trimmed, and one for a selector.
LEMMA MappingParsed ==
  ASSUME NEW doc, NEW m \in ParseMapping(doc)
  PROVE  /\ Range(m.entries) \subseteq {trimEntry(e) : e \in Range(doc.entries)}
         /\ \A x, y \in Range(m.entries) : x.weaver = y.weaver => x = y
         /\ \A o \in ParseMapping(doc) : o = m
<1> DEFINE value == [envelope |-> doc.envelope, name |-> Trim(doc.name),
                     entries |-> [i \in DOMAIN doc.entries |-> trimEntry(doc.entries[i])]]
           ok == doc.decodes /\ validateMapping(value)
<1>1. ParseMapping(doc) = only(ok, value)
  BY Zenon DEF ParseMapping
<1>2. m = value /\ ok /\ \A o \in ParseMapping(doc) : o = m
  <2> HIDE DEF ok, value
  <2>1. QED
    BY <1>1 DEF only
<1>3. m.entries = [i \in DOMAIN doc.entries |-> trimEntry(doc.entries[i])]
  BY <1>2, Zenon
<1>4. Range(m.entries) \subseteq {trimEntry(e) : e \in Range(doc.entries)}
  BY <1>3 DEF Range
<1>5. validateMapping(m)
  BY <1>2, Zenon
<1>6. \A i, j \in DOMAIN m.entries : m.entries[i].weaver = m.entries[j].weaver => i = j
  BY <1>5, Zenon DEF validateMapping
<1>7. \A x, y \in Range(m.entries) : x.weaver = y.weaver => x = y
  BY <1>6, Zenon DEF Range
<1>8. QED
  BY <1>2, <1>4, <1>7

\* What an imported change carries.
LEMMA ImportedFields ==
  ASSUME NEW m, NEW s
  PROVE  /\ imported(m, s).requiresMapping <=> entriesFor(m, s) = {}
         /\ imported(m, s).change = {canonicalChange(e, s) : e \in {e \in entriesFor(m, s) : e.ignore = ""}}
         /\ imported(m, s).source = s
BY Zenon DEF imported

\* A change keeps the identifier of its entry.
LEMMA CanonicalId ==
  ASSUME NEW e, NEW s
  PROVE  canonicalChange(e, s).id = e.id
BY Zenon DEF canonicalChange

\* A conversion imports every change, in order, and is the only one.
LEMMA Converted ==
  ASSUME NEW changes, isList(changes), NEW m, NEW x \in Convert(changes, m)
  PROVE  /\ isList(x) /\ DOMAIN x = DOMAIN changes
         /\ \A i \in DOMAIN changes : x[i] = imported(m, changes[i])
         /\ \A o \in Convert(changes, m) : o = x
<1> DEFINE value == [i \in DOMAIN changes |-> imported(m, changes[i])]
           ok == /\ \A i, j \in DOMAIN changes : selector(changes[i]) = selector(changes[j]) => i = j
                 /\ \A e \in Range(m.entries) : \E i \in DOMAIN changes : e.weaver = selector(changes[i])
<1>1. Convert(changes, m) = only(ok, value)
  BY Zenon DEF Convert
<1>2. x = value /\ \A o \in Convert(changes, m) : o = x
  <2> HIDE DEF ok, value
  <2>1. QED
    BY <1>1 DEF only
<1>3. DOMAIN x = DOMAIN changes /\ \A i \in DOMAIN changes : x[i] = imported(m, changes[i])
  BY <1>2
<1>4. Len(changes) \in Nat /\ DOMAIN changes = 1..Len(changes)
  BY ListIsFinite
<1>5. x = [i \in 1..Len(changes) |-> x[i]]
  BY <1>2, <1>4
<1>6. isList(x)
  BY <1>4, <1>5, ListByIndex
<1>7. QED
  BY <1>2, <1>3, <1>6

\* The result of the generic contract.
LEMMA ChangeSetResult ==
  ASSUME NEW name, NEW x, NEW r \in ChangeSet(name, x)
  PROVE  /\ r.changes = mappedChanges(x) /\ r.required = unmapped(x)
         /\ validateChanges(r.changes)
<1> DEFINE value == [changes |-> mappedChanges(x), required |-> unmapped(x)]
           ok == ValidateChangeSet(changeSetOf(name, mappedChanges(x)))
<1>1. r = value /\ ok
  <2>1. r \in only(ok, value)
    BY DEF ChangeSet
  <2> HIDE DEF ok, value
  <2>2. QED
    BY <2>1 DEF only
<1>2. validateChanges(mappedChanges(x))
  BY <1>1 DEF ValidateChangeSet, changeSetOf
<1>3. QED
  BY <1>1, <1>2

\* The result of the legacy contract.
LEMMA MigrationResult ==
  ASSUME NEW name, NEW x, NEW r \in Migration(name, x)
  PROVE  r.changes = mappedChanges(x) /\ unmapped(x) = {}
<1> DEFINE value == [envelope |-> "Migration", name |-> name, changes |-> mappedChanges(x)]
           ok == unmapped(x) = {} /\ value.changes # << >> /\ ValidateMigration(value)
<1>1. r = value /\ ok
  <2>1. r \in only(ok, value)
    BY Zenon DEF Migration
  <2> HIDE DEF ok, value
  <2>2. QED
    BY <2>1 DEF only
<1>2. QED
  BY <1>1

\* An entry that ignores its change, or whose change is among the changes.
settled(e, changes) == e.ignore # "" \/ \E c \in Range(changes) : c.id = e.id

\* An item that is neither an addition nor unmapped has an entry that ignores it
\* or a change with the entry's identifier.
LEMMA ItemAccounted ==
  ASSUME NEW doc, NEW m \in ParseMapping(doc), NEW changes, isList(changes), NEW x \in Convert(changes, m),
         unmapped(x) = {}, NEW s \in Range(changes)
  PROVE  \E e \in Range(m.entries) :
           e.weaver = selector(s) /\ settled(e, mappedChanges(x))
<1>1. PICK j \in DOMAIN changes : changes[j] = s
  BY DEF Range
<1>2. isList(x) /\ j \in DOMAIN x /\ x[j] = imported(m, s)
  BY <1>1, Converted
<1>3. ~x[j].requiresMapping
  BY <1>2, Zenon DEF unmapped, Range
<1>4. entriesFor(m, s) # {}
  <2>1. imported(m, s).requiresMapping <=> entriesFor(m, s) = {}
    BY Zenon DEF imported
  <2>2. QED
    BY <1>2, <1>3, <2>1, Zenon
<1>5. PICK e \in entriesFor(m, s) : TRUE
  BY <1>4
<1>6. \A f \in entriesFor(m, s) : f \in Range(m.entries) /\ f.weaver = selector(s)
  BY DEF entriesFor
<1>7. \A f \in entriesFor(m, s) : f = e
  BY <1>6, MappingParsed
<1>8. ASSUME e.ignore = "" PROVE \E c \in Range(mappedChanges(x)) : c.id = e.id
  <2>1. x[j].change = {canonicalChange(f, s) : f \in {f \in entriesFor(m, s) : f.ignore = ""}}
    BY <1>2, ImportedFields, Zenon
  <2>2. canonicalChange(e, s) \in x[j].change
    BY <1>5, <1>8, <2>1, Zenon
  <2>3. \A c \in x[j].change : c = canonicalChange(e, s)
    BY <1>7, <2>1, Zenon
  <2>4. \E c \in x[j].change : c \in Range(mappedChanges(x))
    BY <1>2, <2>2, MappedListed
  <2>5. canonicalChange(e, s).id = e.id
    BY CanonicalId
  <2>6. QED
    BY <2>3, <2>4, <2>5, Zenon
<1>9. settled(e, mappedChanges(x))
  BY <1>8, Zenon DEF settled
<1>10. e \in Range(m.entries) /\ e.weaver = selector(s)
  BY <1>6
<1>11. QED
  BY <1>9, <1>10, Zenon

\* What WeaverIsAccounted says of one pair of documents and one result.
pairAccounted(d, r) ==
  LET items == UNION {{<<k, d.diff.groups[k][i]>> : i \in DOMAIN d.diff.groups[k]} : k \in DOMAIN d.diff.groups}
      entries == {trimEntry(e) : e \in Range(d.mapping.entries)}
      resolves(e, item) == /\ e.weaver.kind = item[1] /\ e.weaver.type = item[2].type
                           /\ \E n \in item[2].name \cup item[2].old_name : e.weaver.from = Trim(n)
                           /\ item[2].type = "renamed" => \E n \in item[2].new_name : e.weaver.to = Trim(n)
  IN /\ r.required = {} =>
          \A item \in items : item[2].type # "added" =>
            \E e \in entries : resolves(e, item) /\
              (e.ignore # "" \/ \E c \in Range(r.changes) : c.id = e.id)
     /\ \A m \in DetectWeaverMigration(d.diff, d.mapping) : r.changes = m.changes /\ r.required = {}

\* The result of a Weaver pair is a valid list of changes that accounts for every
\* item, and the legacy contract means the same changes.
LEMMA PairAccounted ==
  ASSUME NEW d \in WeaverInputs, NEW r \in DetectWeaver(d.diff, d.mapping)
  PROVE  isList(r.changes) /\ validateChanges(r.changes) /\ pairAccounted(d, r)
<1> DEFINE P == ParseDiff(d.diff)
           groups == d.diff.groups
           results == UNION {UNION {ChangeSet(m.name, x) : x \in Convert(P.changes, m)} : m \in ParseMapping(d.mapping)}
           blocked == {[changes |-> << >>, required |-> {"unsupported"}] :
                         m \in {m \in ParseMapping(d.mapping) : ValidateChangeSet(changeSetOf(m.name, << >>))}}
           items == UNION {{<<k, groups[k][i]>> : i \in DOMAIN groups[k]} : k \in DOMAIN groups}
           entries == {trimEntry(e) : e \in Range(d.mapping.entries)}
           resolves(e, item) == /\ e.weaver.kind = item[1] /\ e.weaver.type = item[2].type
                                /\ \E n \in item[2].name \cup item[2].old_name : e.weaver.from = Trim(n)
                                /\ item[2].type = "renamed" => \E n \in item[2].new_name : e.weaver.to = Trim(n)
<1>1. /\ isList(P.changes) /\ P.verdict \in {"ok", "unsupported", "error"}
      /\ P.verdict = "ok" =>
           \A k \in DOMAIN groups : \A i \in DOMAIN groups[k] :
             LET a == normalizeItem(k, groups[k][i]) IN
             ~stops(a) /\ (a.verdict = "take" => a.change \in Range(P.changes))
  BY DiffParsed
<1>2. DetectWeaver(d.diff, d.mapping) =
        CASE P.verdict = "error" -> {} [] P.verdict = "unsupported" -> blocked [] OTHER -> results
  BY Zenon DEF DetectWeaver
<1>3. DetectWeaverMigration(d.diff, d.mapping) =
        IF P.verdict # "ok" THEN {}
        ELSE UNION {UNION {Migration(m.name, x) : x \in Convert(P.changes, m)} : m \in ParseMapping(d.mapping)}
  BY Zenon DEF DetectWeaverMigration
<1> HIDE DEF P, results, blocked
<1>4. \/ P.verdict = "unsupported" /\ r \in blocked
      \/ P.verdict = "ok" /\ r \in results
  BY <1>1, <1>2
<1>5. CASE P.verdict = "unsupported" /\ r \in blocked
  <2>1. r.changes = << >> /\ r.required = {"unsupported"}
    BY <1>5 DEF blocked
  <2>2. isList(<< >>) /\ validateChanges(<< >>)
    BY DEF isList, Range, validateChanges
  <2>3. DetectWeaverMigration(d.diff, d.mapping) = {}
    BY <1>3, <1>5, Zenon
  <2>4. r.required # {}
    BY <2>1
  <2>5. pairAccounted(d, r)
    BY <2>3, <2>4, Zenon DEF pairAccounted
  <2>6. QED
    BY <2>1, <2>2, <2>5
<1>6. CASE P.verdict = "ok" /\ r \in results
  <2>1. PICK m \in ParseMapping(d.mapping) : \E x \in Convert(P.changes, m) : r \in ChangeSet(m.name, x)
    BY <1>6 DEF results
  <2>2. PICK x \in Convert(P.changes, m) : r \in ChangeSet(m.name, x)
    BY <2>1
  <2>3. r.changes = mappedChanges(x) /\ r.required = unmapped(x) /\ validateChanges(r.changes)
    BY <2>2, ChangeSetResult
  <2>4. isList(x)
    BY <1>1, Converted
  <2>5. isList(r.changes)
    BY <2>3, <2>4, MappedListed
  <2>6. ASSUME r.required = {}, NEW item \in items, item[2].type # "added"
        PROVE  \E e \in entries : resolves(e, item) /\
                 (e.ignore # "" \/ \E c \in Range(r.changes) : c.id = e.id)
    <3>0. PICK k \in DOMAIN groups : \E i \in DOMAIN groups[k] : item = <<k, groups[k][i]>>
      BY <2>6
    <3>1. PICK i \in DOMAIN groups[k] : item = <<k, groups[k][i]>>
      BY <3>0
    <3> DEFINE it == groups[k][i]
               a == normalizeItem(k, it)
    <3>2. item[1] = k /\ item[2] = it
      BY <3>1
    <3> HIDE DEF it
    <3>3. ~stops(a) /\ (a.verdict = "take" => a.change \in Range(P.changes))
      BY <1>1, <1>6 DEF it
    <3>4. /\ a.verdict = "take" /\ a.change.kind = k /\ a.change.type = it.type
          /\ \E n \in it.name \cup it.old_name : a.change.from = Trim(n)
          /\ it.type = "renamed" => \E n \in it.new_name : a.change.to = Trim(n)
      BY <2>6, <3>2, <3>3, ItemTaken
    <3> HIDE DEF a
    <3> DEFINE s == a.change
    <3>5. s \in Range(P.changes) /\ unmapped(x) = {}
      BY <2>3, <2>6, <3>3, <3>4
    <3> HIDE DEF s
    <3>6. PICK e \in Range(m.entries) : e.weaver = selector(s) /\ settled(e, mappedChanges(x))
      BY <1>1, <3>5, ItemAccounted
    <3>7. selector(s).kind = s.kind /\ selector(s).type = s.type /\ selector(s).from = s.from /\ selector(s).to = s.to
      BY DEF selector
    <3>8. e \in entries
      BY MappingParsed
    <3>9. resolves(e, item)
      BY <3>2, <3>4, <3>6, <3>7, Zenon DEF s
    <3> HIDE DEF resolves, entries
    <3>10. QED
      BY <2>3, <3>6, <3>8, <3>9, Zenon DEF settled
  <2>7. ASSUME NEW g \in DetectWeaverMigration(d.diff, d.mapping)
        PROVE  r.changes = g.changes /\ r.required = {}
    <3>1. PICK o \in ParseMapping(d.mapping) : \E y \in Convert(P.changes, o) : g \in Migration(o.name, y)
      BY <1>3, <1>6
    <3>2. o = m
      BY MappingParsed
    <3>3. PICK y \in Convert(P.changes, m) : g \in Migration(m.name, y)
      BY <3>1, <3>2, Zenon
    <3>4. y = x
      BY <1>1, Converted
    <3>5. g.changes = mappedChanges(x) /\ unmapped(x) = {}
      BY <3>3, <3>4, MigrationResult
    <3>6. QED
      BY <2>3, <3>5
  <2>8. pairAccounted(d, r)
    BY <2>6, <2>7, Zenon DEF pairAccounted
  <2>9. QED
    BY <2>3, <2>5, <2>8
<1>7. QED
  BY <1>4, <1>5, <1>6

(***************************************************************************)
(* The detection.                                                          *)
(***************************************************************************)

\* The result of diff on two files: valid changes that report what was lost.
LEMMA FilesCompared ==
  ASSUME NEW b, NEW c, listed(b.snapshot), listed(c.snapshot), NEW r \in CompareFiles(b, c)
  PROVE  r \in Compare(b.snapshot, c.snapshot, "snapshots")
BY DEF CompareFiles, Parse, only

\* A document that was accepted gives its own valid list of changes.
LEMMA ExplicitResult ==
  ASSUME NEW doc, isList(doc.changes), NEW r \in DetectExplicit(doc)
  PROVE  r = silently(doc.changes) /\ isList(r.changes) /\ validateChanges(r.changes)
<1>1. PICK cs \in ParseChangeSet(doc) : r = [changes |-> cs.changes, required |-> {}]
  BY DEF DetectExplicit
<1>2. ValidateChangeSet(doc) /\ cs = changeSetOf(doc.name, doc.changes)
  BY DEF ParseChangeSet, only
<1>3. cs.changes = doc.changes /\ validateChanges(doc.changes)
  BY <1>2 DEF changeSetOf, ValidateChangeSet
<1>4. QED
  BY <1>1, <1>3 DEF silently

\* A migration that was accepted gives a valid list of changes.
LEMMA MigrationDetected ==
  ASSUME NEW doc, isList(doc.changes), NEW r \in DetectMigration(doc)
  PROVE  isList(r.changes) /\ validateChanges(r.changes)
<1> DEFINE changes == [i \in DOMAIN doc.changes |-> migrationChange(doc.changes[i])]
           value == [envelope |-> doc.envelope, name |-> doc.name, changes |-> changes]
           ok == /\ doc.decodes
                 /\ ValidateMigration(value)
                 /\ \A i \in DOMAIN doc.changes : validateDocumentShape(doc.changes[i])
<1>1. ParseMigration(doc) = only(ok, value)
  BY Zenon DEF ParseMigration
<1>2. PICK m \in ParseMigration(doc) : \E cs \in NormalizeMigration(m) : r = [changes |-> cs.changes, required |-> {}]
  <2>1. PICK cs \in UNION {NormalizeMigration(m) : m \in ParseMigration(doc)} :
          r = [changes |-> cs.changes, required |-> {}]
    BY DEF DetectMigration
  <2>2. QED
    BY <2>1
<1>2a. PICK cs \in NormalizeMigration(m) : r = [changes |-> cs.changes, required |-> {}]
  BY <1>2
<1>3. m = value
  <2> HIDE DEF ok, value
  <2>1. QED
    BY <1>1 DEF only
<1>4. cs = changeSetOf(m.name, m.changes) /\ ValidateChangeSet(cs)
  BY DEF NormalizeMigration, only
<1>5. r.changes = changes /\ validateChanges(changes)
  <2> HIDE DEF changes
  <2>1. m.changes = changes
    BY <1>3
  <2>2. QED
    BY <1>2a, <1>4, <2>1 DEF changeSetOf, ValidateChangeSet
<1>6. Len(doc.changes) \in Nat /\ DOMAIN doc.changes = 1..Len(doc.changes)
  BY ListIsFinite
<1>7. changes = [i \in 1..Len(doc.changes) |-> changes[i]]
  BY <1>6
<1> HIDE DEF changes
<1>8. isList(changes)
  BY <1>6, <1>7, ListByIndex
<1>9. QED
  BY <1>5, <1>8

\* The result of diff on the two files that there are.
LEMMA DiffReports ==
  ASSUME CaptureInv, NEW b \in files["baseline"], NEW c \in files["candidate"],
         NEW r \in CompareFiles(b, c), NEW code, r.required # {} => code = 3
  PROVE  /\ isList(r.changes) /\ validateChanges(r.changes)
         /\ lossOf(files, history, edited, code, r)
<1>1. "baseline" \in Sides /\ "candidate" \in Sides
  BY DEF Sides
<1>2. /\ listed(b.snapshot) /\ listed(c.snapshot)
      /\ \A x \in files["baseline"] : x = b
      /\ \A x \in files["candidate"] : x = c
  BY <1>1 DEF CaptureInv
<1>3. edited = {} => /\ namesSteady(b.snapshot, history["baseline"])
                     /\ namesSteady(c.snapshot, history["candidate"])
                     /\ namesEver(c.snapshot, history["candidate"])
  BY <1>1 DEF CaptureInv
<1>4. r \in Compare(b.snapshot, c.snapshot, "snapshots")
  BY <1>2, FilesCompared
<1>5. isList(r.changes) /\ validateChanges(r.changes)
  BY <1>2, <1>4, Compared
<1>6. fileLossIsReported(b, c, r)
  BY <1>2, <1>4, FileLoss
<1>7. edited = {} => goneIsReported(history["baseline"].steady, history["candidate"], r)
  BY <1>2, <1>3, <1>4, GoneReported
<1>8. edited = {} => driftIsReported(history["baseline"].steady, history["candidate"], r, code)
  BY <1>2, <1>3, <1>4, DriftHasDiagnostic
<1>9. QED
  BY <1>2, <1>5, <1>6, <1>7, <1>8 DEF lossOf

\* A result with the same changes and as many diagnostics reports the same losses.
LEMMA SameLoss ==
  ASSUME NEW fs, NEW hs, NEW hand, NEW code, NEW r, NEW s,
         r.changes = s.changes, r.required = s.required, lossOf(fs, hs, hand, code, r)
  PROVE  lossOf(fs, hs, hand, code, s)
<1>1. \A b, c : fileLossIsReported(b, c, r) => fileLossIsReported(b, c, s)
  BY Zenon DEF fileLossIsReported
<1>2. \A o, n : goneIsReported(o, n, r) => goneIsReported(o, n, s)
  BY Zenon DEF goneIsReported
<1>3. \A o, n : driftIsReported(o, n, r, code) => driftIsReported(o, n, s, code)
  BY Zenon DEF driftIsReported
<1>4. QED
  BY <1>1, <1>2, <1>3 DEF lossOf

\* Nothing is detected at first, and a document is a list.
LEMMA DetectInit == Init => DetectInv /\ WeaverInv
<1> SUFFICES ASSUME Init PROVE DetectInv /\ WeaverInv
  OBVIOUS
<1>1. detected = {} /\ exported = {} /\ files["baseline"] = {}
  BY DEF Init, Sides
<1>2. \/ source = "snapshots" /\ pc = "idle"
      \/ source = "weaver" /\ pc = "detect" /\ \E d \in WeaverInputs : input = {d}
      \/ source = "changes" /\ pc = "detect" /\ \E d \in ChangeFiles : input = {d}
      \/ source = "migration" /\ pc = "detect" /\ \E d \in MigrationFiles : input = {d}
  BY DEF Init
<1>3. \A x \in ChangeFiles \cup MigrationFiles : isList(x.changes)
  BY DocumentsAssumption
<1>4. DetectInv
  BY <1>1, <1>2, <1>3 DEF DetectInv
<1>5. WeaverInv
  BY <1>2 DEF WeaverInv
<1>6. QED
  BY <1>4, <1>5

\* Without a baseline file there is nothing to lose.
LEMMA NothingToLose ==
  ASSUME NEW fs, NEW hs, NEW hand, NEW code, NEW r, fs["baseline"] = {}
  PROVE  lossOf(fs, hs, hand, code, r)
BY DEF lossOf

\* Every step of a capture or between the captures leaves the detection alone.
LEMMA CaptureDetectsNothing ==
  ASSUME DetectInv, pc \notin {"done", "detect"}, pc' # "detect",
         UNCHANGED <<source, detected, exported>>
  PROVE  DetectInv' /\ WeaverInv'
<1>1. detected' = {} /\ exported' = {} /\ source' = "snapshots"
  BY DEF DetectInv
<1>2. DetectInv'
  BY <1>1 DEF DetectInv
<1>3. WeaverInv'
  BY <1>1 DEF WeaverInv
<1>4. QED
  BY <1>2, <1>3

\* What diff returns and what it exports report the losses.
LEMMA DiffStep == CaptureInv /\ DetectInv /\ DiffSnapshots => DetectInv' /\ WeaverInv'
<1> SUFFICES ASSUME CaptureInv, DetectInv, DiffSnapshots PROVE DetectInv' /\ WeaverInv'
  OBVIOUS
<1>1. /\ pc = "compare" /\ pc' = "done" /\ source = "snapshots" /\ source' = "snapshots"
      /\ exported = {} /\ files' = files /\ history' = history /\ edited' = edited
  BY DEF DiffSnapshots, Finish, DetectInv, serverVars
<1>2. PICK b \in files["baseline"], c \in files["candidate"], fits \in BOOLEAN, writable \in BOOLEAN :
        /\ exported' = IF CompareFiles(b, c) = {} \/ ~writable THEN exported
                       ELSE {MarshalChangeSet(changeSetOf("snapshots", r.changes), fits) : r \in CompareFiles(b, c)}
        /\ Finish(IF writable THEN CompareFiles(b, c) ELSE {},
                  IF \E r \in CompareFiles(b, c) : r.required # {} THEN 3 ELSE 0)
  BY Zenon DEF DiffSnapshots
<1> DEFINE found == CompareFiles(b, c)
<1> HIDE DEF found
<1>3. /\ detected' = IF writable THEN found ELSE {}
      /\ detected' # {} => exit' = IF \E r \in found : r.required # {} THEN 3 ELSE 0
      /\ detected' = {} => exit' = 1
  BY <1>2 DEF Finish, found
<1>4. \A r \in detected' : r \in found /\ (r.required # {} => exit' = 3)
  BY <1>3
<1>5. \A r \in detected' : /\ isList(r.changes) /\ validateChanges(r.changes)
                            /\ lossOf(files, history, edited, exit', r)
  <2> SUFFICES ASSUME NEW r \in detected'
               PROVE  /\ isList(r.changes) /\ validateChanges(r.changes)
                      /\ lossOf(files, history, edited, exit', r)
    OBVIOUS
  <2>1. r \in CompareFiles(b, c) /\ (r.required # {} => exit' = 3)
    BY <1>4 DEF found
  <2>2. QED
    BY <2>1, DiffReports
<1>6. ASSUME NEW x \in exported'
      PROVE  \E r \in detected' : x.changes = r.changes /\ (exit' = 0 => r.required = {})
  <2>1. found # {} /\ writable
    BY <1>1, <1>2 DEF found
  <2>2. detected' = found
    BY <1>3, <2>1
  <2>3. PICK r \in found : x = MarshalChangeSet(changeSetOf("snapshots", r.changes), fits)
    BY <1>2, <2>1 DEF found
  <2>4. x.changes = r.changes
    BY <2>3 DEF MarshalChangeSet, changeSetOf
  <2>5. exit' = 0 => r.required = {}
    BY <1>4, <2>2
  <2>6. QED
    BY <2>2, <2>4, <2>5
<1>7. \A x \in exported' : isList(x.changes)
  BY <1>5, <1>6
<1>8. ASSUME exit' = 0, NEW x \in exported'
      PROVE  lossOf(files, history, edited, exit', silently(x.changes))
  <2>1. PICK r \in detected' : x.changes = r.changes /\ r.required = {}
    BY <1>6, <1>8
  <2>2. r.changes = silently(x.changes).changes /\ r.required = silently(x.changes).required
    BY <2>1 DEF silently
  <2>3. lossOf(files, history, edited, exit', r)
    BY <1>5
  <2>4. QED
    BY <2>2, <2>3, SameLoss
<1>9. DetectInv'
  BY <1>1, <1>5, <1>7, <1>8 DEF DetectInv, lossIn
<1>10. WeaverInv'
  BY <1>1 DEF WeaverInv
<1>11. QED
  BY <1>9, <1>10

\* What the document sources return is valid, and what check reads from a
\* changes file that diff wrote reports the losses that diff reported.
LEMMA SourceStep == DetectInv /\ WeaverInv /\ Detect => DetectInv' /\ WeaverInv'
<1> SUFFICES ASSUME DetectInv, WeaverInv, Detect PROVE DetectInv' /\ WeaverInv'
  OBVIOUS
<1>1. /\ pc = "detect" /\ pc' = "done" /\ source \in {"weaver", "changes", "migration"}
      /\ UNCHANGED <<source, input, exported, files, history, edited>>
  BY DEF Detect, Finish, DetectInv, serverVars, fileVars
<1>2. PICK d \in input :
        Finish(CASE source = "weaver" -> DetectWeaver(d.diff, d.mapping)
                 [] source = "changes" -> DetectExplicit(d)
                 [] source = "migration" -> DetectMigration(d), 0)
  BY Zenon DEF Detect
<1>3. /\ source = "weaver" => detected' = DetectWeaver(d.diff, d.mapping)
      /\ source = "changes" => detected' = DetectExplicit(d)
      /\ source = "migration" => detected' = DetectMigration(d)
      /\ exit' = IF detected' = {} THEN 1 ELSE 0
  BY <1>1, <1>2 DEF Finish
<1>4. \A r \in detected' : isList(r.changes) /\ validateChanges(r.changes)
  <2> SUFFICES ASSUME NEW r \in detected' PROVE isList(r.changes) /\ validateChanges(r.changes)
    OBVIOUS
  <2>1. CASE source = "weaver"
    <3>1. d \in WeaverInputs /\ r \in DetectWeaver(d.diff, d.mapping)
      BY <1>3, <2>1 DEF WeaverInv
    <3>2. QED
      BY <3>1, PairAccounted
  <2>2. CASE source = "changes"
    <3>1. isList(d.changes) /\ r \in DetectExplicit(d)
      BY <1>3, <2>2 DEF DetectInv
    <3>2. QED
      BY <3>1, ExplicitResult
  <2>3. CASE source = "migration"
    <3>1. isList(d.changes) /\ r \in DetectMigration(d)
      BY <1>3, <2>3 DEF DetectInv
    <3>2. QED
      BY <3>1, MigrationDetected
  <2>4. QED
    BY <1>1, <2>1, <2>2, <2>3
<1>5. CASE files["baseline"] = {}
  <2>1. \A code, r : lossOf(files, history, edited, code, r)
    BY <1>5, NothingToLose
  <2>2. QED
    BY <1>1, <1>3, <1>4, <2>1, Zenon DEF DetectInv, lossIn, WeaverInv
<1>6. CASE files["baseline"] # {}
  <2>1. source = "changes" /\ exit = 0 /\ \A x \in input : lossOf(files, history, edited, 0, silently(x.changes))
    BY <1>1, <1>6 DEF DetectInv, lossIn
  <2>2. \A r \in detected' : exit' = 0 /\ lossOf(files, history, edited, 0, r)
    <3> SUFFICES ASSUME NEW r \in detected' PROVE exit' = 0 /\ lossOf(files, history, edited, 0, r)
      OBVIOUS
    <3>1. isList(d.changes) /\ r \in DetectExplicit(d)
      BY <1>3, <2>1 DEF DetectInv
    <3>2. r = silently(d.changes)
      BY <3>1, ExplicitResult
    <3>3. QED
      BY <1>3, <2>1, <3>2
  <2>3. \A x \in exported : lossOf(files, history, edited, 0, silently(x.changes))
    BY <1>1, <2>1 DEF DetectInv, lossIn
  <2>4. DetectInv'
    BY <1>1, <1>4, <2>1, <2>2, <2>3 DEF DetectInv, lossIn
  <2>5. WeaverInv'
    BY <1>1, <2>1 DEF WeaverInv
  <2>6. QED
    BY <2>4, <2>5
<1>7. QED
  BY <1>5, <1>6

\* Every step keeps the invariants of the detection.
LEMMA DetectStep == CaptureInv /\ DetectInv /\ WeaverInv /\ [Next]_vars => DetectInv' /\ WeaverInv'
<1> SUFFICES ASSUME CaptureInv, DetectInv, WeaverInv, [Next]_vars PROVE DetectInv' /\ WeaverInv'
  OBVIOUS
<1>1. CASE ServerChanges \/ Deploy \/ EditFile
  BY <1>1, CaptureDetectsNothing, Zenon DEF ServerChanges, Deploy, EditFile, capturing
<1>2. CASE StartCapture \/ CaptureFails
  BY <1>2, CaptureDetectsNothing, Zenon DEF StartCapture, CaptureFails, capturing
<1>3. CASE RequestMetadata \/ RequestSeries \/ BuildSnapshot
  <2>1. pc \in {"metadata", "series", "build"} /\ pc' # "detect" /\ UNCHANGED <<source, detected, exported>>
    BY <1>3 DEF RequestMetadata, RequestSeries, BuildSnapshot, fileVars
  <2>2. QED
    BY <2>1, CaptureDetectsNothing
<1>4. CASE DiffSnapshots
  BY <1>4, DiffStep
<1>5. CASE Detect
  BY <1>5, SourceStep
<1>6. CASE UseExported
  <2>1. /\ pc = "done" /\ pc' = "detect" /\ exit = 0 /\ source' = "changes" /\ input' = exported
        /\ UNCHANGED <<exported, detected, exit, files, history, edited>>
    BY <1>6 DEF UseExported, fileVars, serverVars
  <2>2. \A x \in exported : isList(x.changes) /\ lossOf(files, history, edited, exit, silently(x.changes))
    BY <2>1 DEF DetectInv, lossIn
  <2>3. DetectInv'
    BY <2>1, <2>2 DEF DetectInv, lossIn
  <2>4. WeaverInv'
    BY <2>1 DEF WeaverInv
  <2>5. QED
    BY <2>3, <2>4
<1>7. CASE Stop \/ UNCHANGED vars
  <2>1. UNCHANGED <<pc, source, input, detected, exported, exit, files, history, edited>>
    BY <1>7 DEF Stop, vars
  <2>2. QED
    BY <2>1 DEF DetectInv, WeaverInv, lossIn
<1>8. QED
  BY <1>1, <1>2, <1>3, <1>4, <1>5, <1>6, <1>7 DEF Next

\* Whatever the source, the result of a detection is a valid list of changes; it
\* reports what was lost between the snapshots, and so does the file that a
\* successful diff leaves for check.  A Weaver pair's result is its own.
THEOREM DetectInvariant == Spec => [](DetectInv /\ WeaverInv)
BY DetectInit, DetectStep, CaptureInvariant, PTL DEF Spec

\* What the server exposed during the whole baseline capture and at no moment
\* of the candidate's, what a snapshot file names and the other does not, and
\* every changed type or unit is reported by diff, and what went is also in the
\* changes file that check may read after exit code 0.
THEOREM LostTelemetryIsReported == Spec => []LossIsReported
<1>1. DetectInv => LossIsReported
  <2> SUFFICES ASSUME DetectInv, pc = "done",
                      NEW b \in files["baseline"], NEW c \in files["candidate"], NEW r \in detected
               PROVE  /\ fileLossIsReported(b, c, r)
                      /\ edited = {} => serverLossIsReported(history["baseline"].steady, history["candidate"], r)
    BY Zenon DEF LossIsReported
  <2>1. lossOf(files, history, edited, exit, r)
    BY DEF DetectInv, lossIn
  <2>2. /\ fileLossIsReported(b, c, r)
        /\ edited = {} => /\ goneIsReported(history["baseline"].steady, history["candidate"], r)
                          /\ driftIsReported(history["baseline"].steady, history["candidate"], r, exit)
    BY <2>1 DEF lossOf
  <2>3. ASSUME NEW old, NEW new, goneIsReported(old, new, r), driftIsReported(old, new, r, exit)
        PROVE  serverLossIsReported(old, new, r)
    BY <2>3, Zenon DEF serverLossIsReported, goneIsReported, driftIsReported
  <2>4. QED
    BY <2>2, <2>3
<1>2. QED
  BY <1>1, DetectInvariant, PTL

\* No item of a Weaver diff is dropped on the way to the changes (Weaver.Detect,
\* ParseDiff, Convert), and where the legacy Migration contract accepts the same
\* files it means the same changes.
THEOREM WeaverDiffIsAccounted == Spec => []WeaverIsAccounted
<1>1. WeaverInv => WeaverIsAccounted
  <2>1. ASSUME WeaverInv, pc = "done", source = "weaver", NEW r \in detected, NEW d \in input
        PROVE  pairAccounted(d, r)
    <3>1. d \in WeaverInputs /\ r \in DetectWeaver(d.diff, d.mapping)
      BY <2>1 DEF WeaverInv
    <3>2. QED
      BY <3>1, PairAccounted
  <2>2. QED
    BY <2>1, Zenon DEF WeaverIsAccounted, pairAccounted
<1>2. QED
  BY <1>1, DetectInvariant, PTL

\* A kind of change is about one kind of symbol, with or without a destination.
LEMMA ValidChangeIsWellFormed ==
  ASSUME NEW c, validChange(c)
  PROVE  /\ domainSupportsKind(c.domain, c.from.kind)
         /\ c.from.kind = "label" => ~isBlank(c.from.parent)
         /\ \A to \in c.to : to # c.from /\ to.kind = c.from.kind /\ to.parent = c.from.parent
         /\ c.kind \in RenameKinds <=> c.to # {}
<1> DEFINE k == expectedSymbolKind(c.kind)
<1>1. /\ domainSupportsKind(c.domain, k)
      /\ validateSymbol(c.from, c.domain, k)
      /\ k = "label" => ~isBlank(c.from.parent)
      /\ IF isRename(c.kind)
         THEN /\ c.to # {}
              /\ \A to \in c.to :
                   /\ validateSymbol(to, c.domain, k)
                   /\ c.from.name # to.name
                   /\ k = "label" => c.from.parent = to.parent
         ELSE c.to = {}
  BY Zenon DEF validChange
<1> HIDE DEF k
<1>2. c.from.kind = k
  BY <1>1, Zenon DEF validateSymbol
<1>3. c.kind \in RenameKinds <=> c.to # {}
  BY <1>1, Zenon DEF isRename
<1>4. ASSUME NEW to \in c.to
      PROVE  to # c.from /\ to.kind = k /\ to.parent = c.from.parent
  <2>1. validateSymbol(to, c.domain, k) /\ c.from.name # to.name /\ (k = "label" => c.from.parent = to.parent)
    BY <1>1, Zenon
  <2>2. CASE k = "label"
    BY <2>1, <2>2, Zenon DEF validateSymbol
  <2>3. CASE k # "label"
    BY <1>1, <2>1, <2>3, Zenon DEF validateSymbol
  <2>4. QED
    BY <2>2, <2>3
<1>5. QED
  BY <1>1, <1>2, <1>3, <1>4, Zenon

\* A list of changes has as many identifiers as changes when none is repeated.
LEMMA IdentifiersCounted ==
  ASSUME NEW changes, isList(changes), validateChanges(changes)
  PROVE  Cardinality({c.id : c \in Range(changes)}) = Len(changes)
<1> DEFINE ids == [i \in DOMAIN changes |-> changes[i].id]
<1>1. Len(changes) \in Nat /\ DOMAIN changes = 1..Len(changes)
  BY ListIsFinite
<1>2. ids = [i \in 1..Len(changes) |-> ids[i]]
  BY <1>1
<1>3. \A i, j \in DOMAIN ids : ids[i] = ids[j] => i = j
  BY Zenon DEF validateChanges
<1>4. Range(ids) = {c.id : c \in Range(changes)}
  BY DEF Range
<1> HIDE DEF ids
<1>5. isList(ids) /\ Len(ids) = Len(changes)
  BY <1>1, <1>2, ListByIndex
<1>6. noDuplicates(ids)
  BY <1>3 DEF noDuplicates
<1>7. QED
  BY <1>4, <1>5, <1>6, NoDuplicatesCardinality

\* Whatever the source (Detect of each change source, diff, NormalizeMigration),
\* the analysis gets changes with distinct identifiers, symbols of the change's
\* own domain and kind, and a destination exactly for a rename.
THEOREM DetectedChangesAreWellFormed == Spec => []DetectedIsWellFormed
<1>1. DetectInv => DetectedIsWellFormed
  <2> SUFFICES ASSUME DetectInv, NEW r \in detected
               PROVE  /\ \A c \in Range(r.changes) :
                           /\ domainSupportsKind(c.domain, c.from.kind)
                           /\ c.from.kind = "label" => ~isBlank(c.from.parent)
                           /\ \A to \in c.to : to # c.from /\ to.kind = c.from.kind /\ to.parent = c.from.parent
                           /\ c.kind \in RenameKinds <=> c.to # {}
                      /\ Cardinality({c.id : c \in Range(r.changes)}) = Len(r.changes)
    BY Zenon DEF DetectedIsWellFormed
  <2>1. isList(r.changes) /\ validateChanges(r.changes)
    BY DEF DetectInv
  <2>2. \A c \in Range(r.changes) : validChange(c)
    BY <2>1 DEF validateChanges, Range
  <2>3. QED
    BY <2>1, <2>2, ValidChangeIsWellFormed, IdentifiersCounted, Zenon
<1>2. QED
  BY <1>1, DetectInvariant, PTL
=============================================================================
