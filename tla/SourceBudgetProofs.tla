------------------------- MODULE SourceBudgetProofs -------------------------
(***************************************************************************)
(* The budget's guarantees for any repository, any limits and any number   *)
(* of changes made while the budget looks.  The limits follow from the     *)
(* guards of one step; that the running total is the sum of the charges,   *)
(* and that what is open adds up to no more, takes an induction over the   *)
(* finite sets that are summed.                                            *)
(***************************************************************************)
EXTENDS SourceBudget, FiniteSetTheorems, WellFoundedInduction, TLAPS

\* A charge keeps the types of the account.
LEMMA ChargeType ==
  ASSUME TypeOK, NEW identity \in Path, NEW n \in Size, Charge(identity, n)
  PROVE  /\ DOMAIN files' = DOMAIN files \union {identity}
         /\ DOMAIN files' \in SUBSET Path
         /\ files' \in [DOMAIN files' -> Size]
         /\ totalBytes' = totalBytes + n
         /\ totalBytes' \in Nat
BY BudgetAssumption DEF TypeOK, Charge

\* The types hold before the first call.
LEMMA InitTypes == Init => TypeOK
<1> SUFFICES ASSUME Init PROVE TypeOK
  OBVIOUS
<1>1. everAt \in [Path -> SUBSET Inode]
  BY DEF Init
<1>2. DOMAIN files = {} /\ files \in [DOMAIN files -> Size]
  BY DEF Init
<1>3. QED
  BY <1>1, <1>2 DEF Init, TypeOK

\* The types of the budget's variables are invariant.
THEOREM BudgetTypeCorrect == Spec => []TypeOK
<1>1. Init => TypeOK
  BY InitTypes
<1>2. TypeOK /\ [Next]_vars => TypeOK'
  <2> SUFFICES ASSUME TypeOK, [Next]_vars PROVE TypeOK'
    OBVIOUS
  <2> USE BudgetAssumption
  <2>1. CASE CallRegister
    BY <2>1 DEF TypeOK, CallRegister, Call
  <2>2. CASE CallOpen
    BY <2>2 DEF TypeOK, CallOpen, Call
  <2>3. CASE RegisterLstat
    BY <2>3 DEF TypeOK, RegisterLstat, Return, IsFile, NoInfo
  <2>4. CASE RegisterAccount
    <3>1. /\ DOMAIN files' \in SUBSET Path
          /\ files' \in [DOMAIN files' -> Size]
          /\ totalBytes' \in Nat
      <4>1. CASE UNCHANGED <<files, totalBytes>>
        BY <4>1 DEF TypeOK
      <4>2. CASE Contained(Resolve(path)) /\ Charge(Resolve(path), info.size)
        <5>1. Resolve(path) \in Path /\ info.size \in Size
          BY <2>4, <4>2 DEF TypeOK, Contained, RegisterAccount
        <5>2. QED
          BY <4>2, <5>1, ChargeType
      <4>3. QED
        BY <2>4, <4>1, <4>2 DEF RegisterAccount
    <3>2. QED
      BY <2>4, <3>1 DEF TypeOK, RegisterAccount, Return
  <2>5. CASE OpenLstat
    BY <2>5 DEF TypeOK, OpenLstat, Return, IsFile, NoInfo
  <2>6. CASE OpenFile
    BY <2>6 DEF TypeOK, OpenFile, Return, FileAt, IsFile
  <2>7. CASE OpenStat
    BY <2>7 DEF TypeOK, OpenStat, Return
  <2>8. ASSUME NEW p \in Path, NEW e \in Inode \union Path \union Outside \union {Absent},
               Replace(p, e)
        PROVE  TypeOK'
    BY <2>8 DEF TypeOK, Replace, Disturb
  <2>9. ASSUME NEW i \in Inode, NEW n \in Size, Write(i, n) PROVE TypeOK'
    BY <2>9 DEF TypeOK, Write, Disturb
  <2>10. CASE UNCHANGED vars
    BY <2>10 DEF TypeOK, vars
  <2>11. QED
    BY <2>1, <2>2, <2>3, <2>4, <2>5, <2>6, <2>7, <2>8, <2>9, <2>10 DEF Next
<1>3. QED
  BY <1>1, <1>2, PTL DEF Spec

\* Only RegisterAccount touches the account, and only by charging a new file
\* that both limits allow.
LEMMA AccountStep ==
  ASSUME TypeOK, [Next]_vars
  PROVE  \/ UNCHANGED <<files, totalBytes>>
         \/ \E identity \in Path, n \in Size :
              /\ NewFile(identity) /\ CountAllows /\ BytesAllow(n)
              /\ Charge(identity, n)
<1>1. CASE RegisterAccount
  <2>1. info.size \in Size
    BY <1>1 DEF TypeOK, RegisterAccount
  <2>2. QED
    BY <1>1, <2>1 DEF RegisterAccount, Contained
<1>2. CASE ~RegisterAccount
  BY <1>2 DEF Next, vars, CallRegister, CallOpen, Call, RegisterLstat, OpenLstat, OpenFile,
              OpenStat, Replace, Write, Disturb
<1>3. QED
  BY <1>1, <1>2

\* Neither limit is ever exceeded.
THEOREM LimitsHold == Spec => []WithinLimits
<1>1. Init => WithinLimits
  <2> SUFFICES ASSUME Init PROVE WithinLimits
    OBVIOUS
  <2>1. Cardinality(DOMAIN files) = 0
    BY FS_EmptySet DEF Init
  <2>2. QED
    BY <2>1, BudgetAssumption DEF Init, WithinLimits
<1>2. TypeOK /\ WithinLimits /\ [Next]_vars => WithinLimits'
  <2> SUFFICES ASSUME TypeOK, WithinLimits, [Next]_vars PROVE WithinLimits'
    OBVIOUS
  <2>1. CASE UNCHANGED <<files, totalBytes>>
    BY <2>1 DEF WithinLimits
  <2>2. ASSUME NEW identity \in Path, NEW n \in Size,
               NewFile(identity), CountAllows, BytesAllow(n), Charge(identity, n)
        PROVE  WithinLimits'
    <3>1. IsFiniteSet(DOMAIN files)
      BY FS_Subset, BudgetAssumption DEF TypeOK
    <3>2. Cardinality(DOMAIN files') = Cardinality(DOMAIN files) + 1
      BY <2>2, <3>1, ChargeType, FS_AddElement DEF NewFile
    <3>3. Cardinality(DOMAIN files) \in Nat
      BY <3>1, FS_CardinalityType
    <3>4. totalBytes' <= MaxBytes
      <4>1. totalBytes \in Nat /\ n \in Nat /\ MaxBytes \in Nat
        BY BudgetAssumption DEF TypeOK
      <4>2. totalBytes' = totalBytes + n /\ totalBytes <= MaxBytes - n
        BY <2>2 DEF Charge, BytesAllow
      <4>3. QED
        BY <4>1, <4>2
    <3>5. QED
      BY <2>2, <3>2, <3>3, <3>4, BudgetAssumption DEF CountAllows, WithinLimits
  <2>3. QED
    BY <2>1, <2>2, AccountStep
<1>3. QED
  BY <1>1, <1>2, BudgetTypeCorrect, PTL DEF Spec

\* No step revises or withdraws a charge.
THEOREM ChargesFinal == Spec => ChargesAreFinal
<1>1. TypeOK /\ [Next]_vars => [\A p \in DOMAIN files : p \in DOMAIN files' /\ files'[p] = files[p]]_vars
  <2> SUFFICES ASSUME TypeOK, [Next]_vars, NEW p \in DOMAIN files
               PROVE  p \in DOMAIN files' /\ files'[p] = files[p]
    OBVIOUS
  <2>1. CASE UNCHANGED <<files, totalBytes>>
    BY <2>1
  <2>2. ASSUME NEW identity \in Path, NEW n \in Size, NewFile(identity), Charge(identity, n)
        PROVE  p \in DOMAIN files' /\ files'[p] = files[p]
    BY <2>2 DEF NewFile, Charge
  <2>3. QED
    BY <2>1, <2>2, AccountStep
<1>2. QED
  BY <1>1, BudgetTypeCorrect, PTL DEF Spec, ChargesAreFinal

OpenInvariant == OpenedAsRegistered /\ LstatSawEntry /\ NamesAreRecorded

\* Every step keeps what is said of the descriptors.
LEMMA OpenStep ==
  ASSUME TypeOK, TypeOK', OpenInvariant, [Next]_vars
  PROVE  OpenInvariant'
<1> USE BudgetAssumption DEF OpenInvariant
<1>0. ASSUME NEW h \in handles PROVE h.path \in DOMAIN files' /\ files'[h.path] = files[h.path]
  <2>1. h.path \in DOMAIN files
    BY DEF OpenedAsRegistered
  <2>2. CASE UNCHANGED <<files, totalBytes>>
    BY <2>1, <2>2
  <2>3. ASSUME NEW identity \in Path, NEW n \in Size, NewFile(identity), Charge(identity, n)
        PROVE  h.path \in DOMAIN files' /\ files'[h.path] = files[h.path]
    BY <2>1, <2>3 DEF NewFile, Charge
  <2>4. QED
    BY <2>2, <2>3, AccountStep
<1>1. CASE handles' = handles /\ everAt' = everAt /\ entry' = entry /\ ~OpenLstat /\ ~OpenFile
  <2>1. OpenedAsRegistered'
    BY <1>0, <1>1 DEF OpenedAsRegistered
  <2>2. LstatSawEntry'
    BY <1>1 DEF LstatSawEntry, Next, CallRegister, CallOpen, Call, RegisterLstat,
                RegisterAccount, OpenStat, Return, Replace, Write, Disturb, vars
  <2>3. QED
    BY <1>1, <2>1, <2>2 DEF NamesAreRecorded, IsFile
<1>2. CASE OpenLstat
  <2>1. OpenedAsRegistered'
    BY <1>0, <1>2 DEF OpenedAsRegistered, OpenLstat
  <2>2. LstatSawEntry'
    BY <1>2 DEF LstatSawEntry, OpenLstat, Return, NamesAreRecorded, IsFile, TypeOK
  <2>3. QED
    BY <1>2, <2>1, <2>2 DEF NamesAreRecorded, IsFile, OpenLstat
<1>3. CASE OpenFile
  BY <1>3, <1>0 DEF OpenedAsRegistered, LstatSawEntry, NamesAreRecorded, IsFile, OpenFile, Return
<1>4. CASE OpenStat
  <2>1. ASSUME NEW h \in handles'
        PROVE  h.path \in DOMAIN files /\ h.inode \in everAt[h.path] \ Irregular
               /\ h.size = files[h.path]
    <3>1. CASE h \in handles
      BY <3>1 DEF OpenedAsRegistered
    <3>2. CASE Unchanged /\ h = [path |-> path, inode |-> opened, size |-> size[opened]]
      BY <1>4, <3>2 DEF Unchanged, OpenStat, LstatSawEntry
    <3>3. QED
      BY <1>4, <3>1, <3>2 DEF OpenStat
  <2>2. OpenedAsRegistered'
    BY <1>4, <2>1 DEF OpenedAsRegistered, OpenStat
  <2>3. QED
    BY <1>4, <2>2 DEF LstatSawEntry, NamesAreRecorded, IsFile, OpenStat, Return
<1>5. ASSUME NEW p \in Path, NEW e \in Inode \union Path \union Outside \union {Absent},
             Replace(p, e)
      PROVE  OpenInvariant'
  <2>1. \A q \in Path : everAt[q] \subseteq everAt'[q]
    BY <1>5 DEF Replace, TypeOK
  <2>2. OpenedAsRegistered'
    BY <1>5, <2>1 DEF OpenedAsRegistered, Replace, Disturb, TypeOK
  <2>3. LstatSawEntry'
    BY <1>5, <2>1 DEF LstatSawEntry, Replace, Disturb, TypeOK
  <2>4. NamesAreRecorded'
    BY <1>5, <2>1 DEF NamesAreRecorded, IsFile, Replace, TypeOK
  <2>5. QED
    BY <2>2, <2>3, <2>4
<1>6. QED
  BY <1>1, <1>2, <1>3, <1>4, <1>5
     DEF Next, CallRegister, CallOpen, Call, RegisterLstat, RegisterAccount, Write, Disturb, vars

\* Every descriptor is for a registered path, for a regular file the path itself
\* named, of the size that was charged, however the repository changes meanwhile.
THEOREM OpenSound == Spec => []OpenedAsRegistered
<1>1. Init => OpenInvariant
  BY BudgetAssumption DEF Init, OpenInvariant, OpenedAsRegistered, LstatSawEntry, NamesAreRecorded, IsFile
<1>2. OpenInvariant => OpenedAsRegistered
  BY DEF OpenInvariant
<1>3. QED
  BY <1>1, <1>2, OpenStep, BudgetTypeCorrect, PTL DEF Spec
-----------------------------------------------------------------------------
(* Sums over finite sets.  The fold takes the members of a set in the order  *)
(* CHOOSE gives; induction on the cardinality shows that any order will do.  *)

Less == {p \in Nat \X Nat : p[1] < p[2]}

\* A set of numbers that holds 0 and every successor holds every number.
LEMMA SetInduction ==
  ASSUME NEW S, 0 \in S, \A n \in Nat : n \in S => n + 1 \in S
  PROVE  \A n \in Nat : n \in S
<1> DEFINE T == Nat \ S
<1>1. SUFFICES ASSUME T # {} PROVE FALSE
  OBVIOUS
<1>2. OpToRel(<, Nat) = Less
  BY DEF OpToRel, Less
<1>3. IsWellFoundedOn(Less, Nat)
  BY <1>2, NatLessThanWellFounded
<1>4. T \in SUBSET Nat
  OBVIOUS
<1> HIDE DEF T
<1>5. PICK m \in T : \A k \in T : ~(<<k, m>> \in Less)
  BY <1>1, <1>3, <1>4, WFMin
<1>6. m \in Nat /\ m # 0
  BY <1>4 DEF T
<1>7. m - 1 \in Nat /\ m - 1 < m /\ (m - 1) + 1 = m
  BY <1>6
<1>8. <<m - 1, m>> \in Less
  BY <1>6, <1>7 DEF Less
<1>9. m - 1 \in S
  BY <1>5, <1>7, <1>8 DEF T
<1>10. QED
  BY <1>7, <1>9 DEF T

Pick(s) == CHOOSE x \in s : TRUE
Smaller(S, n) == {s \in SUBSET S : Cardinality(s) <= n}

\* g adds up the weights w of the sets in D, taking out the member Pick names.
IsFold(w, D, g) == g = [s \in D |-> IF s = {} THEN 0 ELSE w[Pick(s)] + g[s \ {Pick(s)}]]

\* Taking out a member of a finite set.
LEMMA TakeOut ==
  ASSUME NEW S, IsFiniteSet(S), NEW s \in SUBSET S
  PROVE  /\ Cardinality(s) \in Nat
         /\ Cardinality(s) = 0 <=> s = {}
         /\ s # {} => Pick(s) \in s
         /\ \A x \in s : s \ {x} \in SUBSET S /\ Cardinality(s \ {x}) = Cardinality(s) - 1
<1>1. IsFiniteSet(s)
  BY FS_Subset
<1>2. \A x \in s : Cardinality(s \ {x}) = Cardinality(s) - 1
  BY <1>1, FS_RemoveElement
<1>3. QED
  BY <1>1, <1>2, FS_EmptySet, FS_CardinalityType DEF Pick

\* The fold exists.
LEMMA FoldExists ==
  ASSUME NEW S, IsFiniteSet(S), NEW w
  PROVE  \E g : IsFold(w, SUBSET S, g)
<1> DEFINE B(g, s) == IF s = {} THEN 0 ELSE w[Pick(s)] + g[s \ {Pick(s)}]
           G == {n \in Nat : \E g : IsFold(w, Smaller(S, n), g)}
<1>1. 0 \in G
  <2> DEFINE g == [s \in Smaller(S, 0) |-> 0]
  <2>1. \A s \in Smaller(S, 0) : s = {}
    BY TakeOut DEF Smaller
  <2>2. g = [s \in Smaller(S, 0) |-> B(g, s)]
    BY <2>1
  <2>3. QED
    BY <2>2 DEF IsFold
<1>2. ASSUME NEW n \in Nat, n \in G PROVE n + 1 \in G
  <2>1. PICK g : IsFold(w, Smaller(S, n), g)
    BY <1>2
  <2> DEFINE h == [s \in Smaller(S, n + 1) |-> B(g, s)]
  <2>2. \A s \in Smaller(S, n) : s \in Smaller(S, n + 1) /\ g[s] = B(g, s)
    <3>1. \A s \in Smaller(S, n) : s \in Smaller(S, n + 1)
      BY TakeOut DEF Smaller
    <3>2. \A s \in Smaller(S, n) : g[s] = B(g, s)
      BY <2>1 DEF IsFold
    <3>3. QED
      BY <3>1, <3>2
  <2>3. \A s \in Smaller(S, n) : h[s] = g[s]
    BY <2>2
  <2>4. \A s \in Smaller(S, n + 1) : s # {} => s \ {Pick(s)} \in Smaller(S, n)
    BY TakeOut DEF Smaller
  <2>5. \A s \in Smaller(S, n + 1) : B(g, s) = B(h, s)
    BY <2>3, <2>4
  <2>6. h = [s \in Smaller(S, n + 1) |-> B(h, s)]
    BY <2>5
  <2>7. IsFold(w, Smaller(S, n + 1), h)
    BY <2>6 DEF IsFold
  <2>8. QED
    BY <2>7
<1> HIDE DEF G
<1>3. \A n \in Nat : n \in G
  BY <1>1, <1>2, SetInduction
<1>4. Cardinality(S) \in Nat /\ Smaller(S, Cardinality(S)) = SUBSET S
  BY FS_CardinalityType, FS_Subset DEF Smaller
<1>5. QED
  BY <1>3, <1>4 DEF G

\* g adds up the weights w of the subsets of S, in whatever order.
Sums(w, S, g) ==
  /\ g \in [SUBSET S -> Nat] /\ g[{}] = 0
  /\ \A s \in SUBSET S : \A x \in s : g[s] = w[x] + g[s \ {x}]

\* The fold of naturals is a natural number.
LEMMA FoldIsNat ==
  ASSUME NEW S, IsFiniteSet(S), NEW w, \A x \in S : w[x] \in Nat, NEW g, IsFold(w, SUBSET S, g)
  PROVE  \A s \in SUBSET S : g[s] \in Nat
<1> DEFINE G == {n \in Nat : \A s \in SUBSET S : Cardinality(s) = n => g[s] \in Nat}
<1>0. \A s \in SUBSET S : g[s] = IF s = {} THEN 0 ELSE w[Pick(s)] + g[s \ {Pick(s)}]
  BY DEF IsFold
<1>1. 0 \in G
  <2>1. \A s \in SUBSET S : Cardinality(s) = 0 => s = {}
    BY TakeOut
  <2>2. g[{}] \in Nat
    <3>1. {} \in SUBSET S /\ 0 \in Nat
      OBVIOUS
    <3>2. g[{}] = 0
      BY <1>0, <3>1, Zenon
    <3>3. QED
      BY <3>1, <3>2, Zenon
  <2>3. QED
    BY <2>1, <2>2
<1>2. ASSUME NEW n \in Nat, n \in G PROVE n + 1 \in G
  <2>1. SUFFICES ASSUME NEW s \in SUBSET S, Cardinality(s) = n + 1 PROVE g[s] \in Nat
    OBVIOUS
  <2>2. s # {}
    BY <2>1, TakeOut
  <2>3. Pick(s) \in s /\ s \ {Pick(s)} \in SUBSET S
    BY <2>2, TakeOut
  <2>4. Cardinality(s \ {Pick(s)}) = n
    BY <2>1, <2>3, TakeOut
  <2>5. g[s \ {Pick(s)}] \in Nat /\ w[Pick(s)] \in Nat
    BY <1>2, <2>3, <2>4
  <2>6. g[s] = w[Pick(s)] + g[s \ {Pick(s)}]
    BY <1>0, <2>2, Zenon
  <2>7. \A a, b \in Nat : a + b \in Nat
    OBVIOUS
  <2>8. QED
    BY <2>5, <2>6, <2>7, Zenon
<1> HIDE DEF G
<1>3. \A n \in Nat : n \in G
  BY <1>1, <1>2, SetInduction
<1>4. \A s \in SUBSET S : Cardinality(s) \in Nat
  BY TakeOut
<1>5. QED
  BY <1>3, <1>4 DEF G

\* The order in which the fold takes the members does not matter.
LEMMA FoldSums ==
  ASSUME NEW S, IsFiniteSet(S), NEW w, \A x \in S : w[x] \in Nat, NEW g, IsFold(w, SUBSET S, g)
  PROVE  Sums(w, S, g)
<1> DEFINE G == {n \in Nat : \A s \in SUBSET S : Cardinality(s) = n =>
                               \A x \in s : g[s] = w[x] + g[s \ {x}]}
<1>0. \A s \in SUBSET S : g[s] = IF s = {} THEN 0 ELSE w[Pick(s)] + g[s \ {Pick(s)}]
  BY DEF IsFold
<1>1. 0 \in G
  BY TakeOut
<1>2. ASSUME NEW n \in Nat, n \in G PROVE n + 1 \in G
  <2>1. SUFFICES ASSUME NEW s \in SUBSET S, Cardinality(s) = n + 1, NEW x \in s
                 PROVE  g[s] = w[x] + g[s \ {x}]
    OBVIOUS
  <2> DEFINE c == Pick(s)
             r == (s \ {c}) \ {x}
  <2>2. c \in s /\ g[s] = w[c] + g[s \ {c}]
    BY <1>0, TakeOut
  <2> HIDE DEF c
  <2>3. CASE x = c
    BY <2>2, <2>3
  <2>4. CASE x # c
    <3>1. /\ s \ {c} \in SUBSET S /\ Cardinality(s \ {c}) = n
          /\ s \ {x} \in SUBSET S /\ Cardinality(s \ {x}) = n
      BY <2>1, <2>2, TakeOut
    <3>2. x \in s \ {c} /\ c \in s \ {x} /\ (s \ {x}) \ {c} = r
      BY <2>2, <2>4
    <3>3. g[s \ {c}] = w[x] + g[r]
      BY <1>2, <3>1, <3>2
    <3>4. g[s \ {x}] = w[c] + g[r]
      BY <1>2, <3>1, <3>2
    <3>5. w[x] \in Nat /\ w[c] \in Nat /\ g[r] \in Nat
      BY <2>2, FoldIsNat
    <3> HIDE DEF r
    <3>6. QED
      BY <2>2, <3>3, <3>4, <3>5
  <2>5. QED
    BY <2>3, <2>4
<1> HIDE DEF G
<1>3. \A n \in Nat : n \in G
  BY <1>1, <1>2, SetInduction
<1>4. \A s \in SUBSET S : Cardinality(s) \in Nat
  BY TakeOut
<1>5. \A s \in SUBSET S : \A x \in s : g[s] = w[x] + g[s \ {x}]
  BY <1>3, <1>4 DEF G
<1>6. g \in [SUBSET S -> Nat] /\ g[{}] = 0
  <2>1. DOMAIN g = SUBSET S /\ g = [s \in SUBSET S |-> g[s]]
    BY DEF IsFold
  <2>2. QED
    BY <1>0, <2>1, FoldIsNat
<1>7. QED
  BY <1>5, <1>6 DEF Sums

\* More members and larger weights never make a sum smaller.
LEMMA SumsGrow ==
  ASSUME NEW S, NEW T \in SUBSET S, IsFiniteSet(S), NEW v, NEW w, NEW g, NEW h,
         Sums(v, T, g), Sums(w, S, h), \A x \in T : v[x] \in Nat,
         \A x \in S : w[x] \in Nat, \A x \in T : v[x] <= w[x]
  PROVE  g[T] <= h[S]
<1> DEFINE G == {n \in Nat : \A s \in SUBSET S : Cardinality(s) = n => g[s \cap T] <= h[s]}
<1>1. 0 \in G
  <2>1. {} \cap T = {} /\ g[{}] <= h[{}]
    BY DEF Sums
  <2>2. QED
    BY <2>1, TakeOut
<1>2. ASSUME NEW n \in Nat, n \in G PROVE n + 1 \in G
  <2>1. SUFFICES ASSUME NEW s \in SUBSET S, Cardinality(s) = n + 1 PROVE g[s \cap T] <= h[s]
    OBVIOUS
  <2>2. PICK x \in s : TRUE
    BY <2>1, TakeOut
  <2> DEFINE r == s \ {x}
  <2>3. r \in SUBSET S /\ Cardinality(r) = n
    BY <2>1, TakeOut
  <2>4. g[r \cap T] <= h[r]
    BY <1>2, <2>3
  <2>5. h[s] = w[x] + h[r] /\ h[r] \in Nat /\ w[x] \in Nat
    BY <2>3 DEF Sums
  <2>6. g[r \cap T] \in Nat
    BY DEF Sums
  <2>7. CASE x \in T
    <3>1. s \cap T \in SUBSET T /\ x \in s \cap T /\ (s \cap T) \ {x} = r \cap T
      BY <2>7
    <3>2. \A u \in SUBSET T : \A y \in u : g[u] = v[y] + g[u \ {y}]
      BY DEF Sums
    <3>3. g[s \cap T] = v[x] + g[r \cap T]
      BY <3>1, <3>2, Zenon
    <3>4. v[x] \in Nat /\ v[x] <= w[x]
      BY <2>7
    <3>5. \A a, b, c, d \in Nat : a <= b /\ c <= d => a + c <= b + d
      OBVIOUS
    <3> HIDE DEF r
    <3>6. QED
      BY <2>4, <2>5, <2>6, <3>3, <3>4, <3>5, Zenon
  <2>8. CASE x \notin T
    <3>1. s \cap T = r \cap T
      BY <2>8
    <3>2. \A b, c, d \in Nat : c <= d => c <= b + d
      OBVIOUS
    <3> HIDE DEF r
    <3>3. QED
      BY <2>4, <2>5, <2>6, <3>1, <3>2, Zenon
  <2>9. QED
    BY <2>7, <2>8
<1> HIDE DEF G
<1>3. \A n \in Nat : n \in G
  BY <1>1, <1>2, SetInduction
<1>4. Cardinality(S) \in Nat /\ S \in SUBSET S /\ S \cap T = T
  BY FS_CardinalityType
<1>5. QED
  BY <1>3, <1>4 DEF G

SumOf(f) == MapThenSumSet(LAMBDA p : f[p], DOMAIN f)

\* The values of a function add up to a sum that does not depend on their order.
LEMMA ValuesSum ==
  ASSUME NEW f, IsFiniteSet(DOMAIN f), \A p \in DOMAIN f : f[p] \in Nat
  PROVE  \E g : Sums(f, DOMAIN f, g) /\ SumOf(f) = g[DOMAIN f]
<1> DEFINE g == CHOOSE g : IsFold(f, SUBSET DOMAIN f, g)
<1>1. IsFold(f, SUBSET DOMAIN f, g)
  BY FoldExists
<1>2. SumOf(f) = g[DOMAIN f]
  BY DEF SumOf, MapThenSumSet, MapThenFoldSet, IsFold, Pick
<1> HIDE DEF g
<1>3. QED
  BY <1>1, <1>2, FoldSums

\* The account is a function with a sum.
LEMMA AccountIsFinite ==
  ASSUME TypeOK
  PROVE  IsFiniteSet(DOMAIN files) /\ \A p \in DOMAIN files : files[p] \in Nat
BY FS_Subset, BudgetAssumption DEF TypeOK

\* A new charge is added to the sum.
LEMMA ChargeSum ==
  ASSUME TypeOK, TypeOK', NEW identity \in Path, NEW n \in Size,
         NewFile(identity), Charge(identity, n)
  PROVE  SumOf(files') = SumOf(files) + n
<1>0. /\ IsFiniteSet(DOMAIN files) /\ \A p \in DOMAIN files : files[p] \in Nat
      /\ IsFiniteSet(DOMAIN files') /\ \A p \in DOMAIN files' : files'[p] \in Nat
  BY FS_Subset, BudgetAssumption DEF TypeOK
<1>1. PICK g : Sums(files, DOMAIN files, g) /\ SumOf(files) = g[DOMAIN files]
  BY <1>0, ValuesSum
<1>2. PICK h : Sums(files', DOMAIN files', h) /\ SumOf(files') = h[DOMAIN files']
  BY <1>0, ValuesSum
<1> DEFINE D == DOMAIN files
           E == DOMAIN files'
<1>3. /\ E = D \union {identity} /\ identity \notin D
      /\ files'[identity] = n
      /\ \A p \in D : files'[p] = files[p]
  BY DEF Charge, NewFile
<1>4. /\ IsFiniteSet(E) /\ IsFiniteSet(D)
      /\ \A p \in D : files[p] \in Nat
      /\ \A p \in E : files'[p] \in Nat
  BY <1>0
<1>5. h[E] = n + h[D] /\ D \in SUBSET E
  <2>1. identity \in E /\ E \ {identity} = D /\ E \in SUBSET E
    BY <1>3
  <2>2. QED
    BY <1>2, <1>3, <2>1 DEF Sums
<1> DEFINE k == [s \in SUBSET D |-> h[s]]
<1>6. Sums(files', D, k)
  <2>1. /\ \A s \in SUBSET D : s \in SUBSET E /\ k[s] = h[s]
        /\ h \in [SUBSET E -> Nat] /\ h[{}] = 0
        /\ \A s \in SUBSET E : \A x \in s : h[s] = files'[x] + h[s \ {x}]
    BY <1>2, <1>5 DEF Sums
  <2>2. k \in [SUBSET D -> Nat] /\ k[{}] = 0
    BY <2>1
  <2>3. ASSUME NEW s \in SUBSET D, NEW x \in s PROVE k[s] = files'[x] + k[s \ {x}]
    <3>1. s \in SUBSET E /\ s \ {x} \in SUBSET D
      BY <2>1
    <3>2. QED
      BY <2>1, <3>1, Zenon
  <2>4. QED
    BY <2>2, <2>3 DEF Sums
<1>7. k[D] = h[D] /\ k[D] \in Nat /\ g[D] \in Nat
  BY <1>1, <1>6 DEF Sums
<1> HIDE DEF k
<1>8. g[D] <= k[D] /\ k[D] <= g[D]
  <2>1. /\ D \in SUBSET D
        /\ \A p \in D : files'[p] \in Nat /\ files[p] <= files'[p] /\ files'[p] <= files[p]
    BY <1>3, <1>4
  <2>2. g[D] <= k[D]
    BY <1>1, <1>4, <1>6, <2>1, SumsGrow
  <2>3. k[D] <= g[D]
    BY <1>1, <1>4, <1>6, <2>1, SumsGrow
  <2>4. QED
    BY <2>2, <2>3
<1>9. n \in Nat
  BY BudgetAssumption
<1>10. QED
  BY <1>1, <1>2, <1>5, <1>7, <1>8, <1>9

\* Neither limit is ever exceeded, and the running total is the sum of the charges
\* whatever happens to the files meanwhile.
THEOREM BudgetHolds == Spec => []WithinBudget
<1>1. Init => totalBytes = SumOf(files)
  <2> SUFFICES ASSUME Init PROVE totalBytes = SumOf(files)
    OBVIOUS
  <2>1. TypeOK /\ DOMAIN files = {}
    BY InitTypes DEF Init
  <2>2. PICK g : Sums(files, DOMAIN files, g) /\ SumOf(files) = g[DOMAIN files]
    BY <2>1, AccountIsFinite, ValuesSum
  <2>3. QED
    BY <2>1, <2>2 DEF Init, Sums
<1>2. TypeOK /\ TypeOK' /\ [Next]_vars /\ totalBytes = SumOf(files) => (totalBytes = SumOf(files))'
  <2> SUFFICES ASSUME TypeOK, TypeOK', [Next]_vars, totalBytes = SumOf(files)
               PROVE  totalBytes' = SumOf(files')
    OBVIOUS
  <2>1. CASE UNCHANGED <<files, totalBytes>>
    BY <2>1
  <2>2. ASSUME NEW identity \in Path, NEW n \in Size, NewFile(identity), Charge(identity, n)
        PROVE  totalBytes' = SumOf(files')
    BY <2>2, ChargeSum DEF Charge
  <2>3. QED
    BY <2>1, <2>2, AccountStep
<1>3. WithinLimits /\ totalBytes = SumOf(files) => WithinBudget
  BY DEF WithinBudget, SumOf
<1>4. QED
  BY <1>1, <1>2, <1>3, BudgetTypeCorrect, LimitsHold, PTL DEF Spec

openPaths == {h.path : h \in handles}
openSize(p) == Max({h.size : h \in {g \in handles : g.path = p}})
IsOpenFold(g) == g = [s \in SUBSET openPaths |->
                       IF s = {} THEN 0 ELSE openSize(Pick(s)) + g[s \ {Pick(s)}]]

\* What is open was charged, at the size it was opened with.
LEMMA OpenWasCharged ==
  ASSUME TypeOK, OpenedAsRegistered
  PROVE  openPaths \in SUBSET DOMAIN files /\ \A p \in openPaths : openSize(p) = files[p]
<1>1. openPaths \in SUBSET DOMAIN files
  BY DEF openPaths, OpenedAsRegistered
<1>2. ASSUME NEW p \in openPaths PROVE openSize(p) = files[p]
  <2> DEFINE A == {h.size : h \in {g \in handles : g.path = p}}
  <2>1. A = {files[p]}
    BY DEF openPaths, OpenedAsRegistered
  <2>2. files[p] \in Nat
    BY <1>1, AccountIsFinite
  <2>3. files[p] >= files[p]
    BY <2>2
  <2> HIDE DEF A
  <2>4. Max(A) = files[p]
    BY <2>1, <2>3 DEF Max
  <2>5. QED
    BY <2>4 DEF A, openSize
<1>3. QED
  BY <1>1, <1>2

\* What is handed to the parsers stays within the budget, in files and in bytes.
THEOREM OpenStaysWithinBudget == Spec => []OpenedWithinBudget
<1>1. TypeOK /\ OpenedAsRegistered /\ WithinBudget => OpenedWithinBudget
  <2> SUFFICES ASSUME TypeOK, OpenedAsRegistered, WithinBudget PROVE OpenedWithinBudget
    OBVIOUS
  <2> DEFINE D == DOMAIN files
  <2>0. IsFiniteSet(D) /\ \A p \in D : files[p] \in Nat
    BY AccountIsFinite
  <2>1. /\ openPaths \in SUBSET D /\ IsFiniteSet(openPaths)
        /\ Cardinality(openPaths) <= Cardinality(D)
        /\ Cardinality(openPaths) \in Nat /\ Cardinality(D) \in Nat
    BY <2>0, OpenWasCharged, FS_Subset, FS_CardinalityType
  <2>2. Cardinality(openPaths) <= MaxFiles
    BY <2>1, BudgetAssumption DEF WithinBudget, WithinLimits
  <2>3. ASSUME NEW g PROVE IsOpenFold(g) <=> IsFold(files, SUBSET openPaths, g)
    <3>1. \A s \in SUBSET openPaths : s # {} => openSize(Pick(s)) = files[Pick(s)]
      BY OpenWasCharged DEF Pick
    <3>2. QED
      BY <3>1 DEF IsOpenFold, IsFold
  <2> DEFINE g == CHOOSE g : IsOpenFold(g)
  <2>4. IsFold(files, SUBSET openPaths, g)
    <3>1. \E x : IsFold(files, SUBSET openPaths, x)
      BY <2>1, FoldExists
    <3>2. \E x : IsOpenFold(x)
      BY <2>3, <3>1
    <3>3. IsOpenFold(g)
      BY <3>2
    <3>4. QED
      BY <2>3, <3>3
  <2>5. MapThenSumSet(openSize, openPaths) = g[openPaths]
    BY DEF MapThenSumSet, MapThenFoldSet, IsOpenFold, Pick
  <2> HIDE DEF g
  <2>6. Sums(files, openPaths, g)
    BY <2>0, <2>1, <2>4, FoldSums
  <2>7. PICK h : Sums(files, D, h) /\ SumOf(files) = h[D]
    BY <2>0, ValuesSum
  <2>8. g[openPaths] <= h[D]
    <3>1. \A p \in openPaths : files[p] \in Nat /\ files[p] <= files[p]
      BY <2>0, <2>1
    <3>2. QED
      BY <2>0, <2>1, <2>6, <2>7, <3>1, SumsGrow
  <2>9. totalBytes = SumOf(files) /\ totalBytes <= MaxBytes /\ totalBytes \in Nat
    BY DEF WithinBudget, WithinLimits, SumOf, TypeOK
  <2>10. g[openPaths] \in Nat
    BY <2>6 DEF Sums
  <2>11. MapThenSumSet(openSize, openPaths) <= MaxBytes
    BY <2>5, <2>7, <2>8, <2>9, <2>10, BudgetAssumption
  <2>12. QED
    BY <2>2, <2>11 DEF OpenedWithinBudget, openPaths, openSize
<1>2. QED
  BY <1>1, BudgetTypeCorrect, OpenSound, BudgetHolds, PTL
=============================================================================
