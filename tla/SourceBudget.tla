---------------------------- MODULE SourceBudget ----------------------------
(***************************************************************************)
(* source.Budget: the trusted boundary around repository-controlled files. *)
(* Register validates a path and charges its size to one aggregate budget; *)
(* Open revalidates it and hands out a descriptor.  Both look at the file  *)
(* system several times, and the repository may change in between: each    *)
(* look is a step here, and so is each change.                             *)
(*                                                                         *)
(* A directory entry is absent, a file (an inode) or a symbolic link to a  *)
(* path.  lstatNoSymlinks looks at the last component twice; a link found  *)
(* by either look fails the call with the same error, so it is one step.   *)
(***************************************************************************)
EXTENDS Naturals, FiniteSets, FiniteSetsExt

CONSTANTS
  Path,       \* paths inside the repository root
  Outside,    \* paths outside it that a link can name
  Inode,      \* files
  Irregular,  \* the inodes that are not regular files (pipes, directories)
  Size,       \* file sizes
  Absent,
  MaxFiles, MaxBytes,   \* the budget's limits
  MaxDisturbances,      \* bound: changes made to the repository meanwhile
  MaxCalls              \* bound: calls of Register and Open

ASSUME BudgetAssumption ==
  /\ MaxFiles \in Nat \ {0} /\ MaxBytes \in Nat \ {0}
  /\ MaxDisturbances \in Nat /\ MaxCalls \in Nat
  /\ Size \subseteq Nat /\ Irregular \subseteq Inode
  /\ IsFiniteSet(Path) /\ Path \cap Outside = {} /\ Absent \notin Inode \union Path \union Outside
  /\ Inode \cap (Path \union Outside) = {}

VARIABLES
  entry,       \* entry[p]: an inode, the path a link at p names, or Absent
  size,        \* size[i]: the current size of inode i
  files,       \* Budget.files: identity -> size charged
  totalBytes,  \* Budget.totalBytes
  pc,          \* the step of the call in progress
  path,        \* its argument
  info,        \* what its Lstat saw: [inode, size]
  opened,      \* the inode its open returned
  handles,     \* descriptors handed out: [path, inode, size]
  disturbances, calls,
  everAt       \* history: the inodes each path has directly named

disk == <<entry, size, disturbances, everAt>>
vars == <<entry, size, files, totalBytes, pc, path, info, opened, handles,
          disturbances, calls, everAt>>

NoInfo == [inode |-> Absent, size |-> 0]

IsFile(p) == entry[p] \in Inode
IsLink(p) == entry[p] \in Path \union Outside

\* EvalSymlinks, and an open that follows links: the path a chain of links ends
\* at.  A path outside the root ends the chain; a chain that is still at a link
\* after one hop per path is a loop.
Hop(p) == IF p \in Path /\ IsLink(p) THEN entry[p] ELSE p
Resolve(p) ==
  LET hops[n \in 0 .. Cardinality(Path)] == IF n = 0 THEN p ELSE Hop(hops[n - 1])
  IN  hops[Cardinality(Path)]
FileAt(p) == IF p \in Path /\ IsFile(p) THEN entry[p] ELSE Absent

-----------------------------------------------------------------------------
Init ==
  /\ entry \in [Path -> Inode \union {Absent}]
  /\ \A p, q \in Path : entry[p] = entry[q] /\ IsFile(p) => p = q
  /\ size \in [Inode -> Size]
  /\ files = [p \in {} |-> 0]
  /\ totalBytes = 0
  /\ pc = "idle" /\ path = Absent /\ info = NoInfo /\ opened = Absent
  /\ handles = {}
  /\ disturbances = 0 /\ calls = 0
  /\ everAt = [p \in Path |-> {entry[p]} \ {Absent}]

Return ==
  /\ pc' = "idle" /\ path' = Absent /\ info' = NoInfo /\ opened' = Absent

Call(first, p) ==
  /\ pc = "idle" /\ calls < MaxCalls
  /\ calls' = calls + 1
  /\ pc' = first /\ path' = p
  /\ UNCHANGED <<entry, size, files, totalBytes, info, opened, handles, disturbances, everAt>>

CallRegister == \E p \in Path : Call("register", p)
CallOpen == \E p \in Path : Call("open", p)

-----------------------------------------------------------------------------
(* Register: Lstat, then EvalSymlinks and the account. *)

RegisterLstat ==
  /\ pc = "register"
  /\ IF IsFile(path) /\ entry[path] \notin Irregular
     THEN /\ info' = [inode |-> entry[path], size |-> size[entry[path]]]
          /\ pc' = "account"
          /\ UNCHANGED <<path, opened>>
     ELSE Return
  /\ UNCHANGED <<entry, size, files, totalBytes, handles, disturbances, calls, everAt>>

\* A defect to detect: the count is compared after the file was added.
CountAllowsOneMore == Cardinality(DOMAIN files) <= MaxFiles
CountAllows == Cardinality(DOMAIN files) < MaxFiles

BytesAllow(n) == n <= MaxBytes /\ totalBytes <= MaxBytes - n

Charge(identity, n) ==
  /\ files' = [p \in DOMAIN files \union {identity} |-> IF p = identity THEN n ELSE files[p]]
  /\ totalBytes' = totalBytes + n

\* A defect to detect: a file that is registered again is charged again.
AlwaysNewFile(identity) == identity \in Path
NewFile(identity) == identity \notin DOMAIN files

\* EvalSymlinks needs the file it ends at; what is outside the root exists.
Exists(identity) == identity \in Outside \/ IsFile(identity)

\* A defect to detect: the resolved path is not confined to the root.
ContainedAnywhere(identity) == identity \in Path \union Outside
Contained(identity) == identity \in Path

RegisterAccount ==
  LET identity == Resolve(path)
  IN  /\ pc = "account"
      /\ IF /\ Exists(identity) /\ Contained(identity)
            /\ NewFile(identity) /\ CountAllows /\ BytesAllow(info.size)
         THEN Charge(identity, info.size)
         ELSE UNCHANGED <<files, totalBytes>>
      /\ Return
      /\ UNCHANGED <<entry, size, handles, disturbances, calls, everAt>>

-----------------------------------------------------------------------------
(* Open: Lstat, open below the root, then Stat of the descriptor. *)

OpenLstat ==
  /\ pc = "open"
  /\ IF IsFile(path)
     THEN /\ info' = [inode |-> entry[path], size |-> size[entry[path]]]
          /\ pc' = "opening"
          /\ UNCHANGED <<path, opened>>
     ELSE Return
  /\ UNCHANGED <<entry, size, files, totalBytes, handles, disturbances, calls, everAt>>

\* os.Root follows a link that stays below the root and refuses one that leaves it.
OpenFile ==
  /\ pc = "opening"
  /\ IF FileAt(Resolve(path)) # Absent
     THEN opened' = FileAt(Resolve(path)) /\ pc' = "stat" /\ UNCHANGED <<path, info>>
     ELSE Return
  /\ UNCHANGED <<entry, size, files, totalBytes, handles, disturbances, calls, everAt>>

\* A defect to detect: the descriptor is not compared with what Lstat saw.
SizeChecked ==
  /\ path \in DOMAIN files
  /\ opened \notin Irregular
  /\ info.size = files[path] /\ size[opened] = files[path]

\* A defect to detect: the descriptor's own size is not compared.
LstatChecked ==
  /\ path \in DOMAIN files
  /\ opened \notin Irregular
  /\ info.inode = opened
  /\ info.size = files[path]

Unchanged ==
  /\ path \in DOMAIN files
  /\ opened \notin Irregular
  /\ info.inode = opened
  /\ info.size = files[path] /\ size[opened] = files[path]

OpenStat ==
  /\ pc = "stat"
  /\ handles' = IF Unchanged
                THEN handles \union {[path |-> path, inode |-> opened, size |-> size[opened]]}
                ELSE handles
  /\ Return
  /\ UNCHANGED <<entry, size, files, totalBytes, disturbances, calls, everAt>>

-----------------------------------------------------------------------------
(* The repository changes underneath: a file is replaced, removed, linked    *)
(* to, or written to in place.                                               *)

Disturb ==
  /\ disturbances < MaxDisturbances
  /\ disturbances' = disturbances + 1
  /\ UNCHANGED <<files, totalBytes, pc, path, info, opened, handles, calls>>

Replace(p, e) ==
  /\ e \notin {entry[p], p}
  /\ Disturb
  /\ entry' = [entry EXCEPT ![p] = e]
  /\ everAt' = IF e \in Inode THEN [everAt EXCEPT ![p] = @ \union {e}] ELSE everAt
  /\ UNCHANGED size

Write(i, n) ==
  /\ size[i] # n
  /\ Disturb
  /\ size' = [size EXCEPT ![i] = n]
  /\ UNCHANGED <<entry, everAt>>

Next ==
  \/ CallRegister \/ RegisterLstat \/ RegisterAccount
  \/ CallOpen \/ OpenLstat \/ OpenFile \/ OpenStat
  \/ \E p \in Path, e \in Inode \union Path \union Outside \union {Absent} : Replace(p, e)
  \/ \E i \in Inode, n \in Size : Write(i, n)

Spec == Init /\ [][Next]_vars

-----------------------------------------------------------------------------
\* The types; what is charged lies inside the repository root.
TypeOK ==
  /\ entry \in [Path -> Inode \union Path \union Outside \union {Absent}]
  /\ size \in [Inode -> Size]
  /\ DOMAIN files \in SUBSET Path /\ files \in [DOMAIN files -> Size]
  /\ totalBytes \in Nat
  /\ pc \in {"idle", "register", "account", "open", "opening", "stat"}
  /\ path \in (IF pc = "idle" THEN {Absent} ELSE Path)
  /\ pc \in {"account", "opening", "stat"} => info \in [inode : Inode, size : Size]
  /\ pc = "stat" => opened \in Inode
  /\ handles \in SUBSET [path : Path, inode : Inode, size : Size]
  /\ disturbances \in Nat /\ calls \in Nat
  /\ everAt \in [Path -> SUBSET Inode]

WithinLimits == Cardinality(DOMAIN files) <= MaxFiles /\ totalBytes <= MaxBytes

\* The aggregate budget holds whatever happens to the files meanwhile: neither
\* limit is exceeded and the running total is the sum of the charges.
WithinBudget ==
  /\ WithinLimits
  /\ totalBytes = MapThenSumSet(LAMBDA p : files[p], DOMAIN files)

\* A descriptor handed to a parser is for a registered path, for a regular file
\* that the path itself named (never one reached through a symbolic link), with
\* exactly the size the budget charged.
OpenedAsRegistered ==
  \A h \in handles :
    /\ h.path \in DOMAIN files
    /\ h.inode \in everAt[h.path] \ Irregular
    /\ h.size = files[h.path]

\* While Open runs, the inode Lstat saw is one the path itself has named: the
\* inductive strengthening of OpenedAsRegistered.
LstatSawEntry == pc \in {"opening", "stat"} => info.inode \in everAt[path]
NamesAreRecorded == \A p \in Path : IsFile(p) => entry[p] \in everAt[p]

\* What is handed to the parsers stays within the budget: the sizes their files
\* had when opened, one per path, sum to no more than MaxBytes.
OpenedWithinBudget ==
  LET opens == {h.path : h \in handles}
      largest(p) == Max({h.size : h \in {g \in handles : g.path = p}})
  IN  /\ Cardinality(opens) <= MaxFiles
      /\ MapThenSumSet(largest, opens) <= MaxBytes

\* A charge is never revised or withdrawn.
ChargesAreFinal ==
  [][\A p \in DOMAIN files : p \in DOMAIN files' /\ files'[p] = files[p]]_vars
=============================================================================
