----------------------------- MODULE StarterFiles -----------------------------
(***************************************************************************)
(* "telemetry-change-guard init" (internal/cli/init.go): it makes sure     *)
(* none of the three starter files exists, creates them one after the      *)
(* other and, when one cannot be created, removes the ones it made.        *)
(* Other programs create, replace and remove the same files meanwhile.     *)
(*                                                                         *)
(* A file is a record [by, inode]: who made it (history only, the code     *)
(* does not see it) and its inode, which is what os.SameFile compares and  *)
(* what the file system may hand out again once a file is gone.            *)
(***************************************************************************)
EXTENDS Naturals, Sequences, SequencesExt

CONSTANTS
  Inodes,     \* what the file system can hand out
  MaxEdits    \* bound: steps of other programs

VARIABLES
  starter,   \* path -> file or NoFile
  init,      \* the process: [at, index, created, opened, undo, seen, exit]
  edits,     \* steps other programs took
  stuck,     \* paths whose removal failed or was never tried
  raced      \* paths replaced between the last look and the removal

starterVars == <<starter, init, edits, stuck, raced>>

targets == <<"tcg.yaml", "tcg-changes.example.yaml", "rules.yaml">>
StarterPaths == ToSet(targets)
NoFile == [by |-> "nobody", inode |-> 0]
NoInode == 0
Unused == Inodes \ {starter[p].inode : p \in StarterPaths}

\* os.SameFile on what Lstat returns now.
SameFile(file, path) == starter[path] # NoFile /\ starter[path].inode = file.inode

InitStarter ==
  /\ starter \in [StarterPaths -> {NoFile, [by |-> "other", inode |-> CHOOSE i \in Inodes : TRUE]}]
  /\ \A p, q \in StarterPaths : p # q => (starter[p] = NoFile \/ starter[q] = NoFile)
  /\ init = [at |-> "root", index |-> 1, created |-> <<>>, opened |-> NoInode,
             undo |-> <<>>, seen |-> FALSE, exit |-> 99]
  /\ edits = 0
  /\ stuck = {}
  /\ raced = {}

At(label) == init.at = label
target == targets[init.index]
Goto(label) == init' = [init EXCEPT !.at = label]
InitExit(code) == init' = [init EXCEPT !.at = "done", !.exit = code]

\* removeStarterFiles takes the files from the last to the first.
Undo(files) == [init EXCEPT !.at = "look", !.undo = Reverse(files), !.seen = FALSE]

-----------------------------------------------------------------------------
(* runInit. *)

\* The directory is created or inspected, and must be a real one.
InspectRoot ==
  /\ At("root")
  /\ Goto("inspect") \/ InitExit(1)
  /\ UNCHANGED <<starter, edits, stuck, raced>>

InspectTarget ==
  /\ At("inspect")
  /\ \/ starter[target] # NoFile /\ InitExit(1)
     \/ InitExit(1)                                   \* Lstat fails otherwise
     \/ /\ starter[target] = NoFile
        /\ init' = IF init.index = Len(targets)
                   THEN [init EXCEPT !.at = "parent", !.index = 1]
                   ELSE [init EXCEPT !.index = @ + 1]
  /\ UNCHANGED <<starter, edits, stuck, raced>>

ensureStarterParent ==
  /\ At("parent")
  /\ Goto("create") \/ init' = Undo(init.created)
  /\ UNCHANGED <<starter, edits, stuck, raced>>

\* os.OpenFile with O_EXCL, then Stat on the open file.  When Stat fails
\* the file stays: nothing remembers it.
CreateFails ==
  /\ At("create")
  /\ init' = Undo(init.created)
  /\ UNCHANGED <<starter, edits, stuck, raced>>

Create ==
  /\ At("create")
  /\ starter[target] = NoFile
  /\ \E i \in Unused :
       /\ starter' = [starter EXCEPT ![target] = [by |-> "init", inode |-> i]]
       /\ \/ init' = [init EXCEPT !.at = "write", !.opened = i] /\ UNCHANGED stuck
          \/ init' = Undo(init.created) /\ stuck' = stuck \cup {target}
  /\ UNCHANGED <<edits, raced>>

Opened == [path |-> target, inode |-> init.opened]

\* Writing, syncing or closing fails: this file goes first, then the others.
WriteFails ==
  /\ At("write")
  /\ init' = Undo(Append(init.created, Opened))
  /\ UNCHANGED <<starter, edits, stuck, raced>>

Write ==
  /\ At("write")
  /\ init' = [init EXCEPT !.created = Append(@, Opened),
                          !.index = IF @ = Len(targets) THEN @ ELSE @ + 1,
                          !.at = IF init.index = Len(targets) THEN "done" ELSE "parent",
                          !.exit = IF init.index = Len(targets) THEN 0 ELSE @]
  /\ UNCHANGED <<starter, edits, stuck, raced>>

\* removeStarterFile, first half: Lstat and SameFile.
inspectStarterFile ==
  /\ At("look")
  /\ IF init.undo = <<>>
     THEN InitExit(1)
     ELSE init' = [init EXCEPT !.at = "remove",
                               !.seen = SameFile(Head(init.undo), Head(init.undo).path)]
  /\ raced' = {}
  /\ UNCHANGED <<starter, edits, stuck>>

\* A defect to detect: the file is not compared with the one that was made.
RemoveAny ==
  /\ At("remove")
  /\ starter' = [starter EXCEPT ![Head(init.undo).path] = NoFile]
  /\ init' = [init EXCEPT !.at = "look", !.undo = Tail(@)]
  /\ UNCHANGED <<edits, stuck, raced>>

\* A defect to detect: only the newest file is removed.
RemoveNewest ==
  LET path == Head(init.undo).path
  IN  /\ At("remove")
      /\ starter' = IF init.seen THEN [starter EXCEPT ![path] = NoFile] ELSE starter
      /\ init' = [init EXCEPT !.at = "look", !.undo = <<>>]
      /\ UNCHANGED <<edits, stuck, raced>>

\* Second half: os.Remove by name, whatever is there now.  Its error is dropped.
removeStarterFile ==
  LET path == Head(init.undo).path
  IN  /\ At("remove")
      /\ \/ ~init.seen /\ UNCHANGED <<starter, stuck>>
         \/ init.seen /\ starter' = [starter EXCEPT ![path] = NoFile] /\ UNCHANGED stuck
         \/ init.seen /\ stuck' = stuck \cup {path} /\ UNCHANGED starter
      /\ init' = [init EXCEPT !.at = "look", !.undo = Tail(@)]
      /\ UNCHANGED <<edits, raced>>

InitStep == \/ InspectRoot \/ InspectTarget \/ ensureStarterParent
            \/ CreateFails \/ Create \/ WriteFails \/ Write
            \/ inspectStarterFile \/ removeStarterFile

-----------------------------------------------------------------------------
(* Other programs, a second init among them. *)

Race(path) == raced' = IF At("remove") /\ Head(init.undo).path = path
                       THEN raced \cup {path} ELSE raced

OtherWrites(path) ==
  /\ edits < MaxEdits
  /\ \E i \in Unused : starter' = [starter EXCEPT ![path] = [by |-> "other", inode |-> i]]
  /\ edits' = edits + 1
  /\ Race(path)
  /\ UNCHANGED <<init, stuck>>

OtherRemoves(path) ==
  /\ edits < MaxEdits
  /\ starter[path] # NoFile
  /\ starter' = [starter EXCEPT ![path] = NoFile]
  /\ edits' = edits + 1
  /\ Race(path)
  /\ UNCHANGED <<init, stuck>>

OtherStep == \E path \in StarterPaths : OtherWrites(path) \/ OtherRemoves(path)

NextStarter == InitStep \/ OtherStep

-----------------------------------------------------------------------------
(* Properties. *)

OwnInodes == {init.undo[i].inode : i \in DOMAIN init.undo}

\* init announces success only after it made all three files, and an init
\* that fails leaves none of its files behind, unless removing one failed
\* or it could not even be looked at after it was opened (init.go:97-111).
InitAllOrNothing ==
  /\ init.exit = 0 => [i \in DOMAIN init.created |-> init.created[i].path] = targets
  /\ init.exit = 1 => \A p \in StarterPaths : starter[p].by = "init" => p \in stuck

\* init changes no file of somebody else: it creates only where nothing is,
\* and what it removes in a rollback is its own file, unless that was
\* replaced between the look and the removal, or the replacement was given
\* the same inode (init.go:172-177).
InitKeepsOthers ==
  [][InitStep =>
       \A p \in StarterPaths :
         (starter[p].by = "other" /\ starter'[p] # starter[p]) =>
           p \in raced \/ starter[p].inode \in OwnInodes]_starterVars
=============================================================================
