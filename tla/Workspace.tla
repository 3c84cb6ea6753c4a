------------------------------ MODULE Workspace ------------------------------
(***************************************************************************)
(* Seeding of the workspace and the onboarding state                       *)
(* (internal/workspace/files.go): EnsureLayout runs once at every start,   *)
(* before anything else; CompleteOnboarding is called by chat commands and *)
(* by WebSocket requests, concurrently, with no lock.  The process may     *)
(* crash between any two file operations; os.WriteFile is two of them      *)
(* (open with O_TRUNC, write), and a rename moves an inode other writers   *)
(* may still have open.  The user may save or delete a file at any time,   *)
(* also while a start seeds.                                               *)
(***************************************************************************)
EXTENDS Integers, Sequences, FiniteSets, SequencesExt

CONSTANTS
  Layout,      \* BootstrapFiles: the files in the order they are seeded
  Bootstrap,   \* "BOOTSTRAP.md", one of them
  Presets,     \* sets of files the operator may have put there before the first start
  Completers,  \* concurrent callers of CompleteOnboarding (removeBootstrap = TRUE)
  MaxCrashes,  \* bound: crashes of the process
  MaxEdits,    \* bound: files the user or a profile update rewrites or deletes
  MaxFaults    \* bound: starts whose os.Stat fails on what is there

Files == ToSet(Layout)

ASSUME WorkspaceAssumption ==
  /\ Layout \in Seq(STRING)
  /\ Bootstrap \in Files /\ Presets \subseteq SUBSET Files
  /\ MaxCrashes \in Nat /\ MaxEdits \in Nat /\ MaxFaults \in Nat

VARIABLES
  disk,      \* content of each file: "none", "empty", "template", "user"
  inode,     \* content of each inode of the state file: empty or one State
  statePath, \* the inode workspace_state.json names, or NoInode
  tmpPath,   \* the inode workspace_state.json.tmp names, or NoInode
  boot,      \* EnsureLayout: "read", "seed" (a file's check), "create", "fill", then
             \* "open", "write", "rename" of the state; "up" or "refused" at the end
  bootState, \* the state EnsureLayout read
  isNew,     \* workspaceIsNew
  wrote,     \* seeded: this start wrote a file
  next,      \* index of the file EnsureLayout is at
  pc,        \* each completer: "idle", "open", "write", "rename", "remove", "done", "failed"
  local,     \* the state each completer is to write
  fd,        \* the inode each writer has open
  crashes, edits, faults,
  unseen,    \* auxiliary: what the file being seeded holds, its check did not see
  raced,     \* auxiliary: two callers once had the temporary file open or written
  finished   \* auxiliary: some CompleteOnboarding has renamed its state into place

vars == <<disk, inode, statePath, tmpPath, boot, bootState, isNew, wrote, next, pc, local, fd,
          crashes, edits, faults, unseen, raced, finished>>

bootVars  == <<boot, bootState, isNew, wrote, next, unseen>>
callVars  == <<pc, local>>
stateVars == <<inode, statePath, tmpPath, fd>>
auxVars   == <<crashes, edits, faults, raced, finished>>

Booter  == "booter"
Writers == Completers \cup {Booter}
State   == [seeded : BOOLEAN, completed : BOOLEAN]
Fresh   == [seeded |-> FALSE, completed |-> FALSE]

\* As many inodes as may be named or open at once.
Inodes  == 1..(Cardinality(Completers) + 3)
NoInode == 0
Unused  == {i \in Inodes : i \notin {statePath, tmpPath} \cup {fd[w] : w \in Writers}}

\* readState: no file is the zero state; an empty file does not parse.
Readable == statePath = NoInode \/ inode[statePath] # <<>>
OnDisk   == IF statePath = NoInode THEN Fresh ELSE inode[statePath][1]
Completed == Readable /\ OnDisk.completed

Init ==
  /\ \E preset \in Presets : disk = [f \in Files |-> IF f \in preset THEN "user" ELSE "none"]
  /\ inode = [i \in Inodes |-> <<>>]
  /\ statePath = NoInode /\ tmpPath = NoInode
  /\ boot = "read" /\ bootState = Fresh /\ isNew = FALSE /\ wrote = FALSE /\ next = 1
  /\ pc = [c \in Completers |-> "idle"]
  /\ local = [c \in Completers |-> Fresh]
  /\ fd = [w \in Writers |-> NoInode]
  /\ crashes = 0 /\ edits = 0 /\ faults = 0
  /\ unseen = FALSE /\ raced = FALSE /\ finished = FALSE

-----------------------------------------------------------------------------
(* writeState, as three steps of writer w. *)

\* Mutant: the state is written in place.
OpenInPlace(w) ==
  /\ IF statePath # NoInode
     THEN fd' = [fd EXCEPT ![w] = statePath] /\ UNCHANGED statePath
     ELSE \E i \in Unused : fd' = [fd EXCEPT ![w] = i] /\ statePath' = i
  /\ tmpPath' = fd'[w]
  /\ inode' = [inode EXCEPT ![fd'[w]] = <<>>]

\* Opening the temporary file truncates the one that is there.
OpenTmp(w) ==
  /\ IF tmpPath # NoInode
     THEN fd' = [fd EXCEPT ![w] = tmpPath] /\ UNCHANGED tmpPath
     ELSE \E i \in Unused : fd' = [fd EXCEPT ![w] = i] /\ tmpPath' = i
  /\ inode' = [inode EXCEPT ![fd'[w]] = <<>>]
  /\ UNCHANGED statePath

WriteTmp(w, st) ==
  /\ inode' = [inode EXCEPT ![fd[w]] = <<st>>]
  /\ fd' = [fd EXCEPT ![w] = NoInode]
  /\ UNCHANGED <<statePath, tmpPath>>

\* The rename fails if another writer has moved the file away.
RenameTmp ==
  /\ tmpPath # NoInode
  /\ statePath' = tmpPath
  /\ tmpPath' = NoInode
  /\ UNCHANGED <<inode, fd>>

-----------------------------------------------------------------------------
(* EnsureLayout. *)

Fault == faults < MaxFaults /\ faults' = faults + 1

\* isWorkspaceNew: a file whose os.Stat fails counts as missing.
LooksNew ==
  \/ isNew' = (\A f \in Files : disk[f] = "none") /\ UNCHANGED faults
  \/ isNew' = TRUE /\ Fault

\* Mutant: a state that does not parse counts as no state.
BootReadTolerant ==
  /\ boot = "read"
  /\ boot' = "seed" /\ bootState' = IF Readable THEN OnDisk ELSE Fresh
  /\ LooksNew
  /\ wrote' = FALSE /\ next' = 1
  /\ UNCHANGED <<disk, stateVars, callVars, crashes, edits, unseen, raced, finished>>

\* readState and isWorkspaceNew; a state that does not parse stops the daemon.
BootRead ==
  /\ boot = "read"
  /\ IF Readable
     THEN boot' = "seed" /\ bootState' = OnDisk
     ELSE boot' = "refused" /\ UNCHANGED bootState
  /\ LooksNew
  /\ wrote' = FALSE /\ next' = 1
  /\ UNCHANGED <<disk, stateVars, callVars, crashes, edits, unseen, raced, finished>>

\* Mutant: onboarding that is complete does not keep BOOTSTRAP.md away.
SkipsIfOld(f) == f = Bootstrap /\ ~isNew /\ ~bootState.seeded

\* Mutant: a workspace with files in it needs no seeding.
SkipsUnlessNew(f) == ~isNew \/ (f = Bootstrap /\ bootState.completed)

Skips(f) == f = Bootstrap /\ (bootState.completed \/ (~isNew /\ ~bootState.seeded))

\* ensureFile.  Mutant: a workspace that was new when the start looked is not checked.
SeedChecksOnce ==
  /\ boot = "seed" /\ next <= Len(Layout)
  /\ IF Skips(Layout[next]) \/ (~isNew /\ disk[Layout[next]] # "none")
     THEN next' = next + 1 /\ UNCHANGED boot
     ELSE boot' = "create" /\ UNCHANGED next
  /\ unseen' = FALSE
  /\ UNCHANGED <<disk, bootState, isNew, wrote, stateVars, callVars, auxVars>>

\* ensureFile: a file that os.Stat finds is left alone; any error of it, not only
\* "does not exist", makes the file a missing one...
SeedCheck ==
  /\ boot = "seed" /\ next <= Len(Layout)
  /\ \/ /\ Skips(Layout[next]) \/ disk[Layout[next]] # "none"
        /\ next' = next + 1 /\ unseen' = FALSE
        /\ UNCHANGED <<boot, faults>>
     \/ /\ ~Skips(Layout[next])
        /\ IF disk[Layout[next]] = "none" THEN UNCHANGED faults ELSE Fault
        /\ boot' = "create" /\ unseen' = (disk[Layout[next]] # "none")
        /\ UNCHANGED next
  /\ UNCHANGED <<disk, bootState, isNew, wrote, stateVars, callVars, crashes, edits, raced, finished>>

\* ...which is created, or emptied if it is there by now...
SeedCreate ==
  /\ boot = "create"
  /\ disk' = [disk EXCEPT ![Layout[next]] = "empty"]
  /\ boot' = "fill"
  /\ UNCHANGED <<bootState, isNew, wrote, next, unseen, stateVars, callVars, auxVars>>

\* ...and filled.  If the user has saved the file in between, in place or under its
\* name, the template goes over that or into the file that has lost its name.
SeedFill ==
  /\ boot = "fill"
  /\ LET f == Layout[next]
     IN \E content \in CASE disk[f] = "empty" -> {"template"}
                         [] disk[f] = "user"  -> {"template", "user"}
                         [] OTHER             -> {disk[f]} :
          disk' = [disk EXCEPT ![f] = content]
  /\ boot' = "seed" /\ wrote' = TRUE /\ next' = next + 1
  /\ UNCHANGED <<bootState, isNew, unseen, stateVars, callVars, auxVars>>

\* The state is written only by the start that seeds for the first time.
SeedDone ==
  /\ boot = "seed" /\ next > Len(Layout)
  /\ boot' = IF wrote /\ ~bootState.seeded THEN "open" ELSE "up"
  /\ UNCHANGED <<disk, bootState, isNew, wrote, next, unseen, stateVars, callVars, auxVars>>

BootOpen ==
  /\ boot = "open"
  /\ OpenTmp(Booter) /\ boot' = "write"
  /\ UNCHANGED <<disk, bootState, isNew, wrote, next, unseen, callVars, auxVars>>

BootWrite ==
  /\ boot = "write"
  /\ WriteTmp(Booter, [bootState EXCEPT !.seeded = TRUE]) /\ boot' = "rename"
  /\ UNCHANGED <<disk, bootState, isNew, wrote, next, unseen, callVars, auxVars>>

BootRename ==
  /\ boot = "rename"
  /\ RenameTmp /\ boot' = "up"
  /\ UNCHANGED <<disk, bootState, isNew, wrote, next, unseen, callVars, auxVars>>

-----------------------------------------------------------------------------
(* CompleteOnboarding. *)

CGoto(c, label) == pc' = [pc EXCEPT ![c] = label]

CompleteRead(c) ==
  /\ boot = "up"
  /\ pc[c] = "idle"
  /\ IF Readable
     THEN local' = [local EXCEPT ![c] = [seeded |-> TRUE, completed |-> TRUE]] /\ CGoto(c, "open")
     ELSE CGoto(c, "failed") /\ UNCHANGED local
  /\ UNCHANGED <<disk, bootVars, stateVars, auxVars>>

CompleteOpen(c) ==
  /\ pc[c] = "open"
  /\ OpenTmp(c) /\ CGoto(c, "write")
  /\ raced' = (raced \/ \E other \in Completers : pc[other] \in {"write", "rename"})
  /\ UNCHANGED <<disk, bootVars, local, crashes, edits, faults, finished>>

CompleteWrite(c) ==
  /\ pc[c] = "write"
  /\ WriteTmp(c, local[c]) /\ CGoto(c, "rename")
  /\ UNCHANGED <<disk, bootVars, local, auxVars>>

CompleteRename(c) ==
  /\ pc[c] = "rename"
  /\ \/ RenameTmp /\ CGoto(c, "remove") /\ finished' = TRUE
     \/ tmpPath = NoInode /\ CGoto(c, "failed") /\ UNCHANGED <<stateVars, finished>>
  /\ UNCHANGED <<disk, bootVars, local, crashes, edits, faults, raced>>

CompleteRemove(c) ==
  /\ pc[c] = "remove"
  /\ disk' = [disk EXCEPT ![Bootstrap] = "none"]
  /\ CGoto(c, "done")
  /\ UNCHANGED <<bootVars, stateVars, local, auxVars>>

-----------------------------------------------------------------------------
(* The world. *)

\* The user, an agent's tool or a profile update saves or deletes a file.
Edit(f) ==
  /\ edits < MaxEdits
  /\ \E content \in {"user", "none"} :
       /\ disk' = [disk EXCEPT ![f] = content]
       /\ unseen' = (unseen \/ (boot \in {"create", "fill"} /\ f = Layout[next] /\ content = "user"))
  /\ edits' = edits + 1
  /\ UNCHANGED <<boot, bootState, isNew, wrote, next, stateVars, callVars, crashes, faults, raced,
                 finished>>

\* The process dies, or an operation of the start fails and stops it, and it is
\* started again; the files stay as they are.
CrashRestart ==
  /\ crashes < MaxCrashes
  /\ crashes' = crashes + 1
  /\ boot' = "read" /\ next' = 1 /\ wrote' = FALSE /\ unseen' = FALSE
  /\ pc' = [c \in Completers |-> "idle"]
  /\ fd' = [w \in Writers |-> NoInode]
  /\ UNCHANGED <<disk, inode, statePath, tmpPath, bootState, isNew, local, edits, faults, raced,
                 finished>>

Next ==
  \/ BootRead \/ SeedCheck \/ SeedCreate \/ SeedFill \/ SeedDone \/ BootOpen \/ BootWrite \/ BootRename
  \/ \E c \in Completers :
       \/ CompleteRead(c) \/ CompleteOpen(c) \/ CompleteWrite(c) \/ CompleteRename(c)
       \/ CompleteRemove(c)
  \/ \E f \in Files : Edit(f)
  \/ CrashRestart

Spec == Init /\ [][Next]_vars

-----------------------------------------------------------------------------

(***************************************************************************)
(* Seeding overwrites only what its check could not see: a file loses what *)
(* it holds to the user or, BOOTSTRAP.md, to the end of onboarding, or, if *)
(* the start is just creating it, when it was saved after its check or the *)
(* check failed.  What was there before, in this start or an earlier one,  *)
(* stays.                                                                  *)
(***************************************************************************)
SeedSparesWhatItSees ==
  [][\A f \in Files :
       disk[f] \in {"template", "user"} /\ disk'[f] # disk[f] =>
         \/ edits' # edits
         \/ f = Bootstrap /\ disk'[f] = "none"
         \/ boot \in {"create", "fill"} /\ f = Layout[next] /\ unseen]_vars

(***************************************************************************)
(* As long as no two callers wrote the state at the same time, no crash    *)
(* leaves a state file that does not parse: the daemon starts again.       *)
(***************************************************************************)
StateStaysReadable == ~raced => Readable /\ boot # "refused"

(***************************************************************************)
(* Onboarding that was once completed reads as complete ever after: a      *)
(* concurrent writer or a crash may leave the file unreadable, but nothing *)
(* puts an older state in its place.                                       *)
(***************************************************************************)
CompletedSticks == finished /\ Readable => OnDisk.completed

(***************************************************************************)
(* BOOTSTRAP.md does not come back once it is gone and onboarding is       *)
(* complete, unless the user brings it back: no start seeds it again,      *)
(* after whatever crash between the state and the removal.                 *)
(***************************************************************************)
BootstrapStaysAway ==
  [][Completed /\ disk[Bootstrap] = "none" =>
       disk'[Bootstrap] = "none" \/ edits' # edits]_vars

(***************************************************************************)
(* A start that has finished has every file but BOOTSTRAP.md.              *)
(***************************************************************************)
LayoutIsComplete ==
  boot = "up" /\ edits = 0 => \A f \in Files \ {Bootstrap} : disk[f] # "none"

(***************************************************************************)
(* "BOOTSTRAP.md is one-time and removed after onboarding complete": once  *)
(* onboarding is complete and nobody is still at it, the file is gone.     *)
(***************************************************************************)
BootstrapIsRemoved ==
  boot = "up" /\ Completed /\ (\A c \in Completers : pc[c] \in {"idle", "done", "failed"}) =>
    disk[Bootstrap] = "none"

=============================================================================
