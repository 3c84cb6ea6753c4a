-------------------------- MODULE WorkspaceProofs --------------------------
(***************************************************************************)
(* Proofs about Workspace for any files, any number of callers of          *)
(* CompleteOnboarding and any number of crashes: the safety properties the *)
(* runs check.  What makes them hold is who may hold workspace_state.json  *)
(* open: the file a rename put in place is never the temporary one.        *)
(***************************************************************************)
EXTENDS Workspace, TLAPS

Contents == {<<>>} \cup {<<st>> : st \in State}
Whole    == [seeded |-> TRUE, completed |-> TRUE]
Seeding  == {"seed", "create", "fill", "open", "write", "rename"}

Types ==
  /\ disk \in [Files -> {"none", "empty", "template", "user"}]
  /\ inode \in [Inodes -> Contents]
  /\ statePath \in Inodes \cup {NoInode}
  /\ tmpPath \in Inodes \cup {NoInode}
  /\ boot \in Seeding \cup {"read", "up", "refused"}
  /\ bootState \in State
  /\ next \in Nat \ {0}
  /\ pc \in [Completers -> {"idle", "open", "write", "rename", "remove", "done", "failed"}]
  /\ local \in [Completers -> State]
  /\ fd \in [Writers -> Inodes \cup {NoInode}]
  /\ edits \in Nat

\* The state file and the temporary one are different files.
Paths == statePath = tmpPath => statePath = NoInode

\* The callers come after the start, which stands on the state it has read.
Start ==
  /\ boot # "up" => \A c \in Completers : pc[c] = "idle"
  /\ boot \in Seeding => Readable /\ (OnDisk.completed <=> bootState.completed)
  /\ boot = "write" => tmpPath # NoInode /\ fd[Booter] = tmpPath
  /\ boot = "rename" => /\ tmpPath # NoInode
                        /\ inode[tmpPath] = <<[bootState EXCEPT !.seeded = TRUE]>>

\* What the file being seeded may hold, and what the start has left behind it in Layout.
Seeded ==
  /\ boot \in {"create", "fill"} => next <= Len(Layout) /\ ~Skips(Layout[next])
  /\ boot = "create" => disk[Layout[next]] = "none" \/ unseen
  /\ boot = "fill" => disk[Layout[next]] \in {"none", "empty"} \/ unseen
  /\ boot = "fill" /\ edits = 0 => disk[Layout[next]] # "none"
  /\ edits = 0 /\ boot \in {"seed", "create", "fill"} =>
       \A i \in DOMAIN Layout : i < next => Layout[i] = Bootstrap \/ disk[Layout[i]] # "none"
  /\ edits = 0 /\ boot \in {"open", "write", "rename", "up"} =>
       \A f \in Files \ {Bootstrap} : disk[f] # "none"

\* A caller writes the whole state, and renames nothing older.
Calls ==
  /\ \A c \in Completers :
       /\ pc[c] \in {"open", "write"} => local[c] = Whole
       /\ pc[c] = "write" => fd[c] # NoInode
       /\ pc[c] \in {"write", "rename"} =>
            tmpPath = NoInode \/ inode[tmpPath] \in {<<>>, <<Whole>>}

\* While no two callers meet, the one that writes has the temporary file.
Unraced ==
  ~raced =>
    /\ \A c, e \in Completers :
         pc[c] \in {"write", "rename"} /\ pc[e] \in {"write", "rename"} => c = e
    /\ \A c \in Completers :
         /\ pc[c] = "write" => fd[c] = tmpPath
         /\ pc[c] = "rename" => tmpPath # NoInode /\ inode[tmpPath] # <<>>
    /\ Readable /\ boot # "refused"

Kept == finished => /\ statePath # NoInode
                    /\ inode[statePath] # <<>> => inode[statePath][1].completed

IInv == Types /\ Paths /\ Start /\ Seeded /\ Calls /\ Unraced /\ Kept

-----------------------------------------------------------------------------
(* Inodes and what they hold. *)

LEMMA NoInodeIsNone == NoInode \notin Inodes
  BY DEF NoInode, Inodes

LEMMA ContentFacts ==
  /\ \A st \in State : <<st>> \in Contents /\ <<st>> # <<>> /\ <<st>>[1] = st
  /\ <<>> \in Contents
  /\ Whole \in State /\ Whole.completed
  /\ \A st \in State : [st EXCEPT !.seeded = TRUE] \in State
                       /\ ([st EXCEPT !.seeded = TRUE].completed <=> st.completed)
  BY DEF Contents, State, Whole

LEMMA LayoutFacts == Layout \in Seq(STRING) /\ (\A i \in 1..Len(Layout) : Layout[i] \in Files)
                     /\ DOMAIN Layout = 1..Len(Layout)
  BY WorkspaceAssumption DEF Files, ToSet

\* Opening the temporary file truncates it and nothing else.
LEMMA OpenFacts ==
  ASSUME Types, Paths, NEW w \in Writers, OpenTmp(w)
  PROVE  /\ tmpPath' \in Inodes /\ fd' = [fd EXCEPT ![w] = tmpPath']
         /\ statePath' = statePath /\ tmpPath' # statePath
         /\ inode' = [inode EXCEPT ![tmpPath'] = <<>>]
         /\ inode' \in [Inodes -> Contents] /\ inode'[tmpPath'] = <<>>
         /\ \A i \in Inodes : i # tmpPath' => inode'[i] = inode[i]
<1>1. fd'[w] = tmpPath' /\ fd' = [fd EXCEPT ![w] = tmpPath'] /\ tmpPath' \in Inodes
      /\ tmpPath' # statePath
  <2>1. CASE tmpPath # NoInode
    BY <2>1 DEF OpenTmp, Types, Paths
  <2>2. CASE tmpPath = NoInode
    <3>1. PICK i \in Unused : fd' = [fd EXCEPT ![w] = i] /\ tmpPath' = i
      BY <2>2 DEF OpenTmp
    <3> QED
      BY <3>1 DEF Unused, Types
  <2> QED
    BY <2>1, <2>2
<1>2. inode' = [inode EXCEPT ![tmpPath'] = <<>>] /\ statePath' = statePath
  BY <1>1 DEF OpenTmp
<1> QED
  BY <1>1, <1>2, ContentFacts DEF Types

LEMMA DiskFacts ==
  ASSUME UNCHANGED <<inode, statePath>>
  PROVE  Readable' = Readable /\ OnDisk' = OnDisk
  BY DEF Readable, OnDisk

-----------------------------------------------------------------------------
(* The start. *)

LEMMA InitInv == Init => IInv
<1> SUFFICES ASSUME Init PROVE IInv
  OBVIOUS
<1>1. Types /\ Paths /\ Kept
  <2>1. \E preset \in Presets : disk = [f \in Files |-> IF f \in preset THEN "user" ELSE "none"]
    BY DEF Init
  <2>2. disk \in [Files -> {"none", "empty", "template", "user"}]
    BY <2>1
  <2>3. inode \in [Inodes -> Contents]
    BY ContentFacts DEF Init
  <2> QED
    BY <2>2, <2>3 DEF Init, Types, Paths, Kept, Seeding, State, Fresh
<1>2. Start /\ Seeded /\ Calls /\ Unraced
  BY DEF Init, Start, Seeded, Calls, Unraced, Seeding, Readable
<1> QED
  BY <1>1, <1>2 DEF IInv

\* The steps of EnsureLayout that touch neither the state nor the temporary file.
LEMMA SeedStep ==
  ASSUME IInv, BootRead \/ SeedCheck \/ SeedCreate \/ SeedFill \/ SeedDone
  PROVE  IInv'
<1>1. UNCHANGED <<stateVars, callVars, crashes, edits, raced, finished>> /\ boot # "up"
  BY DEF BootRead, SeedCheck, SeedCreate, SeedFill, SeedDone, auxVars
<1>2. Readable' = Readable /\ OnDisk' = OnDisk
  BY <1>1, DiskFacts DEF stateVars
<1>3. \A c \in Completers : pc[c] = "idle" /\ pc'[c] = "idle"
  BY <1>1 DEF IInv, Start, callVars
<1>4. OnDisk \in State \/ ~Readable
  BY ContentFacts DEF IInv, Types, OnDisk, Readable, Fresh, State, Contents
<1>5. Paths' /\ Kept' /\ Calls'
  BY <1>1, <1>3 DEF IInv, Paths, Kept, Calls, stateVars
<1>6. CASE BootRead
  <2>1. Types'
    BY <1>1, <1>4, <1>6 DEF IInv, Types, BootRead, stateVars, callVars, Seeding
  <2>2. Start'
    BY <1>1, <1>2, <1>3, <1>6 DEF IInv, Start, BootRead, Seeding
  <2>3. Seeded'
    BY <1>1, <1>6, LayoutFacts DEF IInv, Seeded, BootRead
  <2>4. Unraced'
    BY <1>1, <1>2, <1>3, <1>6 DEF IInv, Unraced, BootRead
  <2> QED
    BY <1>5, <2>1, <2>2, <2>3, <2>4 DEF IInv
<1>7. CASE SeedCheck \/ SeedCreate \/ SeedFill \/ SeedDone
  <2>1. boot \in Seeding /\ boot' \in Seeding \cup {"up"} /\ UNCHANGED bootState
        /\ boot' \notin {"write", "rename"}
    BY <1>7 DEF SeedCheck, SeedCreate, SeedFill, SeedDone, Seeding
  <2>2. Start'
    BY <1>1, <1>2, <1>3, <2>1 DEF IInv, Start
  <2>3. Unraced'
    BY <1>1, <1>2, <1>3, <2>1 DEF IInv, Unraced, Seeding
  <2>4. Types' /\ Seeded'
    <3>1. CASE SeedCheck
      <4>1. /\ boot = "seed" /\ next <= Len(Layout) /\ UNCHANGED <<disk, bootState, isNew, wrote, edits>>
        BY <3>1 DEF SeedCheck
      <4>2. CASE Skips(Layout[next]) \/ disk[Layout[next]] # "none"
        <5>1. CASE next' = next + 1 /\ boot' = boot
          BY <1>1, <4>1, <4>2, <5>1, LayoutFacts
             DEF IInv, Types, Seeded, Skips, stateVars, callVars, Seeding
        <5>2. CASE boot' = "create" /\ next' = next /\ ~Skips(Layout[next]) /\ unseen' = TRUE
          BY <1>1, <4>1, <5>2, LayoutFacts
             DEF IInv, Types, Seeded, Skips, stateVars, callVars, Seeding
        <5> QED
          BY <3>1, <4>2, <5>1, <5>2 DEF SeedCheck
      <4>3. CASE ~Skips(Layout[next]) /\ disk[Layout[next]] = "none"
        <5>1. boot' = "create" /\ next' = next
          BY <3>1, <4>3 DEF SeedCheck
        <5> QED
          BY <1>1, <4>1, <4>3, <5>1, LayoutFacts
             DEF IInv, Types, Seeded, Skips, stateVars, callVars, Seeding
      <4> QED
        BY <4>2, <4>3
    <3>2. CASE SeedCreate
      BY <1>1, <2>1, <3>2, LayoutFacts
         DEF IInv, Types, Seeded, SeedCreate, Skips, stateVars, callVars, Seeding
    <3>3. CASE SeedFill
      <4>1. PICK content \in {"template", "user", disk[Layout[next]]} :
              /\ disk' = [disk EXCEPT ![Layout[next]] = content]
              /\ content = "none" => disk[Layout[next]] = "none"
        BY <3>3 DEF SeedFill
      <4>2. /\ boot = "fill" /\ boot' = "seed" /\ next' = next + 1 /\ next \in 1..Len(Layout)
            /\ Layout[next] \in Files /\ UNCHANGED <<bootState, isNew, unseen>>
        BY <3>3, LayoutFacts DEF IInv, Types, Seeded, SeedFill
      <4>3. disk' \in [Files -> {"none", "empty", "template", "user"}]
        BY <4>1, <4>2 DEF IInv, Types
      <4>4. edits = 0 => \A i \in DOMAIN Layout : i < next' => Layout[i] = Bootstrap \/ disk'[Layout[i]] # "none"
        <5> SUFFICES ASSUME edits = 0, NEW i \in DOMAIN Layout, i < next + 1
                     PROVE  Layout[i] = Bootstrap \/ disk'[Layout[i]] # "none"
          BY <4>2
        <5>1. disk[Layout[next]] # "none" /\ content # "none"
          BY <4>1, <4>2 DEF IInv, Seeded
        <5>2. CASE Layout[i] = Layout[next]
          BY <4>1, <4>2, <5>1, <5>2 DEF IInv, Types
        <5>3. CASE Layout[i] # Layout[next]
          <6>1. i < next
            BY <4>2, <5>3, LayoutFacts
          <6>2. disk'[Layout[i]] = disk[Layout[i]]
            BY <4>1, <4>2, <5>3, LayoutFacts DEF IInv, Types
          <6> QED
            BY <4>2, <6>1, <6>2 DEF IInv, Seeded
        <5> QED
          BY <5>2, <5>3
      <4> QED
        BY <1>1, <4>2, <4>3, <4>4 DEF IInv, Types, Seeded, stateVars, callVars, Seeding
    <3>4. CASE SeedDone
      <4>1. edits = 0 => \A f \in Files \ {Bootstrap} : disk[f] # "none"
        BY <3>4, LayoutFacts DEF IInv, Types, Seeded, SeedDone, Files, ToSet
      <4> QED
        BY <1>1, <2>1, <3>4, <4>1
           DEF IInv, Types, Seeded, SeedDone, stateVars, callVars, auxVars, Seeding
    <3> QED
      BY <1>7, <3>1, <3>2, <3>3, <3>4
  <2> QED
    BY <1>5, <2>2, <2>3, <2>4 DEF IInv
<1> QED
  BY <1>6, <1>7

LEMMA BootStateStep ==
  ASSUME IInv, BootOpen \/ BootWrite \/ BootRename
  PROVE  IInv'
<1>1. /\ UNCHANGED <<disk, bootState, next, unseen, callVars, auxVars>> /\ boot \in Seeding
      /\ boot' \in {"write", "rename", "up"}
  BY DEF BootOpen, BootWrite, BootRename, Seeding
<1>2. \A c \in Completers : pc[c] = "idle" /\ pc'[c] = "idle"
  BY <1>1 DEF IInv, Start, Seeding, callVars
<1>3. Seeded' /\ Calls'
  BY <1>1, <1>2 DEF IInv, Seeded, Calls, Seeding, BootOpen, BootWrite, BootRename, auxVars
<1>4. Readable /\ (OnDisk.completed <=> bootState.completed)
  BY <1>1 DEF IInv, Start
<1>5. Booter \in Writers /\ bootState \in State
  BY DEF IInv, Types, Writers
<1>6. CASE BootOpen
  <2>1. OpenTmp(Booter) /\ boot' = "write"
    BY <1>6 DEF BootOpen
  <2>2. /\ tmpPath' \in Inodes /\ fd' = [fd EXCEPT ![Booter] = tmpPath']
        /\ statePath' = statePath /\ tmpPath' # statePath
        /\ inode' \in [Inodes -> Contents]
        /\ \A i \in Inodes : i # tmpPath' => inode'[i] = inode[i]
    BY <1>5, <2>1, OpenFacts DEF IInv
  <2>3. statePath \in Inodes => inode'[statePath] = inode[statePath]
    BY <2>2
  <2>4. Readable' /\ OnDisk' = OnDisk
    BY <1>4, <2>2, <2>3 DEF IInv, Types, Readable, OnDisk
  <2>5. Types' /\ Paths' /\ Kept'
    BY <1>1, <2>1, <2>2, <2>3, NoInodeIsNone
       DEF IInv, Types, Paths, Kept, Seeding, callVars, auxVars
  <2>6. Start' /\ Unraced'
    BY <1>1, <1>2, <1>4, <1>5, <2>1, <2>2, <2>4, NoInodeIsNone
       DEF IInv, Types, Start, Unraced, auxVars
  <2> QED
    BY <1>3, <2>5, <2>6 DEF IInv
<1>7. CASE BootWrite
  <2> DEFINE st == [bootState EXCEPT !.seeded = TRUE]
  <2>1. /\ boot = "write" /\ boot' = "rename" /\ tmpPath # NoInode /\ fd[Booter] = tmpPath
        /\ inode' = [inode EXCEPT ![tmpPath] = <<st>>]
        /\ fd' = [fd EXCEPT ![Booter] = NoInode]
        /\ UNCHANGED <<statePath, tmpPath>>
    BY <1>7 DEF IInv, Start, BootWrite, WriteTmp
  <2>2. st \in State /\ <<st>> \in Contents
    BY <1>5, ContentFacts
  <2> HIDE DEF st
  <2>3. statePath # NoInode => statePath # tmpPath /\ inode'[statePath] = inode[statePath]
    BY <2>1 DEF IInv, Types, Paths
  <2>4. Readable' /\ OnDisk' = OnDisk
    BY <1>4, <2>1, <2>3 DEF Readable, OnDisk
  <2>5. Types' /\ Paths' /\ Kept'
    BY <1>1, <2>1, <2>2, <2>3 DEF IInv, Types, Paths, Kept, Seeding, callVars, auxVars
  <2>6. Start' /\ Unraced'
    BY <1>1, <1>2, <1>4, <2>1, <2>4 DEF st, IInv, Types, Start, Unraced, auxVars
  <2> QED
    BY <1>3, <2>5, <2>6 DEF IInv
<1>8. CASE BootRename
  <2>1. /\ boot = "rename" /\ boot' = "up" /\ tmpPath \in Inodes
        /\ statePath' = tmpPath /\ tmpPath' = NoInode /\ UNCHANGED <<inode, fd>>
        /\ inode[tmpPath] = <<[bootState EXCEPT !.seeded = TRUE]>>
    BY <1>8 DEF IInv, Types, Start, BootRename, RenameTmp
  <2>2. inode[tmpPath] # <<>> /\ (inode[tmpPath][1].completed <=> bootState.completed)
    <3> DEFINE st == [bootState EXCEPT !.seeded = TRUE]
    <3>1. inode[tmpPath] = <<st>>
      BY <2>1
    <3>2. st \in State /\ (st.completed <=> bootState.completed)
      BY <1>5, ContentFacts
    <3>3. <<st>> # <<>> /\ <<st>>[1] = st
      BY <3>2, ContentFacts
    <3> HIDE DEF st
    <3> QED
      BY <3>1, <3>2, <3>3
  <2>3. finished => bootState.completed
    BY <1>4 DEF IInv, Kept, OnDisk, Readable
  <2>4. Types' /\ Paths' /\ Kept'
    BY <1>1, <2>1, <2>2, <2>3, NoInodeIsNone
       DEF IInv, Types, Paths, Kept, Seeding, callVars, auxVars
  <2>5. Start' /\ Unraced'
    BY <1>1, <1>2, <2>1, <2>2 DEF IInv, Start, Unraced, Readable, Seeding, auxVars
  <2> QED
    BY <1>3, <2>4, <2>5 DEF IInv
<1> QED
  BY <1>6, <1>7, <1>8

-----------------------------------------------------------------------------
(* The callers of CompleteOnboarding. *)

LEMMA CallStep ==
  ASSUME IInv, NEW c \in Completers,
         CompleteRead(c) \/ CompleteOpen(c) \/ CompleteWrite(c) \/ CompleteRename(c)
         \/ CompleteRemove(c)
  PROVE  IInv'
<1>1. boot = "up" /\ UNCHANGED bootVars /\ c \in Writers
  BY DEF IInv, Start, Types, Seeding, CompleteRead, CompleteOpen, CompleteWrite, CompleteRename,
         CompleteRemove, Writers
<1>2. Start'
  BY <1>1 DEF Start, Seeding, bootVars
<1>3. CASE CompleteRead(c) \/ CompleteRemove(c)
  <2>1. UNCHANGED <<stateVars, auxVars>>
    BY <1>3 DEF CompleteRead, CompleteRemove
  <2>2. Readable' = Readable /\ OnDisk' = OnDisk
    BY <2>1, DiskFacts DEF stateVars
  <2>3. Types' /\ Paths' /\ Kept'
    <3>1. local' \in [Completers -> State]
      <4>1. local' \in {local, [local EXCEPT ![c] = Whole]}
        BY <1>3 DEF CompleteRead, CompleteRemove, Whole
      <4> QED
        BY <4>1, ContentFacts DEF IInv, Types
    <3> QED
      BY <1>1, <1>3, <2>1, <3>1 DEF IInv, Types, Paths, Kept, CompleteRead, CompleteRemove, CGoto,
                                    bootVars, stateVars, auxVars
  <2>4. Seeded'
    BY <1>1, <1>3, <2>1 DEF IInv, Types, Seeded, CompleteRead, CompleteRemove, bootVars, auxVars
  <2>5. Calls'
    BY <1>3, <2>1 DEF IInv, Types, Calls, CompleteRead, CompleteRemove, CGoto, stateVars, Whole
  <2>6. Unraced'
    BY <1>1, <1>3, <2>1, <2>2
       DEF IInv, Types, Unraced, CompleteRead, CompleteRemove, CGoto, bootVars, stateVars, auxVars
  <2> QED
    BY <1>2, <2>3, <2>4, <2>5, <2>6 DEF IInv
<1>4. CASE CompleteOpen(c)
  <2>1. /\ tmpPath' \in Inodes /\ fd' = [fd EXCEPT ![c] = tmpPath']
        /\ statePath' = statePath /\ tmpPath' # statePath
        /\ inode' \in [Inodes -> Contents] /\ inode'[tmpPath'] = <<>>
        /\ \A i \in Inodes : i # tmpPath' => inode'[i] = inode[i]
    BY <1>1, <1>4, OpenFacts DEF IInv, CompleteOpen
  <2>2. pc[c] = "open" /\ pc' = [pc EXCEPT ![c] = "write"] /\ UNCHANGED <<disk, local, edits, finished>>
        /\ raced' = (raced \/ \E e \in Completers : pc[e] \in {"write", "rename"})
    BY <1>4 DEF CompleteOpen, CGoto
  <2>3. statePath \in Inodes => inode'[statePath] = inode[statePath]
    BY <2>1
  <2>4. Readable' <=> Readable
    BY <2>1, <2>3 DEF IInv, Types, Readable
  <2>5. Types' /\ Paths' /\ Kept' /\ Seeded'
    BY <1>1, <2>1, <2>2, <2>3, NoInodeIsNone
       DEF IInv, Types, Paths, Kept, Seeded, bootVars
  <2>6. Calls'
    <3>1. \A e \in Completers : pc'[e] = IF e = c THEN "write" ELSE pc[e]
      BY <2>2 DEF IInv, Types
    <3>2. fd'[c] = tmpPath' /\ tmpPath' # NoInode
          /\ \A e \in Completers : e # c => fd'[e] = fd[e]
      BY <1>1, <2>1, NoInodeIsNone DEF IInv, Types, Writers
    <3>3. inode'[tmpPath'] \in {<<>>, <<Whole>>}
      BY <2>1
    <3>4. pc[c] = "open" /\ UNCHANGED local
      BY <2>2
    <3> QED
      BY <3>1, <3>2, <3>3, <3>4 DEF IInv, Calls
  <2>7. Unraced'
    BY <1>1, <2>1, <2>2, <2>4 DEF IInv, Types, Unraced, bootVars
  <2> QED
    BY <1>2, <2>5, <2>6, <2>7 DEF IInv
<1>5. CASE CompleteWrite(c)
  <2>1. /\ pc[c] = "write" /\ local[c] = Whole /\ fd[c] \in Inodes
        /\ inode' = [inode EXCEPT ![fd[c]] = <<Whole>>]
        /\ fd' = [fd EXCEPT ![c] = NoInode]
        /\ pc' = [pc EXCEPT ![c] = "rename"]
        /\ UNCHANGED <<disk, local, statePath, tmpPath, auxVars>>
    BY <1>1, <1>5 DEF IInv, Types, Calls, CompleteWrite, WriteTmp, CGoto
  <2>2. inode' \in [Inodes -> Contents] /\ inode'[fd[c]] = <<Whole>> /\ <<Whole>> # <<>>
        /\ \A i \in Inodes : inode'[i] \in {inode[i], <<Whole>>}
    BY <2>1, ContentFacts DEF IInv, Types
  <2>3. Readable => Readable'
    BY <2>1, <2>2 DEF IInv, Types, Readable
  <2>4. Types' /\ Paths' /\ Seeded'
    BY <1>1, <2>1, <2>2 DEF IInv, Types, Paths, Seeded, bootVars, auxVars
  <2>5. Kept'
    <3>1. statePath \in Inodes =>
            inode'[statePath] = inode[statePath] \/ inode'[statePath][1] = Whole
      BY <2>2, ContentFacts
    <3> QED
      BY <2>1, <3>1, ContentFacts DEF IInv, Types, Kept, auxVars
  <2>6. Calls'
    <3>1. \A e \in Completers : pc'[e] = IF e = c THEN "rename" ELSE pc[e]
      BY <2>1 DEF IInv, Types
    <3>2. \A e \in Completers : e # c => fd'[e] = fd[e]
      BY <1>1, <2>1 DEF IInv, Types, Writers
    <3>3. \A e \in Completers : pc[e] \in {"write", "rename"} =>
            tmpPath' = NoInode \/ inode'[tmpPath'] \in {<<>>, <<Whole>>}
      <4>1. tmpPath # NoInode => inode'[tmpPath] \in {inode[tmpPath], <<Whole>>}
        BY <2>2 DEF IInv, Types
      <4> QED
        BY <2>1, <4>1 DEF IInv, Calls
    <3> QED
      BY <2>1, <3>1, <3>2, <3>3 DEF IInv, Calls
  <2>7. Unraced'
    BY <1>1, <2>1, <2>2, <2>3, NoInodeIsNone DEF IInv, Types, Unraced, bootVars, auxVars
  <2> QED
    BY <1>2, <2>4, <2>5, <2>6, <2>7 DEF IInv
<1>6. CASE CompleteRename(c)
  <2>1. CASE RenameTmp /\ CGoto(c, "remove") /\ finished' = TRUE
    <3>1. /\ pc[c] = "rename" /\ pc' = [pc EXCEPT ![c] = "remove"] /\ tmpPath \in Inodes
          /\ statePath' = tmpPath /\ tmpPath' = NoInode
          /\ UNCHANGED <<disk, inode, fd, local, edits, raced>>
      BY <1>6, <2>1 DEF IInv, Types, CompleteRename, RenameTmp, CGoto
    <3>2. inode[tmpPath] \in {<<>>, <<Whole>>}
      BY <3>1, NoInodeIsNone DEF IInv, Calls
    <3>3. inode[tmpPath] # <<>> => inode[tmpPath][1].completed
      BY <3>2, ContentFacts
    <3>4. Types' /\ Paths' /\ Seeded' /\ Calls' /\ Kept'
      BY <1>1, <3>1, <3>3, NoInodeIsNone
         DEF IInv, Types, Paths, Seeded, Calls, Kept, bootVars
    <3>5. Unraced'
      BY <1>1, <3>1, NoInodeIsNone DEF IInv, Types, Unraced, Readable, bootVars
    <3> QED
      BY <1>2, <3>4, <3>5 DEF IInv
  <2>2. CASE CGoto(c, "failed") /\ UNCHANGED <<stateVars, finished>>
    <3>1. pc' = [pc EXCEPT ![c] = "failed"]
          /\ UNCHANGED <<disk, inode, statePath, tmpPath, fd, local, edits, raced, finished>>
      BY <1>6, <2>2 DEF CompleteRename, CGoto, stateVars
    <3>2. Readable' = Readable
      BY <3>1, DiskFacts
    <3>3. Types' /\ Paths' /\ Seeded' /\ Calls' /\ Kept' /\ Unraced'
      BY <1>1, <3>1, <3>2 DEF IInv, Types, Paths, Seeded, Calls, Kept, Unraced, bootVars
    <3> QED
      BY <1>2, <3>3 DEF IInv
  <2> QED
    BY <1>6, <2>1, <2>2 DEF CompleteRename
<1> QED
  BY <1>3, <1>4, <1>5, <1>6

-----------------------------------------------------------------------------
(* The world, and every step. *)

LEMMA WorldStep ==
  ASSUME IInv, CrashRestart \/ \E f \in Files : Edit(f)
  PROVE  IInv'
<1>1. CASE CrashRestart
  <2>1. /\ boot' = "read" /\ next' = 1 /\ unseen' = FALSE /\ pc' = [c \in Completers |-> "idle"]
        /\ fd' = [w \in Writers |-> NoInode]
        /\ UNCHANGED <<disk, inode, statePath, tmpPath, bootState, local, edits, raced, finished>>
    BY <1>1 DEF CrashRestart
  <2>2. Readable' = Readable
    BY <2>1, DiskFacts
  <2>3. Types' /\ Paths' /\ Kept'
    BY <2>1 DEF IInv, Types, Paths, Kept
  <2>4. Start' /\ Seeded' /\ Calls' /\ Unraced'
    BY <2>1, <2>2 DEF IInv, Start, Seeded, Calls, Unraced, Seeding
  <2> QED
    BY <2>3, <2>4 DEF IInv
<1>2. ASSUME NEW f \in Files, Edit(f) PROVE IInv'
  <2>1. /\ edits' = edits + 1
        /\ UNCHANGED <<boot, bootState, isNew, next, pc, local, inode, statePath, tmpPath, fd, raced,
                       finished>>
    BY <1>2 DEF Edit, callVars, stateVars
  <2> PICK content \in {"user", "none"} :
        /\ disk' = [disk EXCEPT ![f] = content]
        /\ unseen' = (unseen \/ (boot \in {"create", "fill"} /\ f = Layout[next] /\ content = "user"))
    BY <1>2 DEF Edit
  <2>d. disk' \in [Files -> {"none", "empty", "template", "user"}]
    BY DEF IInv, Types
  <2>2. Readable' = Readable
    BY <2>1, DiskFacts
  <2>3. Types' /\ Paths' /\ Kept'
    BY <2>1, <2>d DEF IInv, Types, Paths, Kept
  <2>4. Start' /\ Calls' /\ Unraced'
    <3>1. OnDisk' = OnDisk
      BY <2>1, DiskFacts
    <3> QED
      BY <2>1, <2>2, <3>1 DEF IInv, Types, Start, Calls, Unraced
  <2>5. Seeded'
    <3>1. edits' # 0
      BY <2>1 DEF IInv, Types
    <3>2. \A g \in Files : Skips(g)' = Skips(g)
      BY <2>1 DEF Skips
    <3>3. boot \in {"create", "fill"} => Layout[next] \in Files /\ ~Skips(Layout[next])'
      BY <2>1, <3>2, LayoutFacts DEF IInv, Types, Seeded
    <3>4. CASE f = Layout[next] /\ boot \in {"create", "fill"}
      <4>1. disk'[Layout[next]] = content
        BY <3>3, <3>4 DEF IInv, Types
      <4>2. content = "user" => unseen'
        BY <3>4
      <4> QED
        BY <2>1, <3>1, <3>3, <4>1, <4>2 DEF IInv, Seeded
    <3>5. CASE ~(f = Layout[next] /\ boot \in {"create", "fill"})
      <4>1. boot \in {"create", "fill"} => disk'[Layout[next]] = disk[Layout[next]]
        BY <3>3, <3>5 DEF IInv, Types
      <4>2. unseen => unseen'
        OBVIOUS
      <4> QED
        BY <2>1, <3>1, <3>3, <4>1, <4>2 DEF IInv, Seeded
    <3> QED
      BY <3>4, <3>5
  <2> QED
    BY <2>3, <2>4, <2>5 DEF IInv
<1> QED
  BY <1>1, <1>2

LEMMA Invariance == Spec => []IInv
<1>1. IInv /\ [Next]_vars => IInv'
  <2> SUFFICES ASSUME IInv, [Next]_vars PROVE IInv'
    OBVIOUS
  <2>1. CASE UNCHANGED vars
    BY <2>1 DEF IInv, Types, Paths, Start, Seeded, Calls, Unraced, Kept, Readable, OnDisk, Skips, vars
  <2>2. CASE Next
    BY <2>2, SeedStep, BootStateStep, CallStep, WorldStep DEF Next
  <2> QED
    BY <2>1, <2>2
<1> QED
  BY InitInv, <1>1, PTL DEF Spec

-----------------------------------------------------------------------------

(***************************************************************************)
(* A crash leaves a state file that does not parse only if two calls of    *)
(* CompleteOnboarding once had the temporary file at the same time.        *)
(***************************************************************************)
THEOREM StateIsReadable == Spec => []StateStaysReadable
<1>1. IInv => StateStaysReadable
  BY DEF IInv, Unraced, StateStaysReadable
<1> QED
  BY <1>1, Invariance, PTL

(***************************************************************************)
(* Onboarding that completed reads as complete ever after.                 *)
(***************************************************************************)
THEOREM CompletionIsKept == Spec => []CompletedSticks
<1>1. IInv => CompletedSticks
  BY DEF IInv, Kept, CompletedSticks, Readable, OnDisk
<1> QED
  BY <1>1, Invariance, PTL

(***************************************************************************)
(* A start that has finished has left every file but BOOTSTRAP.md.         *)
(***************************************************************************)
THEOREM LayoutIsSeeded == Spec => []LayoutIsComplete
<1>1. IInv => LayoutIsComplete
  BY DEF IInv, Seeded, LayoutIsComplete
<1> QED
  BY <1>1, Invariance, PTL

\* Which steps change a file, and how.
LEMMA DiskSteps ==
  ASSUME IInv, Next, NEW f \in Files, disk'[f] # disk[f]
  PROVE  \/ /\ boot \in {"create", "fill"} /\ f = Layout[next] /\ ~Skips(f)
            /\ disk[f] \in {"none", "empty"} \/ unseen
         \/ f = Bootstrap /\ disk'[f] = "none"
         \/ edits' # edits
<1>1. CASE SeedCreate
  BY <1>1, LayoutFacts DEF IInv, Types, Seeded, SeedCreate
<1>2. CASE SeedFill
  <2>1. \E content : disk' = [disk EXCEPT ![Layout[next]] = content]
    BY <1>2 DEF SeedFill
  <2> QED
    BY <1>2, <2>1, LayoutFacts DEF IInv, Types, Seeded, SeedFill
<1>3. ASSUME NEW c \in Completers, CompleteRemove(c)
      PROVE  f = Bootstrap /\ disk'[f] = "none"
  BY <1>3, WorkspaceAssumption DEF IInv, Types, CompleteRemove
<1>4. ASSUME NEW g \in Files, Edit(g)
      PROVE  edits' # edits
  BY <1>4 DEF IInv, Types, Edit
<1>5. CASE UNCHANGED disk
  BY <1>5
<1> QED
  BY <1>1, <1>2, <1>3, <1>4, <1>5
     DEF Next, BootRead, SeedCheck, SeedDone, BootOpen, BootWrite, BootRename, CompleteRead,
         CompleteOpen, CompleteWrite, CompleteRename, CrashRestart

(***************************************************************************)
(* What a start overwrites was saved between its check and its write, or   *)
(* its check failed: nothing that the check of this start has seen is      *)
(* lost, however often seeding is interrupted and begins again.            *)
(***************************************************************************)
THEOREM SeenContentIsKept == Spec => SeedSparesWhatItSees
<1>1. IInv /\ [Next]_vars =>
        [\A f \in Files :
           disk[f] \in {"template", "user"} /\ disk'[f] # disk[f] =>
             \/ edits' # edits
             \/ f = Bootstrap /\ disk'[f] = "none"
             \/ boot \in {"create", "fill"} /\ f = Layout[next] /\ unseen]_vars
  <2> SUFFICES ASSUME IInv, Next, NEW f \in Files, disk[f] \in {"template", "user"},
                      disk'[f] # disk[f]
               PROVE  \/ edits' # edits
                      \/ f = Bootstrap /\ disk'[f] = "none"
                      \/ boot \in {"create", "fill"} /\ f = Layout[next] /\ unseen
    BY DEF vars
  <2> QED
    BY DiskSteps
<1> QED
  BY <1>1, Invariance, PTL DEF Spec, SeedSparesWhatItSees

(***************************************************************************)
(* BOOTSTRAP.md does not come back after onboarding.                       *)
(***************************************************************************)
THEOREM BootstrapIsOneTime == Spec => BootstrapStaysAway
<1>1. IInv /\ [Next]_vars =>
        [Completed /\ disk[Bootstrap] = "none" =>
           disk'[Bootstrap] = "none" \/ edits' # edits]_vars
  <2> SUFFICES ASSUME IInv, Next, Completed, disk[Bootstrap] = "none",
                      disk'[Bootstrap] # "none", edits' = edits
               PROVE  FALSE
    BY DEF vars
  <2>1. boot \in {"create", "fill"} /\ ~Skips(Bootstrap)
    BY DiskSteps, WorkspaceAssumption
  <2>2. OnDisk.completed /\ (OnDisk.completed <=> bootState.completed)
    BY <2>1 DEF IInv, Start, Completed, Seeding
  <2> QED
    BY <2>1, <2>2 DEF Skips
<1> QED
  BY <1>1, Invariance, PTL DEF Spec, BootstrapStaysAway

=============================================================================
