-------------------------------- MODULE Skills --------------------------------
(***************************************************************************)
(* The skills service (internal/skills) as concurrent runs use it.  A run  *)
(* reads the skill files of the workspace one by one, without a lock,      *)
(* stores the list in the service (LoadAll), and then selects from the     *)
(* list the service holds (SelectForMessage), which may be that of another *)
(* run by then.  Meanwhile the user edits the files.                       *)
(***************************************************************************)
EXTENDS Integers, Sequences, FiniteSets, SequencesExt

CONSTANTS
  Runs,        \* runs and requests that load the skills
  Messages,    \* what a run may be asked
  Dirs,        \* number of skill directories, in sorted order
  DirName(_),  \* what a directory's name is as a skill's name
  Files,       \* what a user may put in a directory
  First(_),    \* what a directory holds at first
  Enabled, AutoMatch, MaxInjected, Allowlist, Disabled, \* Config; names whose entry is disabled
  ReadFails,   \* whether ReadDir may fail
  MaxEdits     \* bound: edits of the user

\* Names are numbers, in their alphabetical order.  A file that loadOne rejects,
\* a directory without the file and no directory at all have no name of their own.
Names == Nat \ {0}
Broken == [there |-> TRUE, name |-> 0]
Gone   == [there |-> FALSE, name |-> 0]
FileType == {Broken, Gone} \cup [there : {TRUE}, name : Names]

DirSet == 1..Dirs

\* The names that skills may have here.
SkillNames ==
  ({f.name : f \in Files} \cup UNION {{First(d).name, DirName(d)} : d \in DirSet}) \ {0}

\* explicit: the names that "/skill" asks for.  score: how many of its words a
\* skill's text contains.  A listing only loads.
IsMessage(m) ==
  /\ m.explicit \in Seq(Names) /\ IsInjective(m.explicit)
  /\ m.score \in [SkillNames -> Nat]
  /\ m.listing \in BOOLEAN

ASSUME SkillsAssumption ==
  /\ Dirs \in Nat /\ MaxInjected \in Int /\ MaxEdits \in Nat
  /\ Files \subseteq FileType /\ \A m \in Messages : IsMessage(m)
  /\ \A d \in DirSet : DirName(d) \in Names /\ First(d) \in FileType
  /\ Allowlist \subseteq Names /\ Disabled \subseteq Names
  /\ {Enabled, AutoMatch, ReadFails} \subseteq BOOLEAN

VARIABLES
  disk,    \* the versions of each directory's file, the last is the present one
  loaded,  \* Service.loaded
  pc,      \* each run: "idle", "scan", "select", "done"
  message,
  todo,    \* directories the scan has yet to read, in sorted order
  list,    \* what the scan has found, then what LoadAll has returned
  outcome, \* what became of the request for skills
  base,    \* auxiliary: versions no newer than any a list stored after Begin can have
  raced    \* auxiliary: runs whose list was replaced before they selected

vars == <<disk, loaded, pc, message, todo, list, outcome, base, raced>>

Present(d) == Last(disk[d])
Version(d) == Len(disk[d])

\* kind: "none", "injected", "rejected".
NoOutcome == [kind |-> "none", skills |-> <<>>, reasons |-> <<>>]

Init ==
  /\ disk = [d \in DirSet |-> <<First(d)>>]
  /\ loaded = <<>>
  /\ pc = [r \in Runs |-> "idle"]
  /\ message = [r \in Runs |-> CHOOSE m \in Messages : TRUE]
  /\ todo = [r \in Runs |-> {}]
  /\ list = [r \in Runs |-> <<>>]
  /\ outcome = [r \in Runs |-> NoOutcome]
  /\ base = [r \in Runs |-> [d \in DirSet |-> 0]]
  /\ raced = {}

\* The user edits, adds or removes a skill.
Edit(d) ==
  /\ MapThenSumSet(Version, DirSet) < Dirs + MaxEdits
  /\ \E f \in Files \ {Present(d)} : disk' = [disk EXCEPT ![d] = Append(@, f)]
  /\ UNCHANGED <<loaded, pc, message, todo, list, outcome, base, raced>>

-----------------------------------------------------------------------------
(* LoadAll *)

\* ReadDir.  One that fails leaves no directories to read, like an empty one.
Begin(r, m) ==
  /\ pc[r] = "idle"
  /\ pc' = [pc EXCEPT ![r] = "scan"]
  /\ message' = [message EXCEPT ![r] = m]
  /\ \/ todo' = [todo EXCEPT ![r] = {d \in DirSet : Present(d).there}]
     \/ ReadFails /\ UNCHANGED todo
  /\ LET scans == {q \in Runs : pc[q] = "scan"}
     IN base' = [base EXCEPT ![r] =
                   [d \in DirSet |-> Min({Version(d)} \cup {base[q][d] : q \in scans})]]
  /\ UNCHANGED <<disk, loaded, list, outcome, raced>>

IsEnabled(skill) == skill.reason = "no"

Seen(skills) == {skills[i].name : i \in {i \in DOMAIN skills : IsEnabled(skills[i])}}

\* Why a skill is blocked, the first reason that applies.
Reason(name, parsed, seen) ==
  IF ~Enabled THEN "global_disabled"
  ELSE IF ~parsed THEN "parse_error"
  ELSE IF name \in Disabled THEN "entry_disabled"
  ELSE IF Allowlist # {} /\ name \notin Allowlist THEN "not_allowlisted"
  ELSE IF name \in seen THEN "duplicate_name"
  ELSE "no"

\* loadOne, and the gates.
Load(d, seen) ==
  LET parsed == Present(d).name # 0
      name   == IF parsed THEN Present(d).name ELSE DirName(d)
  IN [dir |-> d, version |-> Version(d), name |-> name, reason |-> Reason(name, parsed, seen)]

\* Mutant: the names already taken are never remembered.
ReadOneUnseen(r) ==
  /\ pc[r] = "scan" /\ todo[r] # {}
  /\ list' = [list EXCEPT ![r] = Append(@, Load(Min(todo[r]), {}))]
  /\ todo' = [todo EXCEPT ![r] = @ \ {Min(@)}]
  /\ UNCHANGED <<disk, loaded, pc, message, outcome, base, raced>>

ReadOne(r) ==
  /\ pc[r] = "scan" /\ todo[r] # {}
  /\ list' = [list EXCEPT ![r] = Append(@, Load(Min(todo[r]), Seen(@)))]
  /\ todo' = [todo EXCEPT ![r] = @ \ {Min(@)}]
  /\ UNCHANGED <<disk, loaded, pc, message, outcome, base, raced>>

Stored(r) ==
  /\ pc' = [pc EXCEPT ![r] = IF message[r].listing THEN "done" ELSE "select"]
  /\ raced' = raced \cup {q \in Runs : pc[q] = "select"}
  /\ UNCHANGED <<disk, message, todo, list, outcome, base>>

\* Mutant: a list that is there is kept.
PublishOnce(r) ==
  /\ pc[r] = "scan" /\ todo[r] = {}
  /\ loaded' = IF loaded = <<>> THEN list[r] ELSE loaded
  /\ Stored(r)

\* setLoaded
Publish(r) ==
  /\ pc[r] = "scan" /\ todo[r] = {}
  /\ loaded' = list[r]
  /\ Stored(r)

-----------------------------------------------------------------------------
(* SelectForMessage, and what Run makes of it. *)

Limit == IF MaxInjected <= 0 THEN 1 ELSE MaxInjected

AtMost(n, s) == SubSeq(s, 1, IF Len(s) < n THEN Len(s) ELSE n)

\* The elements of S as before orders them.
Ranked(S, before) ==
  [i \in 1..Cardinality(S) |->
     CHOOSE x \in S : Cardinality({y \in S : <<y, x>> \in before}) = i - 1]

\* selectExplicitSkills: the enabled ones among those asked for, in the order asked.
Explicit(m, enabled) ==
  LET found == {i \in DOMAIN m.explicit : \E s \in enabled : s.name = m.explicit[i]}
      order == Ranked(found, {p \in found \X found : p[1] < p[2]})
  IN AtMost(Limit, [k \in DOMAIN order |-> CHOOSE s \in enabled : s.name = m.explicit[order[k]]])

\* SliceStable: the best first, equals by name, and those in the order of the scan.
Better(m, s, t) ==
  \/ m.score[s.name] > m.score[t.name]
  \/ m.score[s.name] = m.score[t.name] /\ (s.name < t.name \/ (s.name = t.name /\ s.dir < t.dir))

\* selectAutoMatchedSkills
AutoMatched(m, enabled) ==
  LET hits == {s \in enabled : m.score[s.name] > 0}
  IN AtMost(Limit, Ranked(hits, {p \in hits \X hits : Better(m, p[1], p[2])}))

SelectForMessage(m, skills) ==
  LET enabled == {s \in ToSet(skills) : IsEnabled(s)}
  IN IF m.explicit # <<>> THEN Explicit(m, enabled)
     ELSE IF AutoMatch THEN AutoMatched(m, enabled) ELSE <<>>

\* The reasons come from the list the run's own LoadAll returned.
WhyNot(name, skills) ==
  LET at == {i \in DOMAIN skills : skills[i].name = name}
      sk == skills[Min(at)]
  IN IF at = {} THEN "not found" ELSE IF IsEnabled(sk) THEN "unavailable" ELSE sk.reason

Outcome(m, own, skills) ==
  LET selected == SelectForMessage(m, skills)
  IN IF selected # <<>> THEN [NoOutcome EXCEPT !.kind = "injected", !.skills = selected]
     ELSE IF m.explicit # <<>>
     THEN [NoOutcome EXCEPT !.kind = "rejected",
                            !.reasons = [i \in DOMAIN m.explicit |-> WhyNot(m.explicit[i], own)]]
     ELSE NoOutcome

Select(r) ==
  /\ pc[r] = "select"
  /\ outcome' = [outcome EXCEPT ![r] = Outcome(message[r], list[r], loaded)]
  /\ pc' = [pc EXCEPT ![r] = "done"]
  /\ UNCHANGED <<disk, loaded, message, todo, list, base, raced>>

-----------------------------------------------------------------------------

Next ==
  \/ \E d \in DirSet : Edit(d)
  \/ \E r \in Runs, m \in Messages : Begin(r, m)
  \/ \E r \in Runs : ReadOne(r) \/ Publish(r) \/ Select(r)

Spec == Init /\ [][Next]_vars

-----------------------------------------------------------------------------

Allowed(r) ==
  LET m  == message[r]
      sk == outcome[r].skills
  IN /\ Len(sk) <= Limit
     /\ \A i, j \in DOMAIN sk : sk[i].name = sk[j].name => i = j
     /\ \A i \in DOMAIN sk :
          LET name == sk[i].name
          IN /\ name # 0 /\ name = disk[sk[i].dir][sk[i].version].name
             /\ Enabled /\ name \notin Disabled /\ (Allowlist = {} \/ name \in Allowlist)
             /\ IF m.explicit # <<>> THEN name \in ToSet(m.explicit)
                ELSE AutoMatch /\ m.score[name] > 0
             /\ m.explicit = <<>> /\ i < Len(sk) => m.score[name] >= m.score[sk[i + 1].name]

(***************************************************************************)
(* Whatever list a run selects from, each skill it injects is one of a few *)
(* names, all different: a file that parsed gave it that name, the         *)
(* configuration lets it through, and the message asked for it or matches  *)
(* it, better than or as well as the next one injected.                    *)
(***************************************************************************)
InjectedIsAllowed == \A r \in Runs : Allowed(r)

Recent(r) ==
  /\ \A i \in DOMAIN outcome[r].skills :
       LET s == outcome[r].skills[i] IN s.version >= base[r][s.dir]
  /\ pc[r] = "done" /\ ~message[r].listing /\ r \notin raced =>
       /\ outcome[r] = Outcome(message[r], list[r], list[r])
       /\ "unavailable" \notin ToSet(outcome[r].reasons)

(***************************************************************************)
(* No run uses a list from before its time: a skill it injects was in the  *)
(* file after the beginning of the oldest scan under way when the run      *)
(* began.  A run whose list nobody replaced acts on its own scan; only one *)
(* whose list was replaced may be told that a skill is "unavailable".      *)
(***************************************************************************)
InjectedIsFresh == \A r \in Runs : Recent(r)
=============================================================================
