---------------------------- MODULE ProfileProofs ----------------------------
(***************************************************************************)
(* The profile service implements the atomic document of ProfileDoc, for   *)
(* any callers, files, lines and proposals and any number of faults and    *)
(* crashes.  A step that renames is the only one that changes a file, and  *)
(* it must write what the document computes from the file as it is then:   *)
(* Held says that only the holder of a path's lock is between read and     *)
(* unlock, Ready that what it carries is still up to date.                 *)
(***************************************************************************)
EXTENDS Profile, FiniteSetTheorems, TLAPS

Labels == {"idle", "lock", "read", "write", "rename", "stat", "delete"} \cup Stopped

Types ==
  /\ file = [f \in Files |-> file[f]]
  /\ tmp = [f \in Files |-> tmp[f]]
  /\ holder \in [Files -> Callers \cup {Nobody}]
  /\ pc \in [Callers -> Labels]
  /\ req \in [Callers -> Requests]
  /\ next = [c \in Callers |-> next[c]]
  /\ \A id \in DOMAIN proposals :
       LET r == proposals[id].request
       IN r \in Requests /\ r.mode = "patch" /\ Doc!Plain(r.line)

Locked == {"read", "write", "rename", "stat"}

Held == \A c \in Callers : pc[c] \in Locked => holder[req[c].file] = c

Ready ==
  \A c \in Callers :
    /\ pc[c] \in {"write", "rename"} =>
         /\ next[c] = Doc!Updated(Doc!Seen(c), req[c])
         /\ req[c].mode # "preview"
    /\ pc[c] = "rename" => tmp[req[c].file] = next[c]

IInv == Types /\ Held /\ Ready

-----------------------------------------------------------------------------

\* There is a request to start from.
LEMMA SomeRequest == (CHOOSE r \in Requests : TRUE) \in Requests
<1>1. PICK f \in Files, k \in Keys, v \in Values : TRUE
  BY ProfileAssumption
<1>2. [mode |-> "replace", file |-> f, line |-> [key |-> k, value |-> v]] \in Requests
  BY <1>1 DEF Requests, Doc!Requests, Doc!Modes, Doc!Lines
<1> QED
  BY <1>2

-----------------------------------------------------------------------------

LEMMA InitIInv == Init => IInv
<1> SUFFICES ASSUME Init PROVE IInv
  OBVIOUS
<1>1. req \in [Callers -> Requests]
  BY SomeRequest DEF Init
<1>2. file = [f \in Files |-> file[f]]
  BY ProfileAssumption DEF Init
<1> QED
  BY <1>1, <1>2 DEF Init, IInv, Types, Held, Ready, Labels, Partial, Locked

\* The holder of a lock may go anywhere with it.
LEMMA Keeps ==
  ASSUME Held, pc \in [Callers -> Labels], NEW c \in Callers, NEW label, pc[c] \in Locked,
         Goto(c, label), UNCHANGED <<holder, req>>
  PROVE  Held'
<1>1. \A d \in Callers : pc'[d] \in Locked => pc[d] \in Locked
  BY DEF Goto
<1> QED
  BY <1>1 DEF Held

\* It gives up the lock when it leaves the steps that need it.
LEMMA Leaves ==
  ASSUME Held, pc \in [Callers -> Labels], NEW c \in Callers, NEW label, pc[c] \in Locked,
         label \notin Locked, Goto(c, label), Unlock(c), UNCHANGED req,
         holder \in [Files -> Callers \cup {Nobody}], \A d \in Callers : req[d].file \in Files
  PROVE  Held'
<1>1. \A d \in Callers : pc'[d] \in Locked => d # c /\ pc[d] \in Locked
  BY DEF Goto
<1>2. \A d \in Callers : pc'[d] \in Locked => req[d].file # req[c].file
  BY <1>1 DEF Held
<1>3. \A f \in Files : f # req[c].file => holder'[f] = holder[f]
  BY DEF Unlock
<1> QED
  BY <1>1, <1>2, <1>3 DEF Held

\* A caller that starts or is refused disturbs nobody.
LEMMA Starts ==
  ASSUME Held, Ready, pc \in [Callers -> Labels], NEW c \in Callers, NEW label, label \notin Locked,
         Goto(c, label), UNCHANGED <<diskVars, holder, next, blind>>,
         \A d \in Callers : d # c => req'[d] = req[d]
  PROVE  Held' /\ Ready'
<1>1. \A d \in Callers : pc'[d] \in Locked => d # c /\ pc'[d] = pc[d]
  BY DEF Goto
<1>2. \A d \in Callers : d # c => Doc!Seen(d)' = Doc!Seen(d)
  BY DEF Doc!Seen, diskVars
<1>3. Held'
  BY <1>1 DEF Held
<1>4. Ready'
  BY <1>1, <1>2 DEF Ready, Locked, diskVars
<1> QED
  BY <1>3, <1>4

LEMMA StepIInv == IInv /\ [Next]_vars => IInv'
<1> SUFFICES ASSUME IInv, [Next]_vars PROVE IInv'
  OBVIOUS
<1> USE ProfileAssumption
    DEF IInv, Types, Held, Ready, Locked, Labels, Stopped, Goto, Unlock, diskVars, callVars,
        proposalVars, bounds, Doc!Seen
<1>0. \A c \in Callers : req[c].file \in Files
  BY DEF Requests, Doc!Requests
<1>a. \A c, d \in Callers : pc[c] \in Locked /\ pc[d] \in Locked /\ c # d => req[c].file # req[d].file
  OBVIOUS
<1>1. ASSUME NEW c \in Callers, Lock(c) PROVE IInv'
  BY <1>0, <1>1 DEF Lock
<1>2. ASSUME NEW c \in Callers, ReadFails(c) PROVE IInv'
  BY <1>0, <1>2 DEF ReadFails, Fault
<1>3. ASSUME NEW c \in Callers, RefusePatch(c) PROVE IInv'
  BY <1>0, <1>3 DEF RefusePatch
<1>4. ASSUME NEW c \in Callers, Compute(c) PROVE IInv'
  <2>2. Types'
    BY <1>0, <1>4 DEF Compute
  <2>a. pc[c] \in Locked /\ UNCHANGED req
    BY <1>4 DEF Compute
  <2>b. \/ Goto(c, "done") /\ Unlock(c)
        \/ Goto(c, "write") /\ UNCHANGED holder
    BY <1>4 DEF Compute
  <2>3. Held'
    BY ONLY IInv, <1>0, <2>a, <2>b, Keeps, Leaves DEF IInv, Types, Locked
  <2>4. Ready'
    BY <1>0, <1>4 DEF Compute
  <2> QED
    BY <2>2, <2>3, <2>4
<1>5. ASSUME NEW c \in Callers, WriteTmp(c) PROVE IInv'
  <2>a. PICK t : tmp' = [tmp EXCEPT ![req[c].file] = t]
    BY <1>5 DEF WriteTmp
  <2>2. Types'
    <3>1. tmp' = [f \in Files |-> tmp'[f]]
      BY ONLY IInv, <2>a DEF IInv, Types
    <3> QED
      BY <1>0, <1>5, <3>1 DEF WriteTmp, Fault
  <2>b. pc[c] \in Locked /\ UNCHANGED req
    BY <1>5 DEF WriteTmp
  <2>c. \/ Goto(c, "failed") /\ Unlock(c)
        \/ Goto(c, "rename") /\ UNCHANGED holder
    BY <1>5 DEF WriteTmp
  <2>3. Held'
    BY ONLY IInv, <1>0, <2>b, <2>c, Keeps, Leaves DEF IInv, Types, Locked
  <2>4. \A d \in Callers : Doc!Seen(d)' = Doc!Seen(d)
    BY <1>5 DEF WriteTmp
  <2>5. ASSUME NEW d \in Callers, pc'[d] = "rename" PROVE tmp'[req[d].file] = next[d]
    <3>1. CASE d = c
      BY <1>0, <1>5, <2>5, <3>1 DEF WriteTmp
    <3>2. CASE d # c
      <4>1. pc[d] = "rename" /\ pc[c] = "write"
        BY <1>5, <2>5, <3>2 DEF WriteTmp
      <4> QED
        BY <1>0, <1>a, <2>a, <4>1, <3>2
    <3> QED
      BY <3>1, <3>2
  <2>6. Ready'
    BY <1>0, <1>5, <2>4, <2>5 DEF WriteTmp
  <2> QED
    BY <2>2, <2>3, <2>6
<1>6. ASSUME NEW c \in Callers, Rename(c) PROVE IInv'
  <2>2. Types'
    <3>1. \/ UNCHANGED <<file, tmp>>
          \/ /\ file' = [file EXCEPT ![req[c].file] = tmp[req[c].file]]
             /\ tmp' = [tmp EXCEPT ![req[c].file] = Partial]
      BY <1>6 DEF Rename
    <3>2. tmp' = [f \in Files |-> tmp'[f]] /\ file' = [f \in Files |-> file'[f]]
      BY <3>1
    <3> QED
      BY <1>0, <1>6, <3>2 DEF Rename, Fault
  <2>b. pc[c] \in Locked /\ UNCHANGED req
    BY <1>6 DEF Rename
  <2>c. \/ Goto(c, "failed") /\ Unlock(c)
        \/ Goto(c, "stat") /\ UNCHANGED holder
    BY <1>6 DEF Rename
  <2>3. Held'
    BY ONLY IInv, <1>0, <2>b, <2>c, Keeps, Leaves DEF IInv, Types, Locked
  <2>4. \A d \in Callers : pc'[d] \in {"write", "rename"} => Doc!Seen(d)' = Doc!Seen(d)
    BY <1>0, <1>a, <1>6 DEF Rename, Fault
  <2>5. ASSUME NEW d \in Callers, pc'[d] = "rename" PROVE tmp'[req[d].file] = next[d]
    <3>1. d # c /\ pc[d] = "rename" /\ pc[c] = "rename"
      BY <1>6, <2>5 DEF Rename
    <3>2. tmp[req[d].file] = next[d] /\ req[d].file # req[c].file
      BY <1>a, <3>1
    <3> QED
      BY <1>0, <1>6, <3>2 DEF Rename
  <2>6. \A d \in Callers : pc'[d] \in {"write", "rename"} => pc[d] \in {"write", "rename"}
    BY <1>6 DEF Rename
  <2>7. UNCHANGED <<next, req>>
    BY <1>6 DEF Rename
  <2>8. Ready'
    BY ONLY IInv, <2>4, <2>5, <2>6, <2>7 DEF IInv, Ready
  <2> QED
    BY <2>2, <2>3, <2>8
<1>7. ASSUME NEW c \in Callers, Stat(c) PROVE IInv'
  <2>1. Types'
    BY <1>0, <1>7 DEF Stat, Fault
  <2>a. pc[c] \in Locked /\ UNCHANGED req /\ Unlock(c)
    BY <1>7 DEF Stat
  <2>b. PICK label \in {"done", "delete", "failed"} : Goto(c, label)
    BY <1>7 DEF Stat
  <2>2. Held'
    BY ONLY IInv, <1>0, <2>a, <2>b, Leaves DEF IInv, Types, Locked
  <2>3. Ready'
    BY <1>0, <1>7 DEF Stat, Fault
  <2> QED
    BY <2>1, <2>2, <2>3
<1>8. ASSUME NEW c \in Callers, Delete(c) PROVE IInv'
  BY <1>0, <1>8 DEF Delete, Forget
<1>9. ASSUME NEW c \in Callers, Update(c) PROVE IInv'
  <2>1. Types'
    <3>1. req' \in [Callers -> Requests]
      <4>1. Inputs \subseteq Requests
        BY ONLY ProfileAssumption DEF ProfileAssumption
      <4>2. \/ \E r \in Inputs : req' = [req EXCEPT ![c] = r]
            \/ UNCHANGED req
        BY ONLY <1>9 DEF Update
      <4> QED
        BY ONLY <4>1, <4>2, IInv DEF IInv, Types
    <3>2. pc' \in [Callers -> Labels]
      BY <1>9 DEF Update
    <3> QED
      BY <1>9, <3>1, <3>2 DEF Update
  <2>2. PICK label \in {"lock", "failed"} : Goto(c, label)
    BY <1>9 DEF Update
  <2>3. UNCHANGED <<diskVars, holder, next, blind>> /\ \A d \in Callers : d # c => req'[d] = req[d]
    BY <1>9 DEF Update
  <2>4. Held' /\ Ready'
    BY ONLY IInv, <2>2, <2>3, Starts DEF IInv, Types, Locked
  <2> QED
    BY <2>1, <2>4
<1>10. ASSUME NEW c \in Callers, NEW s \in Sessions, NEW id \in Proposals, Apply(c, s, id)
       PROVE IInv'
  <2>1. Types'
    <3>1. req' \in [Callers -> Requests]
      BY <1>10 DEF Apply, Forget
    <3>2. pc' \in [Callers -> Labels]
      BY <1>10 DEF Apply, Forget
    <3> QED
      BY <1>10, <3>1, <3>2 DEF Apply, Forget
  <2>2. PICK label \in {"lock", "failed"} : Goto(c, label)
    BY <1>10 DEF Apply
  <2>3. UNCHANGED <<diskVars, holder, next, blind>> /\ \A d \in Callers : d # c => req'[d] = req[d]
    BY <1>10 DEF Apply
  <2>4. Held' /\ Ready'
    BY ONLY IInv, <2>2, <2>3, Starts DEF IInv, Types, Locked
  <2> QED
    BY <2>1, <2>4
<1>11. ASSUME NEW s \in Sessions, Propose(s) PROVE IInv'
  BY <1>0, <1>11 DEF Propose
<1>12. ASSUME NEW id \in Proposals, Expire(id) PROVE IInv'
  BY <1>12 DEF Expire
<1>13. CASE Latest
  BY <1>13 DEF Latest, Forget
<1>14. CASE Restart
  BY <1>14 DEF Restart
<1>15. CASE UNCHANGED vars
  BY <1>15 DEF vars
<1> QED
  BY <1>1, <1>2, <1>3, <1>4, <1>5, <1>6, <1>7, <1>8, <1>9, <1>10, <1>11, <1>12, <1>13, <1>14,
     <1>15 DEF Next, Step

-----------------------------------------------------------------------------

LEMMA InitDocument == Init => Doc!DocInit
<1> SUFFICES ASSUME Init PROVE Doc!DocInit
  OBVIOUS
<1>1. req \in [Callers -> Requests]
  BY SomeRequest DEF Init
<1>2. file \in [Files -> Seq(Lines)]
  BY ProfileAssumption DEF Init
<1> QED
  BY <1>1, <1>2 DEF Init, Doc!DocInit, phase, PhaseOf, Requests, Lines

\* The phases a call goes through.
LEMMA Phases ==
  /\ PhaseOf("idle") = "idle"
  /\ \A label \in {"lock", "read", "write", "rename"} : PhaseOf(label) = "asked"
  /\ \A label \in {"stat", "delete"} : PhaseOf(label) = "taken"
  /\ PhaseOf("done") = "ok" /\ PhaseOf("failed") = "failed"
BY DEF PhaseOf

\* A caller that goes to another place goes to the phase of that place.
LEMMA Moves ==
  ASSUME NEW c \in Callers, NEW label, pc \in [Callers -> Labels], Goto(c, label)
  PROVE  Doc!Move(c, PhaseOf(pc[c]), PhaseOf(label))
<1>1. \A d \in Callers : pc'[d] = IF d = c THEN label ELSE pc[d]
  BY DEF Goto
<1>2. phase[c] = PhaseOf(pc[c])
  BY DEF phase
<1>3. phase' = [phase EXCEPT ![c] = PhaseOf(label)]
  BY <1>1 DEF phase
<1> QED
  BY <1>2, <1>3 DEF Doc!Move

\* Within a phase nothing moves.
LEMMA Stays ==
  ASSUME NEW c \in Callers, NEW label, pc \in [Callers -> Labels], Goto(c, label),
         PhaseOf(label) = PhaseOf(pc[c])
  PROVE  UNCHANGED phase
<1>1. \A d \in Callers : pc'[d] = IF d = c THEN label ELSE pc[d]
  BY DEF Goto
<1> QED
  BY <1>1 DEF phase

\* Going to "failed" from within a call is a failure of the call.
LEMMA Fails ==
  ASSUME NEW c \in Callers, pc \in [Callers -> Labels], Goto(c, "failed"),
         pc[c] \in {"lock", "read", "write", "rename", "stat"}, UNCHANGED <<file, req, blind>>
  PROVE  Doc!Fail(c)
<1>1. Doc!Move(c, PhaseOf(pc[c]), "failed")
  BY Moves, Phases
<1> QED
  BY <1>1, Phases DEF Doc!Move, Doc!Fail

\* Every step of the service is one of the document, or none.
LEMMA StepDocument == IInv /\ [Next]_vars => [Doc!DocNext]_(Doc!docVars)
<1> SUFFICES ASSUME IInv, [Next]_vars PROVE Doc!DocNext \/ UNCHANGED Doc!docVars
  OBVIOUS
<1> USE DEF diskVars, callVars, proposalVars, bounds, Doc!docVars
<1>0. pc \in [Callers -> Labels]
  BY DEF IInv, Types
<1>1. ASSUME NEW c \in Callers, Lock(c) PROVE UNCHANGED Doc!docVars
  <2>1. pc[c] = "lock" /\ Goto(c, "read")
    BY <1>1 DEF Lock
  <2>2. UNCHANGED phase
    BY <2>1, <1>0, Stays, Phases
  <2> QED
    BY <1>1, <2>2 DEF Lock
<1>2. ASSUME NEW c \in Callers, ReadFails(c) PROVE Doc!Misread(c)
  <2>1. UNCHANGED phase /\ phase[c] = "asked"
    BY <1>2, Phases DEF ReadFails, phase
  <2> QED
    BY <1>2, <2>1 DEF ReadFails, Doc!Misread
<1>3. ASSUME NEW c \in Callers, RefusePatch(c) PROVE Doc!Fail(c)
  BY <1>0, <1>3, Fails DEF RefusePatch
<1>4. ASSUME NEW c \in Callers, Compute(c) PROVE Doc!Peek(c) \/ UNCHANGED Doc!docVars
  <2>1. pc[c] = "read" /\ UNCHANGED <<file, req, blind>>
    BY <1>4 DEF Compute
  <2>2. CASE req[c].mode = "preview" /\ Goto(c, "done")
    <3>1. Doc!Move(c, "asked", "ok")
      BY <1>0, <2>1, <2>2, Moves, Phases
    <3> QED
      BY <2>1, <2>2, <3>1 DEF Doc!Peek
  <2>3. CASE Goto(c, "write")
    <3>1. UNCHANGED phase
      BY <1>0, <2>1, <2>3, Stays, Phases
    <3> QED
      BY <2>1, <3>1
  <2> QED
    BY <1>4, <2>2, <2>3 DEF Compute
<1>5. ASSUME NEW c \in Callers, WriteTmp(c) PROVE Doc!Fail(c) \/ UNCHANGED Doc!docVars
  <2>1. pc[c] = "write" /\ UNCHANGED <<file, req, blind>>
    BY <1>5 DEF WriteTmp
  <2>2. CASE Goto(c, "rename")
    <3>1. UNCHANGED phase
      BY <1>0, <2>1, <2>2, Stays, Phases
    <3> QED
      BY <2>1, <3>1
  <2>3. CASE Goto(c, "failed")
    BY <1>0, <2>1, <2>3, Fails
  <2> QED
    BY <1>5, <2>2, <2>3 DEF WriteTmp
<1>6. ASSUME NEW c \in Callers, Rename(c) PROVE Doc!Fail(c) \/ Doc!TakeEffect(c)
  <2>1. pc[c] = "rename" /\ UNCHANGED <<req, blind>>
    BY <1>6 DEF Rename
  <2>2. CASE Goto(c, "stat") /\ file' = [file EXCEPT ![req[c].file] = tmp[req[c].file]]
    <3>1. Doc!Move(c, "asked", "taken")
      BY <1>0, <2>1, <2>2, Moves, Phases
    <3>2. tmp[req[c].file] = Doc!Updated(Doc!Seen(c), req[c]) /\ req[c].mode # "preview"
      BY <2>1 DEF IInv, Ready
    <3> QED
      BY <2>1, <2>2, <3>1, <3>2 DEF Doc!TakeEffect
  <2>3. CASE Goto(c, "failed") /\ UNCHANGED diskVars
    BY <1>0, <2>1, <2>3, Fails
  <2> QED
    BY <1>6, <2>2, <2>3 DEF Rename
<1>7. ASSUME NEW c \in Callers, Stat(c)
      PROVE Doc!Succeed(c) \/ Doc!Fail(c) \/ UNCHANGED Doc!docVars
  <2>1. pc[c] = "stat" /\ UNCHANGED <<file, req, blind>>
    BY <1>7 DEF Stat
  <2>2. CASE Goto(c, "done")
    <3>1. Doc!Move(c, "taken", "ok")
      BY <1>0, <2>1, <2>2, Moves, Phases
    <3> QED
      BY <2>1, <3>1 DEF Doc!Succeed
  <2>3. CASE Goto(c, "delete")
    <3>1. UNCHANGED phase
      BY <1>0, <2>1, <2>3, Stays, Phases
    <3> QED
      BY <2>1, <3>1
  <2>4. CASE Goto(c, "failed")
    BY <1>0, <2>1, <2>4, Fails
  <2> QED
    BY <1>7, <2>2, <2>3, <2>4 DEF Stat
<1>8. ASSUME NEW c \in Callers, Delete(c) PROVE Doc!Succeed(c)
  <2>1. Doc!Move(c, "taken", "ok")
    BY <1>0, <1>8, Moves, Phases DEF Delete
  <2> QED
    BY <1>8, <2>1 DEF Delete, Doc!Succeed
<1>9. ASSUME NEW c \in Callers, Update(c) PROVE Doc!Ask(c) \/ Doc!Refuse(c)
  <2>1. pc[c] = "idle" /\ UNCHANGED <<file, blind>>
    BY <1>9 DEF Update
  <2>2. CASE Goto(c, "lock") /\ \E r \in Requests : req' = [req EXCEPT ![c] = r]
    <3>1. Doc!Move(c, "idle", "asked")
      BY <1>0, <2>1, <2>2, Moves, Phases
    <3> QED
      BY <2>1, <2>2, <3>1 DEF Doc!Ask, Requests
  <2>3. CASE Goto(c, "failed") /\ UNCHANGED req
    <3>1. Doc!Move(c, "idle", "failed")
      BY <1>0, <2>1, <2>3, Moves, Phases
    <3> QED
      BY <2>1, <2>3, <3>1 DEF Doc!Refuse
  <2>4. Inputs \subseteq Requests
    BY ProfileAssumption
  <2> QED
    BY <2>4, <1>9, <2>2, <2>3 DEF Update
<1>10. ASSUME NEW c \in Callers, NEW s \in Sessions, NEW id \in Proposals, Apply(c, s, id)
       PROVE Doc!Ask(c) \/ Doc!Refuse(c)
  <2>1. pc[c] = "idle" /\ UNCHANGED <<file, blind>>
    BY <1>10 DEF Apply
  <2>2. CASE Goto(c, "lock") /\ \E r \in Requests : req' = [req EXCEPT ![c] = r]
    <3>1. Doc!Move(c, "idle", "asked")
      BY <1>0, <2>1, <2>2, Moves, Phases
    <3> QED
      BY <2>1, <2>2, <3>1 DEF Doc!Ask, Requests
  <2>3. CASE Goto(c, "failed") /\ UNCHANGED req
    <3>1. Doc!Move(c, "idle", "failed")
      BY <1>0, <2>1, <2>3, Moves, Phases
    <3> QED
      BY <2>1, <2>3, <3>1 DEF Doc!Refuse
  <2>4. \A i \in DOMAIN proposals : proposals[i].request \in Requests
    BY DEF IInv, Types
  <2> QED
    BY <1>10, <2>2, <2>3, <2>4 DEF Apply
<1>11. ASSUME NEW s \in Sessions, Propose(s) PROVE UNCHANGED Doc!docVars
  BY <1>11 DEF Propose, phase
<1>12. ASSUME NEW id \in Proposals, Expire(id) PROVE UNCHANGED Doc!docVars
  BY <1>12 DEF Expire, phase
<1>13. ASSUME Latest PROVE UNCHANGED Doc!docVars
  BY <1>13 DEF Latest, phase
<1>14. ASSUME Restart PROVE Doc!Crash
  <2>1. \A c \in Callers :
          PhaseOf(pc'[c]) = IF PhaseOf(pc[c]) \in {"asked", "taken"} THEN "failed" ELSE PhaseOf(pc[c])
    <3> TAKE c \in Callers
    <3>1. pc'[c] = IF pc[c] \in Stopped \cup {"idle"} THEN pc[c] ELSE "failed"
      BY <1>14 DEF Restart
    <3>2. pc[c] \in Labels
      BY <1>0
    <3> QED
      BY <3>1, <3>2 DEF Labels, Stopped, PhaseOf
  <2> QED
    BY <1>14, <2>1 DEF Restart, Doc!Crash, phase
<1>15. ASSUME UNCHANGED vars PROVE UNCHANGED Doc!docVars
  BY <1>15 DEF vars, phase
<1> QED
  BY <1>1, <1>2, <1>3, <1>4, <1>5, <1>6, <1>7, <1>8, <1>9, <1>10, <1>11, <1>12, <1>13, <1>14,
     <1>15 DEF Next, Step, Doc!DocNext

(***************************************************************************)
(* "writes are atomic and serialized per file path": whatever calls race,  *)
(* fail or crash, the files go through the states of the atomic document.  *)
(***************************************************************************)
THEOREM AtomicDocument == Spec => ServesDocument
<1>1. Spec => []IInv
  BY InitIInv, StepIInv, PTL DEF Spec
<1>2. Init => Doc!DocInit
  BY InitDocument
<1>3. IInv /\ [Next]_vars => [Doc!DocNext]_(Doc!docVars)
  BY StepDocument
<1> QED
  BY <1>1, <1>2, <1>3, PTL DEF Spec, ServesDocument, Doc!DocSpec

\* ProfileDoc counts as this module does.
LEMMA SameCardinality == \A S : Doc!Cardinality(S) = Cardinality(S)
BY DEF Doc!Cardinality, Cardinality

\* Nothing is taken where no line with the key is bare, and all lines are all lines.
LEMMA NothingTaken ==
  ASSUME NEW f, NEW lines, NEW n \in Nat, DOMAIN lines = 1..n, NEW key,
         \A i \in 1..n : lines[i] # [key |-> key, value |-> Blank]
  PROVE  Doc!Taken(f, lines, key) = {}
<1> SUFFICES ASSUME NEW k \in 1..n, NEW i \in 1..(k - 1), Doc!BareFrom(lines, key, i, k)
             PROVE  FALSE
  BY DEF Doc!Taken
<1> QED
  BY DEF Doc!BareFrom

LEMMA AllLines ==
  ASSUME NEW n \in Nat, NEW lines, lines = [i \in 1..n |-> lines[i]]
  PROVE  Doc!LinesAt(lines, 1..n) = lines
<1>1. Doc!Cardinality(1..n) = n
  BY SameCardinality, FS_Interval, 1 \in Int, n \in Int
<1>2. ASSUME NEW k \in 1..n
      PROVE  Doc!Cardinality({j \in 1..n : j <= k}) = k
  <2>1. {j \in 1..n : j <= k} = 1..k
    OBVIOUS
  <2>2. Doc!Cardinality(1..k) = k
    <3>1. Cardinality(1..k) = k
      BY FS_Interval, 1 \in Int, k \in Int
    <3> QED
      BY <3>1, SameCardinality
  <2> QED
    BY <2>1, <2>2
<1>3. ASSUME NEW m \in 1..n
      PROVE  (CHOOSE k \in 1..n : Doc!Cardinality({j \in 1..n : j <= k}) = m) = m
  <2>1. \A k \in 1..n : Doc!Cardinality({j \in 1..n : j <= k}) = m <=> k = m
    BY <1>2
  <2> QED
    BY <2>1
<1>4. Doc!LinesAt(lines, 1..n)
        = [m \in 1..n |-> lines[CHOOSE k \in 1..n : Doc!Cardinality({j \in 1..n : j <= k}) = m]]
  BY <1>1 DEF Doc!LinesAt
<1> QED
  BY <1>3, <1>4

\* Lines that already hold what a plain patch says stay as they are.
LEMMA PatchedStays ==
  ASSUME NEW f, NEW n \in Nat, NEW lines, lines = [i \in 1..n |-> lines[i]],
         NEW line \in Lines, Doc!Plain(line),
         \E i \in 1..n : lines[i].key = line.key,
         \A i \in 1..n : lines[i].key = line.key => lines[i] = line
  PROVE  Doc!Patched(f, lines, line) = lines
<1>1. Doc!Taken(f, lines, line.key) = {}
  <2>1. \A i \in 1..n : lines[i] # [key |-> line.key, value |-> Blank]
    BY DEF Doc!Plain
  <2>2. DOMAIN lines = 1..n
    OBVIOUS
  <2> QED
    BY <2>1, <2>2, NothingTaken
<1>2. DOMAIN lines \ Doc!Taken(f, lines, line.key) = 1..n
  BY <1>1
<1>3. Doc!LinesAt(lines, DOMAIN lines \ Doc!Taken(f, lines, line.key)) = lines
  BY <1>2, AllLines
<1>4. Doc!Patched(f, lines, line)
        = [i \in DOMAIN lines |-> IF lines[i].key = line.key THEN Expand[line] ELSE lines[i]]
  BY <1>3 DEF Doc!Patched
<1>5. \A i \in 1..n : (IF lines[i].key = line.key THEN Expand[line] ELSE lines[i]) = lines[i]
  BY DEF Doc!Plain
<1> QED
  BY <1>4, <1>5

\* Of the lines with a key one at least is not taken: the first of a row is not.
LEMMA OneIsLeft ==
  ASSUME NEW f, NEW lines, NEW key, NEW n \in Nat, NEW k \in 1..n,
         DOMAIN lines = 1..n, lines[k].key = key
  PROVE  \E i \in 1..n : i \notin Doc!Taken(f, lines, key) /\ lines[i].key = key
<1>1. CASE k \notin Doc!Taken(f, lines, key)
  BY <1>1
<1>2. CASE k \in Doc!Taken(f, lines, key)
  <2>1. PICK i \in 1..(k - 1) :
          /\ Doc!BareFrom(lines, key, i, k)
          /\ i > 1 => ~Doc!BareFrom(lines, key, i - 1, k)
    BY <1>2 DEF Doc!Taken
  <2>2. i \in 1..n /\ lines[i] = [key |-> key, value |-> Blank]
    BY <2>1 DEF Doc!BareFrom
  <2>3. ASSUME i \in Doc!Taken(f, lines, key) PROVE FALSE
    <3>1. PICK h \in 1..(i - 1) : Doc!BareFrom(lines, key, h, i)
      BY <2>3 DEF Doc!Taken
    <3>2. lines[i - 1] = [key |-> key, value |-> Blank] /\ i > 1
      BY <3>1, <2>2 DEF Doc!BareFrom
    <3>3. \A j \in (i - 1)..(k - 1) : j = i - 1 \/ j \in i..(k - 1)
      BY <2>2
    <3>4. Doc!BareFrom(lines, key, i - 1, k)
      BY <2>1, <3>2, <3>3 DEF Doc!BareFrom
    <3> QED
      BY <2>1, <3>2, <3>4
  <2>4. lines[i].key = key
    BY <2>2
  <2> QED
    BY <2>2, <2>3, <2>4
<1> QED
  BY <1>1, <1>2

\* Every line at S is among LinesAt(lines, S).
LEMMA LinesAtHasAll ==
  ASSUME NEW n \in Nat, NEW lines, NEW S \in SUBSET (1..n), NEW k \in S
  PROVE  /\ Doc!Cardinality(S) \in Nat
         /\ \E m \in 1..Doc!Cardinality(S) : Doc!LinesAt(lines, S)[m] = lines[k]
<1> DEFINE Upto(i) == {j \in S : j <= i}
<1>1. IsFiniteSet(1..n)
  BY FS_Interval, 1 \in Int, n \in Int
<1>2. IsFiniteSet(S) /\ Doc!Cardinality(S) \in Nat
  BY <1>1, SameCardinality, FS_Subset, FS_CardinalityType
<1>3. ASSUME NEW i \in S
      PROVE  /\ IsFiniteSet(Upto(i)) /\ Doc!Cardinality(Upto(i)) \in Nat
             /\ Doc!Cardinality(Upto(i)) <= Doc!Cardinality(S) /\ Doc!Cardinality(Upto(i)) # 0
  <2>1. Upto(i) \in SUBSET S /\ i \in Upto(i)
    OBVIOUS
  <2>2. IsFiniteSet(Upto(i)) /\ Doc!Cardinality(Upto(i)) <= Doc!Cardinality(S)
    BY <1>2, <2>1, SameCardinality, FS_Subset
  <2>3. Upto(i) # {}
    BY <2>1
  <2>4. Doc!Cardinality(Upto(i)) # 0
    BY <2>2, <2>3, SameCardinality, FS_EmptySet
  <2>5. Doc!Cardinality(Upto(i)) \in Nat
    BY <2>2, SameCardinality, FS_CardinalityType
  <2> QED
    BY <2>2, <2>4, <2>5
<1>4. ASSUME NEW i \in S, NEW h \in S, i < h, Doc!Cardinality(Upto(i)) = Doc!Cardinality(Upto(h))
      PROVE  FALSE
  <2>0. i \in Int /\ h \in Int /\ S \subseteq Int
    OBVIOUS
  <2>1. Upto(i) \in SUBSET Upto(h) /\ h \in Upto(h) /\ h \notin Upto(i)
    <3>1. \A j \in Int : j <= i => j <= h
      BY <1>4, <2>0
    <3>2. h <= h /\ ~(h <= i)
      BY <1>4, <2>0
    <3> QED
      BY <2>0, <3>1, <3>2, Zenon
  <2>2. IsFiniteSet(Upto(h))
    BY <1>3
  <2> HIDE DEF Upto
  <2>3. Upto(i) = Upto(h)
    BY <1>4, <2>1, <2>2, SameCardinality, FS_Subset
  <2> QED
    BY <2>1, <2>3
<1> DEFINE m == Doc!Cardinality(Upto(k))
<1>5. m \in 1..Doc!Cardinality(S)
  <2> HIDE DEF Upto
  <2> QED
    BY <1>2, <1>3
<1>6. \A i \in S : Doc!Cardinality(Upto(i)) = m <=> i = k
  <2> SUFFICES ASSUME NEW i \in S, Doc!Cardinality(Upto(i)) = m, i # k PROVE FALSE
    OBVIOUS
  <2>1. i < k \/ k < i
    OBVIOUS
  <2> HIDE DEF Upto
  <2> QED
    BY <1>4, <2>1
<1>7. (CHOOSE i \in S : Doc!Cardinality(Upto(i)) = m) = k
  <2> HIDE DEF Upto
  <2> QED
    BY <1>6
<1>8. Doc!LinesAt(lines, S)[m] = lines[CHOOSE i \in S : Doc!Cardinality(Upto(i)) = m]
  <2>1. Doc!LinesAt(lines, S)
          = [p \in 1..Doc!Cardinality(S) |-> lines[CHOOSE i \in S : Doc!Cardinality(Upto(i)) = p]]
    BY Zenon DEF Doc!LinesAt
  <2> HIDE DEF m
  <2> QED
    BY <1>5, <2>1, Zenon
<1> QED
  BY <1>2, <1>5, <1>7, <1>8

\* A plain patch leaves its line behind and no other line with its key, so that it has
\* nothing to do the second time.
LEMMA PatchedTwice ==
  ASSUME NEW f, NEW lines \in Seq(Lines), NEW line \in Lines, Doc!Plain(line)
  PROVE  Doc!Patched(f, Doc!Patched(f, lines, line), line) = Doc!Patched(f, lines, line)
<1> DEFINE once == Doc!Patched(f, lines, line)
<1>1. \E n \in Nat : /\ once = [i \in 1..n |-> once[i]]
                     /\ \E i \in 1..n : once[i].key = line.key
                     /\ \A i \in 1..n : once[i].key = line.key => once[i] = line
  <2>1. CASE \E i \in DOMAIN lines : lines[i].key = line.key
    <3> DEFINE S    == DOMAIN lines \ Doc!Taken(f, lines, line.key)
               left == Doc!LinesAt(lines, S)
               n    == Doc!Cardinality(S)
    <3>1. DOMAIN lines = 1..Len(lines) /\ Len(lines) \in Nat /\ S \in SUBSET (1..Len(lines))
      OBVIOUS
    <3>0. PICK g \in 1..Len(lines) : lines[g].key = line.key
      BY <2>1, <3>1
    <3>2. PICK k \in S : lines[k].key = line.key
      <4>1. \E h \in 1..Len(lines) : h \notin Doc!Taken(f, lines, line.key) /\ lines[h].key = line.key
        BY <3>0, <3>1, OneIsLeft
      <4> QED
        BY <3>1, <4>1
    <3>3. n \in Nat /\ \E m \in 1..n : left[m] = lines[k]
      <4> HIDE DEF S
      <4> QED
        BY <3>1, <3>2, LinesAtHasAll
    <3>4. DOMAIN left = 1..n
      <4> HIDE DEF S
      <4> QED
        BY DEF Doc!LinesAt
    <3>5. once = [i \in DOMAIN left |-> IF left[i].key = line.key THEN line ELSE left[i]]
      BY <2>1 DEF Doc!Patched, Doc!Plain
    <3> HIDE DEF S, left, n, once
    <3>6. once = [i \in 1..n |-> once[i]]
      BY <3>4, <3>5
    <3>7. \A i \in 1..n : once[i] = IF left[i].key = line.key THEN line ELSE left[i]
      BY <3>4, <3>5
    <3>8. \E i \in 1..n : once[i].key = line.key
      BY <3>2, <3>3, <3>7
    <3> QED
      BY <3>3, <3>6, <3>7, <3>8
  <2>2. CASE ~ \E i \in DOMAIN lines : lines[i].key = line.key
    <3>1. once = Append(lines, line)
      BY <2>2 DEF Doc!Patched
    <3> DEFINE n == Len(lines) + 1
    <3>2. n \in Nat /\ n \in 1..n
      OBVIOUS
    <3>3. once = [i \in 1..n |-> IF i = n THEN line ELSE lines[i]]
      <4>1. once \in Seq(Lines) /\ Len(once) = n
        BY <3>1
      <4>2. \A i \in 1..n : once[i] = IF i = n THEN line ELSE lines[i]
        BY <3>1
      <4>3. once = [i \in 1..n |-> once[i]]
        BY ONLY <4>1
      <4> HIDE DEF once, n
      <4> QED
        BY <4>2, <4>3
    <3>4. once = [i \in 1..n |-> once[i]] /\ once[n] = line
      <4> HIDE DEF once, n
      <4> QED
        BY <3>2, <3>3
    <3>5. \A i \in 1..n : once[i].key = line.key => once[i] = line
      BY <2>2, <3>1
    <3> HIDE DEF once, n
    <3> QED
      BY <3>2, <3>5, <3>4
  <2> QED
    BY <2>1, <2>2
<1>2. PICK n \in Nat : /\ once = [i \in 1..n |-> once[i]]
                       /\ \E i \in 1..n : once[i].key = line.key
                       /\ \A i \in 1..n : once[i].key = line.key => once[i] = line
  BY <1>1
<1> HIDE DEF once
<1>3. Doc!Patched(f, once, line) = once
  BY <1>2, PatchedStays
<1> QED
  BY <1>3 DEF once

(***************************************************************************)
(* Two calls that both found a proposal before either deleted it both      *)
(* apply it.  Whatever proposals the store holds, and whatever a document  *)
(* holds, the second changes nothing: what is detected in a message is     *)
(* never empty, and ReplaceAllString finds nothing in it to expand.  (A    *)
(* patch the user sends may be applied twice with another result.)         *)
(***************************************************************************)
THEOREM ApplyTwiceIsOnce ==
  Spec => [](\A id \in DOMAIN proposals : \A lines \in Seq(Lines) :
               LET r == proposals[id].request
               IN Doc!Updated(Doc!Updated(lines, r), r) = Doc!Updated(lines, r))
<1>1. ASSUME IInv, NEW id \in DOMAIN proposals, NEW lines \in Seq(Lines), NEW r,
             r = proposals[id].request
      PROVE  Doc!Updated(Doc!Updated(lines, r), r) = Doc!Updated(lines, r)
  <2>1. r \in Requests /\ r.mode = "patch" /\ r.line \in Lines /\ Doc!Plain(r.line)
    BY <1>1 DEF IInv, Types, Requests, Doc!Requests, Lines
  <2> DEFINE once == Doc!Patched(r.file, lines, r.line)
  <2>2. Doc!Patched(r.file, once, r.line) = once
    BY <2>1, PatchedTwice
  <2>3. Doc!Updated(lines, r) = once /\ Doc!Updated(once, r) = Doc!Patched(r.file, once, r.line)
    BY <2>1 DEF Doc!Updated
  <2> QED
    BY <2>2, <2>3
<1>2. IInv => \A id \in DOMAIN proposals : \A lines \in Seq(Lines) :
                LET r == proposals[id].request
                IN Doc!Updated(Doc!Updated(lines, r), r) = Doc!Updated(lines, r)
  BY <1>1
<1> QED
  BY <1>2, InitIInv, StepIInv, PTL DEF Spec

-----------------------------------------------------------------------------
(* Proposals. *)

\* Ids only grow, and one whose apply has returned is in the store no more.
Once ==
  /\ made \in Nat /\ confirmed \subseteq 0..made
  /\ applying \in [Callers -> 0..made]
  /\ DOMAIN proposals \subseteq 1..made
  /\ DOMAIN proposals \cap confirmed = {}

\* Forgetting proposals keeps it so, as long as the calls take ids of the store.
LEMMA ForgetKeepsOnce ==
  ASSUME Once, NEW ids, Forget(ids), UNCHANGED made,
         \A c \in Callers : applying'[c] \in {applying[c]} \cup DOMAIN proposals,
         applying' = [c \in Callers |-> applying'[c]],
         confirmed' \subseteq confirmed \cup (ids \cap 0..made)
  PROVE  Once'
<1>1. DOMAIN proposals' = DOMAIN proposals \ ids
  BY DEF Forget
<1>2. applying' \in [Callers -> 0..made]
  BY DEF Once
<1> QED
  BY <1>1, <1>2 DEF Once

LEMMA StepOnce == Once /\ [Next]_vars => Once'
<1> SUFFICES ASSUME Once, [Next]_vars PROVE Once'
  OBVIOUS
<1>1. ASSUME UNCHANGED <<proposals, made, confirmed, applying>> PROVE Once'
  BY <1>1 DEF Once
<1>2. ASSUME NEW c \in Callers, Delete(c) PROVE Once'
  <2>1. /\ Forget({applying[c]}) /\ UNCHANGED <<made, applying>>
        /\ confirmed' = confirmed \cup {applying[c]}
    BY <1>2 DEF Delete, callVars
  <2> QED
    BY <2>1, ForgetKeepsOnce DEF Once
<1>3. ASSUME NEW c \in Callers, NEW s \in Sessions, NEW id \in Proposals, Apply(c, s, id)
      PROVE  Once'
  <2>1. CASE id \in DOMAIN proposals /\ applying' = [applying EXCEPT ![c] = id] /\ UNCHANGED proposals
    BY <1>3, <2>1 DEF Apply, Once
  <2>2. CASE Forget({id} \cap expired) /\ UNCHANGED applying
    BY <1>3, <2>2, ForgetKeepsOnce DEF Apply, Once
  <2> QED
    BY <1>3, <2>1, <2>2 DEF Apply
<1>4. ASSUME NEW s \in Sessions, Propose(s) PROVE Once'
  <2>1. /\ made' = made + 1 /\ UNCHANGED <<applying, confirmed>>
        /\ DOMAIN proposals' = DOMAIN proposals \cup {made'}
    BY <1>4 DEF Propose, callVars
  <2> QED
    BY <2>1 DEF Once
<1>5. CASE Latest
  BY <1>5, ForgetKeepsOnce DEF Latest, callVars, Once
<1>6. CASE Restart
  BY <1>6 DEF Restart, callVars, Once
<1>7. ASSUME NEW c \in Callers,
             Lock(c) \/ ReadFails(c) \/ RefusePatch(c) \/ Compute(c) \/ WriteTmp(c) \/ Rename(c)
             \/ Stat(c) \/ Update(c)
      PROVE  UNCHANGED <<proposals, made, confirmed, applying>>
  BY <1>7 DEF Lock, ReadFails, RefusePatch, Compute, WriteTmp, Rename, Stat, Update, callVars,
              proposalVars
<1>8. ASSUME NEW id \in Proposals, Expire(id)
      PROVE  UNCHANGED <<proposals, made, confirmed, applying>>
  BY <1>8 DEF Expire, callVars
<1>9. UNCHANGED vars => UNCHANGED <<proposals, made, confirmed, applying>>
  BY DEF vars
<1> QED
  BY <1>1, <1>2, <1>3, <1>4, <1>5, <1>6, <1>7, <1>8, <1>9 DEF Next, Step

(***************************************************************************)
(* A proposal that was applied and confirmed cannot be applied again: its  *)
(* id has left the store, and ids are never used twice.                    *)
(***************************************************************************)
THEOREM AppliedOnce == Spec => ConfirmedOnce
<1>1. Init => Once
  BY DEF Init, Once, NoId
<1>2. Once /\ [Next]_vars =>
        [\A c \in Callers : applying'[c] # applying[c] => applying'[c] \notin confirmed]_vars
  <2> SUFFICES ASSUME Once, Next, NEW c \in Callers, applying'[c] # applying[c]
               PROVE  applying'[c] \notin confirmed
    OBVIOUS
  <2>1. PICK d \in Callers, s \in Sessions, id \in Proposals : Apply(d, s, id)
    BY DEF Next, Step, Lock, ReadFails, RefusePatch, Compute, WriteTmp, Rename, Stat, Delete,
           Update, Propose, Expire, Latest, Restart, callVars
  <2>2. applying' = [applying EXCEPT ![d] = id] /\ id \in DOMAIN proposals
    BY <2>1 DEF Apply
  <2> QED
    BY <2>2 DEF Once
<1> QED
  BY <1>1, <1>2, StepOnce, PTL DEF Spec, ConfirmedOnce
=============================================================================
