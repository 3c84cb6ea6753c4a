------------------------------- MODULE Profile -------------------------------
(***************************************************************************)
(* The profile service (internal/profile): updates of profile files under  *)
(* a lock per path, written to a temporary file and renamed; and proposals *)
(* in memory, which the chat turns into updates when the user applies      *)
(* them.  Chat runs and WebSocket requests call it concurrently.           *)
(***************************************************************************)
EXTENDS Integers, Sequences, FiniteSets

CONSTANTS
  Callers, Files, Spanning, Keys, Values, Blank, Expand,  \* as in ProfileDoc
  Inputs,        \* bound: requests the clients make
  Initial,       \* contents the files may have at the start
  Allowed,       \* profile.allowedFiles
  Patchable,     \* IDENTITY.md and USER.md
  TooLarge,      \* lines over profile.maxFileBytes
  Sessions,      \* session keys
  MaxProposals,  \* bound: proposals made
  MaxFaults,     \* bound: failing file operations
  MaxRestarts,   \* bound: crashes
  Nobody

VARIABLES
  file,       \* content of each file
  tmp,        \* content of each temporary file, Partial if there is none
  holder,     \* who holds the lock of each path
  pc, req,    \* each caller: where it is, what it asked
  applying,   \* the proposal it applies, or NoId
  next,       \* the content it is to write
  blind,      \* callers whose read failed
  proposals,  \* id -> proposal, for the ids in the store
  expired,    \* ids past their ExpiresAt
  made,       \* number of proposals created: the last id
  faults, restarts,
  confirmed   \* auxiliary: proposals whose apply has returned without an error

vars == <<file, tmp, holder, pc, req, applying, next, blind, proposals, expired, made,
          faults, restarts, confirmed>>

diskVars     == <<file, tmp>>
callVars     == <<req, applying, next, blind>>
proposalVars == <<proposals, expired, made, confirmed>>
bounds       == <<faults, restarts>>

NoId == 0
Partial == <<>>  \* what a failed write leaves of a temporary file
Proposals == 1..MaxProposals

PhaseOf(label) ==
  CASE label = "idle" -> "idle"
    [] label \in {"lock", "read", "write", "rename"} -> "asked"
    [] label \in {"stat", "delete"} -> "taken"
    [] label = "done" -> "ok"
    [] OTHER -> "failed"

phase == [c \in Callers |-> PhaseOf(pc[c])]

Doc == INSTANCE ProfileDoc WITH doc <- file, asked <- req, phase <- phase, blind <- blind

Requests == Doc!Requests
Lines    == Doc!Lines

ASSUME ProfileAssumption ==
  /\ Files # {} /\ Keys # {} /\ Values # {}
  /\ Allowed \subseteq Files /\ Patchable \subseteq Files
  /\ TooLarge \subseteq Lines /\ Inputs \subseteq Requests
  /\ Spanning \subseteq Files /\ Blank \in Values /\ Expand \in [Lines -> Lines]
  /\ Initial \subseteq [Files -> Seq(Lines)]
  /\ MaxProposals \in Nat /\ MaxFaults \in Nat /\ MaxRestarts \in Nat
  /\ Nobody \notin Callers

Init ==
  /\ file \in Initial
  /\ tmp = [f \in Files |-> Partial]
  /\ holder = [f \in Files |-> Nobody]
  /\ pc = [c \in Callers |-> "idle"]
  /\ req \in [Callers -> {CHOOSE r \in Requests : TRUE}]
  /\ applying = [c \in Callers |-> NoId]
  /\ next = [c \in Callers |-> <<>>]
  /\ blind = {}
  /\ proposals = [id \in {} |-> 0] /\ expired = {} /\ made = 0
  /\ faults = 0 /\ restarts = 0
  /\ confirmed = {}

Goto(c, label) == pc' = [pc EXCEPT ![c] = label]

Fault == faults < MaxFaults /\ faults' = faults + 1 /\ UNCHANGED restarts

\* validateFile and validateSize
Valid(request) == request.file \in Allowed /\ request.line \notin TooLarge

Forget(ids) == proposals' = [id \in DOMAIN proposals \ ids |-> proposals[id]]

-----------------------------------------------------------------------------
(* Proposals. *)

\* MaybeCreateProposal, for a message that names a preference: what detectHighConfidence
\* takes for a name is not empty and has no "$" in it.
Propose(s) ==
  /\ made < MaxProposals
  /\ \E r \in Inputs :
       /\ r.mode = "patch" /\ r.file \in Patchable /\ Doc!Plain(r.line) /\ Valid(r)
       /\ made' = made + 1
       /\ proposals' = [id \in DOMAIN proposals \cup {made'} |->
                          IF id = made' THEN [session |-> s, request |-> r] ELSE proposals[id]]
  /\ UNCHANGED <<diskVars, holder, pc, callVars, expired, bounds, confirmed>>

Expire(id) ==
  /\ id \in DOMAIN proposals \ expired
  /\ expired' = expired \cup {id}
  /\ UNCHANGED <<diskVars, holder, pc, callVars, proposals, made, bounds, confirmed>>

\* latest, for /profile diff: drops what has expired on its way.
Latest ==
  /\ expired \cap DOMAIN proposals # {}
  /\ Forget(expired)
  /\ UNCHANGED <<diskVars, holder, pc, callVars, expired, made, bounds, confirmed>>

\* ApplyProposal: look the proposal up, then update.
Apply(c, s, id) ==
  /\ pc[c] = "idle"
  /\ \/ /\ id \in DOMAIN proposals \ expired
        /\ proposals[id].session = s
        /\ req' = [req EXCEPT ![c] = proposals[id].request]
        /\ applying' = [applying EXCEPT ![c] = id]
        /\ Goto(c, "lock")
        /\ UNCHANGED proposals
     \/ /\ id \in DOMAIN proposals => id \in expired \/ proposals[id].session # s
        /\ Goto(c, "failed")
        /\ Forget({id} \cap expired)
        /\ UNCHANGED <<req, applying>>
  /\ UNCHANGED <<diskVars, holder, next, blind, expired, made, bounds, confirmed>>

\* Mutant: the proposal stays in the store.
DeleteNothing(c) ==
  /\ pc[c] = "delete"
  /\ Goto(c, "done")
  /\ confirmed' = confirmed \cup {applying[c]}
  /\ UNCHANGED <<diskVars, holder, callVars, proposals, expired, made, bounds>>

\* The update of an applied proposal is made: delete it.
Delete(c) ==
  /\ pc[c] = "delete"
  /\ Forget({applying[c]})
  /\ Goto(c, "done")
  /\ confirmed' = confirmed \cup {applying[c]}
  /\ UNCHANGED <<diskVars, holder, callVars, expired, made, bounds>>

-----------------------------------------------------------------------------
(* Update and Preview. *)

Update(c) ==
  /\ pc[c] = "idle"
  /\ \E r \in Inputs :
       \/ Valid(r) /\ req' = [req EXCEPT ![c] = r] /\ Goto(c, "lock")
       \/ ~Valid(r) /\ Goto(c, "failed") /\ UNCHANGED req
  /\ UNCHANGED <<diskVars, holder, applying, next, blind, proposalVars, bounds>>

\* Mutant: the lock does not exclude anybody.
LockShared(c) ==
  /\ pc[c] = "lock"
  /\ holder' = [holder EXCEPT ![req[c].file] = c]
  /\ Goto(c, "read")
  /\ UNCHANGED <<diskVars, callVars, proposalVars, bounds>>

Lock(c) ==
  /\ pc[c] = "lock"
  /\ holder[req[c].file] = Nobody
  /\ holder' = [holder EXCEPT ![req[c].file] = c]
  /\ Goto(c, "read")
  /\ UNCHANGED <<diskVars, callVars, proposalVars, bounds>>

Unlock(c) == holder' = [holder EXCEPT ![req[c].file] = Nobody]

\* A read that fails is taken for an empty file.
ReadFails(c) ==
  /\ pc[c] = "read" /\ c \notin blind
  /\ Fault
  /\ blind' = blind \cup {c}
  /\ UNCHANGED <<diskVars, holder, pc, req, applying, next, proposalVars>>

Unpatchable(r) == r.mode = "patch" /\ r.file \notin Patchable

\* Mutant: the error return keeps the lock.
RefuseKeepsLock(c) ==
  /\ pc[c] = "read"
  /\ Unpatchable(req[c])
  /\ Goto(c, "failed")
  /\ UNCHANGED <<diskVars, holder, callVars, proposalVars, bounds>>

RefusePatch(c) ==
  /\ pc[c] = "read"
  /\ Unpatchable(req[c])
  /\ Goto(c, "failed") /\ Unlock(c)
  /\ UNCHANGED <<diskVars, callVars, proposalVars, bounds>>

\* previewUpdate; Preview returns its result.
Compute(c) ==
  /\ pc[c] = "read"
  /\ ~Unpatchable(req[c])
  /\ next' = [next EXCEPT ![c] = Doc!Updated(Doc!Seen(c), req[c])]
  /\ IF req[c].mode = "preview"
     THEN Goto(c, "done") /\ Unlock(c)
     ELSE Goto(c, "write") /\ UNCHANGED holder
  /\ UNCHANGED <<diskVars, req, applying, blind, proposalVars, bounds>>

\* applyUpdate, step by step; a failing step returns the error and unlocks.
WriteTmp(c) ==
  LET f == req[c].file
  IN /\ pc[c] = "write"
     /\ \/ /\ tmp' = [tmp EXCEPT ![f] = next[c]]
           /\ Goto(c, "rename")
           /\ UNCHANGED <<holder, bounds>>
        \/ /\ Fault
           /\ tmp' = [tmp EXCEPT ![f] = Partial]
           /\ Goto(c, "failed") /\ Unlock(c)
     /\ UNCHANGED <<file, callVars, proposalVars>>

Rename(c) ==
  LET f == req[c].file
  IN /\ pc[c] = "rename"
     /\ \/ /\ file' = [file EXCEPT ![f] = tmp[f]]
           /\ tmp' = [tmp EXCEPT ![f] = Partial]
           /\ Goto(c, "stat")
           /\ UNCHANGED <<holder, bounds>>
        \/ /\ Fault
           /\ Goto(c, "failed") /\ Unlock(c)
           /\ UNCHANGED diskVars
     /\ UNCHANGED <<callVars, proposalVars>>

Stat(c) ==
  /\ pc[c] = "stat"
  /\ Unlock(c)
  /\ \/ Goto(c, IF applying[c] = NoId THEN "done" ELSE "delete") /\ UNCHANGED bounds
     \/ Fault /\ Goto(c, "failed")
  /\ UNCHANGED <<diskVars, callVars, proposalVars>>

-----------------------------------------------------------------------------

Stopped == {"done", "failed"}

\* The process dies and starts again; a temporary file may have been half written.
Restart ==
  /\ restarts < MaxRestarts
  /\ restarts' = restarts + 1
  /\ pc' = [c \in Callers |-> IF pc[c] \in Stopped \cup {"idle"} THEN pc[c] ELSE "failed"]
  /\ holder' = [f \in Files |-> Nobody]
  /\ proposals' = [id \in {} |-> 0]
  /\ UNCHANGED <<diskVars, callVars, expired, made, faults, confirmed>>

Step(c) ==
  \/ Lock(c) \/ ReadFails(c) \/ RefusePatch(c) \/ Compute(c)
  \/ WriteTmp(c) \/ Rename(c) \/ Stat(c) \/ Delete(c)

Next ==
  \/ \E c \in Callers :
       \/ Step(c) \/ Update(c)
       \/ \E s \in Sessions, id \in Proposals : Apply(c, s, id)
  \/ \E s \in Sessions : Propose(s)
  \/ \E id \in Proposals : Expire(id)
  \/ Latest \/ Restart

Spec == Init /\ [][Next]_vars

\* A goroutine that can run does; sync.Mutex does not starve one.
Fairness == \A c \in Callers : SF_vars(Lock(c)) /\ WF_vars(Step(c))

FairSpec == Spec /\ Fairness

-----------------------------------------------------------------------------

(***************************************************************************)
(* "writes are atomic (tmp + rename) and serialized per file path":        *)
(* concurrent updates, previews and applied proposals, failing file        *)
(* operations and crashes show what the atomic document of ProfileDoc      *)
(* shows.  No update is lost or half made.                                 *)
(***************************************************************************)
ServesDocument == Doc!DocSpec

(***************************************************************************)
(* A proposal whose apply has returned cannot be applied by a later call.  *)
(* (Two calls that both looked it up before either deleted it both apply   *)
(* it.)                                                                    *)
(***************************************************************************)
ConfirmedOnce ==
  [][\A c \in Callers : applying'[c] # applying[c] => applying'[c] \notin confirmed]_vars

(***************************************************************************)
(* Every call returns: no error path keeps the lock of a path.             *)
(***************************************************************************)
EveryCallReturns == \A c \in Callers : (pc[c] # "idle") ~> (pc[c] \in Stopped)
=============================================================================
