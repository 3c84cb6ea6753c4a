------------------------------ MODULE Sessions ------------------------------
(***************************************************************************)
(* sessions.Manager over a FileStore, driven by the runs of the gateway.   *)
(*                                                                         *)
(* A run is one call of handleInbound (internal/gateway/server.go): Touch, *)
(* ModelContext, one append of the user's message, then one append per     *)
(* event of the agent.  The manager serialises its operations with m.mu,   *)
(* but one append is two separate writes to disk, the transcript line and  *)
(* the session store, and a crash or a failing write can come between.     *)
(*                                                                         *)
(* "disk" is state/sessions.json, "mem" the map of the FileStore, "files"  *)
(* the transcripts.  A SessionID is named after the run that created it.   *)
(***************************************************************************)
EXTENDS SessionContext

CONSTANTS
  Runs,            \* calls of handleInbound (or of the Manager's API)
  DirectRuns,      \* those that append without calling ModelContext first
  BlankRuns,       \* those whose user message has an empty text
  SessionKeys,     \* session keys
  LegacyKeys,      \* keys whose entry predates the context state
  Limits,          \* the values of session.contextHistoryLimit
  MaxFaults,       \* bound: failing writes and reads
  MaxRestarts,     \* bound: crashes
  Nobody, NoEntry

ASSUME SessionsAssumption ==
  /\ DirectRuns \subseteq Runs
  /\ BlankRuns \subseteq Runs
  /\ LegacyKeys \subseteq SessionKeys
  /\ Runs \cap SessionKeys = {}
  /\ "garbage" \notin Runs \cup SessionKeys
  /\ Limits \subseteq Nat \ {0}
  /\ SummaryChars \in [Limits -> Nat \ {0}]
  /\ MaxFaults \in Nat
  /\ MaxRestarts \in Nat
  /\ Nobody \notin Runs

VARIABLES
  disk,      \* sessions.json: SessionKeys -> entry or NoEntry
  mem,       \* FileStore.data
  files,     \* transcript of a SessionID: sequence of lines
  torn,      \* SessionIDs whose last line has no newline
  limit,     \* Manager.contextBudget.HistoryLimit
  mu,        \* the run inside the manager's critical section
  pc,        \* where each run is
  ses,       \* the session key of each run
  sid,       \* the SessionID of the entry Touch returned to it
  out,       \* the record it is appending
  work,      \* the entry it is rebuilding
  line,      \* the transcript lines its rebuild has read
  faults, restarts,
  log,       \* auxiliary: every record written out, per SessionID
  acked      \* auxiliary: the records whose append returned nil

storeVars == <<disk, mem>>
fileVars  == <<files, torn, log>>
runVars   == <<ses, sid, out>>
bounds    == <<faults, restarts>>
vars == <<disk, mem, files, torn, limit, mu, pc, ses, sid, out, work, line,
          faults, restarts, log, acked>>

Ids == Runs \cup LegacyKeys

Roles == {"user", "assistant"}
Types == {"message", "message_chunk"}
Records == [by : Ids, role : Roles, type : Types, blank : BOOLEAN]

\* What handleInbound appends: the user's text, then what the agent emits.
UserRecord(r) ==
  [by |-> r, role |-> "user", type |-> "message", blank |-> r \in BlankRuns]
AgentRecord(r, type) ==
  [by |-> r, role |-> "assistant", type |-> type, blank |-> FALSE]

\* A line of a transcript that json.Unmarshal rejects.
Garbage == [by |-> "garbage", role |-> "none", type |-> "none", blank |-> TRUE]

Entries ==
  [id : Ids, sig : Limits \cup {NoSig}, recent : Seq(Records), summarized : Nat,
   summary : Seq(Records \cup {TrimMarker, CutLine}), folded : Seq(Records)]

ASSUME NoEntryAssumption == NoEntry \notin Entries

\* A session of an older release: a transcript and an entry without state.
LegacyRows(k) ==
  << [by |-> k, role |-> "user",      type |-> "message",       blank |-> FALSE],
     [by |-> k, role |-> "assistant", type |-> "message_chunk", blank |-> FALSE],
     [by |-> k, role |-> "assistant", type |-> "message",       blank |-> FALSE] >>

Init ==
  /\ disk = [k \in SessionKeys |->
               IF k \in LegacyKeys THEN NewEntry(k, NoSig) ELSE NoEntry]
  /\ mem = disk
  /\ files = [i \in Ids |-> IF i \in LegacyKeys THEN LegacyRows(i) ELSE <<>>]
  /\ log = files
  /\ torn = {}
  /\ limit \in Limits
  /\ mu = Nobody
  /\ pc = [r \in Runs |-> "idle"]
  /\ ses \in [Runs -> SessionKeys]
  /\ sid = [r \in Runs |-> r]
  /\ out = [r \in Runs |-> UserRecord(r)]
  /\ work = NoEntry
  /\ line = 0
  /\ faults = 0
  /\ restarts = 0
  /\ acked = {}

Goto(r, label) == pc' = [pc EXCEPT ![r] = label]

(***************************************************************************)
(* FileStore.Put changes the map, then rewrites the whole file through a   *)
(* temporary one.  A failing save leaves the map ahead of the file.        *)
(***************************************************************************)
\* Mutant: the save is left to a later operation.
PutOkMemoryOnly(k, entry) ==
  /\ mem' = [mem EXCEPT ![k] = entry]
  /\ UNCHANGED <<disk, bounds>>

PutOk(k, entry) ==
  /\ mem' = [mem EXCEPT ![k] = entry]
  /\ disk' = mem'
  /\ UNCHANGED bounds

PutFails(k, entry) ==
  /\ faults < MaxFaults
  /\ faults' = faults + 1
  /\ mem' = [mem EXCEPT ![k] = entry]
  /\ UNCHANGED <<disk, restarts>>

\* Touch: find or create the entry and save the store.
TouchedEntry(r) ==
  IF mem[ses[r]] = NoEntry THEN NewEntry(r, limit) ELSE mem[ses[r]]

\* Mutant: an entry that is already in the map is not saved again.
TouchTrustsMap(r) ==
  /\ pc[r] = "idle"
  /\ mu = Nobody
  /\ \/ /\ mem[ses[r]] # NoEntry
        /\ sid' = [sid EXCEPT ![r] = mem[ses[r]].id]
        /\ Goto(r, IF r \in DirectRuns THEN "write" ELSE "context")
        /\ UNCHANGED <<storeVars, bounds>>
     \/ /\ mem[ses[r]] = NoEntry
        /\ PutOk(ses[r], TouchedEntry(r))
        /\ sid' = [sid EXCEPT ![r] = r]
        /\ Goto(r, IF r \in DirectRuns THEN "write" ELSE "context")
     \/ /\ mem[ses[r]] = NoEntry
        /\ PutFails(ses[r], TouchedEntry(r))
        /\ Goto(r, "failed")
        /\ UNCHANGED sid
  /\ UNCHANGED <<fileVars, limit, mu, ses, out, work, line, acked>>

Touch(r) ==
  /\ pc[r] = "idle"
  /\ mu = Nobody
  /\ \/ /\ PutOk(ses[r], TouchedEntry(r))
        /\ sid' = [sid EXCEPT ![r] = TouchedEntry(r).id]
        /\ Goto(r, IF r \in DirectRuns THEN "write" ELSE "context")
     \/ /\ PutFails(ses[r], TouchedEntry(r))
        /\ Goto(r, "failed")
        /\ UNCHANGED sid
  /\ UNCHANGED <<fileVars, limit, mu, ses, out, work, line, acked>>

\* ensureContextStateLocked finds the state it expects...
StateIsCurrent(r) == mem[ses[r]].sig = limit

\* ...or starts over from the transcript, holding m.mu.
StartRebuild(r) ==
  /\ ~StateIsCurrent(r)
  /\ mu' = r
  /\ work' = ClearContext(mem[ses[r]], limit)
  /\ line' = 0

\* Mutant: the history is returned as it is stored, whatever its signature.
ModelContextTrustsState(r) ==
  /\ pc[r] = "context"
  /\ mu = Nobody
  /\ Goto(r, "write")
  /\ UNCHANGED <<storeVars, fileVars, runVars, limit, mu, work, line, bounds, acked>>

\* ModelContext: the answer is mem[ses[r]], read when the state is current.
ModelContext(r) ==
  /\ pc[r] = "context"
  /\ mu = Nobody
  /\ \/ /\ StateIsCurrent(r)
        /\ Goto(r, "write")
        /\ UNCHANGED <<mu, work, line>>
     \/ /\ StartRebuild(r)
        /\ Goto(r, "rebuild")
  /\ UNCHANGED <<storeVars, fileVars, runVars, limit, bounds, acked>>

\* Mutant: the rebuild takes the user's messages only.
RebuildLineUserOnly(r) ==
  /\ pc[r] \in {"rebuild", "rebuildInAppend"}
  /\ line < Len(files[work.id])
  /\ line' = line + 1
  /\ LET rec == files[work.id][line + 1] IN
     work' = IF rec # Garbage /\ IsContextMessage(rec) /\ rec.role = "user"
             THEN ApplyContextMessage(work, rec, limit) ELSE work
  /\ UNCHANGED <<storeVars, fileVars, runVars, limit, mu, pc, bounds, acked>>

\* One turn of the loop of rebuildContextStateLocked.
RebuildLine(r) ==
  /\ pc[r] \in {"rebuild", "rebuildInAppend"}
  /\ line < Len(files[work.id])
  /\ line' = line + 1
  /\ LET rec == files[work.id][line + 1] IN
     work' = IF rec # Garbage /\ IsContextMessage(rec)
             THEN ApplyContextMessage(work, rec, limit) ELSE work
  /\ UNCHANGED <<storeVars, fileVars, runVars, limit, mu, pc, bounds, acked>>

\* The loop is done: save the rebuilt entry and go on with the operation.
RebuildDone(r) ==
  /\ pc[r] \in {"rebuild", "rebuildInAppend"}
  /\ line = Len(files[work.id])
  /\ \/ /\ PutOk(ses[r], work)
        /\ Goto(r, IF pc[r] = "rebuild" THEN "write" ELSE "store")
        /\ mu' = IF pc[r] = "rebuild" THEN Nobody ELSE mu
     \/ /\ PutFails(ses[r], work)
        /\ Goto(r, "failed")
        /\ mu' = Nobody
  /\ work' = NoEntry
  /\ line' = 0
  /\ UNCHANGED <<fileVars, runVars, limit, acked>>

\* os.ReadFile fails before the loop, and not because there is no transcript.
RebuildFails(r) ==
  /\ pc[r] \in {"rebuild", "rebuildInAppend"}
  /\ line = 0
  /\ faults < MaxFaults
  /\ faults' = faults + 1
  /\ Goto(r, "failed")
  /\ mu' = Nobody
  /\ work' = NoEntry
  /\ UNCHANGED <<storeVars, fileVars, runVars, limit, line, restarts, acked>>

\* Where handleInbound is once an append has returned nil.
AfterAppend(rec) ==
  IF rec.role = "assistant" /\ rec.type = "message" THEN "done" ELSE "events"

\* Mutant: the record is written without its newline.
WriteLineUnterminated(r) ==
  LET f == files[sid[r]] IN
  /\ files' = [files EXCEPT ![sid[r]] =
                 IF sid[r] \in torn THEN Append(Front(f), Garbage) ELSE Append(f, out[r])]
  /\ torn' = torn \cup {sid[r]}
  /\ log' = [log EXCEPT ![sid[r]] = Append(@, out[r])]
  /\ \/ /\ IsContextMessage(out[r])
        /\ mu' = r
        /\ Goto(r, "store")
        /\ UNCHANGED acked
     \/ /\ ~IsContextMessage(out[r])
        /\ acked' = acked \cup {out[r]}
        /\ Goto(r, AfterAppend(out[r]))
        /\ UNCHANGED mu
  /\ UNCHANGED bounds

\* Mutant: m.mu is released between the transcript and the store.
WriteLineUnlocked(r) ==
  LET f == files[sid[r]] IN
  /\ files' = [files EXCEPT ![sid[r]] =
                 IF sid[r] \in torn THEN Append(Front(f), Garbage) ELSE Append(f, out[r])]
  /\ torn' = torn \ {sid[r]}
  /\ log' = [log EXCEPT ![sid[r]] = Append(@, out[r])]
  /\ \/ /\ IsContextMessage(out[r])
        /\ Goto(r, "store")
        /\ UNCHANGED acked
     \/ /\ ~IsContextMessage(out[r])
        /\ acked' = acked \cup {out[r]}
        /\ Goto(r, AfterAppend(out[r]))
  /\ UNCHANGED <<mu, bounds>>

\* The line reaches the file; it swallows an unterminated one before it.
WriteLine(r) ==
  LET f == files[sid[r]] IN
  /\ files' = [files EXCEPT ![sid[r]] =
                 IF sid[r] \in torn THEN Append(Front(f), Garbage) ELSE Append(f, out[r])]
  /\ torn' = torn \ {sid[r]}
  /\ log' = [log EXCEPT ![sid[r]] = Append(@, out[r])]
  /\ \/ /\ IsContextMessage(out[r])
        /\ mu' = r
        /\ Goto(r, "store")
        /\ UNCHANGED acked
     \/ /\ ~IsContextMessage(out[r])
        /\ acked' = acked \cup {out[r]}
        /\ Goto(r, AfterAppend(out[r]))
        /\ UNCHANGED mu
  /\ UNCHANGED bounds

\* The write fails with nothing written, or after part of the line.
WriteFails(r) ==
  LET f == files[sid[r]] IN
  /\ faults < MaxFaults
  /\ faults' = faults + 1
  /\ \/ UNCHANGED fileVars
     \/ /\ torn' = torn \cup {sid[r]}
        /\ \/ /\ files' = [files EXCEPT ![sid[r]] =
                             IF sid[r] \in torn THEN Append(Front(f), Garbage)
                                                ELSE Append(f, Garbage)]
              /\ UNCHANGED log
           \/ /\ sid[r] \notin torn
              /\ files' = [files EXCEPT ![sid[r]] = Append(f, out[r])]
              /\ log' = [log EXCEPT ![sid[r]] = Append(@, out[r])]
  /\ Goto(r, "failed")
  /\ UNCHANGED <<restarts, mu, acked>>

\* AppendWithOptions, first half: the record goes to the transcript.
AppendWrite(r) ==
  /\ pc[r] = "write"
  /\ mu = Nobody
  /\ WriteLine(r) \/ WriteFails(r)
  /\ UNCHANGED <<storeVars, runVars, limit, work, line>>

\* Mutant: the error path of the second half leaves m.mu locked.
AppendStoreKeepsLock(r) ==
  /\ pc[r] = "store"
  /\ \/ /\ StateIsCurrent(r)
        /\ LET updated == ApplyContextMessage(mem[ses[r]], out[r], limit) IN
           \/ /\ PutOk(ses[r], updated)
              /\ acked' = acked \cup {out[r]}
              /\ Goto(r, AfterAppend(out[r]))
              /\ mu' = Nobody
           \/ /\ PutFails(ses[r], updated)
              /\ Goto(r, "failed")
              /\ UNCHANGED <<mu, acked>>
        /\ UNCHANGED <<work, line>>
     \/ /\ StartRebuild(r)
        /\ Goto(r, "rebuildInAppend")
        /\ UNCHANGED <<storeVars, bounds, acked>>
  /\ UNCHANGED <<fileVars, runVars, limit>>

\* AppendWithOptions, second half: fold the message into the latest entry.
AppendStore(r) ==
  /\ pc[r] = "store"
  /\ \/ /\ StateIsCurrent(r)
        /\ LET updated == ApplyContextMessage(mem[ses[r]], out[r], limit) IN
           \/ /\ PutOk(ses[r], updated)
              /\ acked' = acked \cup {out[r]}
              /\ Goto(r, AfterAppend(out[r]))
           \/ /\ PutFails(ses[r], updated)
              /\ Goto(r, "failed")
              /\ UNCHANGED acked
        /\ mu' = Nobody
        /\ UNCHANGED <<work, line>>
     \/ /\ StartRebuild(r)
        /\ Goto(r, "rebuildInAppend")
        /\ UNCHANGED <<storeVars, bounds, acked>>
  /\ UNCHANGED <<fileVars, runVars, limit>>

\* handleInbound appends the agent's events: at most one block, and the final one.
SendEvent(r) ==
  /\ pc[r] = "events"
  /\ \/ /\ out[r] = UserRecord(r)
        /\ out' = [out EXCEPT ![r] = AgentRecord(r, "message_chunk")]
     \/ out' = [out EXCEPT ![r] = AgentRecord(r, "message")]
  /\ Goto(r, "write")
  /\ UNCHANGED <<storeVars, fileVars, limit, mu, ses, sid, work, line, bounds, acked>>

\* The agent's last event may carry an error: handleInbound appends no more.
RunErrs(r) ==
  /\ pc[r] = "events"
  /\ Goto(r, "failed")
  /\ UNCHANGED <<storeVars, fileVars, runVars, limit, mu, work, line, bounds, acked>>

Stopped == {"done", "failed"}

(***************************************************************************)
(* The process dies and starts again, perhaps with another configured      *)
(* window: NewFileStore reads the file back, every run in flight is gone.  *)
(***************************************************************************)
Restart ==
  /\ restarts < MaxRestarts
  /\ restarts' = restarts + 1
  /\ mem' = disk
  /\ limit' \in Limits
  /\ mu' = Nobody
  /\ pc' = [r \in Runs |-> IF pc[r] \in Stopped \cup {"idle"} THEN pc[r] ELSE "failed"]
  /\ work' = NoEntry
  /\ line' = 0
  /\ UNCHANGED <<disk, fileVars, runVars, faults, acked>>

Step(r) ==
  \/ Touch(r) \/ ModelContext(r)
  \/ RebuildLine(r) \/ RebuildDone(r) \/ RebuildFails(r)
  \/ SendEvent(r) \/ RunErrs(r)
  \/ AppendWrite(r) \/ AppendStore(r)

AllStopped == (\A r \in Runs : pc[r] \in Stopped) /\ UNCHANGED vars

Next == (\E r \in Runs : Step(r)) \/ Restart \/ AllStopped

Spec == Init /\ [][Next]_vars

\* A goroutine that can run does, and m.mu is a starvation-free sync.Mutex.
Fairness ==
  \A r \in Runs :
    /\ SF_vars(Touch(r)) /\ SF_vars(ModelContext(r)) /\ SF_vars(AppendWrite(r))
    /\ WF_vars(RebuildLine(r)) /\ WF_vars(RebuildDone(r)) /\ WF_vars(AppendStore(r))
    /\ WF_vars(SendEvent(r) \/ RunErrs(r))

FairSpec == Spec /\ Fairness

-----------------------------------------------------------------------------

Labels == {"idle", "context", "rebuild", "rebuildInAppend", "write", "store",
           "events", "done", "failed"}

TypeOK ==
  /\ disk \in [SessionKeys -> Entries \cup {NoEntry}]
  /\ mem \in [SessionKeys -> Entries \cup {NoEntry}]
  /\ files \in [Ids -> Seq(Records \cup {Garbage})]
  /\ log \in [Ids -> Seq(Records)]
  /\ torn \subseteq Ids
  /\ limit \in Limits
  /\ mu \in Runs \cup {Nobody}
  /\ pc \in [Runs -> Labels]
  /\ ses \in [Runs -> SessionKeys]
  /\ sid \in [Runs -> Ids]
  /\ out \in [Runs -> Records]
  /\ work \in Entries \cup {NoEntry}
  /\ line \in Nat
  /\ faults \in Nat
  /\ restarts \in Nat
  /\ acked \subseteq Records

\* Every entry the program holds: in the map, in the file, being rebuilt.
LiveEntries ==
  ({mem[k] : k \in SessionKeys} \cup {disk[k] : k \in SessionKeys} \cup {work}) \ {NoEntry}

(***************************************************************************)
(* The window and the count together are the messages consumed: nothing is *)
(* dropped or counted twice when a message is promoted into the summary,   *)
(* and promotion starts only when the window is full.  (applyContextMessage *)
(* and the rebuild, manager.go:410-462.)                                   *)
(***************************************************************************)
WindowOK(entry) ==
  /\ entry.summarized + Len(entry.recent) = Len(entry.folded)
  /\ \A i \in 1..Len(entry.recent) : entry.recent[i] = entry.folded[entry.summarized + i]
  /\ Len(entry.recent) <= entry.sig
  /\ entry.summarized > 0 => Len(entry.recent) = entry.sig

ContextIsTail == \A entry \in LiveEntries : WindowOK(entry)

(***************************************************************************)
(* The rolling notes are the newest promoted messages, in order; when      *)
(* older ones were trimmed they say so, and perhaps show the end of one.   *)
(***************************************************************************)
Heads == {<<>>, <<TrimMarker>>, <<TrimMarker, CutLine>>}

NotesAreTail(entry) ==
  \E head \in Heads, kept \in 0..entry.summarized :
    /\ entry.summary = head \o Newer(SubSeq(entry.folded, 1, entry.summarized), kept)
    /\ head = <<>> => kept = entry.summarized

(***************************************************************************)
(* To the byte: nothing is trimmed that fits under the cap; what is kept   *)
(* fits beside the marker, and one whole line more would leave no room for *)
(* its newline (or be the very bytes at which the cut begins).  A cut line *)
(* stands for a newest message that alone is wider than that.              *)
(***************************************************************************)
NotesFit(entry) ==
  LET notes    == entry.summary
      promoted == SubSeq(entry.folded, 1, entry.summarized)
      chars    == SummaryChars[entry.sig]
      room     == Room(chars)
      kept     == Len(notes) - 1
  IN entry.summarized > 1 =>
       IF Head(notes) # TrimMarker THEN Bytes(promoted, chars) <= chars
       ELSE /\ Bytes(promoted, chars) > chars
            /\ IF kept = 0 THEN room <= 0
               ELSE IF Last(notes) = CutLine THEN LineChars(Last(promoted), chars) > room
               ELSE /\ Bytes(Newer(promoted, kept), chars) <= room
                    /\ Bytes(Newer(promoted, kept + 1), chars) >= room

SummaryIsTail ==
  \A entry \in LiveEntries : NotesAreTail(entry) /\ NotesFit(entry)

Precedes(id, a, b) ==
  \E i, j \in 1..Len(log[id]) : i < j /\ log[id][i] = a /\ log[id][j] = b

(***************************************************************************)
(* Whatever crashes, failing writes and rebuilds have happened, a context  *)
(* (in memory or on disk) holds only messages written to that session's    *)
(* transcript, each once, in the order of the transcript.                  *)
(***************************************************************************)
ContextInTranscriptOrder ==
  \A entry \in LiveEntries :
    /\ ToSet(entry.folded) \subseteq ToSet(log[entry.id])
    /\ \A i, j \in 1..Len(entry.folded) :
         i < j => Precedes(entry.id, entry.folded[i], entry.folded[j])

\* The file of the SessionID the run was given still shows the record.
Readable(rec) == rec \in ToSet(files[sid[rec.by]])
Remembered(rec, entry) == entry # NoEntry /\ rec \in ToSet(entry.folded)

(***************************************************************************)
(* A message whose append returned nil is in the context, in memory and on *)
(* disk, so no crash forgets it; the one exception is a message that the   *)
(* transcript itself lost behind an unterminated line.                     *)
(***************************************************************************)
AckedIsRemembered ==
  \A rec \in acked :
    IsContextMessage(rec) /\ Readable(rec) =>
      Remembered(rec, mem[ses[rec.by]]) /\ Remembered(rec, disk[ses[rec.by]])

\* One failing write destroys at most one acknowledged record of a transcript.
TornLineCostsOne ==
  Cardinality({rec \in acked : ~Readable(rec)}) <= faults

(***************************************************************************)
(* Between operations the context lags behind the transcript by at most    *)
(* one message per crash or failing write, and not at all without them.    *)
(***************************************************************************)
Unfolded(k) ==
  {rec \in ToSet(files[mem[k].id]) :
     rec # Garbage /\ IsContextMessage(rec) /\ rec \notin ToSet(mem[k].folded)}

ContextLag ==
  mu = Nobody =>
    Cardinality(UNION {Unfolded(k) : k \in {s \in SessionKeys :
                         mem[s] # NoEntry /\ mem[s].sig = limit}}) <= faults + restarts

(***************************************************************************)
(* A transcript never outlives its entry: Touch saves a new SessionID      *)
(* before anything is written under it, so a restart finds every message.  *)
(***************************************************************************)
NoOrphanTranscript ==
  \A id \in Ids : files[id] # <<>> =>
    \E k \in SessionKeys : disk[k] # NoEntry /\ disk[k].id = id

(***************************************************************************)
(* handleInbound calls ModelContext before it appends, so an append never  *)
(* finds a state it would have to rebuild from a transcript that already   *)
(* contains the message being appended.                                    *)
(***************************************************************************)
AppendFindsFreshState ==
  \A r \in Runs \ DirectRuns :
    pc[r] \in {"write", "store", "events"} => StateIsCurrent(r)

(***************************************************************************)
(* A rebuild takes in every readable message of the transcript, those that *)
(* an earlier crash had kept out of the context included, in their order.  *)
(***************************************************************************)
IsReadableMessage(rec) == rec # Garbage /\ IsContextMessage(rec)

\* How many of the first n lines are readable messages, and that those were taken.
ReadableUpTo(lines, n) == Cardinality({i \in 1..n : IsReadableMessage(lines[i])})

Gathers(taken, lines, n) ==
  /\ Len(taken) = ReadableUpTo(lines, n)
  /\ \A j \in 1..n :
       IsReadableMessage(lines[j]) => taken[ReadableUpTo(lines, j)] = lines[j]

RebuildStep ==
  \A k \in SessionKeys :
    (restarts' = restarts /\ mem[k] # NoEntry /\ mem'[k].sig # mem[k].sig)
      => LET lines == files[mem[k].id] IN Gathers(mem'[k].folded, lines, Len(lines))

RebuildReadsAll == [][RebuildStep]_vars

(***************************************************************************)
(* Every call returns: no failing write leaves m.mu locked, and a rebuild  *)
(* ends although other runs keep appending to the transcript.              *)
(***************************************************************************)
EveryCallReturns ==
  \A r \in Runs : (pc[r] # "idle") ~> (pc[r] \in Stopped)
=============================================================================
