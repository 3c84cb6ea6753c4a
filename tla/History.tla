------------------------------- MODULE History -------------------------------
(***************************************************************************)
(* Reading a session's transcript page by page (chat.history,              *)
(* HistoryPageFiltered) while runs append to it.  A page cursor is an      *)
(* index into the records that pass the filter, computed anew for each     *)
(* page, so a client that follows cursors relies on what happened to the   *)
(* transcript between two of its requests.                                 *)
(*                                                                         *)
(* The client walks from the oldest page on ("newer", cursor "0" and then  *)
(* nextCursor) or from the newest page back ("older", no cursor and then   *)
(* prevCursor).  Of the filters the role is modelled; the four time bounds *)
(* are tests of a single record like it.                                   *)
(***************************************************************************)
EXTENDS Sessions

CONSTANTS
  Asked,          \* limits a client asks for, 0 for none
  DefaultLimit,   \* 50
  MaxLimit,       \* 500
  RoleFilters     \* roles a client filters on, "any" for none

ASSUME HistoryAssumption ==
  /\ Asked \subseteq Nat
  /\ DefaultLimit \in Nat \ {0} /\ MaxLimit \in Nat \ {0}
  /\ RoleFilters \subseteq Roles \cup {"any"}

VARIABLES
  key,      \* the session the client reads
  role,     \* its role filter
  asked,    \* the limit it asks for
  walk,     \* "newer" or "older"
  cursor,   \* the cursor of its next request
  reading,  \* it has a next request to make
  got,      \* the records it has, oldest first
  top,      \* auxiliary: total of its first page
  shrunk    \* auxiliary: the client's records became fewer between two requests

readerVars == <<key, role, asked, walk, cursor, reading, got, top, shrunk>>
allVars == <<vars, readerVars>>

NoCursor == -1

\* The limit chat.history passes on.
LimitOf(n) == IF n = 0 THEN DefaultLimit ELSE IF n > MaxLimit THEN MaxLimit ELSE n

\* The records of the transcript that pass the filter.
Passes(rec) == rec # Garbage /\ role \in {"any", rec.role}
Matching == IF mem[key] = NoEntry THEN <<>> ELSE SelectSeq(files[mem[key].id], Passes)

AtMost(a, b) == IF a <= b THEN a ELSE b
AtLeast(a, b) == IF a >= b THEN a ELSE b

\* Mutant: the next page starts one record too far.
PageSkipsOne(rows, from, size) ==
  LET total == Len(rows)
      start == IF from = NoCursor THEN AtLeast(total - size, 0) ELSE AtMost(from, total)
      end   == AtMost(start + size, total)
  IN [messages |-> SubSeq(rows, start + 1, end),
      total    |-> total,
      next     |-> IF end < total THEN end + 1 ELSE NoCursor,
      prev     |-> IF start > 0 THEN AtLeast(start - size, 0) ELSE NoCursor]

\* Mutant: a last page shorter than the limit is not offered.
PageStopsEarly(rows, from, size) ==
  LET total == Len(rows)
      start == IF from = NoCursor THEN AtLeast(total - size, 0) ELSE AtMost(from, total)
      end   == AtMost(start + size, total)
  IN [messages |-> SubSeq(rows, start + 1, end),
      total    |-> total,
      next     |-> IF end < total THEN end ELSE NoCursor,
      prev     |-> IF start >= size THEN start - size ELSE NoCursor]

\* One page: its bounds, and the cursors to the pages beside it.
Page(rows, from, size) ==
  LET total == Len(rows)
      start == IF from = NoCursor THEN AtLeast(total - size, 0) ELSE AtMost(from, total)
      end   == AtMost(start + size, total)
  IN [messages |-> SubSeq(rows, start + 1, end),
      total    |-> total,
      next     |-> IF end < total THEN end ELSE NoCursor,
      prev     |-> IF start > 0 THEN AtLeast(start - size, 0) ELSE NoCursor]

\* chat.history: HistoryPageFiltered holds m.mu from the entry to the page.
ReadPage ==
  /\ reading
  /\ mu = Nobody
  /\ mem[key] # NoEntry
  /\ LET page == Page(Matching, cursor, LimitOf(asked)) IN
     /\ \/ walk = "newer" /\ got' = got \o page.messages /\ cursor' = page.next
        \/ walk = "older" /\ got' = page.messages \o got /\ cursor' = page.prev
     /\ top' = IF top = NoCursor THEN page.total ELSE top
  /\ reading' = (cursor' # NoCursor)
  /\ UNCHANGED <<vars, key, role, asked, walk, shrunk>>

\* The manager's own steps.
Manage ==
  /\ Next
  /\ UNCHANGED <<key, role, asked, walk, cursor, reading, got, top>>
  /\ shrunk' = (shrunk \/ Len(Matching') < Len(Matching))

HistoryInit ==
  /\ Init
  /\ key \in SessionKeys /\ role \in RoleFilters /\ asked \in Asked
  /\ \/ walk = "newer" /\ cursor = 0
     \/ walk = "older" /\ cursor = NoCursor
  /\ reading = TRUE /\ got = <<>> /\ top = NoCursor /\ shrunk = FALSE

HistorySpec == HistoryInit /\ [][Manage \/ ReadPage]_allVars

HistoryFairSpec == HistorySpec /\ Fairness

-----------------------------------------------------------------------------

(***************************************************************************)
(* Following nextCursor from the start shows every record once and in      *)
(* order, whatever is appended, fails or restarts between two requests;    *)
(* the walk ends with nothing left out.  The exception: a record whose     *)
(* write failed just before its newline can be read until the next one     *)
(* swallows it, and then all later indices are one less.  A walk is not    *)
(* followed past that.                                                     *)
(***************************************************************************)
NewerWalkIsExact ==
  [][got' # got /\ walk = "newer" /\ ~shrunk =>
       /\ got' = SubSeq(Matching, 1, Len(got'))
       /\ ~reading' => got' = Matching]_allVars

(***************************************************************************)
(* Following prevCursor from the newest page back reaches the oldest       *)
(* record and leaves nothing out on the way; only the oldest page may      *)
(* repeat records, being filled up from the page after it.                 *)
(***************************************************************************)
OlderWalkIsComplete ==
  [][got' # got /\ walk = "older" /\ ~shrunk =>
       IF reading'
       THEN got' = SubSeq(Matching, top' - Len(got') + 1, top')
       ELSE ToSet(got') = ToSet(SubSeq(Matching, 1, top'))]_allVars
=============================================================================
